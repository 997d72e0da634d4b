---------------------------- MODULE AccountProofs ----------------------------
(***************************************************************************)
(* Proofs about Account for any addresses, passwords and identities and    *)
(* any number of calls in flight.                                          *)
(***************************************************************************)
EXTENDS Account, SequenceTheorems, TLAPS

-----------------------------------------------------------------------------
(* The inductive invariant *)

Subjects == AccountIds \cup UserIds \cup Emails \cup {None}
Calls == [kind : Kinds, email : Emails \cup {None}, password : Passwords \cup {None},
          subject : Subjects, onTop : BOOLEAN]

Typed ==
  /\ calm \in BOOLEAN
  /\ auth \in [DOMAIN auth -> Login] /\ DOMAIN auth \subseteq AccountIds
  /\ users \in [DOMAIN users -> Login] /\ DOMAIN users \subseteq UserIds
  /\ authUser \in DOMAIN auth \cup {None}
  /\ currentUser \in User \cup {None}
  /\ screen \in {"login", "tabs"}

Edits == {"editAccount", "editUser"}

\* What a call in flight is about, for any interleaving of calls; As and Us are
\* the accounts and documents there are, session and user the current ones.
Fits(c, one, As, Us, session, user) ==
  /\ c.kind \notin Edits => c.email \in Emails
  /\ c.kind \notin Edits \cup {"launchFetch"} => c.password \in Passwords
  /\ c.kind = "createUser" => c.subject \in Us
  /\ c.kind = "editAccount" => c.subject \in As
  /\ c.kind \in Edits /\ ~one => c.email = None
  /\ c.kind \in {"launchFetch", "createUser"} /\ c.onTop => session # None
  /\ c.kind = "signIn" => user # None

\* All of them do, and no two of them write the same document.
Flight(s, one, As, Us, session, user) ==
  /\ s \in Seq(Calls) /\ Len(s) <= MaxCalls
  /\ \A i \in DOMAIN s : Fits(s[i], one, As, Us, session, user)
  /\ \A i \in DOMAIN s : \A j \in DOMAIN s :
       s[i].kind = "createUser" /\ s[j].kind = "createUser" /\ s[i].subject = s[j].subject => i = j

CallsFit == Flight(pending, calm, DOMAIN auth, DOMAIN users, authUser, currentUser)

OneAccountPerEmail ==
  \A a \in DOMAIN auth : \A b \in DOMAIN auth : auth[a].email = auth[b].email => a = b

\* While addresses stay, every document's address is that of an account.
AddressesHaveAccounts ==
  ~calm => \A u \in DOMAIN users : \E a \in DOMAIN auth : auth[a].email = users[u].email

\* The tabs have a user and a session.
TabsHaveUser == screen = "tabs" => currentUser # None /\ authUser # None

\* The current user and the session have the same login.
Same ==
  /\ currentUser \in User /\ currentUser.id \in DOMAIN users /\ authUser \in DOMAIN auth
  /\ users[currentUser.id] = auth[authUser]

LoginOf(c) == [email |-> c.email, password |-> c.password]

\* With one chain at a time, what the call of the chain is about.
ChainFits(c) ==
  /\ c.kind \notin Edits => screen = "login"
  /\ c.kind = "launchFetch" => authUser \in DOMAIN auth /\ c.email = auth[authUser].email
  /\ c.kind = "signIn" =>
       /\ currentUser \in User /\ currentUser.id \in DOMAIN users
       /\ users[currentUser.id] = LoginOf(c)
  /\ c.kind = "createUser" =>
       authUser \in DOMAIN auth /\ users[c.subject] = LoginOf(c) /\ auth[authUser] = LoginOf(c)
  /\ c.kind = "editAccount" => Same /\ c.subject = authUser /\ currentUser.email = auth[authUser].email
  /\ c.kind = "editUser" =>
       /\ currentUser \in User /\ currentUser.id \in DOMAIN users /\ authUser \in DOMAIN auth
       /\ c.subject = users[currentUser.id].email
       /\ auth[authUser] = Edited(users[currentUser.id], c)
       /\ \A u \in DOMAIN users \ {currentUser.id} :
            \E a \in DOMAIN auth \ {authUser} : auth[a] = users[u]
  /\ c.kind # "editUser" => \A u \in DOMAIN users : \E a \in DOMAIN auth : auth[a] = users[u]

\* Between the chains.
Rest ==
  /\ \A u \in DOMAIN users : \E a \in DOMAIN auth : auth[a] = users[u]
  /\ screen = "tabs" => Same

OneChain ==
  calm => /\ Len(pending) <= 1
          /\ pending = <<>> => Rest
          /\ pending # <<>> => ChainFits(pending[1])

IInv ==
  /\ Typed /\ CallsFit /\ OneAccountPerEmail /\ OneDocPerEmail
  /\ AddressesHaveAccounts /\ TabsHaveUser /\ OneChain

-----------------------------------------------------------------------------
(* Sequences and functions *)

\* RemoveAt takes element j out, and those behind it move up.
LEMMA RemoveAtProperties ==
  ASSUME NEW S, NEW s \in Seq(S), NEW j \in 1..Len(s)
  PROVE  /\ RemoveAt(s, j) \in Seq(S)
         /\ Len(s) \in Nat /\ Len(RemoveAt(s, j)) = Len(s) - 1
         /\ \A i \in 1..(Len(s) - 1) : RemoveAt(s, j)[i] = IF i < j THEN s[i] ELSE s[i + 1]
<1> DEFINE front == SubSeq(s, 1, j - 1)
           back == SubSeq(s, j + 1, Len(s))
<1>0. Len(s) \in Nat /\ j \in Nat /\ 1 <= j /\ j <= Len(s)
  BY LenProperties
<1>1. /\ front \in Seq(S) /\ Len(front) = j - 1
      /\ \A i \in 1..(j - 1) : front[i] = s[i]
  <2>1. \A i \in 1..(j - 1) : s[i] \in S
    BY <1>0, ElementOfSeq
  <2>2. /\ front \in Seq(S) /\ Len(front) = IF 1 <= j - 1 THEN j - 1 - 1 + 1 ELSE 0
        /\ \A i \in 1..(j - 1 - 1 + 1) : front[i] = s[1 + i - 1]
    BY <1>0, <2>1, SubSeqProperties
  <2> HIDE DEF front
  <2> QED
    BY <1>0, <2>2
<1>2. /\ back \in Seq(S) /\ Len(back) = Len(s) - j
      /\ \A i \in 1..(Len(s) - j) : back[i] = s[j + i]
  <2>1. \A i \in (j + 1)..Len(s) : s[i] \in S
    BY <1>0, ElementOfSeq
  <2>2. /\ back \in Seq(S) /\ Len(back) = IF j + 1 <= Len(s) THEN Len(s) - (j + 1) + 1 ELSE 0
        /\ \A i \in 1..(Len(s) - (j + 1) + 1) : back[i] = s[(j + 1) + i - 1]
    BY <1>0, <2>1, SubSeqProperties
  <2> HIDE DEF back
  <2> QED
    BY <1>0, <2>2
<1>3. RemoveAt(s, j) = front \o back
  BY DEF RemoveAt
<1> HIDE DEF front, back
<1>4. /\ front \o back \in Seq(S) /\ Len(front \o back) = Len(front) + Len(back)
      /\ \A i \in 1..(Len(front) + Len(back)) :
           (front \o back)[i] = IF i <= Len(front) THEN front[i] ELSE back[i - Len(front)]
  BY <1>1, <1>2, ConcatProperties
<1>5. \A i \in 1..(Len(s) - 1) : RemoveAt(s, j)[i] = IF i < j THEN s[i] ELSE s[i + 1]
  <2> TAKE i \in 1..(Len(s) - 1)
  <2>1. i \in 1..(Len(front) + Len(back))
    BY <1>0, <1>1, <1>2
  <2>0. (front \o back)[i] = IF i <= Len(front) THEN front[i] ELSE back[i - Len(front)]
    BY <1>4, <2>1
  <2>2. CASE i < j
    <3>1. i \in 1..(j - 1) /\ i <= Len(front)
      BY <1>0, <1>1, <2>2
    <3> QED
      BY <1>1, <1>3, <2>0, <2>2, <3>1
  <2>3. CASE ~(i < j)
    <3>1. /\ ~(i <= Len(front)) /\ i - Len(front) \in 1..(Len(s) - j)
          /\ j + (i - Len(front)) = i + 1
      BY <1>0, <1>1, <2>3
    <3>2. RemoveAt(s, j)[i] = back[i - Len(front)]
      BY <1>3, <2>0, <3>1
    <3>3. back[i - Len(front)] = s[j + (i - Len(front))]
      <4>1. PICK t \in 1..(Len(s) - j) : t = i - Len(front)
        BY <3>1
      <4>2. \A m \in 1..(Len(s) - j) : back[m] = s[j + m]
        BY <1>2
      <4>3. back[t] = s[j + t]
        BY <4>2
      <4> QED
        BY <4>1, <4>3
    <3> QED
      BY <2>3, <3>1, <3>2, <3>3
  <2> QED
    BY <2>2, <2>3
<1>6. RemoveAt(s, j) \in Seq(S) /\ Len(RemoveAt(s, j)) = Len(s) - 1
  <2>1. Len(front) + Len(back) = Len(s) - 1
    BY <1>0, <1>1, <1>2
  <2> QED
    BY <1>3, <1>4, <2>1
<1> QED
  BY <1>0, <1>5, <1>6

\* Where the element at place j was before the one at place i was taken out.
Place(i, j) == IF j < i THEN j ELSE j + 1

LEMMA Removed ==
  ASSUME NEW S, NEW s \in Seq(S), NEW i \in DOMAIN s
  PROVE  /\ RemoveAt(s, i) \in Seq(S) /\ Len(s) \in Nat /\ Len(RemoveAt(s, i)) = Len(s) - 1
         /\ DOMAIN s = 1..Len(s) /\ DOMAIN RemoveAt(s, i) = 1..(Len(s) - 1)
         /\ \A j \in 1..(Len(s) - 1) :
              Place(i, j) \in DOMAIN s \ {i} /\ RemoveAt(s, i)[j] = s[Place(i, j)]
         /\ \A j, k \in 1..(Len(s) - 1) : Place(i, j) = Place(i, k) => j = k
<1>1. Len(s) \in Nat /\ DOMAIN s = 1..Len(s) /\ i \in 1..Len(s)
  BY LenProperties
<1>2. /\ RemoveAt(s, i) \in Seq(S) /\ Len(RemoveAt(s, i)) = Len(s) - 1
      /\ \A j \in 1..(Len(s) - 1) : RemoveAt(s, i)[j] = IF j < i THEN s[j] ELSE s[j + 1]
  BY <1>1, RemoveAtProperties
<1>3. DOMAIN RemoveAt(s, i) = 1..(Len(s) - 1)
  <2>1. DOMAIN RemoveAt(s, i) = 1..Len(RemoveAt(s, i))
    BY <1>2, LenProperties
  <2> QED
    BY <1>2, <2>1
<1>4. ASSUME NEW j \in 1..(Len(s) - 1)
      PROVE  Place(i, j) \in DOMAIN s \ {i} /\ RemoveAt(s, i)[j] = s[Place(i, j)]
  BY <1>1, <1>2 DEF Place
<1>5. ASSUME NEW j \in 1..(Len(s) - 1), NEW k \in 1..(Len(s) - 1), Place(i, j) = Place(i, k)
      PROVE  j = k
  BY <1>1, <1>5 DEF Place
<1> QED
  BY <1>1, <1>2, <1>3, <1>4, <1>5

-----------------------------------------------------------------------------
(* Calls in flight *)

\* A call still fits when accounts, documents and users only grew.
LEMMA FitsKept ==
  ASSUME NEW c, NEW one, NEW As, NEW Us, NEW session, NEW user, Fits(c, one, As, Us, session, user),
         NEW As2, NEW Us2, NEW session2, NEW user2, As \subseteq As2, Us \subseteq Us2,
         session # None => session2 # None, user # None => user2 # None
  PROVE  Fits(c, one, As2, Us2, session2, user2)
BY DEF Fits

\* An answer takes its call away.
LEMMA AnsweredKeeps ==
  ASSUME CallsFit, NEW i \in DOMAIN pending, Answered(i),
         NEW As, NEW Us, NEW session, NEW user,
         \A j \in DOMAIN pending \ {i} : Fits(pending[j], calm, As, Us, session, user)
  PROVE  /\ Flight(pending', calm, As, Us, session, user)
         /\ Len(pending) <= 1 => pending' = <<>>
<1> DEFINE r == RemoveAt(pending, i)
           n == Len(pending) - 1
<1>1. pending \in Seq(Calls) /\ Len(pending) <= MaxCalls /\ MaxCalls \in Nat
  BY AccountBounds DEF CallsFit, Flight
<1>2. /\ r \in Seq(Calls) /\ Len(pending) \in Nat /\ Len(r) = n
      /\ DOMAIN pending = 1..Len(pending) /\ DOMAIN r = 1..n
      /\ \A j \in 1..n : Place(i, j) \in DOMAIN pending \ {i} /\ r[j] = pending[Place(i, j)]
      /\ \A j, k \in 1..n : Place(i, j) = Place(i, k) => j = k
  BY <1>1, Removed
<1>3. pending' = r
  BY DEF Answered
<1>4. n <= MaxCalls /\ n \in Int
  BY <1>1, <1>2
<1>5. Len(pending) <= 1 => n = 0
  BY <1>2
<1> HIDE DEF r, n
<1>6. \A j \in 1..n : Fits(r[j], calm, As, Us, session, user)
  BY <1>2
<1>7. ASSUME NEW j \in 1..n, NEW k \in 1..n, r[j].kind = "createUser", r[k].kind = "createUser",
             r[j].subject = r[k].subject
      PROVE  j = k
  <2>1. Place(i, j) = Place(i, k)
    BY <1>2, <1>7 DEF CallsFit, Flight
  <2> QED
    BY <1>2, <2>1
<1>8. Flight(r, calm, As, Us, session, user)
  BY <1>2, <1>4, <1>6, <1>7 DEF Flight
<1>9. n = 0 => r = <<>>
  BY <1>2, EmptySeq
<1> QED
  BY <1>3, <1>5, <1>8, <1>9

\* The next call of the chain takes its place.
LEMMA ContinuesKeeps ==
  ASSUME CallsFit, NEW i \in DOMAIN pending, NEW kind \in Kinds, NEW subject \in Subjects,
         Continues(i, kind, subject), NEW As, NEW Us, NEW session, NEW user,
         \A j \in DOMAIN pending \ {i} : Fits(pending[j], calm, As, Us, session, user),
         Fits([pending[i] EXCEPT !.kind = kind, !.subject = subject], calm, As, Us, session, user),
         kind = "createUser" => subject \notin DOMAIN users
  PROVE  /\ Flight(pending', calm, As, Us, session, user)
         /\ Len(pending) <= 1 =>
              pending' = <<[pending[i] EXCEPT !.kind = kind, !.subject = subject]>>
<1> DEFINE e == [pending[i] EXCEPT !.kind = kind, !.subject = subject]
           r == RemoveAt(pending, i)
           n == Len(pending) - 1
<1>1. pending \in Seq(Calls) /\ Len(pending) <= MaxCalls /\ MaxCalls \in Nat
  BY AccountBounds DEF CallsFit, Flight
<1>2. /\ r \in Seq(Calls) /\ Len(pending) \in Nat /\ Len(r) = n
      /\ DOMAIN pending = 1..Len(pending) /\ DOMAIN r = 1..n
      /\ \A j \in 1..n : Place(i, j) \in DOMAIN pending \ {i} /\ r[j] = pending[Place(i, j)]
      /\ \A j, k \in 1..n : Place(i, j) = Place(i, k) => j = k
  BY <1>1, Removed
<1>3. pending' = Append(r, e)
  BY DEF Continues
<1>4. pending[i] \in Calls
  BY <1>1, <1>2, ElementOfSeq
<1>5. e \in Calls /\ e.kind = kind /\ e.subject = subject
  BY <1>4 DEF Calls
<1>6. n \in Nat /\ n + 1 <= MaxCalls
  <2>1. i \in 1..Len(pending)
    BY <1>2
  <2> QED
    BY <1>1, <1>2, <2>1
<1>7. \A j \in DOMAIN pending : pending[j].kind = "createUser" => pending[j].subject \in DOMAIN users
  BY DEF CallsFit, Flight, Fits
<1> HIDE DEF e, r
<1> DEFINE s == Append(r, e)
<1>8. /\ s \in Seq(Calls) /\ Len(s) = n + 1 /\ s[n + 1] = e
      /\ \A j \in 1..n : s[j] = r[j]
  BY <1>2, <1>5, AppendProperties
<1>9. DOMAIN s = 1..(n + 1)
  BY <1>8, LenProperties
<1> HIDE DEF s, n
<1>10. \A j \in 1..(n + 1) : j = n + 1 \/ j \in 1..n
  BY <1>6
<1>11. \A j \in DOMAIN s : Fits(s[j], calm, As, Us, session, user)
  <2> SUFFICES ASSUME NEW j \in DOMAIN s PROVE Fits(s[j], calm, As, Us, session, user)
    OBVIOUS
  <2>1. CASE j = n + 1
    BY <1>8, <2>1 DEF e
  <2>2. CASE j \in 1..n
    <3>1. s[j] = pending[Place(i, j)] /\ Place(i, j) \in DOMAIN pending \ {i}
      BY <1>2, <1>8, <2>2
    <3> QED
      BY <3>1
  <2> QED
    BY <1>9, <1>10, <2>1, <2>2
<1>12. ASSUME NEW j \in DOMAIN s, NEW k \in DOMAIN s, s[j].kind = "createUser", s[k].kind = "createUser",
              s[j].subject = s[k].subject
       PROVE  j = k
  <2>1. CASE j \in 1..n /\ k \in 1..n
    <3>1. /\ s[j] = pending[Place(i, j)] /\ Place(i, j) \in DOMAIN pending
          /\ s[k] = pending[Place(i, k)] /\ Place(i, k) \in DOMAIN pending
      BY <1>2, <1>8, <2>1
    <3>2. Place(i, j) = Place(i, k)
      BY <1>12, <3>1 DEF CallsFit, Flight
    <3> QED
      BY <1>2, <2>1, <3>2
  <2>2. CASE j = n + 1 /\ k \in 1..n
    <3>1. s[k] = pending[Place(i, k)] /\ Place(i, k) \in DOMAIN pending
      BY <1>2, <1>8, <2>2
    <3>2. s[k].subject \in DOMAIN users
      BY <1>7, <1>12, <3>1
    <3>3. kind = "createUser" /\ s[k].subject = subject
      BY <1>5, <1>8, <1>12, <2>2
    <3> QED
      BY <3>2, <3>3
  <2>3. CASE k = n + 1 /\ j \in 1..n
    <3>1. s[j] = pending[Place(i, j)] /\ Place(i, j) \in DOMAIN pending
      BY <1>2, <1>8, <2>3
    <3>2. s[j].subject \in DOMAIN users
      BY <1>7, <1>12, <3>1
    <3>3. kind = "createUser" /\ s[j].subject = subject
      BY <1>5, <1>8, <1>12, <2>3
    <3> QED
      BY <3>2, <3>3
  <2> QED
    BY <1>9, <1>10, <2>1, <2>2, <2>3
<1>13. Flight(s, calm, As, Us, session, user)
  BY <1>6, <1>8, <1>11, <1>12 DEF Flight
<1>14. ASSUME Len(pending) <= 1 PROVE s = <<e>>
  <2>1. n = 0
    BY <1>2, <1>6, <1>14 DEF n
  <2>2. r = <<>>
    BY <1>2, <2>1, EmptySeq
  <2> QED
    BY <2>2 DEF s
<1> QED
  BY <1>3, <1>13, <1>14 DEF s, e

\* Taps add calls.
LEMMA AddedKeeps ==
  ASSUME CallsFit, NEW new \in Seq(Calls), Len(pending) + Len(new) <= MaxCalls,
         \A j \in DOMAIN new : /\ new[j].kind # "createUser"
                               /\ Fits(new[j], calm, DOMAIN auth, DOMAIN users, authUser, currentUser)
  PROVE  /\ Flight(pending \o new, calm, DOMAIN auth, DOMAIN users, authUser, currentUser)
         /\ Len(pending) = 0 => pending \o new = new
<1> DEFINE s == pending \o new
           m == Len(pending)
           n == Len(new)
<1>1. /\ pending \in Seq(Calls) /\ m \in Nat /\ n \in Nat
      /\ DOMAIN pending = 1..m /\ DOMAIN new = 1..n
  BY LenProperties DEF CallsFit, Flight
<1>2. /\ s \in Seq(Calls) /\ Len(s) = m + n
      /\ \A j \in 1..(m + n) : s[j] = IF j <= m THEN pending[j] ELSE new[j - m]
  BY <1>1, ConcatProperties
<1>3. DOMAIN s = 1..(m + n)
  BY <1>2, LenProperties
<1>4. m = 0 => s = new
  <2> SUFFICES ASSUME m = 0 PROVE s = new
    OBVIOUS
  <2>1. pending = <<>>
    BY <1>1, EmptySeq
  <2> QED
    BY <1>1, <2>1, ConcatEmptySeq
<1> HIDE DEF s, m, n
<1>5. ASSUME NEW j \in 1..(m + n)
      PROVE  \/ j \in 1..m /\ s[j] = pending[j]
             \/ j - m \in 1..n /\ s[j] = new[j - m]
  <2>1. CASE j <= m
    BY <1>1, <1>2, <2>1
  <2>2. CASE ~(j <= m)
    BY <1>1, <1>2, <2>2
  <2> QED
    BY <2>1, <2>2
<1>6. \A j \in DOMAIN s : Fits(s[j], calm, DOMAIN auth, DOMAIN users, authUser, currentUser)
  BY <1>1, <1>3, <1>5 DEF CallsFit, Flight
<1>7. \A j \in DOMAIN s : s[j].kind = "createUser" => j \in DOMAIN pending /\ s[j] = pending[j]
  BY <1>1, <1>3, <1>5
<1>8. \A j \in DOMAIN s : \A k \in DOMAIN s :
        s[j].kind = "createUser" /\ s[k].kind = "createUser" /\ s[j].subject = s[k].subject => j = k
  BY <1>7 DEF CallsFit, Flight
<1>9. Len(s) <= MaxCalls
  BY <1>2 DEF m, n
<1>10. Flight(s, calm, DOMAIN auth, DOMAIN users, authUser, currentUser)
  BY <1>2, <1>6, <1>8, <1>9 DEF Flight
<1> QED
  BY <1>4, <1>10 DEF s, m

-----------------------------------------------------------------------------
(* The steps *)

\* What is known of the call that is answered.
LEMMA CallFacts ==
  ASSUME IInv, NEW i \in DOMAIN pending
  PROVE  /\ pending[i] \in Calls
         /\ \A j \in DOMAIN pending : Fits(pending[j], calm, DOMAIN auth, DOMAIN users, authUser, currentUser)
         /\ calm => Len(pending) <= 1 /\ ChainFits(pending[i])
<1>1. pending \in Seq(Calls) /\ CallsFit /\ OneChain
  BY DEF IInv, CallsFit, Flight
<1>2. DOMAIN pending = 1..Len(pending) /\ Len(pending) \in Nat
  BY <1>1, LenProperties
<1>3. pending[i] \in Calls
  BY <1>1, <1>2, ElementOfSeq
<1>4. ASSUME calm PROVE Len(pending) <= 1 /\ ChainFits(pending[i])
  <2>1. Len(pending) <= 1 /\ i = 1
    BY <1>1, <1>2, <1>4 DEF OneChain
  <2>2. pending # <<>>
    BY <1>1, <1>2, EmptySeq
  <2> QED
    BY <1>1, <1>4, <2>1, <2>2 DEF OneChain
<1> QED
  BY <1>1, <1>3, <1>4 DEF CallsFit, Flight

\* A document found makes a user, which is not None.
LEMMA FoundUser ==
  ASSUME Typed, NEW e, NEW u \in Found(e)
  PROVE  /\ u \in DOMAIN users /\ users[u] \in Login /\ users[u].email = e
         /\ AsUser(u) \in User /\ AsUser(u) # None /\ AsUser(u).id = u
         /\ AsUser(u).email = users[u].email
<1>1. u \in DOMAIN users /\ users[u].email = e /\ users[u] \in Login /\ u \in UserIds
  BY DEF Found, Typed
<1>2. AsUser(u) \in User /\ AsUser(u).id = u /\ AsUser(u).email = users[u].email
  BY <1>1 DEF AsUser, User, Login
<1> QED
  BY <1>1, <1>2, NoneAssumption

\* Between the chains, or at the end of one.
LEMMA ChainEnds ==
  ASSUME pending' = <<>> \/ ~calm, UNCHANGED calm, calm => Rest'
  PROVE  OneChain'
<1>1. <<>> \in Seq(Calls) /\ Len(<<>>) = 0
  BY EmptySeq
<1> QED
  BY <1>1 DEF OneChain

\* In the middle of one.
LEMMA ChainGoesOn ==
  ASSUME NEW e \in Calls, pending' = <<e>> \/ ~calm, UNCHANGED calm, calm => ChainFits(e)'
  PROVE  OneChain'
<1> SUFFICES ASSUME calm PROVE OneChain'
  BY DEF OneChain
<1>1. Len(<<e>>) = 1 /\ <<e>>[1] = e /\ <<e>> # <<>>
  OBVIOUS
<1>2. pending' = <<e>>
  OBVIOUS
<1>3. ChainFits(pending[1])'
  BY <1>1, <1>2 DEF ChainFits, Same, LoginOf, Edited
<1> QED
  BY <1>1, <1>2, <1>3 DEF OneChain

LEMMA LaunchFetchedKeeps ==
  ASSUME IInv, NEW i, LaunchFetched(i)
  PROVE  IInv'
<1> DEFINE c == pending[i]
<1>1. /\ i \in DOMAIN pending /\ c.kind = "launchFetch" /\ Answered(i)
      /\ UNCHANGED <<calm, auth, users, authUser>>
  BY DEF LaunchFetched, Is
<1>2. \/ UNCHANGED <<currentUser, screen>>
      \/ \E u \in Found(c.email) : currentUser' = AsUser(u) /\ toTabBar(i)
  BY DEF LaunchFetched
<1>3. /\ c \in Calls
      /\ \A j \in DOMAIN pending : Fits(pending[j], calm, DOMAIN auth, DOMAIN users, authUser, currentUser)
      /\ calm => Len(pending) <= 1 /\ ChainFits(c)
  BY <1>1, CallFacts
<1>4. /\ Typed /\ CallsFit /\ OneAccountPerEmail /\ OneDocPerEmail /\ AddressesHaveAccounts /\ TabsHaveUser
  BY DEF IInv
<1>5. currentUser' \in User \cup {None} /\ (currentUser # None => currentUser' # None)
  BY <1>2, <1>4, FoundUser DEF Typed
<1>6. screen' \in {"login", "tabs"} /\ (screen' = "tabs" /\ screen # "tabs" => currentUser' # None /\ c.onTop)
  BY <1>2, <1>4, FoundUser DEF Typed, toTabBar
<1>7. TabsHaveUser'
  BY <1>1, <1>3, <1>4, <1>5, <1>6 DEF TabsHaveUser, Fits
<1>8. CallsFit' /\ (Len(pending) <= 1 => pending' = <<>>)
  <2>1. \A j \in DOMAIN pending \ {i} : Fits(pending[j], calm, DOMAIN auth, DOMAIN users, authUser, currentUser')
    BY <1>3, <1>5, FitsKept
  <2> QED
    BY <1>1, <1>4, <2>1, AnsweredKeeps DEF CallsFit
<1>9. calm => Rest'
  <2> SUFFICES ASSUME calm PROVE Rest'
    OBVIOUS
  <2>1. /\ screen = "login" /\ authUser \in DOMAIN auth /\ c.email = auth[authUser].email
        /\ \A u \in DOMAIN users : \E a \in DOMAIN auth : auth[a] = users[u]
    BY <1>1, <1>3 DEF ChainFits, Edits
  <2>2. ASSUME screen' = "tabs" PROVE Same'
    <3>1. PICK u \in Found(c.email) : currentUser' = AsUser(u)
      BY <1>2, <2>1, <2>2
    <3>2. /\ u \in DOMAIN users /\ users[u].email = c.email
          /\ AsUser(u) \in User /\ AsUser(u).id = u
      BY <1>4, <3>1, FoundUser
    <3>3. users[u] = auth[authUser]
      BY <1>4, <2>1, <3>2 DEF OneAccountPerEmail
    <3> QED
      BY <1>1, <2>1, <3>1, <3>2, <3>3 DEF Same
  <2> QED
    BY <1>1, <2>1, <2>2 DEF Rest
<1>10. OneChain'
  BY <1>1, <1>3, <1>8, <1>9, ChainEnds
<1> QED
  BY <1>1, <1>4, <1>5, <1>6, <1>7, <1>8, <1>10
     DEF IInv, Typed, OneAccountPerEmail, OneDocPerEmail, AddressesHaveAccounts

LEMMA SignInFetchedKeeps ==
  ASSUME IInv, NEW i, SignInFetched(i)
  PROVE  IInv'
<1> DEFINE c == pending[i]
<1>0. PICK e : e = [c EXCEPT !.kind = "signIn", !.subject = None]
  OBVIOUS
<1>1. /\ i \in DOMAIN pending /\ c.kind = "signInFetch"
      /\ UNCHANGED <<calm, auth, users, authUser, screen>>
      /\ \/ Answered(i) /\ UNCHANGED currentUser
         \/ \E u \in Found(c.email) : /\ PasswordMatches(u, c.password) /\ currentUser' = AsUser(u)
                                      /\ Continues(i, "signIn", None)
  BY DEF SignInFetched, Is
<1>2. /\ c \in Calls
      /\ \A j \in DOMAIN pending : Fits(pending[j], calm, DOMAIN auth, DOMAIN users, authUser, currentUser)
      /\ calm => Len(pending) <= 1 /\ ChainFits(c)
  BY <1>1, CallFacts
<1>3. /\ Typed /\ CallsFit /\ OneAccountPerEmail /\ OneDocPerEmail /\ AddressesHaveAccounts /\ TabsHaveUser
  BY DEF IInv
<1>4. calm => /\ screen = "login"
              /\ \A u \in DOMAIN users : \E a \in DOMAIN auth : auth[a] = users[u]
  BY <1>1, <1>2 DEF ChainFits, Edits
<1>5. CASE Answered(i) /\ UNCHANGED currentUser
  <2>1. CallsFit' /\ (Len(pending) <= 1 => pending' = <<>>)
    BY <1>1, <1>2, <1>3, <1>5, AnsweredKeeps DEF CallsFit
  <2>2. calm => Rest'
    BY <1>1, <1>4 DEF Rest
  <2>3. OneChain'
    BY <1>1, <1>2, <2>1, <2>2, ChainEnds
  <2> QED
    BY <1>1, <1>3, <1>5, <2>1, <2>3
       DEF IInv, Typed, OneAccountPerEmail, OneDocPerEmail, AddressesHaveAccounts, TabsHaveUser
<1>6. ASSUME NEW u \in Found(c.email), PasswordMatches(u, c.password), currentUser' = AsUser(u),
             Continues(i, "signIn", None)
      PROVE  IInv'
  <2>1. /\ u \in DOMAIN users /\ users[u] \in Login /\ users[u].email = c.email
        /\ AsUser(u) \in User /\ AsUser(u) # None /\ AsUser(u).id = u
    BY <1>3, <1>6, FoundUser
  <2>2. "signIn" \in Kinds /\ None \in Subjects
    BY DEF Kinds, Subjects
  <2>3. /\ e \in Calls /\ e.kind = "signIn" /\ e.email = c.email /\ e.password = c.password
        /\ e.onTop = c.onTop
    BY <1>0, <1>2, <2>2 DEF Calls
  <2>4. c.email \in Emails /\ c.password \in Passwords
    BY <1>1, <1>2 DEF Fits, Edits
  <2>5. Fits(e, calm, DOMAIN auth, DOMAIN users, authUser, currentUser')
    BY <1>6, <2>1, <2>3, <2>4 DEF Fits, Edits
  <2>6. \A j \in DOMAIN pending \ {i} : Fits(pending[j], calm, DOMAIN auth, DOMAIN users, authUser, currentUser')
    BY <1>2, <1>6, <2>1, FitsKept
  <2>7. /\ Flight(pending', calm, DOMAIN auth, DOMAIN users, authUser, currentUser')
        /\ Len(pending) <= 1 => pending' = <<e>>
    <3>1. Fits([pending[i] EXCEPT !.kind = "signIn", !.subject = None],
               calm, DOMAIN auth, DOMAIN users, authUser, currentUser')
      BY <1>0, <2>5
    <3> QED
      BY <1>0, <1>1, <1>3, <1>6, <2>2, <2>6, <3>1, ContinuesKeeps
  <2>8. calm => ChainFits(e)'
    <3> SUFFICES ASSUME calm PROVE ChainFits(e)'
      OBVIOUS
    <3>1. users[u].password = e.password /\ users[u].email = e.email
      BY <1>6, <2>1, <2>3 DEF PasswordMatches
    <3>2. users[u] = LoginOf(e)
      BY <2>1, <3>1 DEF LoginOf, Login
    <3>3. currentUser'.id = u /\ currentUser' \in User /\ users' = users
      BY <1>1, <1>6, <2>1
    <3>4. users'[currentUser'.id] = LoginOf(e) /\ currentUser'.id \in DOMAIN users'
      BY <2>1, <3>2, <3>3
    <3> QED
      BY <1>1, <1>4, <2>3, <3>3, <3>4 DEF ChainFits, Edits, LoginOf
  <2>9. OneChain'
    BY <1>1, <1>2, <2>3, <2>7, <2>8, ChainGoesOn
  <2>10. CallsFit'
    BY <1>1, <2>7 DEF CallsFit
  <2> QED
    BY <1>1, <1>3, <1>6, <2>1, <2>9, <2>10
       DEF IInv, Typed, OneAccountPerEmail, OneDocPerEmail, AddressesHaveAccounts, TabsHaveUser
<1> QED
  BY <1>1, <1>5, <1>6

LEMMA SignedInKeeps ==
  ASSUME IInv, NEW i, SignedIn(i)
  PROVE  IInv'
<1> DEFINE c == pending[i]
<1>1. /\ i \in DOMAIN pending /\ c.kind = "signIn" /\ Answered(i)
      /\ UNCHANGED <<calm, auth, users, currentUser>>
      /\ \/ \E a \in AccountsOf(c.email) : /\ auth[a].password = c.password
                                           /\ authUser' = a /\ toTabBar(i)
         \/ UNCHANGED <<authUser, screen>>
  BY DEF SignedIn, Is
<1>2. /\ c \in Calls
      /\ \A j \in DOMAIN pending : Fits(pending[j], calm, DOMAIN auth, DOMAIN users, authUser, currentUser)
      /\ calm => Len(pending) <= 1 /\ ChainFits(c)
  BY <1>1, CallFacts
<1>3. /\ Typed /\ CallsFit /\ OneAccountPerEmail /\ OneDocPerEmail /\ AddressesHaveAccounts /\ TabsHaveUser
  BY DEF IInv
<1>4. currentUser # None
  BY <1>1, <1>2 DEF Fits
<1>5. ASSUME NEW a \in AccountsOf(c.email)
      PROVE  a \in DOMAIN auth /\ a # None /\ auth[a].email = c.email /\ auth[a] \in Login
  BY <1>3, NoneAssumption DEF AccountsOf, Typed
<1>6. authUser' \in DOMAIN auth \cup {None} /\ (authUser # None => authUser' # None)
  BY <1>1, <1>3, <1>5 DEF Typed
<1>7. screen' \in {"login", "tabs"} /\ (screen' = "tabs" => screen = "tabs" \/ authUser' # None)
  BY <1>1, <1>3, <1>5 DEF Typed, toTabBar
<1>8. TabsHaveUser'
  BY <1>1, <1>3, <1>4, <1>6, <1>7 DEF TabsHaveUser
<1>9. CallsFit' /\ (Len(pending) <= 1 => pending' = <<>>)
  <2>1. \A j \in DOMAIN pending \ {i} : Fits(pending[j], calm, DOMAIN auth, DOMAIN users, authUser', currentUser)
    BY <1>2, <1>6, FitsKept
  <2> QED
    BY <1>1, <1>3, <2>1, AnsweredKeeps DEF CallsFit
<1>10. calm => Rest'
  <2> SUFFICES ASSUME calm PROVE Rest'
    OBVIOUS
  <2>1. /\ screen = "login"
        /\ \A u \in DOMAIN users : \E a \in DOMAIN auth : auth[a] = users[u]
        /\ currentUser \in User /\ currentUser.id \in DOMAIN users
        /\ users[currentUser.id] = LoginOf(c)
    BY <1>1, <1>2 DEF ChainFits, Edits
  <2>2. ASSUME screen' = "tabs" PROVE Same'
    <3>1. PICK a \in AccountsOf(c.email) : auth[a].password = c.password /\ authUser' = a
      BY <1>1, <2>1, <2>2
    <3>2. a \in DOMAIN auth /\ auth[a].email = c.email /\ auth[a] \in Login
      BY <1>5
    <3>3. auth[a] = LoginOf(c)
      BY <3>1, <3>2 DEF LoginOf, Login
    <3> QED
      BY <1>1, <2>1, <3>1, <3>2, <3>3 DEF Same
  <2> QED
    BY <1>1, <2>1, <2>2 DEF Rest
<1>11. OneChain'
  BY <1>1, <1>2, <1>9, <1>10, ChainEnds
<1> QED
  BY <1>1, <1>3, <1>6, <1>7, <1>8, <1>9, <1>11
     DEF IInv, Typed, OneAccountPerEmail, OneDocPerEmail, AddressesHaveAccounts

LEMMA SignUpFetchedKeeps ==
  ASSUME IInv, NEW i, SignUpFetched(i)
  PROVE  IInv'
<1> DEFINE c == pending[i]
<1>1. /\ i \in DOMAIN pending /\ c.kind = "signUpFetch"
      /\ UNCHANGED <<calm, auth, users, authUser, currentUser, screen>>
      /\ Answered(i) \/ Continues(i, "createAccount", None)
  BY DEF SignUpFetched, Is
<1>2. /\ c \in Calls
      /\ \A j \in DOMAIN pending : Fits(pending[j], calm, DOMAIN auth, DOMAIN users, authUser, currentUser)
      /\ calm => Len(pending) <= 1 /\ ChainFits(c)
  BY <1>1, CallFacts
<1>3. /\ Typed /\ CallsFit /\ OneAccountPerEmail /\ OneDocPerEmail /\ AddressesHaveAccounts /\ TabsHaveUser
  BY DEF IInv
<1>4. calm => /\ screen = "login"
              /\ \A u \in DOMAIN users : \E a \in DOMAIN auth : auth[a] = users[u]
  BY <1>1, <1>2 DEF ChainFits, Edits
<1>5. CASE Answered(i)
  <2>1. CallsFit' /\ (Len(pending) <= 1 => pending' = <<>>)
    BY <1>1, <1>2, <1>3, <1>5, AnsweredKeeps DEF CallsFit
  <2>2. calm => Rest'
    BY <1>1, <1>4 DEF Rest
  <2>3. OneChain'
    BY <1>1, <1>2, <2>1, <2>2, ChainEnds
  <2> QED
    BY <1>1, <1>3, <2>1, <2>3
       DEF IInv, Typed, OneAccountPerEmail, OneDocPerEmail, AddressesHaveAccounts, TabsHaveUser
<1>6. CASE Continues(i, "createAccount", None)
  <2>1. PICK e : e = [c EXCEPT !.kind = "createAccount", !.subject = None]
    OBVIOUS
  <2>2. "createAccount" \in Kinds /\ None \in Subjects
    BY DEF Kinds, Subjects
  <2>3. e \in Calls /\ e.kind = "createAccount" /\ e.email = c.email /\ e.password = c.password
    BY <1>2, <2>1, <2>2 DEF Calls
  <2>4. c.email \in Emails /\ c.password \in Passwords
    BY <1>1, <1>2 DEF Fits, Edits
  <2>5. Fits(e, calm, DOMAIN auth, DOMAIN users, authUser, currentUser)
    BY <2>3, <2>4 DEF Fits, Edits
  <2>6. /\ Flight(pending', calm, DOMAIN auth, DOMAIN users, authUser, currentUser)
        /\ Len(pending) <= 1 => pending' = <<e>>
    <3>1. Fits([pending[i] EXCEPT !.kind = "createAccount", !.subject = None],
               calm, DOMAIN auth, DOMAIN users, authUser, currentUser)
      BY <2>1, <2>5
    <3> QED
      BY <1>1, <1>2, <1>3, <1>6, <2>1, <2>2, <3>1, ContinuesKeeps
  <2>7. calm => ChainFits(e)'
    BY <1>1, <1>4, <2>3 DEF ChainFits, Edits
  <2>8. OneChain'
    BY <1>1, <1>2, <2>3, <2>6, <2>7, ChainGoesOn
  <2>9. CallsFit'
    BY <1>1, <2>6 DEF CallsFit
  <2> QED
    BY <1>1, <1>3, <2>8, <2>9
       DEF IInv, Typed, OneAccountPerEmail, OneDocPerEmail, AddressesHaveAccounts, TabsHaveUser
<1> QED
  BY <1>1, <1>5, <1>6

\* No document has the address of no account, so a new account's document is the
\* only one with its address.
LEMMA FreeAddress ==
  ASSUME IInv, NEW e, EmailFree(e), calm => \A u \in DOMAIN users : \E a \in DOMAIN auth : auth[a] = users[u]
  PROVE  \A u \in DOMAIN users : users[u].email # e
<1>1. \A u \in DOMAIN users : \E a \in DOMAIN auth : auth[a].email = users[u].email
  BY DEF IInv, AddressesHaveAccounts
<1> QED
  BY <1>1 DEF EmailFree, AccountsOf

LEMMA AccountCreatedKeeps ==
  ASSUME IInv, NEW i, AccountCreated(i)
  PROVE  IInv'
<1> DEFINE c == pending[i]
           login == [email |-> c.email, password |-> c.password]
<1>1. /\ i \in DOMAIN pending /\ c.kind = "createAccount"
      /\ UNCHANGED <<calm, currentUser, screen>>
      /\ \/ Answered(i) /\ UNCHANGED <<auth, users, authUser>>
         \/ /\ EmailFree(c.email)
            /\ \E a \in AccountIds \ DOMAIN auth : auth' = Put(auth, a, login) /\ authUser' = a
            /\ \/ Answered(i) /\ UNCHANGED users
               \/ \E u \in UserIds \ DOMAIN users :
                    users' = Put(users, u, login) /\ Continues(i, "createUser", u)
  BY DEF AccountCreated, Is
<1>2. /\ c \in Calls
      /\ \A j \in DOMAIN pending : Fits(pending[j], calm, DOMAIN auth, DOMAIN users, authUser, currentUser)
      /\ calm => Len(pending) <= 1 /\ ChainFits(c)
  BY <1>1, CallFacts
<1>3. /\ Typed /\ CallsFit /\ OneAccountPerEmail /\ OneDocPerEmail /\ AddressesHaveAccounts /\ TabsHaveUser
  BY DEF IInv
<1>4. calm => /\ screen = "login"
              /\ \A u \in DOMAIN users : \E a \in DOMAIN auth : auth[a] = users[u]
  BY <1>1, <1>2 DEF ChainFits, Edits
<1>5. c.email \in Emails /\ c.password \in Passwords
  BY <1>1, <1>2 DEF Fits, Edits
<1>6. login \in Login /\ login.email = c.email /\ login.password = c.password
  BY <1>5 DEF Login
<1> HIDE DEF login
<1>7. CASE Answered(i) /\ UNCHANGED <<auth, users, authUser>>
  <2>1. CallsFit' /\ (Len(pending) <= 1 => pending' = <<>>)
    BY <1>1, <1>2, <1>3, <1>7, AnsweredKeeps DEF CallsFit
  <2>2. calm => Rest'
    BY <1>1, <1>4, <1>7 DEF Rest
  <2>3. OneChain'
    BY <1>1, <1>2, <2>1, <2>2, ChainEnds
  <2> QED
    BY <1>1, <1>3, <1>7, <2>1, <2>3
       DEF IInv, Typed, OneAccountPerEmail, OneDocPerEmail, AddressesHaveAccounts, TabsHaveUser
<1>8. ASSUME EmailFree(c.email), NEW a \in AccountIds \ DOMAIN auth,
             auth' = Put(auth, a, login), authUser' = a,
             \/ Answered(i) /\ UNCHANGED users
             \/ \E u \in UserIds \ DOMAIN users :
                  users' = Put(users, u, login) /\ Continues(i, "createUser", u)
      PROVE  IInv'
  <2>1. auth \in [DOMAIN auth -> Login] /\ DOMAIN auth \subseteq AccountIds
    BY <1>3 DEF Typed
  <2>2. /\ auth' \in [DOMAIN auth \cup {a} -> Login] /\ DOMAIN auth' = DOMAIN auth \cup {a}
        /\ auth'[a] = login /\ \A b \in DOMAIN auth : auth'[b] = auth[b]
    <3>1. /\ Put(auth, a, login) \in [DOMAIN auth \cup {a} -> Login]
          /\ DOMAIN Put(auth, a, login) = DOMAIN auth \cup {a}
          /\ Put(auth, a, login)[a] = login
          /\ \A b \in DOMAIN auth \ {a} : Put(auth, a, login)[b] = auth[b]
      BY <1>6, <2>1 DEF Put
    <3> QED
      BY <1>8, <3>1
  <2>3. auth' \in [DOMAIN auth' -> Login] /\ DOMAIN auth' \subseteq AccountIds /\ a \in DOMAIN auth'
    BY <2>1, <2>2
  <2>4. authUser' # None /\ authUser' \in DOMAIN auth'
    BY <1>8, <2>3, NoneAssumption
  <2>5. \A b \in DOMAIN auth : auth[b].email # c.email
    BY <1>8 DEF EmailFree, AccountsOf
  <2>6. OneAccountPerEmail'
    BY <1>3, <1>6, <2>2, <2>5 DEF OneAccountPerEmail
  <2>7. TabsHaveUser'
    BY <1>1, <1>3, <2>4 DEF TabsHaveUser
  <2>8. \A u \in DOMAIN users : users[u].email # c.email
    BY <1>4, <1>8, FreeAddress
  <2>9. CASE Answered(i) /\ UNCHANGED users
    <3>1. \A j \in DOMAIN pending \ {i} : Fits(pending[j], calm, DOMAIN auth', DOMAIN users, authUser', currentUser)
      BY <1>2, <2>2, <2>4, FitsKept
    <3>2. CallsFit' /\ (Len(pending) <= 1 => pending' = <<>>)
      BY <1>1, <1>3, <2>9, <3>1, AnsweredKeeps DEF CallsFit
    <3>3. calm => Rest'
      BY <1>1, <1>4, <2>2, <2>9 DEF Rest
    <3>4. OneChain'
      BY <1>1, <1>2, <3>2, <3>3, ChainEnds
    <3>5. AddressesHaveAccounts'
      BY <1>1, <1>3, <2>2, <2>9 DEF AddressesHaveAccounts
    <3>6. OneDocPerEmail'
      BY <1>3, <2>9 DEF OneDocPerEmail
    <3>7. Typed'
      BY <1>1, <1>3, <2>3, <2>4, <2>9 DEF Typed
    <3> QED
      BY <2>6, <2>7, <3>2, <3>4, <3>5, <3>6, <3>7 DEF IInv
  <2>10. ASSUME NEW u \in UserIds \ DOMAIN users, users' = Put(users, u, login), Continues(i, "createUser", u)
         PROVE  IInv'
    <3>1. users \in [DOMAIN users -> Login] /\ DOMAIN users \subseteq UserIds
      BY <1>3 DEF Typed
    <3>2. /\ users' \in [DOMAIN users \cup {u} -> Login] /\ DOMAIN users' = DOMAIN users \cup {u}
          /\ users'[u] = login /\ \A v \in DOMAIN users : users'[v] = users[v]
      <4>1. /\ Put(users, u, login) \in [DOMAIN users \cup {u} -> Login]
            /\ DOMAIN Put(users, u, login) = DOMAIN users \cup {u}
            /\ Put(users, u, login)[u] = login
            /\ \A v \in DOMAIN users \ {u} : Put(users, u, login)[v] = users[v]
        BY <1>6, <3>1 DEF Put
      <4> QED
        BY <2>10, <4>1
    <3>3. users' \in [DOMAIN users' -> Login] /\ DOMAIN users' \subseteq UserIds /\ u \in DOMAIN users'
      BY <3>1, <3>2
    <3>4. PICK e : e = [c EXCEPT !.kind = "createUser", !.subject = u]
      OBVIOUS
    <3>5. "createUser" \in Kinds /\ u \in Subjects
      BY DEF Kinds, Subjects
    <3>6. /\ e \in Calls /\ e.kind = "createUser" /\ e.email = c.email /\ e.password = c.password
          /\ e.subject = u
      BY <1>2, <3>4, <3>5 DEF Calls
    <3>7. Fits(e, calm, DOMAIN auth', DOMAIN users', authUser', currentUser)
      BY <1>5, <2>4, <3>3, <3>6 DEF Fits, Edits
    <3>8. \A j \in DOMAIN pending \ {i} : Fits(pending[j], calm, DOMAIN auth', DOMAIN users', authUser', currentUser)
      BY <1>2, <2>2, <2>4, <3>2, FitsKept
    <3>9. /\ Flight(pending', calm, DOMAIN auth', DOMAIN users', authUser', currentUser)
          /\ Len(pending) <= 1 => pending' = <<e>>
      <4>1. Fits([pending[i] EXCEPT !.kind = "createUser", !.subject = u],
                 calm, DOMAIN auth', DOMAIN users', authUser', currentUser)
        BY <3>4, <3>7
      <4> QED
        BY <1>1, <1>3, <2>10, <3>4, <3>5, <3>8, <4>1, ContinuesKeeps
    <3>10. CallsFit'
      BY <1>1, <3>9 DEF CallsFit
    <3>11. login = LoginOf(e)
      BY <3>6 DEF LoginOf, login
    <3>12. calm => \A v \in DOMAIN users' : \E b \in DOMAIN auth' : auth'[b] = users'[v]
      BY <1>4, <2>2, <3>2
    <3>13. calm => ChainFits(e)'
      <4>1. users'[u] = LoginOf(e) /\ auth'[authUser'] = LoginOf(e)
        BY <1>8, <2>2, <3>2, <3>11
      <4> QED
        BY <1>1, <1>4, <2>4, <3>6, <3>12, <4>1 DEF ChainFits, Edits, LoginOf
    <3>14. OneChain'
      BY <1>1, <1>2, <3>6, <3>9, <3>13, ChainGoesOn
    <3>15. AddressesHaveAccounts'
      BY <1>1, <1>3, <2>2, <3>2 DEF AddressesHaveAccounts
    <3>16. OneDocPerEmail'
      BY <1>3, <1>6, <2>8, <3>2 DEF OneDocPerEmail
    <3>17. Typed'
      BY <1>1, <1>3, <2>3, <2>4, <3>3 DEF Typed
    <3> QED
      BY <2>6, <2>7, <3>10, <3>14, <3>15, <3>16, <3>17 DEF IInv
  <2> QED
    BY <1>8, <2>9, <2>10
<1> QED
  BY <1>1, <1>7, <1>8

LEMMA UserCreatedKeeps ==
  ASSUME IInv, NEW i, UserCreated(i)
  PROVE  IInv'
<1> DEFINE c == pending[i]
<1>1. /\ i \in DOMAIN pending /\ c.kind = "createUser" /\ Answered(i) /\ toTabBar(i)
      /\ UNCHANGED <<calm, auth, users, authUser>>
      /\ currentUser' = [id |-> c.subject, email |-> c.email, password |-> c.password]
  BY DEF UserCreated, Is
<1>2. /\ c \in Calls
      /\ \A j \in DOMAIN pending : Fits(pending[j], calm, DOMAIN auth, DOMAIN users, authUser, currentUser)
      /\ calm => Len(pending) <= 1 /\ ChainFits(c)
  BY <1>1, CallFacts
<1>3. /\ Typed /\ CallsFit /\ OneAccountPerEmail /\ OneDocPerEmail /\ AddressesHaveAccounts /\ TabsHaveUser
  BY DEF IInv
<1>4. /\ c.email \in Emails /\ c.password \in Passwords /\ c.subject \in DOMAIN users
      /\ c.onTop => authUser # None
  BY <1>1, <1>2 DEF Fits, Edits
<1>5. c.subject \in UserIds
  BY <1>3, <1>4 DEF Typed
<1>6. currentUser' \in User /\ currentUser' # None /\ currentUser'.id = c.subject
  <2>1. currentUser' \in User
    BY <1>1, <1>4, <1>5 DEF User
  <2> QED
    BY <1>1, <2>1, NoneAssumption
<1>7. screen' \in {"login", "tabs"} /\ (screen' = "tabs" => screen = "tabs" \/ c.onTop)
  BY <1>1, <1>3 DEF Typed, toTabBar
<1>8. TabsHaveUser'
  BY <1>1, <1>3, <1>4, <1>6, <1>7 DEF TabsHaveUser
<1>9. CallsFit' /\ (Len(pending) <= 1 => pending' = <<>>)
  <2>1. \A j \in DOMAIN pending \ {i} : Fits(pending[j], calm, DOMAIN auth, DOMAIN users, authUser, currentUser')
    BY <1>2, <1>6, FitsKept
  <2> QED
    BY <1>1, <1>3, <2>1, AnsweredKeeps DEF CallsFit
<1>10. calm => Rest'
  <2> SUFFICES ASSUME calm PROVE Rest'
    OBVIOUS
  <2>1. /\ authUser \in DOMAIN auth /\ users[c.subject] = LoginOf(c) /\ auth[authUser] = LoginOf(c)
        /\ \A u \in DOMAIN users : \E a \in DOMAIN auth : auth[a] = users[u]
    BY <1>1, <1>2 DEF ChainFits, Edits
  <2>2. users[currentUser'.id] = auth[authUser] /\ currentUser'.id \in DOMAIN users
    BY <1>4, <1>6, <2>1
  <2>3. Same'
    BY <1>1, <1>6, <2>1, <2>2 DEF Same
  <2> QED
    BY <1>1, <2>1, <2>3 DEF Rest
<1>11. OneChain'
  BY <1>1, <1>2, <1>9, <1>10, ChainEnds
<1> QED
  BY <1>1, <1>3, <1>6, <1>7, <1>8, <1>9, <1>11
     DEF IInv, Typed, OneAccountPerEmail, OneDocPerEmail, AddressesHaveAccounts

\* An edit makes a login of a login, and one without an address keeps the address.
LEMMA EditedLogin ==
  ASSUME NEW l \in Login, NEW c \in Calls
  PROVE  /\ Edited(l, c) \in Login
         /\ Edited(l, c).email = IF c.email = None THEN l.email ELSE c.email
BY DEF Edited, Login, Calls

LEMMA AccountEditedKeeps ==
  ASSUME IInv, NEW i, AccountEdited(i)
  PROVE  IInv'
<1> DEFINE c == pending[i]
           a == c.subject
<1>1. /\ i \in DOMAIN pending /\ c.kind = "editAccount"
      /\ UNCHANGED <<calm, users, authUser, currentUser, screen>>
      /\ \/ Answered(i) /\ UNCHANGED auth
         \/ /\ AccountsOf(c.email) \subseteq {a}
            /\ auth' = [auth EXCEPT ![a] = Edited(@, c)]
            /\ IF currentUser = None THEN Answered(i)
                                     ELSE Continues(i, "editUser", currentUser.email)
  BY DEF AccountEdited, Is
<1>2. /\ c \in Calls
      /\ \A j \in DOMAIN pending : Fits(pending[j], calm, DOMAIN auth, DOMAIN users, authUser, currentUser)
      /\ calm => Len(pending) <= 1 /\ ChainFits(c)
  BY <1>1, CallFacts
<1>3. /\ Typed /\ CallsFit /\ OneAccountPerEmail /\ OneDocPerEmail /\ AddressesHaveAccounts /\ TabsHaveUser
  BY DEF IInv
<1>4. calm => /\ Same /\ a = authUser /\ currentUser.email = auth[authUser].email
              /\ \A u \in DOMAIN users : \E b \in DOMAIN auth : auth[b] = users[u]
  BY <1>1, <1>2 DEF ChainFits
<1>5. a \in DOMAIN auth /\ (~calm => c.email = None)
  BY <1>1, <1>2 DEF Fits, Edits
<1>6. CASE Answered(i) /\ UNCHANGED auth
  <2>1. CallsFit' /\ (Len(pending) <= 1 => pending' = <<>>)
    BY <1>1, <1>2, <1>3, <1>6, AnsweredKeeps DEF CallsFit
  <2>2. calm => Rest'
    BY <1>1, <1>4, <1>6 DEF Rest, Same
  <2>3. OneChain'
    BY <1>1, <1>2, <2>1, <2>2, ChainEnds
  <2> QED
    BY <1>1, <1>3, <1>6, <2>1, <2>3
       DEF IInv, Typed, OneAccountPerEmail, OneDocPerEmail, AddressesHaveAccounts, TabsHaveUser
<1>7. CASE /\ AccountsOf(c.email) \subseteq {a}
           /\ auth' = [auth EXCEPT ![a] = Edited(@, c)]
           /\ IF currentUser = None THEN Answered(i)
                                    ELSE Continues(i, "editUser", currentUser.email)
  <2> DEFINE l == Edited(auth[a], c)
  <2>1. auth \in [DOMAIN auth -> Login] /\ auth[a] \in Login
    BY <1>3, <1>5 DEF Typed
  <2>2. l \in Login /\ l.email = IF c.email = None THEN auth[a].email ELSE c.email
    BY <1>2, <2>1, EditedLogin
  <2>3. auth' = [auth EXCEPT ![a] = l]
    BY <1>7
  <2> HIDE DEF l
  <2>4. /\ auth' \in [DOMAIN auth -> Login] /\ DOMAIN auth' = DOMAIN auth
        /\ auth'[a] = l /\ \A b \in DOMAIN auth \ {a} : auth'[b] = auth[b]
    BY <1>5, <2>1, <2>2, <2>3
  <2>5. \A b \in DOMAIN auth \ {a} : auth[b].email # l.email
    <3>1. CASE c.email = None
      BY <1>3, <1>5, <2>2, <3>1 DEF OneAccountPerEmail
    <3>2. CASE c.email # None
      BY <1>7, <2>2, <3>2 DEF AccountsOf
    <3> QED
      BY <3>1, <3>2
  <2>6. OneAccountPerEmail'
    BY <1>3, <2>4, <2>5 DEF OneAccountPerEmail
  <2>7. ~calm => \A b \in DOMAIN auth : auth'[b].email = auth[b].email
    BY <1>5, <2>2, <2>4
  <2>8. AddressesHaveAccounts'
    BY <1>1, <1>3, <2>4, <2>7 DEF AddressesHaveAccounts
  <2>9. TabsHaveUser' /\ OneDocPerEmail'
    BY <1>1, <1>3 DEF TabsHaveUser, OneDocPerEmail
  <2>10. Typed'
    BY <1>1, <1>3, <2>4 DEF Typed
  <2>11. \A j \in DOMAIN pending \ {i} : Fits(pending[j], calm, DOMAIN auth', DOMAIN users, authUser, currentUser)
    BY <1>2, <2>4
  <2>12. CASE currentUser = None
    <3>1. ~calm
      BY <1>3, <1>4, <2>12, NoneAssumption DEF Same
    <3>2. CallsFit'
      BY <1>1, <1>3, <1>7, <2>11, <2>12, AnsweredKeeps DEF CallsFit
    <3>3. OneChain'
      BY <1>1, <3>1 DEF OneChain
    <3> QED
      BY <2>6, <2>8, <2>9, <2>10, <3>2, <3>3 DEF IInv
  <2>13. CASE currentUser # None
    <3>1. PICK k : k = currentUser.email
      OBVIOUS
    <3>2. Continues(i, "editUser", k)
      BY <1>7, <2>13, <3>1
    <3>3. PICK e : e = [c EXCEPT !.kind = "editUser", !.subject = k]
      OBVIOUS
    <3>4. currentUser \in User /\ k \in Emails
      BY <1>3, <2>13, <3>1 DEF Typed, User
    <3>5. "editUser" \in Kinds /\ k \in Subjects
      BY <3>4 DEF Kinds, Subjects
    <3>6. /\ e \in Calls /\ e.kind = "editUser" /\ e.email = c.email /\ e.password = c.password
          /\ e.subject = k
      BY <1>2, <3>3, <3>5 DEF Calls
    <3>7. Fits(e, calm, DOMAIN auth', DOMAIN users, authUser, currentUser)
      BY <1>5, <3>6 DEF Fits, Edits
    <3>8. /\ Flight(pending', calm, DOMAIN auth', DOMAIN users, authUser, currentUser)
          /\ Len(pending) <= 1 => pending' = <<e>>
      <4>1. Fits([pending[i] EXCEPT !.kind = "editUser", !.subject = k],
                 calm, DOMAIN auth', DOMAIN users, authUser, currentUser)
        BY <3>3, <3>7
      <4> QED
        BY <1>1, <1>3, <2>11, <3>2, <3>3, <3>5, <4>1, ContinuesKeeps
    <3>9. CallsFit'
      BY <1>1, <3>8 DEF CallsFit
    <3>10. calm => ChainFits(e)'
      <4> SUFFICES ASSUME calm PROVE ChainFits(e)'
        OBVIOUS
      <4>1. /\ currentUser.id \in DOMAIN users /\ authUser \in DOMAIN auth /\ a = authUser
            /\ users[currentUser.id] = auth[authUser] /\ k = auth[authUser].email
        BY <1>4, <3>1 DEF Same
      <4>2. Edited(users[currentUser.id], e) = l
        BY <3>6, <4>1 DEF Edited, l
      <4>3. auth'[authUser] = Edited(users[currentUser.id], e)
        BY <2>4, <4>1, <4>2
      <4>4. ASSUME NEW u \in DOMAIN users \ {currentUser.id}
            PROVE  \E b \in DOMAIN auth \ {authUser} : auth'[b] = users[u]
        <5>1. PICK b \in DOMAIN auth : auth[b] = users[u]
          BY <1>4
        <5>2. users[u] # users[currentUser.id]
          BY <1>3, <4>1 DEF OneDocPerEmail
        <5>3. b # authUser
          BY <4>1, <5>1, <5>2
        <5>4. auth'[b] = auth[b]
          BY <2>4, <4>1, <5>3
        <5> QED
          BY <5>1, <5>3, <5>4
      <4>5. e.kind = "editUser" /\ e.subject = users[currentUser.id].email
        BY <3>6, <4>1
      <4>6. DOMAIN auth' = DOMAIN auth /\ users' = users /\ currentUser' = currentUser /\ authUser' = authUser
        BY <1>1, <2>4
      <4>7. auth'[authUser'] = Edited(users[currentUser.id], e)'
        BY <4>3, <4>6 DEF Edited
      <4> QED
        BY <3>4, <4>1, <4>4, <4>5, <4>6, <4>7 DEF ChainFits, Edits
    <3>11. OneChain'
      BY <1>1, <1>2, <3>6, <3>8, <3>10, ChainGoesOn
    <3> QED
      BY <2>6, <2>8, <2>9, <2>10, <3>9, <3>11 DEF IInv
  <2> QED
    BY <2>12, <2>13
<1> QED
  BY <1>1, <1>6, <1>7

LEMMA UserEditedKeeps ==
  ASSUME IInv, NEW i, UserEdited(i)
  PROVE  IInv'
<1> DEFINE c == pending[i]
           k == currentUser.id
<1>1. /\ i \in DOMAIN pending /\ c.kind = "editUser" /\ Answered(i)
      /\ UNCHANGED <<calm, auth, authUser, currentUser, screen>>
      /\ \/ Found(c.subject) = {} /\ UNCHANGED users
         \/ \E u \in Found(c.subject) : users' = [users EXCEPT ![u] = Edited(@, c)]
  BY DEF UserEdited, Is
<1>2. /\ c \in Calls
      /\ \A j \in DOMAIN pending : Fits(pending[j], calm, DOMAIN auth, DOMAIN users, authUser, currentUser)
      /\ calm => Len(pending) <= 1 /\ ChainFits(c)
  BY <1>1, CallFacts
<1>3. /\ Typed /\ CallsFit /\ OneAccountPerEmail /\ OneDocPerEmail /\ AddressesHaveAccounts /\ TabsHaveUser
  BY DEF IInv
<1>4. calm => /\ currentUser \in User /\ k \in DOMAIN users /\ authUser \in DOMAIN auth
              /\ c.subject = users[k].email /\ auth[authUser] = Edited(users[k], c)
              /\ \A u \in DOMAIN users \ {k} : \E b \in DOMAIN auth \ {authUser} : auth[b] = users[u]
  BY <1>1, <1>2 DEF ChainFits
<1>5. ~calm => c.email = None
  BY <1>1, <1>2 DEF Fits, Edits
<1>6. TabsHaveUser' /\ OneAccountPerEmail'
  BY <1>1, <1>3 DEF TabsHaveUser, OneAccountPerEmail
<1>7. CASE Found(c.subject) = {} /\ UNCHANGED users
  <2>1. ~calm
    BY <1>4, <1>7 DEF Found
  <2>2. CallsFit'
    BY <1>1, <1>2, <1>3, <1>7, AnsweredKeeps DEF CallsFit
  <2> QED
    BY <1>1, <1>3, <1>6, <1>7, <2>1, <2>2
       DEF IInv, Typed, OneDocPerEmail, AddressesHaveAccounts, OneChain
<1>8. ASSUME NEW u \in Found(c.subject), users' = [users EXCEPT ![u] = Edited(@, c)]
      PROVE  IInv'
  <2>1. /\ users \in [DOMAIN users -> Login] /\ u \in DOMAIN users /\ users[u] \in Login
        /\ users[u].email = c.subject
    BY <1>3, FoundUser DEF Typed
  <2>2. PICK l : l = Edited(users[u], c)
    OBVIOUS
  <2>3. l \in Login /\ l.email = IF c.email = None THEN users[u].email ELSE c.email
    BY <1>2, <2>1, <2>2, EditedLogin
  <2>4. /\ users' \in [DOMAIN users -> Login] /\ DOMAIN users' = DOMAIN users
        /\ users'[u] = l /\ \A v \in DOMAIN users \ {u} : users'[v] = users[v]
    BY <1>8, <2>1, <2>2, <2>3
  <2>5. Typed'
    BY <1>1, <1>3, <2>4 DEF Typed
  <2>6. CallsFit' /\ (Len(pending) <= 1 => pending' = <<>>)
    BY <1>1, <1>2, <1>3, <2>4, AnsweredKeeps DEF CallsFit
  <2>7. CASE ~calm
    <3>1. \A v \in DOMAIN users : users'[v].email = users[v].email
      BY <1>5, <2>3, <2>4, <2>7
    <3>2. OneDocPerEmail' /\ AddressesHaveAccounts' /\ OneChain'
      BY <1>1, <1>3, <2>4, <2>7, <3>1 DEF OneDocPerEmail, AddressesHaveAccounts, OneChain
    <3> QED
      BY <1>6, <2>5, <2>6, <3>2 DEF IInv
  <2>8. CASE calm
    <3>1. u = k
      BY <1>3, <1>4, <2>1, <2>8 DEF OneDocPerEmail
    <3>2. auth[authUser] = l
      BY <1>4, <2>2, <2>8, <3>1
    <3>3. ASSUME NEW v \in DOMAIN users \ {u}
          PROVE  users[v].email # l.email /\ \E b \in DOMAIN auth : auth[b] = users[v]
      <4>1. PICK b \in DOMAIN auth \ {authUser} : auth[b] = users[v]
        BY <1>4, <2>8, <3>1
      <4> QED
        BY <1>3, <1>4, <2>8, <3>2, <4>1 DEF OneAccountPerEmail
    <3>4. OneDocPerEmail'
      BY <1>3, <2>4, <3>3 DEF OneDocPerEmail
    <3>5. AddressesHaveAccounts'
      BY <1>1, <2>8 DEF AddressesHaveAccounts
    <3>6. Same'
      BY <1>1, <1>4, <2>4, <2>8, <3>1, <3>2 DEF Same
    <3>7. Rest'
      <4>1. \A v \in DOMAIN users : \E b \in DOMAIN auth : auth[b] = users'[v]
        BY <1>4, <2>4, <2>8, <3>2, <3>3
      <4> QED
        BY <1>1, <2>4, <3>6, <4>1 DEF Rest
    <3>8. OneChain'
      BY <1>1, <1>2, <2>6, <3>7, ChainEnds
    <3> QED
      BY <1>6, <2>5, <2>6, <3>4, <3>5, <3>8 DEF IInv
  <2> QED
    BY <2>7, <2>8
<1> QED
  BY <1>1, <1>7, <1>8

LEMMA FailsKeeps ==
  ASSUME IInv, NEW i, Fails(i)
  PROVE  IInv'
<1> DEFINE c == pending[i]
           D == Drop(users, c.subject)
<1>1. /\ i \in DOMAIN pending /\ ~calm /\ Answered(i)
      /\ UNCHANGED <<calm, auth, authUser, currentUser, screen>>
      /\ users' = IF c.kind = "createUser" THEN D ELSE users
  BY DEF Fails
<1>2. \A j \in DOMAIN pending : Fits(pending[j], calm, DOMAIN auth, DOMAIN users, authUser, currentUser)
  BY <1>1, CallFacts
<1>3. /\ Typed /\ CallsFit /\ OneAccountPerEmail /\ OneDocPerEmail /\ AddressesHaveAccounts /\ TabsHaveUser
  BY DEF IInv
<1>4. users \in [DOMAIN users -> Login] /\ DOMAIN users \subseteq UserIds
  BY <1>3 DEF Typed
<1>5. /\ D \in [DOMAIN users \ {c.subject} -> Login] /\ DOMAIN D = DOMAIN users \ {c.subject}
      /\ \A u \in DOMAIN users \ {c.subject} : D[u] = users[u]
  BY <1>4 DEF Drop
<1> HIDE DEF D
<1>6. /\ users' \in [DOMAIN users' -> Login] /\ DOMAIN users' \subseteq DOMAIN users
      /\ \A u \in DOMAIN users' : users'[u] = users[u]
      /\ c.kind # "createUser" => DOMAIN users' = DOMAIN users
      /\ DOMAIN users \ {c.subject} \subseteq DOMAIN users'
  <2>1. CASE c.kind = "createUser"
    BY <1>1, <1>5, <2>1
  <2>2. CASE c.kind # "createUser"
    BY <1>1, <1>4, <2>2
  <2> QED
    BY <2>1, <2>2
<1>7. ASSUME NEW j \in DOMAIN pending \ {i}
      PROVE  Fits(pending[j], calm, DOMAIN auth, DOMAIN users', authUser, currentUser)
  <2>1. Fits(pending[j], calm, DOMAIN auth, DOMAIN users, authUser, currentUser)
    BY <1>2
  <2>2. c.kind = "createUser" /\ pending[j].kind = "createUser" => pending[j].subject # c.subject
    BY <1>1, <1>3 DEF CallsFit, Flight
  <2>3. pending[j].kind = "createUser" => pending[j].subject \in DOMAIN users'
    BY <1>6, <2>1, <2>2 DEF Fits
  <2> QED
    BY <2>1, <2>3 DEF Fits
<1>8. CallsFit'
  BY <1>1, <1>3, <1>7, AnsweredKeeps DEF CallsFit
<1>9. Typed'
  BY <1>1, <1>3, <1>4, <1>6 DEF Typed
<1>10. OneDocPerEmail' /\ AddressesHaveAccounts'
  BY <1>1, <1>3, <1>6 DEF OneDocPerEmail, AddressesHaveAccounts
<1> QED
  BY <1>1, <1>3, <1>8, <1>9, <1>10 DEF IInv, OneAccountPerEmail, TabsHaveUser, OneChain

\* No call at all, and one call.
LEMMA FewCalls ==
  ASSUME NEW one, NEW As, NEW Us, NEW session, NEW user
  PROVE  /\ Flight(<<>>, one, As, Us, session, user)
         /\ \A e \in Calls : /\ <<e>> \in Seq(Calls) /\ Len(<<e>>) = 1 /\ DOMAIN <<e>> = {1}
                             /\ <<e>>[1] = e
                             /\ Fits(e, one, As, Us, session, user) =>
                                  Flight(<<e>>, one, As, Us, session, user)
<1>1. MaxCalls \in Nat /\ MaxCalls >= 1
  BY AccountBounds
<1>2. <<>> \in Seq(Calls) /\ Len(<<>>) = 0 /\ DOMAIN <<>> = {}
  BY EmptySeq
<1>3. Flight(<<>>, one, As, Us, session, user)
  BY <1>1, <1>2 DEF Flight
<1>4. ASSUME NEW e \in Calls
      PROVE  /\ <<e>> \in Seq(Calls) /\ Len(<<e>>) = 1 /\ DOMAIN <<e>> = {1}
             /\ <<e>>[1] = e
             /\ Fits(e, one, As, Us, session, user) => Flight(<<e>>, one, As, Us, session, user)
  <2>1. <<e>> \in Seq(Calls) /\ Len(<<e>>) = 1 /\ <<e>>[1] = e
    OBVIOUS
  <2>2. DOMAIN <<e>> = {1}
    BY <2>1, LenProperties
  <2> HIDE DEF Calls
  <2>3. ASSUME NEW s, s = <<e>>, Fits(e, one, As, Us, session, user)
        PROVE  Flight(s, one, As, Us, session, user)
    <3>1. s \in Seq(Calls) /\ Len(s) = 1 /\ DOMAIN s = {1} /\ s[1] = e
      BY <2>1, <2>2, <2>3
    <3> QED
      BY <1>1, <2>3, <3>1 DEF Flight
  <2> QED
    BY <2>1, <2>2, <2>3
<1> QED
  BY <1>3, <1>4

\* A call that a tap makes is like this.
LEMMA NewCall ==
  ASSUME NEW kind \in Kinds, NEW e \in Emails \cup {None}, NEW p \in Passwords \cup {None},
         NEW subject \in Subjects
  PROVE  /\ Call(kind, e, p, subject) \in Calls
         /\ Call(kind, e, p, subject).kind = kind /\ Call(kind, e, p, subject).email = e
         /\ Call(kind, e, p, subject).password = p /\ Call(kind, e, p, subject).subject = subject
BY DEF Call, Calls

LEMMA RelaunchKeeps ==
  ASSUME IInv, Relaunch
  PROVE  IInv'
<1>1. /\ Typed /\ CallsFit /\ OneAccountPerEmail /\ OneDocPerEmail /\ AddressesHaveAccounts /\ OneChain
  BY DEF IInv
<1>2. /\ calm => Quiet
      /\ currentUser' = None /\ screen' = "login"
      /\ UNCHANGED <<calm, auth, users, authUser>>
      /\ pending' = IF authUser = None THEN <<>>
                    ELSE <<Call("launchFetch", auth[authUser].email, None, None)>>
  BY DEF Relaunch
<1>3. calm => Rest
  BY <1>1, <1>2 DEF OneChain, Quiet
<1>4. /\ Typed' /\ OneAccountPerEmail' /\ OneDocPerEmail' /\ AddressesHaveAccounts' /\ TabsHaveUser'
  BY <1>1, <1>2 DEF Typed, OneAccountPerEmail, OneDocPerEmail, AddressesHaveAccounts, TabsHaveUser
<1>5. CASE authUser = None
  <2>1. pending' = <<>>
    BY <1>2, <1>5
  <2>2. CallsFit'
    BY <2>1, FewCalls DEF CallsFit
  <2>3. calm => Rest'
    BY <1>2, <1>3 DEF Rest
  <2>4. OneChain'
    BY <1>2, <2>1, <2>3, ChainEnds
  <2> QED
    BY <1>4, <2>2, <2>4 DEF IInv
<1>6. CASE authUser # None
  <2>1. PICK e : e = Call("launchFetch", auth[authUser].email, None, None)
    OBVIOUS
  <2>2. pending' = <<e>>
    BY <1>2, <1>6, <2>1
  <2>3. authUser \in DOMAIN auth /\ auth[authUser].email \in Emails
    BY <1>1, <1>6 DEF Typed, Login
  <2>4. /\ e \in Calls /\ e.kind = "launchFetch" /\ e.email = auth[authUser].email
    <3>1. "launchFetch" \in Kinds /\ None \in Subjects
      BY DEF Kinds, Subjects
    <3>2. PICK m : m = auth[authUser].email
      OBVIOUS
    <3>3. /\ Call("launchFetch", m, None, None) \in Calls
          /\ Call("launchFetch", m, None, None).kind = "launchFetch"
          /\ Call("launchFetch", m, None, None).email = m
      BY <2>3, <3>1, <3>2, NewCall
    <3> QED
      BY <2>1, <3>2, <3>3
  <2>5. Fits(e, calm, DOMAIN auth, DOMAIN users, authUser, None)
    BY <1>6, <2>3, <2>4 DEF Fits, Edits
  <2>6. CallsFit'
    <3>1. Flight(<<e>>, calm, DOMAIN auth, DOMAIN users, authUser, None)
      BY <2>4, <2>5, FewCalls
    <3> QED
      BY <1>2, <2>2, <3>1 DEF CallsFit
  <2>7. calm => ChainFits(e)'
    BY <1>2, <1>3, <2>3, <2>4 DEF ChainFits, Rest, Edits
  <2>8. OneChain'
    BY <1>2, <2>2, <2>4, <2>7, ChainGoesOn
  <2> QED
    BY <1>4, <2>6, <2>8 DEF IInv
<1> QED
  BY <1>5, <1>6

\* Signing in and signing up start a chain in the same way.
LEMMA TappedKeeps ==
  ASSUME IInv, screen = "login", MayAct(1),
         NEW kind \in {"signInFetch", "signUpFetch"}, NEW e \in Emails, NEW p \in Passwords,
         pending' = Append(pending, Call(kind, e, p, None)),
         UNCHANGED <<calm, auth, users, authUser, currentUser, screen>>
  PROVE  IInv'
<1>1. /\ Typed /\ CallsFit /\ OneAccountPerEmail /\ OneDocPerEmail /\ AddressesHaveAccounts
      /\ TabsHaveUser /\ OneChain
  BY DEF IInv
<1>2. Len(pending) + 1 <= MaxCalls /\ (calm => pending = <<>>)
  BY DEF MayAct, Quiet
<1>3. calm => Rest
  BY <1>1, <1>2 DEF OneChain
<1>4. PICK c : c = Call(kind, e, p, None)
  OBVIOUS
<1>5. c \in Calls /\ c.kind = kind /\ c.email = e /\ c.password = p
  <2>1. kind \in Kinds /\ None \in Subjects
    BY DEF Kinds, Subjects
  <2> QED
    BY <1>4, <2>1, NewCall
<1>6. pending' = pending \o <<c>>
  <2>1. pending \in Seq(Calls)
    BY <1>1 DEF CallsFit, Flight
  <2> QED
    BY <1>4, <1>5, <2>1, AppendIsConcat
<1>7. c.kind \in {"signInFetch", "signUpFetch"}
  BY <1>5
<1>8. Fits(c, calm, DOMAIN auth, DOMAIN users, authUser, currentUser)
  BY <1>5, <1>7 DEF Fits, Edits
<1>9. /\ Flight(pending', calm, DOMAIN auth, DOMAIN users, authUser, currentUser)
      /\ Len(pending) = 0 => pending' = <<c>>
  <2>1. /\ <<c>> \in Seq(Calls) /\ Len(<<c>>) = 1 /\ DOMAIN <<c>> = {1} /\ <<c>>[1] = c
    BY <1>5, FewCalls
  <2>2. PICK new : new = <<c>>
    OBVIOUS
  <2>3. /\ new \in Seq(Calls) /\ Len(pending) + Len(new) <= MaxCalls
        /\ \A j \in DOMAIN new : /\ new[j].kind # "createUser"
                                 /\ Fits(new[j], calm, DOMAIN auth, DOMAIN users, authUser, currentUser)
    BY <1>2, <1>7, <1>8, <2>1, <2>2
  <2> QED
    BY <1>1, <1>6, <2>2, <2>3, AddedKeeps
<1>10. CallsFit'
  BY <1>9 DEF CallsFit
<1>11. pending' = <<c>> \/ ~calm
  BY <1>2, <1>9, EmptySeq
<1>12. calm => ChainFits(c)'
  BY <1>3, <1>7 DEF ChainFits, Rest, Edits
<1>13. OneChain'
  BY <1>5, <1>11, <1>12, ChainGoesOn
<1> QED
  BY <1>1, <1>10, <1>13
     DEF IInv, Typed, OneAccountPerEmail, OneDocPerEmail, AddressesHaveAccounts, TabsHaveUser

\* Another screen covers the login controller: the calls stay, none of them
\* can bring up the tabs, and no session is needed for them.
LEMMA LogoutKeeps ==
  ASSUME IInv, logoutButtonTapped
  PROVE  IInv'
<1> DEFINE s == [i \in DOMAIN pending |-> [pending[i] EXCEPT !.onTop = FALSE]]
<1>1. /\ Typed /\ CallsFit /\ OneAccountPerEmail /\ OneDocPerEmail /\ AddressesHaveAccounts /\ OneChain
  BY DEF IInv
<1>2. /\ calm => pending = <<>>
      /\ authUser' = None /\ screen' = "login"
      /\ UNCHANGED <<calm, auth, users, currentUser>>
      /\ pending' = s
  BY DEF logoutButtonTapped, Quiet
<1>3. /\ Typed' /\ OneAccountPerEmail' /\ OneDocPerEmail' /\ AddressesHaveAccounts' /\ TabsHaveUser'
  BY <1>1, <1>2 DEF Typed, OneAccountPerEmail, OneDocPerEmail, AddressesHaveAccounts, TabsHaveUser
<1>4. /\ pending \in Seq(Calls) /\ Len(pending) \in Nat /\ Len(pending) <= MaxCalls
      /\ DOMAIN pending = 1..Len(pending) /\ \A i \in DOMAIN pending : pending[i] \in Calls
  <2>1. pending \in Seq(Calls) /\ Len(pending) <= MaxCalls
    BY <1>1 DEF CallsFit, Flight
  <2>2. Len(pending) \in Nat /\ DOMAIN pending = 1..Len(pending)
    BY <2>1, LenProperties
  <2> QED
    BY <2>1, <2>2, ElementOfSeq
<1>5. ASSUME NEW i \in DOMAIN pending
      PROVE  /\ s[i] \in Calls /\ s[i].kind = pending[i].kind /\ s[i].email = pending[i].email
             /\ s[i].password = pending[i].password /\ s[i].subject = pending[i].subject
             /\ s[i].onTop = FALSE
  <2>1. pending[i] \in Calls /\ s[i] = [pending[i] EXCEPT !.onTop = FALSE]
    BY <1>4
  <2> QED
    BY <2>1 DEF Calls
<1>6. s \in [1..Len(pending) -> Calls]
  BY <1>4, <1>5
<1>7. DOMAIN s = DOMAIN pending
  OBVIOUS
<1> HIDE DEF s
<1>8. s \in Seq(Calls)
  BY <1>4, <1>6, SeqDef
<1>9. Len(s) = Len(pending)
  BY <1>4, <1>7, <1>8, LenProperties
<1>10. ASSUME NEW i \in DOMAIN s
       PROVE  Fits(s[i], calm, DOMAIN auth, DOMAIN users, None, currentUser)
  <2>1. Fits(pending[i], calm, DOMAIN auth, DOMAIN users, authUser, currentUser)
    BY <1>1, <1>7 DEF CallsFit, Flight
  <2> QED
    BY <1>5, <1>7, <2>1 DEF Fits
<1>11. ASSUME NEW i \in DOMAIN s, NEW j \in DOMAIN s, s[i].kind = "createUser", s[j].kind = "createUser",
              s[i].subject = s[j].subject
       PROVE  i = j
  <2>1. /\ pending[i].kind = "createUser" /\ pending[j].kind = "createUser"
        /\ pending[i].subject = pending[j].subject
    BY <1>5, <1>7, <1>11
  <2> QED
    BY <1>1, <1>7, <2>1 DEF CallsFit, Flight
<1>12. CallsFit'
  <2>1. Flight(s, calm, DOMAIN auth, DOMAIN users, None, currentUser)
    BY <1>4, <1>8, <1>9, <1>10, <1>11 DEF Flight
  <2> QED
    BY <1>2, <2>1 DEF CallsFit
<1>13. calm => pending' = <<>>
  BY <1>2, <1>8, <1>9, EmptySeq
<1>14. calm => Rest'
  BY <1>1, <1>2 DEF OneChain, Rest
<1>15. OneChain'
  BY <1>2, <1>13, <1>14, ChainEnds
<1> QED
  BY <1>3, <1>12, <1>15 DEF IInv

LEMMA SaveTappedKeeps ==
  ASSUME IInv, NEW e \in Emails \cup {None}, NEW p \in Passwords \cup {None}, saveButtonTapped(e, p)
  PROVE  IInv'
<1> DEFINE c == Call("editAccount", e, None, authUser)
           d == Call("editAccount", None, p, authUser)
           edits == (IF e = None THEN <<>> ELSE <<c>>) \o (IF p = None THEN <<>> ELSE <<d>>)
<1>1. /\ Typed /\ CallsFit /\ OneAccountPerEmail /\ OneDocPerEmail /\ AddressesHaveAccounts
      /\ TabsHaveUser /\ OneChain
  BY DEF IInv
<1>2. /\ screen = "tabs"
      /\ IF calm THEN currentUser.email = auth[authUser].email ELSE e = None
      /\ Len(pending) + Len(edits) <= MaxCalls
      /\ calm => pending = <<>> /\ Len(edits) <= 1
      /\ pending' = pending \o edits
      /\ UNCHANGED <<calm, auth, users, authUser, currentUser, screen>>
  BY DEF saveButtonTapped, MayAct, Quiet
<1>3. authUser \in DOMAIN auth /\ authUser \in Subjects /\ None \in Subjects /\ "editAccount" \in Kinds
  BY <1>1, <1>2 DEF Typed, TabsHaveUser, Subjects, Kinds
<1>4. /\ c \in Calls /\ c.kind = "editAccount" /\ c.email = e /\ c.subject = authUser
      /\ d \in Calls /\ d.kind = "editAccount" /\ d.email = None /\ d.subject = authUser
  BY <1>3, NewCall
<1> HIDE DEF c, d
<1>5. PICK x : x = IF e = None THEN <<>> ELSE <<c>>
  OBVIOUS
<1>6. PICK y : y = IF p = None THEN <<>> ELSE <<d>>
  OBVIOUS
<1>7. /\ x \in Seq(Calls) /\ Len(x) \in {0, 1} /\ (Len(x) = 1 => x[1] = c /\ e # None)
      /\ y \in Seq(Calls) /\ Len(y) \in {0, 1} /\ (Len(y) = 1 => y[1] = d)
  BY <1>4, <1>5, <1>6, FewCalls, EmptySeq
<1>8. edits = x \o y
  BY <1>5, <1>6
<1> HIDE DEF edits
<1>9. /\ edits \in Seq(Calls) /\ Len(edits) = Len(x) + Len(y) /\ DOMAIN edits = 1..(Len(x) + Len(y))
      /\ \A j \in DOMAIN edits : edits[j] = IF j <= Len(x) THEN x[j] ELSE y[j - Len(x)]
  <2>1. /\ edits \in Seq(Calls) /\ Len(edits) = Len(x) + Len(y)
        /\ \A j \in 1..(Len(x) + Len(y)) : edits[j] = IF j <= Len(x) THEN x[j] ELSE y[j - Len(x)]
    BY <1>7, <1>8, ConcatProperties
  <2>2. DOMAIN edits = 1..(Len(x) + Len(y))
    BY <2>1, LenProperties
  <2> QED
    BY <2>1, <2>2
<1>10. ASSUME NEW j \in DOMAIN edits PROVE edits[j] = d \/ (edits[j] = c /\ e # None)
  <2>0. j \in 1..(Len(x) + Len(y)) /\ edits[j] = IF j <= Len(x) THEN x[j] ELSE y[j - Len(x)]
    BY <1>9
  <2>1. CASE Len(x) = 0
    <3>1. j = 1 /\ Len(y) = 1 /\ edits[j] = y[1]
      BY <1>7, <2>0, <2>1
    <3> QED
      BY <1>7, <3>1
  <2>2. CASE Len(x) = 1
    <3>1. \/ j = 1 /\ edits[j] = x[1]
          \/ j = 2 /\ Len(y) = 1 /\ edits[j] = y[1]
      BY <1>7, <2>0, <2>2
    <3> QED
      BY <1>7, <2>2, <3>1
  <2> QED
    BY <1>7, <2>1, <2>2
<1>11. /\ c.kind # "createUser" /\ (e # None => Fits(c, calm, DOMAIN auth, DOMAIN users, authUser, currentUser))
       /\ d.kind # "createUser" /\ Fits(d, calm, DOMAIN auth, DOMAIN users, authUser, currentUser)
  BY <1>2, <1>3, <1>4 DEF Fits, Edits
<1>12. \A j \in DOMAIN edits : /\ edits[j].kind # "createUser"
                               /\ Fits(edits[j], calm, DOMAIN auth, DOMAIN users, authUser, currentUser)
  BY <1>10, <1>11
<1>13. /\ Flight(pending', calm, DOMAIN auth, DOMAIN users, authUser, currentUser)
       /\ Len(pending) = 0 => pending' = edits
  BY <1>1, <1>2, <1>9, <1>12, AddedKeeps
<1>14. CallsFit'
  BY <1>2, <1>13 DEF CallsFit
<1>15. calm => pending' = edits
  BY <1>2, <1>13, EmptySeq
<1>16. calm => Rest /\ Same
  BY <1>1, <1>2 DEF OneChain, Rest
<1>17. ASSUME calm PROVE OneChain'
  <2>1. CASE Len(edits) = 0
    <3>1. pending' = <<>>
      BY <1>9, <1>15, <1>17, <2>1, EmptySeq
    <3>2. Rest'
      BY <1>2, <1>16, <1>17 DEF Rest, Same
    <3> QED
      BY <1>2, <3>1, <3>2, ChainEnds
  <2>2. CASE Len(edits) = 1
    <3>1. 1 \in DOMAIN edits
      BY <1>9, <2>2
    <3>2. PICK k : k = edits[1]
      OBVIOUS
    <3>3. k \in Calls /\ k.kind = "editAccount" /\ k.subject = authUser
      BY <1>4, <1>10, <3>1, <3>2
    <3>4. pending' = <<k>>
      <4>1. edits = <<k>>
        <5>1. \A z \in Seq(Calls) : Len(z) = 1 => z = <<z[1]>>
          OBVIOUS
        <5> QED
          BY <1>9, <2>2, <3>2, <5>1
      <4> QED
        BY <1>15, <1>17, <4>1
    <3>5. ChainFits(k)'
      BY <1>2, <1>16, <1>17, <3>3 DEF ChainFits, Rest, Same, Edits
    <3> QED
      BY <1>2, <3>3, <3>4, <3>5, ChainGoesOn
  <2> QED
    BY <1>2, <1>7, <1>9, <1>17, <2>1, <2>2
<1>18. OneChain'
  BY <1>2, <1>17 DEF OneChain
<1> QED
  BY <1>1, <1>2, <1>14, <1>18
     DEF IInv, Typed, OneAccountPerEmail, OneDocPerEmail, AddressesHaveAccounts, TabsHaveUser

-----------------------------------------------------------------------------
(* Invariance *)

LEMMA InitHolds == Init => IInv
<1> SUFFICES ASSUME Init PROVE IInv
  OBVIOUS
<1>1. DOMAIN auth = {} /\ auth \in [{} -> Login] /\ DOMAIN users = {} /\ users \in [{} -> Login]
  BY EmptySeq DEF Init
<1>2. CallsFit
  BY FewCalls DEF Init, CallsFit
<1>3. pending = <<>> /\ authUser = None /\ currentUser = None /\ screen = "login" /\ calm \in BOOLEAN
  BY DEF Init
<1>4. Typed
  BY <1>1, <1>3 DEF Typed
<1>5. OneChain
  BY <1>1, <1>3, EmptySeq DEF OneChain, Rest
<1> QED
  BY <1>1, <1>2, <1>3, <1>4, <1>5
     DEF IInv, OneAccountPerEmail, OneDocPerEmail, AddressesHaveAccounts, TabsHaveUser

LEMMA StepKeeps == IInv /\ [Next]_vars => IInv'
<1> SUFFICES ASSUME IInv, [Next]_vars PROVE IInv'
  OBVIOUS
<1>1. CASE Relaunch
  BY <1>1, RelaunchKeeps
<1>2. CASE logoutButtonTapped
  BY <1>2, LogoutKeeps
<1>3. ASSUME NEW e \in Emails, NEW p \in Passwords, signInTapped(e, p) \/ signUpTapped(e, p)
      PROVE  IInv'
  <2>1. PICK kind \in {"signInFetch", "signUpFetch"} :
          /\ screen = "login" /\ MayAct(1)
          /\ pending' = Append(pending, Call(kind, e, p, None))
          /\ UNCHANGED <<calm, auth, users, authUser, currentUser, screen>>
    BY <1>3 DEF signInTapped, signUpTapped
  <2> QED
    BY <2>1, TappedKeeps
<1>4. ASSUME NEW e \in Emails \cup {None}, NEW p \in Passwords \cup {None}, saveButtonTapped(e, p)
      PROVE  IInv'
  BY <1>4, SaveTappedKeeps
<1>5. ASSUME NEW i \in 1..MaxCalls, Answer(i)
      PROVE  IInv'
  BY <1>5, LaunchFetchedKeeps, SignInFetchedKeeps, SignedInKeeps, SignUpFetchedKeeps,
     AccountCreatedKeeps, UserCreatedKeeps, AccountEditedKeeps, UserEditedKeeps DEF Answer
<1>6. ASSUME NEW i \in 1..MaxCalls, Fails(i)
      PROVE  IInv'
  BY <1>6, FailsKeeps
<1>7. CASE UNCHANGED vars
  BY <1>7 DEF vars, IInv, Typed, CallsFit, OneAccountPerEmail, OneDocPerEmail, AddressesHaveAccounts,
     TabsHaveUser, OneChain, Rest, Same, ChainFits, LoginOf, Edited
<1> QED
  BY <1>1, <1>2, <1>3, <1>4, <1>5, <1>6, <1>7 DEF Next

LEMMA Invariance == Spec => []IInv
BY InitHolds, StepKeeps, PTL DEF Spec

-----------------------------------------------------------------------------
(* What the invariant says *)

\* Every part of the state has its type, and no call is about an account or a
\* document that does not exist, however calls are answered, refused and made.
THEOREM TypeCorrect == Spec => []TypeOK
<1>1. IInv => TypeOK
  <2> SUFFICES ASSUME IInv PROVE TypeOK
    OBVIOUS
  <2>1. Typed /\ CallsFit
    BY DEF IInv
  <2>2. Range(auth) \subseteq Login /\ Range(users) \subseteq Login
    BY <2>1 DEF Typed, Range
  <2>3. ASSUME NEW i \in DOMAIN pending
        PROVE  /\ pending[i].kind \in Kinds
               /\ pending[i].email \in Emails \cup {None}
               /\ pending[i].password \in Passwords \cup {None}
               /\ pending[i].kind = "createUser" => pending[i].subject \in DOMAIN users
               /\ pending[i].kind = "editAccount" => pending[i].subject \in DOMAIN auth
    <3>1. pending[i] \in Calls /\ Fits(pending[i], calm, DOMAIN auth, DOMAIN users, authUser, currentUser)
      BY CallFacts
    <3> QED
      BY <3>1 DEF Calls, Fits
  <2>4. Len(pending) <= MaxCalls
    BY <2>1 DEF CallsFit, Flight
  <2> QED
    BY <2>1, <2>2, <2>3, <2>4 DEF TypeOK, Typed
<1> QED
  BY <1>1, Invariance, PTL

\* Any number of sign-ups racing for an address leave one document with it, as
\* long as an address is edited only between chains of calls, once after a sign-in.
THEOREM OneDocument == Spec => []OneDocPerEmail
<1>1. IInv => OneDocPerEmail
  BY DEF IInv
<1> QED
  BY <1>1, Invariance, PTL

\* The tabs always have a current user and a session, and these are one person's
\* between the chains of calls.
THEOREM TabsAgree == Spec => []SameUser
<1>1. IInv => SameUser
  BY DEF IInv, SameUser, TabsHaveUser, OneChain, Rest, Same, Quiet
<1> QED
  BY <1>1, Invariance, PTL

\* What a document says can be signed in with, between the chains of calls.
THEOREM DocumentsSignIn == Spec => []LoginsAgree
<1>1. IInv => LoginsAgree
  BY DEF IInv, LoginsAgree, OneChain, Rest, Quiet
<1> QED
  BY <1>1, Invariance, PTL
=============================================================================
