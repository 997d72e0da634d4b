------------------------ MODULE FirestoreWatchProofs -------------------------
(***************************************************************************)
(* Proofs about FirestoreWatch for every finite set of documents, however  *)
(* often listens begin and end, streams break and the result changes, and  *)
(* whatever waits in the inbox.                                            *)
(***************************************************************************)
EXTENDS FirestoreWatch, FiniteSetTheorems, SequenceTheorems, TLAPS

-----------------------------------------------------------------------------
(* The inductive invariant *)

Versions == 0..Len(results)
Request == [kind : {"watch", "unwatch"}, token : Versions]
Responses == {"added", "removed"}
MessageKinds == Responses \cup {"in", "out", "current", "snapshot", "reset", "filter"}

\* The messages, and those of them that answer no request.
Messages ==
  {m \in [kind : MessageKinds, key : Keys \cup {""}, version : Versions, count : Nat] :
     m.kind \in {"in", "out"} => m.key \in Keys}
News == {m \in Messages : m.kind \notin Responses}

Changes == [Keys -> {"none", "added", "modified", "removed"}]
Target == [due : Nat, changes : Changes, changed : BOOLEAN, current : BOOLEAN, token : Versions]
View == [keys : SUBSET Keys, current : BOOLEAN]

Client ==
  [listening : BOOLEAN, token : Versions, stored : Versions,
   stream : {"closed", "starting", "open"}, view : View, target : Target,
   mismatch : BOOLEAN, sent : Seq(Request), inbox : Seq(Messages)]

Typed ==
  /\ results \in Seq(SUBSET Keys) /\ Len(results) \in 1..MaxVersions
  /\ {served, shown} \subseteq Versions
  /\ client \in Client
  /\ disk \in [keys : SUBSET Keys, token : Versions, seen : Versions]
  /\ unmended \in BOOLEAN /\ spoilt \in BOOLEAN
  /\ listens \in 0..MaxListens /\ breaks \in 0..MaxBreaks

\* Where in a sequence of messages the answers are.
Answers(s) == {i \in DOMAIN s : s[i].kind \in Responses}

\* The answers due are those under way.
InStep(c) == c.target.due = Len(c.sent) + Cardinality(Answers(c.inbox))

\* Without an open stream nothing is under way or gathered.
Closed(c) ==
  c.stream # "open" => c.target = NewTarget /\ c.sent = <<>> /\ c.inbox = <<>>

\* What is gathered fits the view.
Fits(target, view) ==
  /\ With("added", target.changes) \cap view.keys = {}
  /\ With("modified", target.changes) \cup With("removed", target.changes) \subseteq view.keys

Fit(c) == IsActiveTarget(c) => Fits(c.target, c.view)

\* Whoever is served has an open stream.
Serving == served # 0 => client.stream = "open"

IInv ==
  Typed /\ InStep(client) /\ Closed(client) /\ Fit(client) /\ Serving /\ DiskFollowsView

-----------------------------------------------------------------------------
(* Sequences of messages *)

\* A function on 1..n is a sequence.
LEMMA FunctionIsSeq ==
  ASSUME NEW S, NEW n \in Nat, NEW f \in [1..n -> S]
  PROVE  f \in Seq(S) /\ Len(f) = n
<1>1. f \in Seq(S)
  BY SeqDef
<1>2. DOMAIN f = 1..n /\ DOMAIN f = 1..Len(f) /\ Len(f) \in Nat
  BY <1>1, LenProperties
<1> QED
  BY <1>1, <1>2

\* A sequence of one.
LEMMA OneElement ==
  ASSUME NEW S, NEW e \in S
  PROVE  <<e>> \in Seq(S) /\ Len(<<e>>) = 1 /\ <<e>>[1] = e /\ DOMAIN <<e>> = 1..1
<1>1. <<>> \in Seq(S) /\ Len(<<>>) = 0
  BY EmptySeq
<1>2. <<e>> = Append(<<>>, e)
  OBVIOUS
<1>3. /\ Append(<<>>, e) \in Seq(S) /\ Len(Append(<<>>, e)) = Len(<<>>) + 1
      /\ Append(<<>>, e)[Len(<<>>) + 1] = e
  BY <1>1, AppendProperties
<1>4. <<e>> \in Seq(S) /\ Len(<<e>>) = 1 /\ <<e>>[1] = e
  BY <1>1, <1>2, <1>3
<1> QED
  BY <1>4, LenProperties

\* Where an element of a concatenation comes from.
LEMMA ConcatElement ==
  ASSUME NEW S, NEW s \in Seq(S), NEW t \in Seq(S)
  PROVE  /\ s \o t \in Seq(S) /\ Len(s \o t) = Len(s) + Len(t) /\ Len(s) \in Nat /\ Len(t) \in Nat
         /\ \A i \in 1..Len(s) : i \in 1..Len(s \o t) /\ (s \o t)[i] = s[i]
         /\ \A i \in 1..Len(t) : i + Len(s) \in 1..Len(s \o t) /\ (s \o t)[i + Len(s)] = t[i]
<1>1. Len(s) \in Nat /\ Len(t) \in Nat
  BY LenProperties
<1>2. /\ s \o t \in Seq(S) /\ Len(s \o t) = Len(s) + Len(t)
      /\ \A i \in 1..(Len(s) + Len(t)) :
           (s \o t)[i] = IF i <= Len(s) THEN s[i] ELSE t[i - Len(s)]
  BY ConcatProperties
<1>3. \A i \in 1..Len(s) : i \in 1..Len(s \o t) /\ (s \o t)[i] = s[i]
  BY <1>1, <1>2
<1>4. ASSUME NEW i \in 1..Len(t)
      PROVE  i + Len(s) \in 1..Len(s \o t) /\ (s \o t)[i + Len(s)] = t[i]
  <2>1. i + Len(s) \in 1..(Len(s) + Len(t)) /\ ~(i + Len(s) <= Len(s)) /\ i + Len(s) - Len(s) = i
    BY <1>1
  <2> QED
    BY <1>2, <2>1
<1> QED
  BY <1>1, <1>2, <1>3, <1>4

\* The tail has the elements but the first, one place before.
LEMMA TailElement ==
  ASSUME NEW S, NEW s \in Seq(S), s # <<>>
  PROVE  /\ Tail(s) \in Seq(S) /\ Len(s) \in Nat /\ Len(Tail(s)) = Len(s) - 1
         /\ 1 \in 1..Len(s) /\ Head(s) = s[1] /\ Head(s) \in S
         /\ \A i \in 1..Len(Tail(s)) : i + 1 \in 1..Len(s) /\ Tail(s)[i] = s[i + 1]
<1>1. Len(s) \in Nat \ {0}
  BY EmptySeq
<1>2. /\ Tail(s) \in Seq(S) /\ Len(Tail(s)) = Len(s) - 1 /\ Head(s) \in S
      /\ \A i \in 1..Len(Tail(s)) : Tail(s)[i] = s[i + 1]
  BY HeadTailProperties
<1>3. 1 \in 1..Len(s) /\ Head(s) = s[1]
  BY <1>1
<1> QED
  BY <1>1, <1>2, <1>3

\* The answers in a sequence are finitely many.
LEMMA AnswersFinite ==
  ASSUME NEW s \in Seq(Messages)
  PROVE  /\ IsFiniteSet(Answers(s)) /\ Cardinality(Answers(s)) \in Nat
         /\ Answers(s) = {i \in 1..Len(s) : s[i].kind \in Responses}
<1>1. Len(s) \in Nat /\ DOMAIN s = 1..Len(s)
  BY LenProperties
<1>2. Answers(s) = {i \in 1..Len(s) : s[i].kind \in Responses}
  BY <1>1 DEF Answers
<1>3. IsFiniteSet(1..Len(s))
  BY <1>1, FS_Interval
<1>4. Answers(s) \in SUBSET (1..Len(s))
  BY <1>2
<1>5. IsFiniteSet(Answers(s))
  BY <1>3, <1>4, FS_Subset
<1> QED
  BY <1>2, <1>5, FS_CardinalityType

\* The answers in a concatenation are those in its parts.
LEMMA CountConcat ==
  ASSUME NEW s \in Seq(Messages), NEW t \in Seq(Messages)
  PROVE  /\ s \o t \in Seq(Messages)
         /\ Cardinality(Answers(s \o t)) = Cardinality(Answers(s)) + Cardinality(Answers(t))
<1> DEFINE n == Len(s)
           A == Answers(s)
           T == Answers(t)
           f == [i \in T |-> i + n]
           B == {f[i] : i \in T}
<1>1. /\ s \o t \in Seq(Messages) /\ Len(s \o t) = n + Len(t) /\ n \in Nat /\ Len(t) \in Nat
      /\ \A i \in 1..n : i \in 1..Len(s \o t) /\ (s \o t)[i] = s[i]
      /\ \A i \in 1..Len(t) : i + n \in 1..Len(s \o t) /\ (s \o t)[i + n] = t[i]
  BY ConcatElement
<1>2. /\ A = {i \in 1..n : s[i].kind \in Responses} /\ IsFiniteSet(A) /\ Cardinality(A) \in Nat
      /\ T = {i \in 1..Len(t) : t[i].kind \in Responses} /\ IsFiniteSet(T) /\ Cardinality(T) \in Nat
      /\ Answers(s \o t) = {i \in 1..Len(s \o t) : (s \o t)[i].kind \in Responses}
  BY <1>1, AnswersFinite
<1> HIDE DEF n, A, T
<1>3. Answers(s \o t) = A \cup B
  <2>1. A \subseteq Answers(s \o t)
    BY <1>1, <1>2
  <2>2. ASSUME NEW i \in T PROVE f[i] \in Answers(s \o t)
    <3>1. i \in 1..Len(t) /\ t[i].kind \in Responses /\ f[i] = i + n
      BY <1>2
    <3>2. i + n \in 1..Len(s \o t) /\ (s \o t)[i + n] = t[i]
      BY <1>1, <3>1
    <3> QED
      BY <1>2, <3>1, <3>2
  <2>3. ASSUME NEW i \in Answers(s \o t) PROVE i \in A \cup B
    <3>1. i \in 1..(n + Len(t)) /\ (s \o t)[i].kind \in Responses
      BY <1>1, <1>2
    <3>2. CASE i <= n
      <4>1. i \in 1..n
        BY <1>1, <3>1, <3>2
      <4> QED
        BY <1>1, <1>2, <3>1, <4>1
    <3>3. CASE ~(i <= n)
      <4>1. i - n \in 1..Len(t) /\ (i - n) + n = i
        BY <1>1, <3>1, <3>3
      <4>2. (s \o t)[i] = t[i - n]
        BY <1>1, <4>1
      <4>3. i - n \in T /\ f[i - n] = i
        BY <1>2, <3>1, <4>1, <4>2
      <4> QED
        BY <4>3
    <3> QED
      BY <3>2, <3>3
  <2> QED
    BY <2>1, <2>2, <2>3
<1>4. A \cap B = {}
  <2>1. \A i \in T : f[i] > n
    BY <1>1, <1>2
  <2>2. \A i \in A : ~(i > n)
    BY <1>1, <1>2
  <2> HIDE DEF f
  <2> QED
    BY <2>1, <2>2
<1>5. IsFiniteSet(B) /\ Cardinality(B) = Cardinality(T)
  <2>1. f \in [T -> B]
    OBVIOUS
  <2>2. \A i, j \in T : f[i] = f[j] => i = j
    BY <1>1, <1>2
  <2>3. \A b \in B : \E i \in T : f[i] = b
    OBVIOUS
  <2> HIDE DEF f, B
  <2>4. f \in Injection(T, B)
    BY <2>1, <2>2 DEF Injection, IsInjective
  <2>5. f \in Surjection(T, B)
    BY <2>1, <2>3 DEF Surjection
  <2>6. ExistsBijection(T, B)
    BY <2>4, <2>5 DEF ExistsBijection, Bijection
  <2> QED
    BY <1>2, <2>6, FS_Bijection
<1> HIDE DEF B
<1>6. Cardinality(A \cup B) = Cardinality(A) + Cardinality(B) - Cardinality(A \cap B)
  BY <1>2, <1>5, FS_Union
<1>7. Cardinality(A \cap B) = 0
  BY <1>4, FS_EmptySet
<1>8. Cardinality(Answers(s \o t)) = Cardinality(A) + Cardinality(T)
  <2>1. Cardinality(A \cup B) = Cardinality(A) + Cardinality(T) - 0
    BY <1>5, <1>6, <1>7, Zenon
  <2>2. Cardinality(A) \in Nat /\ Cardinality(T) \in Nat
    BY <1>2
  <2>3. Cardinality(A \cup B) = Cardinality(A) + Cardinality(T)
    BY <2>1, <2>2
  <2> QED
    BY <1>3, <2>3, Zenon
<1>9. Cardinality(Answers(s \o t)) = Cardinality(Answers(s)) + Cardinality(Answers(t))
  BY <1>8 DEF A, T
<1> QED
  BY <1>1, <1>9

\* One message is one answer or none.
LEMMA CountOne ==
  ASSUME NEW m \in Messages
  PROVE  /\ <<m>> \in Seq(Messages)
         /\ Cardinality(Answers(<<m>>)) = IF m.kind \in Responses THEN 1 ELSE 0
<1>1. <<m>> \in Seq(Messages) /\ Len(<<m>>) = 1 /\ <<m>>[1] = m
  BY OneElement
<1>2. Answers(<<m>>) = {i \in 1..1 : <<m>>[i].kind \in Responses}
  BY <1>1, AnswersFinite
<1>3. CASE m.kind \in Responses
  <2>1. Answers(<<m>>) = {1}
    BY <1>1, <1>2, <1>3
  <2> QED
    BY <1>1, <1>3, <2>1, FS_Singleton
<1>4. CASE m.kind \notin Responses
  <2>1. Answers(<<m>>) = {}
    BY <1>1, <1>2, <1>4
  <2> QED
    BY <1>1, <1>4, <2>1, FS_EmptySet
<1> QED
  BY <1>3, <1>4

\* News has no answers in it.
LEMMA CountNews ==
  ASSUME NEW s \in Seq(News)
  PROVE  s \in Seq(Messages) /\ Cardinality(Answers(s)) = 0
<1>1. s \in Seq(Messages)
  <2>1. News \subseteq Messages
    BY DEF News
  <2> QED
    BY <2>1, SeqMonotonic
<1>2. \A i \in 1..Len(s) : s[i].kind \notin Responses
  <2>1. \A i \in 1..Len(s) : s[i] \in News
    BY ElementOfSeq
  <2> QED
    BY <2>1 DEF News
<1>3. Answers(s) = {}
  BY <1>1, <1>2, AnswersFinite
<1> QED
  BY <1>1, <1>3, FS_EmptySet

\* The tail has one answer less if the head is one.
LEMMA CountTail ==
  ASSUME NEW s \in Seq(Messages), s # <<>>
  PROVE  Cardinality(Answers(s)) =
           Cardinality(Answers(Tail(s))) + (IF Head(s).kind \in Responses THEN 1 ELSE 0)
<1> DEFINE h == <<Head(s)>>
           t == Tail(s)
<1>1. /\ t \in Seq(Messages) /\ Len(s) \in Nat /\ Len(t) = Len(s) - 1
      /\ 1 \in 1..Len(s) /\ Head(s) = s[1] /\ Head(s) \in Messages
      /\ \A i \in 1..Len(t) : i + 1 \in 1..Len(s) /\ t[i] = s[i + 1]
  BY TailElement
<1>2. h \in Seq(Messages) /\ Len(h) = 1 /\ h[1] = s[1]
  BY <1>1, OneElement
<1> HIDE DEF t
<1>3. s = h \o t
  <2> HIDE DEF h
  <2>1. /\ h \o t \in Seq(Messages) /\ Len(h \o t) = Len(h) + Len(t)
        /\ \A i \in 1..Len(h) : (h \o t)[i] = h[i]
        /\ \A i \in 1..Len(t) : (h \o t)[i + Len(h)] = t[i]
    <3>1. h \in Seq(Messages) /\ t \in Seq(Messages)
      BY <1>1, <1>2
    <3> QED
      BY <3>1, ConcatElement
  <2>2. \A i \in 1..Len(s) : s[i] = (h \o t)[i]
    <3> TAKE i \in 1..Len(s)
    <3>1. CASE i = 1
      BY <1>2, <2>1, <3>1
    <3>2. CASE i # 1
      <4>1. i - 1 \in 1..Len(t) /\ (i - 1) + 1 = i
        BY <1>1, <3>2
      <4>2. t[i - 1] = s[i] /\ (h \o t)[(i - 1) + 1] = t[i - 1]
        BY <1>1, <1>2, <2>1, <4>1
      <4> QED
        BY <4>1, <4>2
    <3> QED
      BY <3>1, <3>2
  <2>3. Len(s) = Len(h \o t)
    BY <1>1, <1>2, <2>1
  <2> QED
    BY <2>1, <2>2, <2>3, SeqEqual
<1>4. Cardinality(Answers(h \o t)) = Cardinality(Answers(h)) + Cardinality(Answers(t))
  BY <1>1, <1>2, CountConcat
<1>5. Cardinality(Answers(h)) = IF Head(s).kind \in Responses THEN 1 ELSE 0
  BY <1>1, CountOne
<1>6. Cardinality(Answers(t)) \in Nat
  BY <1>1, AnswersFinite
<1>7. Cardinality(Answers(h)) + Cardinality(Answers(t)) = Cardinality(Answers(t)) + Cardinality(Answers(h))
  BY <1>5, <1>6
<1> QED
  BY <1>3, <1>4, <1>5, <1>7, Zenon DEF t

-----------------------------------------------------------------------------
(* The aggregator *)

\* Nothing gathered fits any view, and a new target is a target.
LEMMA NothingGathered ==
  ASSUME Len(results) \in Nat
  PROVE  /\ NoChanges \in Changes /\ NewTarget \in Target
         /\ NewTarget.due = 0 /\ NewTarget.changes = NoChanges
         /\ \A target, view : target.changes = NoChanges => Fits(target, view)
<1>1. NoChanges \in Changes
  BY DEF NoChanges, Changes
<1>2. 0 \in Versions /\ 0 \in Nat
  BY DEF Versions
<1>3. NewTarget \in Target /\ NewTarget.due = 0 /\ NewTarget.changes = NoChanges
  BY <1>1, <1>2 DEF NewTarget, Target, NoToken
<1>4. ASSUME NEW target, NEW view, target.changes = NoChanges
      PROVE  Fits(target, view)
  <2>1. /\ With("added", NoChanges) = {} /\ With("modified", NoChanges) = {}
        /\ With("removed", NoChanges) = {}
    BY DEF With, NoChanges
  <2> QED
    BY <1>4, <2>1 DEF Fits
<1> QED
  BY <1>1, <1>3, <1>4

\* An answer takes one off those due.
LEMMA ResponseChange ==
  ASSUME NEW c \in Client, c.target.due >= 1
  PROVE  LET T == [c.target EXCEPT !.due = c.target.due - 1]
         IN /\ T \in Target /\ T.due = c.target.due - 1
            /\ RecordTargetResponse(c) = [c EXCEPT !.target = T]
<1> DEFINE t == c.target
           n == t.due - 1
           T == [t EXCEPT !.due = n]
<1>1. t \in Target
  BY DEF Client
<1>2. n \in Nat
  BY <1>1 DEF Target
<1>3. RecordTargetResponse(c) = [c EXCEPT !.target = T]
  BY DEF RecordTargetResponse, Client
<1> HIDE DEF n, t
<1>4. T \in Target /\ T.due = n
  BY <1>1, <1>2 DEF Target
<1> QED
  BY <1>3, <1>4 DEF n, t

\* A document that is heard of may be new to the view, or changed.
LEMMA DocumentChange ==
  ASSUME Len(results) \in Nat, NEW c \in Client, NEW k \in Keys,
         NEW change \in {"none", "added", "modified", "removed"},
         change = "added" => k \notin c.view.keys,
         change \in {"modified", "removed"} => k \in c.view.keys
  PROVE  \E T \in Target :
           /\ T.due = c.target.due
           /\ AddDocumentChange(c, k, change) = [c EXCEPT !.target = T]
           /\ Fits(c.target, c.view) => Fits(T, c.view)
<1> DEFINE t == c.target
           X == [t.changes EXCEPT ![k] = change]
           T == [t EXCEPT !.changes[k] = change, !.changed = TRUE]
<1>1. t \in Target
  BY DEF Client
<1>2. T = [t EXCEPT !.changes = X, !.changed = TRUE]
  BY <1>1 DEF Target
<1>3. X \in Changes /\ \A j \in Keys : X[j] = IF j = k THEN change ELSE t.changes[j]
  BY <1>1 DEF Target, Changes
<1>4. AddDocumentChange(c, k, change) = [c EXCEPT !.target = T]
  BY DEF AddDocumentChange, Client
<1> HIDE DEF X, T, t
<1>5. T \in Target /\ T.due = t.due /\ T.changes = X
  BY <1>1, <1>2, <1>3 DEF Target
<1>6. Fits(t, c.view) => Fits(T, c.view)
  BY <1>3, <1>5 DEF Fits, With
<1> QED
  BY <1>4, <1>5, <1>6 DEF t

\* A reset takes all documents of the view back.
LEMMA ResetChange ==
  ASSUME Len(results) \in Nat, NEW c \in Client
  PROVE  LET T == [NewTarget EXCEPT !.changes = [k \in Keys |-> IF k \in c.view.keys THEN "removed" ELSE "none"]]
         IN /\ T \in Target /\ T.due = 0
            /\ ResetTarget(c) = [c EXCEPT !.target = T]
            /\ Fits(T, c.view)
<1> DEFINE X == [k \in Keys |-> IF k \in c.view.keys THEN "removed" ELSE "none"]
           T == [NewTarget EXCEPT !.changes = X]
<1>1. X \in Changes /\ \A j \in Keys : X[j] = IF j \in c.view.keys THEN "removed" ELSE "none"
  BY DEF Changes
<1>2. ResetTarget(c) = [c EXCEPT !.target = T]
  BY DEF ResetTarget
<1> HIDE DEF X
<1>3. NewTarget \in Target /\ NewTarget.due = 0
  BY NothingGathered
<1>4. T \in Target /\ T.due = 0 /\ T.changes = X
  BY <1>1, <1>3 DEF Target
<1> HIDE DEF T
<1>5. Fits(T, c.view)
  BY <1>1, <1>4 DEF Fits, With
<1> QED
  BY <1>2, <1>4, <1>5 DEF T, X

\* A token that comes is remembered.
LEMMA TokenChange ==
  ASSUME Len(results) \in Nat, NEW c \in Client, NEW token \in Versions
  PROVE  \E T \in Target :
           /\ T.due = c.target.due
           /\ UpdateResumeToken(c, token) = [c EXCEPT !.target = T]
           /\ Fits(c.target, c.view) => Fits(T, c.view)
<1> DEFINE T == [c.target EXCEPT !.token = token, !.changed = TRUE]
<1>1. c.target \in Target
  BY DEF Client
<1>2. T \in Target /\ T.due = c.target.due /\ T.changes = c.target.changes
  BY <1>1 DEF Target
<1>3. UpdateResumeToken(c, token) = [c EXCEPT !.target = T]
  BY DEF UpdateResumeToken, Client
<1> HIDE DEF T
<1>4. Fits(c.target, c.view) => Fits(T, c.view)
  BY <1>2 DEF Fits
<1> QED
  BY <1>2, <1>3, <1>4

\* What handling message m leaves of a client c: the target has changed, and an
\* answer is no longer due if the message is one.
Handled(c, m, d) ==
  /\ d \in Client
  /\ d.listening = c.listening /\ d.token = c.token /\ d.stored = c.stored
  /\ d.stream = c.stream /\ d.view = c.view /\ d.sent = c.sent /\ d.inbox = c.inbox
  /\ m.kind \in Responses => d.target.due = c.target.due - 1
  /\ m.kind \notin Responses => d.target.due = c.target.due
  /\ Fit(c) => Fit(d)

\* It does so when nothing but the target and the mismatch change.
LEMMA TargetHandled ==
  ASSUME NEW c \in Client, NEW m, NEW T \in Target, NEW b \in BOOLEAN, NEW d,
         d = [c EXCEPT !.target = T, !.mismatch = b],
         m.kind \in Responses => T.due = c.target.due - 1,
         m.kind \notin Responses => T.due = c.target.due,
         Fit(c) /\ T.due = 0 /\ c.listening => Fits(T, c.view)
  PROVE  Handled(c, m, d)
<1>1. /\ d \in Client /\ d.target = T
      /\ d.listening = c.listening /\ d.token = c.token /\ d.stored = c.stored
      /\ d.stream = c.stream /\ d.view = c.view /\ d.sent = c.sent /\ d.inbox = c.inbox
  BY DEF Client
<1>2. Fit(c) => Fit(d)
  BY <1>1 DEF Fit, IsActiveTarget
<1> QED
  BY <1>1, <1>2 DEF Handled

\* The same when the mismatch stays as it was.
LEMMA OnlyTargetHandled ==
  ASSUME NEW c \in Client, NEW m, NEW T \in Target, NEW d,
         d = [c EXCEPT !.target = T],
         m.kind \in Responses => T.due = c.target.due - 1,
         m.kind \notin Responses => T.due = c.target.due,
         Fit(c) /\ T.due = 0 /\ c.listening => Fits(T, c.view)
  PROVE  Handled(c, m, d)
<1>1. c.mismatch \in BOOLEAN /\ d = [c EXCEPT !.target = T, !.mismatch = c.mismatch]
  BY DEF Client
<1> QED
  BY <1>1, TargetHandled

\* With the last answer due, what was gathered is dropped.
LEMMA AnswerIsHandled ==
  ASSUME Len(results) \in Nat, NEW c \in Client, NEW m \in Messages,
         m.kind \in Responses, c.target.due >= 1
  PROVE  Handled(c, m, HandleWatchChange(c, m))
<1> DEFINE t == c.target
           a == [t EXCEPT !.due = t.due - 1]
           e == RecordTargetResponse(c)
           d == HandleWatchChange(c, m)
<1>1. NoChanges \in Changes /\ NewTarget \in Target /\ NewTarget.due = 0 /\ NewTarget.changes = NoChanges
  BY NothingGathered
<1>2. a \in Target /\ a.due = t.due - 1 /\ e = [c EXCEPT !.target = a]
  BY ResponseChange
<1>3. e \in Client /\ e.target = a
  <2> HIDE DEF a, e
  <2> QED
    BY <1>2 DEF Client
<1>4. /\ m.kind = "added" => d = HandleAdded(c)
      /\ m.kind = "removed" => d = HandleRemoved(c)
  BY DEF HandleWatchChange
<1>5. HandleAdded(c) = IF e.target.due = 0
                       THEN [e EXCEPT !.target.changes = NoChanges, !.target.changed = FALSE] ELSE e
  BY DEF HandleAdded
<1>6. HandleRemoved(c) = IF e.target.due = 0 THEN [e EXCEPT !.target = NewTarget] ELSE e
  BY DEF HandleRemoved
<1> HIDE DEF a, e, d
<1>7. CASE a.due # 0
  <2>1. d = [c EXCEPT !.target = a]
    BY <1>2, <1>3, <1>4, <1>5, <1>6, <1>7 DEF Responses
  <2> QED
    BY <1>2, <1>7, <2>1, OnlyTargetHandled DEF d
<1>8. CASE a.due = 0 /\ m.kind = "added"
  <2> DEFINE T == [a EXCEPT !.changes = NoChanges, !.changed = FALSE]
  <2>1. T \in Target /\ T.due = a.due /\ T.changes = NoChanges
    BY <1>1, <1>2 DEF Target
  <2>2. d = [e EXCEPT !.target.changes = NoChanges, !.target.changed = FALSE]
    BY <1>3, <1>4, <1>5, <1>8
  <2>3. d = [e EXCEPT !.target = T]
    BY <1>3, <2>2 DEF Client
  <2> HIDE DEF T
  <2>4. d = [c EXCEPT !.target = T]
    BY <1>2, <2>3 DEF Client
  <2>5. Fits(T, c.view)
    BY <2>1, NothingGathered
  <2>6. m.kind \in Responses /\ T.due = c.target.due - 1
    BY <1>2, <2>1
  <2> QED
    BY <2>1, <2>4, <2>5, <2>6, OnlyTargetHandled DEF d
<1>9. CASE a.due = 0 /\ m.kind = "removed"
  <2>1. d = [e EXCEPT !.target = NewTarget]
    BY <1>3, <1>4, <1>6, <1>9
  <2>2. d = [c EXCEPT !.target = NewTarget]
    BY <1>2, <2>1 DEF Client
  <2>3. Fits(NewTarget, c.view)
    BY <1>1, NothingGathered
  <2>4. m.kind \in Responses /\ NewTarget.due = c.target.due - 1
    BY <1>1, <1>2, <1>9
  <2> QED
    BY <1>1, <2>2, <2>3, <2>4, OnlyTargetHandled DEF d
<1> QED
  BY <1>7, <1>8, <1>9 DEF Responses, d

\* A document heard of.
LEMMA DocumentIsHandled ==
  ASSUME Len(results) \in Nat, NEW c \in Client, NEW m, m.kind \notin Responses,
         c.target.due = 0, NEW k \in Keys
  PROVE  Handled(c, m, AddDocumentToTarget(c, k)) /\ Handled(c, m, RemoveDocumentFromTarget(c, k))
<1>1. ASSUME NEW change \in {"none", "added", "modified", "removed"},
             change = "added" => k \notin c.view.keys,
             change \in {"modified", "removed"} => k \in c.view.keys
      PROVE  Handled(c, m, AddDocumentChange(c, k, change))
  <2>1. PICK T \in Target : /\ T.due = c.target.due
                            /\ AddDocumentChange(c, k, change) = [c EXCEPT !.target = T]
                            /\ Fits(c.target, c.view) => Fits(T, c.view)
    BY <1>1, DocumentChange
  <2>2. Fit(c) /\ T.due = 0 /\ c.listening => Fits(T, c.view)
    BY <2>1 DEF Fit, IsActiveTarget
  <2> QED
    BY <2>1, <2>2, OnlyTargetHandled
<1>2. Handled(c, m, AddDocumentToTarget(c, k))
  <2>1. CASE k \in c.view.keys
    BY <1>1, <2>1 DEF AddDocumentToTarget
  <2>2. CASE k \notin c.view.keys
    BY <1>1, <2>2 DEF AddDocumentToTarget
  <2> QED
    BY <2>1, <2>2
<1>3. Handled(c, m, RemoveDocumentFromTarget(c, k))
  <2>1. CASE k \in c.view.keys
    BY <1>1, <2>1 DEF RemoveDocumentFromTarget
  <2>2. CASE k \notin c.view.keys
    BY <1>1, <2>2 DEF RemoveDocumentFromTarget
  <2> QED
    BY <2>1, <2>2
<1> QED
  BY <1>2, <1>3

\* A token that comes, alone or with the news that the target is current.
LEMMA TokenIsHandled ==
  ASSUME Len(results) \in Nat, NEW c \in Client, NEW m, m.kind \notin Responses,
         c.target.due = 0, NEW token \in Versions
  PROVE  /\ Handled(c, m, UpdateResumeToken(c, token))
         /\ Handled(c, m, UpdateResumeToken([c EXCEPT !.target.current = TRUE], token))
<1> DEFINE b == [c.target EXCEPT !.current = TRUE]
           e == [c EXCEPT !.target.current = TRUE]
<1>1. Handled(c, m, UpdateResumeToken(c, token))
  <2>1. PICK T \in Target : /\ T.due = c.target.due
                            /\ UpdateResumeToken(c, token) = [c EXCEPT !.target = T]
                            /\ Fits(c.target, c.view) => Fits(T, c.view)
    BY TokenChange
  <2>2. Fit(c) /\ T.due = 0 /\ c.listening => Fits(T, c.view)
    BY <2>1 DEF Fit, IsActiveTarget
  <2> QED
    BY <2>1, <2>2, OnlyTargetHandled
<1>2. c.target \in Target
  BY DEF Client
<1>3. b \in Target /\ b.due = c.target.due /\ b.changes = c.target.changes
  BY <1>2 DEF Target
<1>4. e = [c EXCEPT !.target = b]
  BY DEF Client
<1> HIDE DEF b, e
<1>5. e \in Client /\ e.target = b /\ e.view = c.view
  BY <1>3, <1>4 DEF Client
<1>6. PICK T \in Target : /\ T.due = b.due
                          /\ UpdateResumeToken(e, token) = [e EXCEPT !.target = T]
                          /\ Fits(b, c.view) => Fits(T, c.view)
  BY <1>5, TokenChange
<1>7. UpdateResumeToken(e, token) = [c EXCEPT !.target = T]
  BY <1>4, <1>6 DEF Client
<1>8. Fit(c) /\ T.due = 0 /\ c.listening => Fits(T, c.view)
  BY <1>3, <1>6 DEF Fit, IsActiveTarget, Fits
<1>9. Handled(c, m, UpdateResumeToken(e, token))
  BY <1>3, <1>6, <1>7, <1>8, OnlyTargetHandled
<1> QED
  BY <1>1, <1>9 DEF e

\* A reset, which a filter that does not match brings about as well.
LEMMA ResetIsHandled ==
  ASSUME Len(results) \in Nat, NEW c \in Client, NEW m, m.kind \notin Responses,
         c.target.due = 0, NEW count
  PROVE  Handled(c, m, ResetTarget(c)) /\ Handled(c, m, HandleExistenceFilter(c, count))
<1> DEFINE T == [NewTarget EXCEPT !.changes = [k \in Keys |-> IF k \in c.view.keys THEN "removed" ELSE "none"]]
           r == ResetTarget(c)
<1>1. T \in Target /\ T.due = 0 /\ r = [c EXCEPT !.target = T] /\ Fits(T, c.view)
  BY ResetChange
<1> HIDE DEF T, r
<1>2. Handled(c, m, r)
  BY <1>1, OnlyTargetHandled
<1>3. [r EXCEPT !.mismatch = TRUE] = [c EXCEPT !.target = T, !.mismatch = TRUE]
  BY <1>1 DEF Client
<1>4. Handled(c, m, [r EXCEPT !.mismatch = TRUE])
  BY <1>1, <1>3, TargetHandled
<1>5. c.target \in Target /\ c = [c EXCEPT !.target = c.target]
  BY DEF Client
<1>6. Handled(c, m, c)
  BY DEF Handled
<1> QED
  BY <1>2, <1>4, <1>6 DEF r, HandleExistenceFilter

\* A message changes the target, and takes an answer off those due if it is one.
LEMMA MessageIsHandled ==
  ASSUME Len(results) \in Nat, NEW c \in Client, NEW m \in Messages,
         m.kind \in Responses => c.target.due >= 1
  PROVE  Handled(c, m, HandleWatchChange(c, m))
<1> DEFINE d == HandleWatchChange(c, m)
<1>1. CASE m.kind \in Responses
  BY <1>1, AnswerIsHandled
<1>2. CASE m.kind \notin Responses
  <2>1. m.kind \in MessageKinds /\ m.version \in Versions /\ (m.kind \in {"in", "out"} => m.key \in Keys)
    BY DEF Messages
  <2>2. CASE ~IsActiveTarget(c)
    <3>1. d = c
      BY <1>2, <2>2 DEF HandleWatchChange, Responses
    <3>2. Handled(c, m, c)
      BY <1>2 DEF Handled
    <3> QED
      BY <3>1, <3>2
  <2>3. CASE IsActiveTarget(c)
    <3>1. c.target.due = 0
      BY <2>3 DEF IsActiveTarget
    <3>2. /\ m.kind = "in" => d = AddDocumentToTarget(c, m.key)
          /\ m.kind = "out" => d = RemoveDocumentFromTarget(c, m.key)
          /\ m.kind = "current" => d = UpdateResumeToken([c EXCEPT !.target.current = TRUE], m.version)
          /\ m.kind = "snapshot" => d = UpdateResumeToken(c, m.version)
          /\ m.kind = "reset" => d = ResetTarget(c)
          /\ m.kind = "filter" => d = HandleExistenceFilter(c, m.count)
      BY <1>2, <2>3 DEF HandleWatchChange, Responses
    <3> HIDE DEF d
    <3>3. CASE m.kind \in {"in", "out"}
      <4>1. /\ Handled(c, m, AddDocumentToTarget(c, m.key))
            /\ Handled(c, m, RemoveDocumentFromTarget(c, m.key))
        BY <1>2, <2>1, <3>1, <3>3, DocumentIsHandled
      <4> QED
        BY <3>2, <3>3, <4>1 DEF d
    <3>4. CASE m.kind \in {"current", "snapshot"}
      <4>1. /\ Handled(c, m, UpdateResumeToken(c, m.version))
            /\ Handled(c, m, UpdateResumeToken([c EXCEPT !.target.current = TRUE], m.version))
        BY <1>2, <2>1, <3>1, TokenIsHandled
      <4> QED
        BY <3>2, <3>4, <4>1 DEF d
    <3>5. CASE m.kind \in {"reset", "filter"}
      <4>1. Handled(c, m, ResetTarget(c)) /\ Handled(c, m, HandleExistenceFilter(c, m.count))
        BY <1>2, <3>1, ResetIsHandled
      <4> QED
        BY <3>2, <3>5, <4>1 DEF d
    <3> QED
      BY <1>2, <2>1, <3>3, <3>4, <3>5 DEF MessageKinds
  <2> QED
    BY <2>2, <2>3
<1> QED
  BY <1>1, <1>2

-----------------------------------------------------------------------------
(* The remote store *)

\* What the invariant says of the client.
Good(c) == c \in Client /\ InStep(c) /\ Closed(c) /\ Fit(c)

\* The client c with one more answer due, and request q for it.
Requested(c, q) == [c EXCEPT !.target.due = @ + 1, !.sent = Append(@, q)]

\* One more request, one more answer due; until it comes the target is not active.
LEMMA RequestKeeps ==
  ASSUME NEW c \in Client, InStep(c), c.stream = "open", NEW q \in Request
  PROVE  LET d == Requested(c, q)
         IN /\ Good(d) /\ d.target.due # 0
            /\ d.stream = "open" /\ d.view = c.view /\ d.listening = c.listening
<1> DEFINE t == c.target
           n == t.due + 1
           T == [t EXCEPT !.due = n]
           s == Append(c.sent, q)
           d == Requested(c, q)
<1>1. t \in Target /\ t.due \in Nat /\ c.sent \in Seq(Request) /\ c.inbox \in Seq(Messages)
  BY DEF Client, Target
<1>2. n \in Nat /\ n > 0
  BY <1>1
<1>3. s \in Seq(Request) /\ Len(s) = Len(c.sent) + 1 /\ Len(c.sent) \in Nat
  BY <1>1, AppendProperties, LenProperties
<1>4. d = [c EXCEPT !.target = T, !.sent = s]
  BY DEF Requested, Client
<1> HIDE DEF n, s, d
<1>5. T \in Target /\ T.due = n
  BY <1>1, <1>2 DEF Target
<1> HIDE DEF T
<1>6. /\ d \in Client /\ d.target = T /\ d.sent = s /\ d.inbox = c.inbox
      /\ d.stream = c.stream /\ d.view = c.view /\ d.listening = c.listening
  BY <1>3, <1>4, <1>5 DEF Client
<1>7. InStep(d)
  <2>1. t.due = Len(c.sent) + Cardinality(Answers(c.inbox))
    BY DEF InStep
  <2>2. Cardinality(Answers(c.inbox)) \in Nat
    BY <1>1, AnswersFinite
  <2>3. n = Len(s) + Cardinality(Answers(c.inbox))
    BY <1>1, <1>3, <2>1, <2>2 DEF n
  <2> QED
    BY <1>5, <1>6, <2>3 DEF InStep
<1>8. Closed(d)
  BY <1>6 DEF Closed
<1>9. Fit(d)
  BY <1>2, <1>5, <1>6 DEF Fit, IsActiveTarget
<1> QED
  BY <1>2, <1>5, <1>6, <1>7, <1>8, <1>9 DEF Good, d

\* The two kinds of request.
LEMMA SendKeeps ==
  ASSUME Len(results) \in Nat, NEW c \in Client, InStep(c), c.stream = "open"
  PROVE  /\ LET d == SendWatchRequest(c)
            IN /\ Good(d) /\ d.target.due # 0
               /\ d.stream = "open" /\ d.view = c.view /\ d.listening = c.listening
         /\ LET d == SendUnwatchRequest(c)
            IN /\ Good(d) /\ d.target.due # 0
               /\ d.stream = "open" /\ d.view = c.view /\ d.listening = c.listening
<1> DEFINE w == [kind |-> "watch", token |-> c.token]
           u == [kind |-> "unwatch", token |-> NoToken]
<1>1. w \in Request
  BY DEF Client, Request
<1>2. u \in Request
  BY DEF Request, Versions, NoToken
<1>3. SendWatchRequest(c) = Requested(c, w)
  BY DEF SendWatchRequest, RecordPendingTargetRequest, Requested, Client
<1>4. SendUnwatchRequest(c) = Requested(c, u)
  BY DEF SendUnwatchRequest, RecordPendingTargetRequest, Requested, Client
<1> HIDE DEF w, u
<1> QED
  BY <1>1, <1>2, <1>3, <1>4, RequestKeeps

\* A stream that starts has a new target.
LEMMA StartKeeps ==
  ASSUME Len(results) \in Nat, NEW c \in Client, c.sent = <<>>, c.inbox = <<>>
  PROVE  LET d == StartWatchStream(c)
         IN Good(d) /\ d.view = c.view /\ d.listening = c.listening
<1> DEFINE d == StartWatchStream(c)
<1>1. NewTarget \in Target /\ NewTarget.due = 0 /\ NewTarget.changes = NoChanges
  BY NothingGathered
<1>2. d = [c EXCEPT !.stream = "starting", !.target = NewTarget, !.mismatch = FALSE]
  BY DEF StartWatchStream
<1> HIDE DEF d
<1>3. /\ d \in Client /\ d.stream = "starting" /\ d.target = NewTarget
      /\ d.sent = <<>> /\ d.inbox = <<>> /\ d.view = c.view /\ d.listening = c.listening
  BY <1>1, <1>2 DEF Client
<1>4. Fit(d)
  <2>1. Fits(NewTarget, d.view)
    BY <1>1, NothingGathered
  <2> QED
    BY <1>3, <2>1 DEF Fit
<1>5. InStep(d)
  <2>1. <<>> \in Seq(News) /\ Len(<<>>) = 0
    BY EmptySeq
  <2>2. Cardinality(Answers(<<>>)) = 0
    BY <2>1, CountNews
  <2> QED
    BY <1>1, <1>3, <2>1, <2>2 DEF InStep
<1> QED
  BY <1>3, <1>4, <1>5 DEF Good, Closed, d

\* A listen begins with what the disk has.
LEMMA ListenKeeps ==
  ASSUME Typed, Good(client)
  PROVE  LET d == Listen(client)
         IN Good(d) /\ d.listening /\ d.view.keys = disk.keys /\ (client.stream = "open" => d.stream = "open")
<1> DEFINE c == client
           v == [keys |-> disk.keys, current |-> FALSE]
           d == [c EXCEPT !.listening = TRUE, !.token = disk.token, !.stored = disk.token, !.view = v]
<1>1. c \in Client /\ Len(results) \in Nat /\ disk.keys \in SUBSET Keys /\ disk.token \in Versions
  BY DEF Typed
<1>2. v \in View /\ v.keys = disk.keys
  BY <1>1 DEF View
<1>3. Listen(c) = CASE d.stream = "closed" -> StartWatchStream(d)
                    [] d.stream = "open" -> SendWatchRequest(d)
                    [] OTHER -> d
  BY DEF Listen
<1> HIDE DEF c, v, d
<1>4. /\ d \in Client /\ d.listening = TRUE /\ d.view = v /\ d.stream = c.stream
      /\ d.target = c.target /\ d.sent = c.sent /\ d.inbox = c.inbox
  BY <1>1, <1>2 DEF Client, d
<1>5. InStep(d) /\ Closed(d)
  BY <1>4 DEF Good, InStep, Closed, c
<1>6. CASE d.stream = "closed"
  <2>1. d.sent = <<>> /\ d.inbox = <<>>
    BY <1>5, <1>6 DEF Closed
  <2> QED
    BY <1>1, <1>2, <1>3, <1>4, <1>6, <2>1, StartKeeps DEF c
<1>7. CASE d.stream = "open"
  <2>1. Listen(c) = SendWatchRequest(d)
    BY <1>3, <1>7
  <2> QED
    BY <1>1, <1>2, <1>4, <1>5, <1>7, <2>1, SendKeeps DEF c
<1>8. CASE d.stream = "starting"
  <2>1. Listen(c) = d
    BY <1>3, <1>8
  <2>2. d.target = NewTarget
    BY <1>5, <1>8 DEF Closed
  <2>3. Fit(d)
    BY <1>1, <2>2, NothingGathered DEF Fit
  <2> QED
    BY <1>2, <1>4, <1>5, <2>1, <2>3 DEF Good, c
<1>9. d.stream \in {"closed", "starting", "open"}
  BY <1>4 DEF Client
<1> QED
  BY <1>6, <1>7, <1>8, <1>9

\* A listen ends; what is under way goes on.
LEMMA StopKeeps ==
  ASSUME Len(results) \in Nat, Good(client)
  PROVE  LET d == StopListening(client) IN Good(d) /\ d.listening = FALSE /\ d.stream = client.stream
<1> DEFINE c == client
           v == [keys |-> {}, current |-> FALSE]
           d == [c EXCEPT !.listening = FALSE, !.token = NoToken, !.stored = NoToken, !.view = v]
<1>1. c \in Client
  BY DEF Good
<1>2. v \in View /\ NoToken \in Versions
  BY DEF View, NoToken, Versions
<1>3. StopListening(c) = IF d.stream = "open" THEN SendUnwatchRequest(d) ELSE d
  BY DEF StopListening
<1> HIDE DEF c, v, d
<1>4. /\ d \in Client /\ d.listening = FALSE /\ d.stream = c.stream
      /\ d.target = c.target /\ d.sent = c.sent /\ d.inbox = c.inbox
  BY <1>1, <1>2 DEF Client, d
<1>5. InStep(d) /\ Closed(d)
  BY <1>4 DEF Good, InStep, Closed, c
<1>6. Good(d)
  BY <1>4, <1>5 DEF Good, Fit, IsActiveTarget
<1>7. CASE d.stream = "open"
  BY <1>3, <1>4, <1>5, <1>7, SendKeeps DEF c
<1>8. CASE d.stream # "open"
  BY <1>3, <1>4, <1>6, <1>8 DEF c
<1> QED
  BY <1>7, <1>8

\* After a mismatch the target is asked for anew.
LEMMA RewatchKeeps ==
  ASSUME Len(results) \in Nat, NEW c, Good(c), c.stream = "open"
  PROVE  LET d == Rewatch(c)
         IN /\ Good(d) /\ (d.target.due # 0 \/ d.target = c.target)
            /\ d.stream = "open" /\ d.view = c.view /\ d.listening = c.listening
<1> DEFINE e == [c EXCEPT !.token = NoToken, !.mismatch = FALSE]
           f == [c EXCEPT !.mismatch = FALSE]
<1>1. c \in Client
  BY DEF Good
<1>2. NoToken \in Versions
  BY DEF NoToken, Versions
<1>3. Rewatch(c) = IF c.mismatch /\ c.listening THEN SendWatchRequest(SendUnwatchRequest(e)) ELSE f
  BY DEF Rewatch
<1>4. /\ e \in Client /\ e.listening = c.listening /\ e.stream = c.stream /\ e.view = c.view
      /\ e.target = c.target /\ e.sent = c.sent /\ e.inbox = c.inbox
  BY <1>1, <1>2 DEF Client
<1>5. /\ f \in Client /\ f.listening = c.listening /\ f.stream = c.stream /\ f.view = c.view
      /\ f.target = c.target /\ f.sent = c.sent /\ f.inbox = c.inbox
  BY <1>1 DEF Client
<1> HIDE DEF e, f
<1>6. CASE c.mismatch /\ c.listening
  <2> DEFINE g == SendUnwatchRequest(e)
  <2>1. InStep(e)
    BY <1>4 DEF Good, InStep
  <2>2. Good(g) /\ g.stream = "open" /\ g.view = e.view /\ g.listening = e.listening
    BY <1>4, <2>1, SendKeeps
  <2>3. Rewatch(c) = SendWatchRequest(g)
    BY <1>3, <1>6
  <2> HIDE DEF g
  <2>4. g \in Client /\ InStep(g)
    BY <2>2 DEF Good
  <2> QED
    BY <1>4, <2>2, <2>3, <2>4, SendKeeps
<1>7. CASE ~(c.mismatch /\ c.listening)
  <2>1. Good(f)
    BY <1>5 DEF Good, InStep, Closed, Fit, IsActiveTarget
  <2> QED
    BY <1>3, <1>5, <1>7, <2>1
<1> QED
  BY <1>6, <1>7

-----------------------------------------------------------------------------
(* Snapshots *)

Disk == [keys : SUBSET Keys, token : Versions, seen : Versions]

\* What a snapshot has of the target goes to the view and to the disk alike, and
\* nothing of it waits any more.
LEMMA ApplyKeeps ==
  ASSUME Typed, NEW c, Good(c), c.stream = "open", c.target.due # 0 \/ c.target.changes = NoChanges,
         NEW change \in Target, NEW version \in Versions,
         disk.keys = c.view.keys, ApplyRemoteEvent(c, change, version)
  PROVE  /\ Good(client') /\ client'.stream = "open"
         /\ disk' \in Disk /\ disk'.keys = client'.view.keys
<1> DEFINE keys == (c.view.keys \ With("removed", change.changes)) \cup With("added", change.changes)
           v == [keys |-> keys, current |-> change.current]
           viewed == [c EXCEPT !.view = v]
<1>1. c \in Client /\ Len(results) \in Nat /\ disk \in Disk
  BY DEF Typed, Good, Disk
<1>2. keys \in SUBSET Keys
  BY <1>1 DEF With, Client, View
<1>3. change.token \in Versions /\ change.current \in BOOLEAN
  BY DEF Target
<1>4. /\ client' = IF change.token = NoToken THEN viewed ELSE [viewed EXCEPT !.stored = change.token]
      /\ \E persists \in ShouldPersistTargetData(c, change) :
           disk' = [keys |-> keys, seen |-> version,
                    token |-> IF persists THEN change.token ELSE disk.token]
  BY DEF ApplyRemoteEvent
<1> HIDE DEF keys
<1>5. v \in View /\ v.keys = keys
  BY <1>2, <1>3 DEF View
<1> HIDE DEF v
<1>6. /\ viewed \in Client /\ viewed.stored \in Versions /\ viewed.view = v
      /\ viewed.listening = c.listening /\ viewed.stream = c.stream
      /\ viewed.target = c.target /\ viewed.sent = c.sent /\ viewed.inbox = c.inbox
  BY <1>1, <1>5 DEF Client
<1> HIDE DEF viewed
<1>7. /\ client' \in Client /\ client'.view = v
      /\ client'.listening = c.listening /\ client'.stream = c.stream
      /\ client'.target = c.target /\ client'.sent = c.sent /\ client'.inbox = c.inbox
  <2>1. CASE change.token = NoToken
    BY <1>4, <1>6, <2>1
  <2>2. CASE change.token # NoToken
    BY <1>3, <1>4, <1>6, <2>2 DEF Client
  <2> QED
    BY <2>1, <2>2
<1>8. InStep(client') /\ Closed(client')
  BY <1>7 DEF Good, InStep, Closed
<1>9. Fit(client')
  <2>1. c.target.changes = NoChanges => Fits(c.target, v)
    BY <1>1, NothingGathered
  <2> QED
    BY <1>7, <2>1 DEF Fit, IsActiveTarget
<1>10. disk' \in Disk /\ disk'.keys = keys
  <2>1. PICK persists \in ShouldPersistTargetData(c, change) :
           disk' = [keys |-> keys, seen |-> version,
                    token |-> IF persists THEN change.token ELSE disk.token]
    BY <1>4
  <2>2. disk.token \in Versions
    BY <1>1 DEF Disk
  <2> QED
    BY <1>2, <1>3, <2>1, <2>2 DEF Disk
<1> QED
  BY <1>5, <1>7, <1>8, <1>9, <1>10 DEF Good

\* A snapshot without a part for the target leaves keys and view alone.
LEMMA SnapshotKeeps ==
  ASSUME Typed, NEW c, Good(c), c.stream = "open", NEW version \in Versions,
         c.listening => disk.keys = c.view.keys, RaiseWatchSnapshot(c, version)
  PROVE  /\ Good(client') /\ client'.stream = "open" /\ disk' \in Disk
         /\ shown' \in Versions /\ {unmended', spoilt'} \subseteq BOOLEAN
         /\ client'.listening => disk'.keys = client'.view.keys
<1> DEFINE t == c.target
           T == [t EXCEPT !.changes = NoChanges, !.changed = FALSE]
           token == IF t.token = NoToken THEN c.token ELSE t.token
           cleared == [c EXCEPT !.target.changes = NoChanges, !.target.changed = FALSE, !.token = token]
           active == IsActiveTarget(c)
<1>1. c \in Client /\ t \in Target /\ Len(results) \in Nat /\ disk \in Disk /\ shown \in Versions
  BY DEF Typed, Good, Client, Disk
<1>2. shown' \in Versions /\ {unmended', spoilt'} \subseteq BOOLEAN
  BY <1>1 DEF RaiseWatchSnapshot
<1>3. CASE active /\ t.changed
  <2>1. ApplyRemoteEvent(Rewatch(cleared), t, version)
    BY <1>3 DEF RaiseWatchSnapshot
  <2>2. NoChanges \in Changes
    BY <1>1, NothingGathered
  <2>3. T \in Target /\ T.due = t.due /\ T.changes = NoChanges
    BY <1>1, <2>2 DEF Target
  <2>4. token \in Versions
    BY <1>1 DEF Client, Target
  <2>5. cleared = [c EXCEPT !.target = T, !.token = token]
    BY <1>1 DEF Client
  <2> HIDE DEF T, token, cleared
  <2>6. /\ cleared \in Client /\ cleared.target = T /\ cleared.stream = c.stream
        /\ cleared.listening = c.listening /\ cleared.view = c.view
        /\ cleared.sent = c.sent /\ cleared.inbox = c.inbox
    BY <1>1, <2>3, <2>4, <2>5 DEF Client
  <2>7. Good(cleared)
    <3>1. Fits(T, c.view)
      BY <1>1, <2>3, NothingGathered
    <3> QED
      BY <2>3, <2>6, <3>1 DEF Good, InStep, Closed, Fit
  <2> DEFINE d == Rewatch(cleared)
  <2>8. /\ Good(d) /\ (d.target.due # 0 \/ d.target = T)
        /\ d.stream = "open" /\ d.view = c.view /\ d.listening = c.listening
    BY <1>1, <2>6, <2>7, RewatchKeeps
  <2> HIDE DEF d
  <2>9. disk.keys = d.view.keys
    BY <1>3, <2>8 DEF IsActiveTarget
  <2>10. Good(client') /\ client'.stream = "open" /\ disk' \in Disk /\ disk'.keys = client'.view.keys
    BY <1>1, <2>1, <2>3, <2>8, <2>9, ApplyKeeps DEF d
  <2> QED
    BY <1>2, <2>10
<1>4. CASE ~(active /\ t.changed)
  <2>1. client' = Rewatch(c) /\ disk' = [disk EXCEPT !.seen = version]
    BY <1>4 DEF RaiseWatchSnapshot
  <2>2. disk' \in Disk /\ disk'.keys = disk.keys
    BY <1>1, <2>1 DEF Disk
  <2>3. /\ Good(client') /\ client'.stream = "open"
        /\ client'.view = c.view /\ client'.listening = c.listening
    BY <1>1, <2>1, RewatchKeeps
  <2> QED
    BY <1>2, <2>2, <2>3
<1> QED
  BY <1>3, <1>4

-----------------------------------------------------------------------------
(* The server's messages *)

\* SetToSeq lists the members of a finite set, and all of them.
LEMMA SetToSeqProperties ==
  ASSUME NEW S, IsFiniteSet(S)
  PROVE  /\ Cardinality(S) \in Nat /\ SetToSeq(S) \in [1..Cardinality(S) -> S]
         /\ \A e \in S : \E i \in 1..Cardinality(S) : SetToSeq(S)[i] = e
<1> DEFINE n == Cardinality(S)
           order == SetToSeq(S)
<1>1. n \in Nat /\ ExistsBijection(1..n, S)
  BY FS_CardinalityType
<1>2. PICK f \in [1..n -> S] : IsInjective(f)
  BY <1>1 DEF ExistsBijection, Bijection, Injection
<1>3. order \in [1..n -> S] /\ IsInjective(order)
  BY <1>2 DEF SetToSeq
<1>4. Cardinality(1..n) = n
  BY <1>1, FS_Interval
<1> HIDE DEF order
<1>5. order \in Injection(1..n, S)
  BY <1>3 DEF Injection
<1>6. order \in Surjection(1..n, S)
  BY <1>4, <1>5, FS_Injection
<1>7. \A e \in S : \E i \in 1..n : order[i] = e
  BY <1>6 DEF Surjection
<1> QED
  BY <1>1, <1>3, <1>7 DEF order

\* A message is made of the blank one by filling fields in.
Form == [kind : MessageKinds \cup {""}, key : Keys \cup {""}, version : Versions, count : Nat]

LEMMA BlankForm ==
  ASSUME Typed
  PROVE  Message \in Form
<1>1. 0 \in Versions /\ 0 \in Nat
  BY DEF Typed, Versions
<1> QED
  BY <1>1 DEF Form, Message

LEMMA KeyFilledIn ==
  ASSUME NEW M \in Form, NEW kind \in {"in", "out"}, NEW k \in Keys
  PROVE  [M EXCEPT !.kind = kind, !.key = k] \in News
<1> DEFINE d == [M EXCEPT !.kind = kind, !.key = k]
<1>1. kind \in MessageKinds /\ kind \notin Responses
  BY DEF MessageKinds, Responses
<1>2. d \in Form /\ d.kind = kind /\ d.key = k
  BY <1>1 DEF Form
<1> QED
  BY <1>1, <1>2 DEF Form, Messages, News

LEMMA FilledIn ==
  ASSUME NEW M \in Form, NEW kind \in MessageKinds \ {"in", "out"},
         NEW v \in Versions, NEW n \in Nat,
         NEW m \in {[M EXCEPT !.kind = kind], [M EXCEPT !.kind = kind, !.version = v],
                    [M EXCEPT !.kind = kind, !.count = n]}
  PROVE  m \in Messages /\ m.kind = kind /\ (kind \notin Responses => m \in News)
<1>1. /\ [M EXCEPT !.kind = kind] \in Form
      /\ [M EXCEPT !.kind = kind].kind = kind
  BY DEF Form
<1>2. /\ [M EXCEPT !.kind = kind, !.version = v] \in Form
      /\ [M EXCEPT !.kind = kind, !.version = v].kind = kind
  BY DEF Form
<1>3. /\ [M EXCEPT !.kind = kind, !.count = n] \in Form
      /\ [M EXCEPT !.kind = kind, !.count = n].kind = kind
  BY DEF Form
<1>4. m \in Form /\ m.kind = kind
  BY <1>1, <1>2, <1>3
<1> QED
  BY <1>4 DEF Form, Messages, News

\* Messages about documents are news.
LEMMA AboutKeysIsNews ==
  ASSUME Typed, NEW K \in SUBSET Keys, NEW kind \in {"in", "out"}
  PROVE  AboutKeys(kind, K) \in Seq(News)
<1> DEFINE order == SetToSeq(K)
           s == [i \in DOMAIN order |-> [Message EXCEPT !.kind = kind, !.key = order[i]]]
           n == Cardinality(K)
<1>1. IsFiniteSet(K)
  BY WatchBounds, FS_Subset
<1>2. n \in Nat /\ order \in [1..n -> K]
  BY <1>1, SetToSeqProperties
<1> HIDE DEF order, n
<1>3. ASSUME NEW k \in Keys PROVE [Message EXCEPT !.kind = kind, !.key = k] \in News
  BY BlankForm, KeyFilledIn
<1>4. s \in [1..n -> News]
  BY <1>2, <1>3
<1>5. s \in Seq(News)
  BY <1>2, <1>4, FunctionIsSeq
<1>6. AboutKeys(kind, K) = s
  BY DEF AboutKeys, order
<1> QED
  BY <1>5, <1>6

\* So are those about the target.
LEMMA OneMessage ==
  ASSUME Typed
  PROVE  /\ About("reset") \in Seq(News)
         /\ \A v \in 1..Len(results) :
              AtVersion("current", v) \in Seq(News) /\ AtVersion("snapshot", v) \in Seq(News)
              /\ FilterAt(v) \in Seq(News)
         /\ \A kind \in Responses :
              About(kind) \in Seq(Messages) /\ Cardinality(Answers(About(kind))) = 1
<1>1. Len(results) \in Nat /\ results \in Seq(SUBSET Keys) /\ 0 \in Versions
  BY DEF Typed, Versions
<1>2. Message \in Form
  BY BlankForm
<1>3. About("reset") \in Seq(News)
  <2> DEFINE m == [Message EXCEPT !.kind = "reset"]
  <2>1. "reset" \in MessageKinds \ {"in", "out"} /\ "reset" \notin Responses /\ 0 \in Nat
    BY DEF MessageKinds, Responses
  <2>2. m \in News
    BY <1>1, <1>2, <2>1, FilledIn
  <2> HIDE DEF m
  <2>3. <<m>> \in Seq(News)
    BY <2>2, OneElement
  <2> QED
    BY <2>3 DEF About, m
<1>4. ASSUME NEW v \in 1..Len(results), NEW kind \in {"current", "snapshot"}
      PROVE  AtVersion(kind, v) \in Seq(News)
  <2> DEFINE m == [Message EXCEPT !.kind = kind, !.version = v]
  <2>1. kind \in MessageKinds \ {"in", "out"} /\ kind \notin Responses /\ 0 \in Nat
    BY DEF MessageKinds, Responses
  <2>2. v \in Versions
    BY <1>1 DEF Versions
  <2>3. m \in News
    BY <1>2, <2>1, <2>2, FilledIn
  <2> HIDE DEF m
  <2>4. <<m>> \in Seq(News)
    BY <2>3, OneElement
  <2> QED
    BY <2>4 DEF AtVersion, m
<1>5. ASSUME NEW v \in 1..Len(results)
      PROVE  FilterAt(v) \in Seq(News)
  <2> DEFINE n == Cardinality(results[v])
             m == [Message EXCEPT !.kind = "filter", !.count = n]
  <2>1. results[v] \in SUBSET Keys
    BY <1>1, ElementOfSeq
  <2>2. n \in Nat
    BY <2>1, WatchBounds, FS_Subset, FS_CardinalityType
  <2>3. FilterAt(v) = <<m>>
    BY DEF FilterAt
  <2> HIDE DEF n
  <2>4. "filter" \in MessageKinds \ {"in", "out"} /\ "filter" \notin Responses
    BY DEF MessageKinds, Responses
  <2>5. m \in News
    BY <1>1, <1>2, <2>2, <2>4, FilledIn
  <2> HIDE DEF m
  <2> QED
    BY <2>3, <2>5, OneElement
<1>6. ASSUME NEW kind \in Responses
      PROVE  About(kind) \in Seq(Messages) /\ Cardinality(Answers(About(kind))) = 1
  <2> DEFINE m == [Message EXCEPT !.kind = kind]
  <2>1. kind \in MessageKinds \ {"in", "out"} /\ 0 \in Nat
    BY DEF MessageKinds, Responses
  <2>2. m \in Messages /\ m.kind \in Responses
    BY <1>1, <1>2, <2>1, FilledIn
  <2>3. About(kind) = <<m>>
    BY DEF About
  <2> HIDE DEF m
  <2> QED
    BY <2>2, <2>3, CountOne
<1> QED
  BY <1>3, <1>4, <1>5, <1>6

\* News and news are news.
LEMMA NewsConcat ==
  ASSUME NEW s \in Seq(News), NEW t \in Seq(News)
  PROVE  s \o t \in Seq(News)
BY ConcatProperties

\* However the server brings a client up to date, it does so with news.
LEMMA ServedIsNews ==
  ASSUME Typed, NEW r \in Versions, NEW v \in 1..Len(results), v >= r,
         NEW batch \in Served(r, v)
  PROVE  batch \in Seq(News)
<1>1. results \in Seq(SUBSET Keys) /\ Len(results) \in Nat
  BY DEF Typed
<1>2. results[v] \in SUBSET Keys
  BY <1>1, ElementOfSeq
<1>3. <<>> \in Seq(News)
  BY EmptySeq
<1>4. AtVersion("current", v) \in Seq(News) /\ AtVersion("snapshot", v) \in Seq(News)
      /\ FilterAt(v) \in Seq(News) /\ About("reset") \in Seq(News)
  BY OneMessage
<1>5. ASSUME NEW extra \in Seq(News) PROVE UpTo(v, extra) \in Seq(News)
  <2>1. AtVersion("current", v) \o extra \in Seq(News)
    BY <1>4, NewsConcat
  <2>2. (AtVersion("current", v) \o extra) \o AtVersion("snapshot", v) \in Seq(News)
    BY <1>4, <2>1, NewsConcat
  <2> QED
    BY <2>2 DEF UpTo
<1>6. AboutKeys("in", results[v]) \in Seq(News)
  BY <1>2, AboutKeysIsNews
<1>7. UpTo(v, <<>>) \in Seq(News) /\ UpTo(v, FilterAt(v)) \in Seq(News)
  BY <1>3, <1>4, <1>5
<1>8. CASE r = NoToken
  <2>1. batch = AboutKeys("in", results[v]) \o UpTo(v, <<>>)
    BY <1>8 DEF Served
  <2> QED
    BY <1>6, <1>7, <2>1, NewsConcat
<1>9. CASE r # NoToken
  <2> DEFINE gone == results[r] \ results[v]
             new == AboutKeys("in", results[v] \ results[r])
             again == AboutKeys("in", results[v])
             kept == IF gone = {} THEN <<>> ELSE FilterAt(v)
  <2>1. r \in 1..Len(results)
    BY <1>1, <1>9 DEF Versions, NoToken
  <2>2. results[r] \in SUBSET Keys
    BY <1>1, <2>1, ElementOfSeq
  <2>3. gone \in SUBSET Keys /\ results[v] \ results[r] \in SUBSET Keys
    BY <1>2, <2>2
  <2>4. AboutKeys("out", gone) \in Seq(News) /\ new \in Seq(News)
    BY <2>3, AboutKeysIsNews
  <2>5. kept \in Seq(News)
    BY <1>3, <1>4
  <2>6. batch \in { new \o AboutKeys("out", gone) \o UpTo(v, <<>>),
                    new \o UpTo(v, FilterAt(v)),
                    again \o UpTo(v, kept),
                    About("reset") \o again \o UpTo(v, <<>>) }
    BY <1>9 DEF Served, Resumed
  <2> HIDE DEF gone, new, kept
  <2>7. UpTo(v, kept) \in Seq(News)
    BY <1>5, <2>5
  <2>8. new \o AboutKeys("out", gone) \in Seq(News) /\ About("reset") \o again \in Seq(News)
    BY <1>4, <1>6, <2>4, NewsConcat
  <2>9. /\ (new \o AboutKeys("out", gone)) \o UpTo(v, <<>>) \in Seq(News)
        /\ new \o UpTo(v, FilterAt(v)) \in Seq(News)
        /\ again \o UpTo(v, kept) \in Seq(News)
        /\ (About("reset") \o again) \o UpTo(v, <<>>) \in Seq(News)
    BY <1>6, <1>7, <2>4, <2>7, <2>8, NewsConcat
  <2> QED
    BY <2>6, <2>9
<1> QED
  BY <1>8, <1>9

\* News under way changes nothing of what is due.
LEMMA NewsKeeps ==
  ASSUME NEW c, Good(c), c.stream = "open", NEW batch \in Seq(News)
  PROVE  LET d == [c EXCEPT !.inbox = @ \o batch]
         IN Good(d) /\ d.stream = "open" /\ d.view = c.view /\ d.listening = c.listening
<1> DEFINE b == c.inbox \o batch
           d == [c EXCEPT !.inbox = @ \o batch]
<1>1. c \in Client /\ c.inbox \in Seq(Messages) /\ batch \in Seq(Messages)
      /\ Cardinality(Answers(batch)) = 0 /\ Cardinality(Answers(c.inbox)) \in Nat
  BY CountNews, AnswersFinite DEF Good, Client
<1>2. b \in Seq(Messages)
      /\ Cardinality(Answers(b)) = Cardinality(Answers(c.inbox)) + Cardinality(Answers(batch))
  BY <1>1, CountConcat
<1>3. Cardinality(Answers(b)) = Cardinality(Answers(c.inbox))
  BY <1>1, <1>2
<1>4. d = [c EXCEPT !.inbox = b]
  BY <1>1 DEF Client
<1> HIDE DEF b, d
<1>5. /\ d \in Client /\ d.view = c.view /\ d.listening = c.listening /\ d.stream = c.stream
      /\ d.target = c.target /\ d.sent = c.sent /\ d.inbox = b
  BY <1>1, <1>2, <1>4 DEF Client
<1>6. InStep(d)
  BY <1>3, <1>5 DEF Good, InStep
<1> QED
  BY <1>5, <1>6 DEF Good, Closed, Fit, IsActiveTarget, d

\* A request that is read is an answer under way.
LEMMA AnswerKeeps ==
  ASSUME Typed, NEW c, Good(c), c.sent # <<>>, NEW kind \in Responses
  PROVE  LET d == [c EXCEPT !.sent = Tail(@), !.inbox = @ \o About(kind)]
         IN Good(d) /\ d.stream = "open" /\ d.view = c.view /\ d.listening = c.listening
<1> DEFINE q == Tail(c.sent)
           b == c.inbox \o About(kind)
           d == [c EXCEPT !.sent = Tail(@), !.inbox = @ \o About(kind)]
<1>1. c \in Client /\ c.inbox \in Seq(Messages) /\ c.sent \in Seq(Request) /\ c.stream = "open"
  BY DEF Good, Closed, Client
<1>2. q \in Seq(Request) /\ Len(c.sent) \in Nat /\ Len(q) = Len(c.sent) - 1 /\ Len(q) \in Nat
  BY <1>1, TailElement, LenProperties
<1>3. About(kind) \in Seq(Messages) /\ Cardinality(Answers(About(kind))) = 1
      /\ Cardinality(Answers(c.inbox)) \in Nat
  BY <1>1, OneMessage, AnswersFinite
<1>4. b \in Seq(Messages)
      /\ Cardinality(Answers(b)) = Cardinality(Answers(c.inbox)) + Cardinality(Answers(About(kind)))
  BY <1>1, <1>3, CountConcat
<1>5. Len(q) + Cardinality(Answers(b)) = Len(c.sent) + Cardinality(Answers(c.inbox))
  BY <1>2, <1>3, <1>4
<1>6. d = [c EXCEPT !.sent = q, !.inbox = b]
  BY <1>1 DEF Client
<1> HIDE DEF q, b, d
<1>7. /\ d \in Client /\ d.view = c.view /\ d.listening = c.listening /\ d.stream = c.stream
      /\ d.target = c.target /\ d.sent = q /\ d.inbox = b
  BY <1>1, <1>2, <1>4, <1>6 DEF Client
<1>8. InStep(d)
  BY <1>5, <1>7 DEF Good, InStep
<1> QED
  BY <1>1, <1>7, <1>8 DEF Good, Closed, Fit, IsActiveTarget, d

-----------------------------------------------------------------------------
(* The steps *)

\* The parts of the invariant, put together.
LEMMA InvariantParts ==
  IInv <=> /\ Typed /\ Good(client) /\ (served # 0 => client.stream = "open")
           /\ (client.listening => disk.keys = client.view.keys)
BY DEF IInv, Good, Typed, DiskFollowsView, Serving

\* A step that leaves the server's results keeps the invariant if it keeps its parts.
LEMMA Closing ==
  ASSUME IInv, UNCHANGED results, Good(client'), disk' \in Disk,
         {served', shown'} \subseteq Versions, unmended' \in BOOLEAN, spoilt' \in BOOLEAN,
         listens' \in 0..MaxListens, breaks' \in 0..MaxBreaks,
         served' # 0 => client'.stream = "open",
         client'.listening => disk'.keys = client'.view.keys
  PROVE  IInv'
<1>1. Versions' = Versions
  BY DEF Versions
<1>2. Client' = Client /\ Disk' = Disk
  BY <1>1 DEF Client, Disk, Request, Messages, Target, View, Changes, MessageKinds, Responses
<1>3. Typed'
  BY <1>1, <1>2 DEF IInv, Typed, Good, Disk
<1>4. (client.listening => disk.keys = client.view.keys)' /\ (served # 0 => client.stream = "open")'
  OBVIOUS
<1>5. Good(client)'
  BY <1>2 DEF Good, InStep, Closed, Fit, IsActiveTarget, Fits, With, Answers, Responses,
              NewTarget, NoChanges, NoToken
<1> QED
  BY <1>3, <1>4, <1>5 DEF IInv, Good, DiskFollowsView, Serving

LEMMA ListenStartsKeeps ==
  ASSUME IInv, ListenStarts
  PROVE  IInv'
<1>1. Typed /\ Good(client) /\ disk \in Disk /\ MaxListens \in Nat
      /\ (served # 0 => client.stream = "open")
  BY InvariantParts, WatchBounds DEF Typed, Disk
<1>2. Good(client') /\ client'.view.keys = disk.keys /\ (client.stream = "open" => client'.stream = "open")
  BY <1>1, ListenKeeps DEF ListenStarts
<1>3. listens' \in 0..MaxListens
  BY <1>1 DEF ListenStarts, Typed
<1>4. /\ UNCHANGED <<results, served, shown, disk, unmended, breaks>> /\ spoilt' \in BOOLEAN
  BY DEF ListenStarts, server
<1> QED
  BY <1>1, <1>2, <1>3, <1>4, Closing DEF Typed

LEMMA ListenEndsKeeps ==
  ASSUME IInv, ListenEnds
  PROVE  IInv'
<1>1. Typed /\ Good(client) /\ disk \in Disk /\ client.stored \in Versions /\ Len(results) \in Nat
      /\ (served # 0 => client.stream = "open")
  BY InvariantParts DEF Typed, Disk, Client
<1>2. Good(client') /\ client'.listening = FALSE /\ client'.stream = client.stream
  BY <1>1, StopKeeps DEF ListenEnds
<1>3. disk' \in Disk
  BY <1>1 DEF ListenEnds, Disk
<1>4. UNCHANGED <<results, served, shown, spoilt, listens, breaks>> /\ unmended' \in BOOLEAN
  BY DEF ListenEnds, server
<1> QED
  BY <1>1, <1>2, <1>3, <1>4, Closing DEF Typed

LEMMA OpenKeeps ==
  ASSUME IInv, OnWatchStreamOpen
  PROVE  IInv'
<1> DEFINE c == [client EXCEPT !.stream = "open"]
<1>1. Typed /\ Good(client) /\ disk \in Disk /\ Len(results) \in Nat
      /\ (client.listening => disk.keys = client.view.keys)
  BY InvariantParts DEF Typed, Disk
<1>2. client \in Client /\ client.stream = "starting" /\ client' = IF c.listening THEN SendWatchRequest(c) ELSE c
  BY <1>1 DEF OnWatchStreamOpen, Good
<1> HIDE DEF c
<1>3. /\ c \in Client /\ c.stream = "open" /\ c.listening = client.listening /\ c.view = client.view
      /\ c.target = client.target /\ c.sent = client.sent /\ c.inbox = client.inbox
  BY <1>2 DEF Client, c
<1>4. InStep(c)
  BY <1>1, <1>3 DEF Good, InStep
<1>5. Good(client') /\ client'.listening = c.listening /\ client'.view = c.view /\ client'.stream = "open"
  <2>1. CASE c.listening
    BY <1>1, <1>2, <1>3, <1>4, <2>1, SendKeeps
  <2>2. CASE ~c.listening
    BY <1>2, <1>3, <1>4, <2>2 DEF Good, Closed, Fit, IsActiveTarget
  <2> QED
    BY <2>1, <2>2
<1>6. UNCHANGED <<results, served, disk, shown, unmended, spoilt, listens, breaks>>
  BY DEF OnWatchStreamOpen, server, history
<1> QED
  BY <1>1, <1>3, <1>5, <1>6, Closing DEF Typed

\* The client without the next message, and with the message handled.
Rest == [client EXCEPT !.inbox = Tail(client.inbox)]
Taken == HandleWatchChange(Rest, Head(client.inbox))

\* A message that is taken off the inbox and handled keeps what holds of the client.
LEMMA MessageTaken ==
  ASSUME IInv, OnWatchStreamChange
  PROVE  LET m == Head(client.inbox)
         IN /\ m \in Messages /\ client.inbox # <<>> /\ client.stream = "open"
            /\ Rest \in Client /\ Rest = [client EXCEPT !.inbox = Tail(client.inbox)]
            /\ Handled(Rest, m, Taken) /\ Good(Taken)
            /\ Taken.inbox = Tail(client.inbox) /\ Taken.sent = client.sent /\ Taken.stream = "open"
            /\ Taken.view = client.view /\ Taken.listening = client.listening
            /\ Taken.token = client.token /\ Taken.stored = client.stored
            /\ IF m.kind = "snapshot" /\ m.version >= disk.seen
               THEN RaiseWatchSnapshot(Taken, m.version)
               ELSE client' = Taken /\ UNCHANGED <<disk, history>>
            /\ UNCHANGED <<results, served, listens, breaks>>
<1> DEFINE m == Head(client.inbox)
           q == Tail(client.inbox)
           b == Rest
           c == Taken
           one == IF m.kind \in Responses THEN 1 ELSE 0
<1>1. Typed /\ Good(client) /\ client \in Client /\ Len(results) \in Nat
  BY InvariantParts DEF Typed
<1>2. client.inbox \in Seq(Messages) /\ client.inbox # <<>> /\ client.target \in Target
      /\ client.sent \in Seq(Request) /\ client.stream = "open"
  BY <1>1 DEF OnWatchStreamChange, Client, Good, Closed
<1>3. m \in Messages /\ q \in Seq(Messages)
  BY <1>2, TailElement
<1>4. Cardinality(Answers(client.inbox)) = Cardinality(Answers(q)) + one
  BY <1>2, CountTail
<1>5. b = [client EXCEPT !.inbox = Tail(@)] /\ b = [client EXCEPT !.inbox = q]
  BY <1>1 DEF Client, Rest
<1>6. /\ IF m.kind = "snapshot" /\ m.version >= disk.seen
         THEN RaiseWatchSnapshot(c, m.version)
         ELSE client' = c /\ UNCHANGED <<disk, history>>
      /\ UNCHANGED <<results, served, listens, breaks>>
  BY <1>5, Zenon DEF OnWatchStreamChange, server, Taken
<1> HIDE DEF q, b
<1>7. /\ b \in Client /\ b.inbox = q /\ b.target = client.target /\ b.sent = client.sent
      /\ b.stream = "open" /\ b.view = client.view /\ b.listening = client.listening
      /\ b.token = client.token /\ b.stored = client.stored
  BY <1>1, <1>2, <1>3, <1>5 DEF Client
<1>8. client.target.due = Len(client.sent) + Cardinality(Answers(q)) + one
  <2>1. client.target.due = Len(client.sent) + Cardinality(Answers(client.inbox))
    BY <1>1 DEF Good, InStep
  <2>2. Len(client.sent) \in Nat /\ Cardinality(Answers(q)) \in Nat /\ one \in Nat
    BY <1>2, <1>3, LenProperties, AnswersFinite
  <2> HIDE DEF one
  <2> QED
    BY <1>4, <2>1, <2>2
<1>9. Len(client.sent) \in Nat /\ Cardinality(Answers(q)) \in Nat
  BY <1>2, <1>3, LenProperties, AnswersFinite
<1>10. m.kind \in Responses => b.target.due >= 1
  BY <1>7, <1>8, <1>9
<1>11. Handled(b, m, c)
  BY <1>1, <1>3, <1>7, <1>10, MessageIsHandled DEF Taken, b
<1> HIDE DEF c, m
<1>12. /\ c \in Client /\ c.inbox = q /\ c.sent = client.sent /\ c.stream = "open"
       /\ c.view = client.view /\ c.listening = client.listening
       /\ c.token = client.token /\ c.stored = client.stored
  BY <1>7, <1>11 DEF Handled
<1>13. c.target.due = Len(c.sent) + Cardinality(Answers(c.inbox))
  <2>1. c.target.due = client.target.due - one
    <3>1. CASE m.kind \in Responses
      BY <1>7, <1>11, <3>1 DEF Handled
    <3>2. CASE m.kind \notin Responses
      <4>1. c.target.due = client.target.due /\ client.target.due \in Nat
        BY <1>2, <1>7, <1>11, <3>2 DEF Handled, Target
      <4> QED
        BY <3>2, <4>1
    <3> QED
      BY <3>1, <3>2
  <2>2. one \in Nat
    OBVIOUS
  <2> HIDE DEF one
  <2>3. c.target.due = Len(client.sent) + Cardinality(Answers(q))
    BY <1>8, <1>9, <2>1, <2>2
  <2> QED
    BY <1>12, <2>3
<1>14. Fit(c)
  <2>1. Fit(b)
    BY <1>1, <1>7 DEF Good, Fit, IsActiveTarget
  <2> QED
    BY <1>11, <2>1 DEF Handled
<1>15. Good(c)
  BY <1>12, <1>13, <1>14 DEF Good, InStep, Closed
<1> QED
  BY <1>2, <1>3, <1>5, <1>6, <1>7, <1>11, <1>12, <1>15 DEF b, c, m, q

LEMMA ChangeKeeps ==
  ASSUME IInv, OnWatchStreamChange
  PROVE  IInv'
<1> DEFINE m == Head(client.inbox)
           c == Taken
<1>1. Typed /\ disk \in Disk /\ (client.listening => disk.keys = client.view.keys)
  BY InvariantParts DEF Typed, Disk
<1>2. /\ m \in Messages /\ Good(c) /\ c.stream = "open"
      /\ c.view = client.view /\ c.listening = client.listening
      /\ IF m.kind = "snapshot" /\ m.version >= disk.seen
         THEN RaiseWatchSnapshot(c, m.version)
         ELSE client' = c /\ UNCHANGED <<disk, history>>
      /\ UNCHANGED <<results, served, listens, breaks>>
  BY MessageTaken
<1> HIDE DEF c, m
<1>3. /\ Good(client') /\ client'.stream = "open" /\ disk' \in Disk
      /\ shown' \in Versions /\ {unmended', spoilt'} \subseteq BOOLEAN
      /\ client'.listening => disk'.keys = client'.view.keys
  <2>1. CASE m.kind = "snapshot" /\ m.version >= disk.seen
    <3>1. RaiseWatchSnapshot(c, m.version)
      BY <1>2, <2>1
    <3>2. m.version \in Versions
      BY <1>2 DEF Messages
    <3>3. c.listening => disk.keys = c.view.keys
      BY <1>1, <1>2
    <3> QED
      BY <1>1, <1>2, <3>1, <3>2, <3>3, SnapshotKeeps
  <2>2. CASE ~(m.kind = "snapshot" /\ m.version >= disk.seen)
    <3>1. client' = c /\ UNCHANGED <<disk, shown, unmended, spoilt>>
      BY <1>2, <2>2 DEF history
    <3>2. {unmended, spoilt} \subseteq BOOLEAN /\ shown \in Versions
      BY <1>1 DEF Typed
    <3> QED
      BY <1>1, <1>2, <3>1, <3>2
  <2> QED
    BY <2>1, <2>2
<1> QED
  BY <1>1, <1>2, <1>3, Closing DEF Typed

LEMMA ClosesKeeps ==
  ASSUME IInv, StreamCloses
  PROVE  IInv'
<1>1. /\ Typed /\ Good(client) /\ client \in Client /\ disk \in Disk /\ Len(results) \in Nat
      /\ (client.listening => disk.keys = client.view.keys) /\ MaxBreaks \in Nat
  BY InvariantParts, WatchBounds DEF Typed, Disk
<1>2. PICK offline \in BOOLEAN : client' = OnWatchStreamClose(client, offline)
  BY DEF StreamCloses
<1> DEFINE d == [client EXCEPT !.stream = "closed", !.target = NewTarget, !.mismatch = FALSE,
                               !.sent = <<>>, !.inbox = <<>>]
           w == [client.view EXCEPT !.current = client.view.current /\ ~offline]
           e == [d EXCEPT !.view.current = @ /\ ~offline]
<1>3. client' = IF d.listening THEN StartWatchStream(e) ELSE d
  BY <1>2 DEF OnWatchStreamClose
<1>4. NewTarget \in Target /\ NewTarget.due = 0 /\ NewTarget.changes = NoChanges
  BY <1>1, NothingGathered
<1>5. <<>> \in Seq(Request) /\ <<>> \in Seq(Messages) /\ <<>> \in Seq(News) /\ Len(<<>>) = 0
  BY EmptySeq
<1>6. /\ d \in Client /\ d.listening = client.listening /\ d.view = client.view /\ d.stream = "closed"
      /\ d.target = NewTarget /\ d.sent = <<>> /\ d.inbox = <<>>
  BY <1>1, <1>4, <1>5 DEF Client
<1>7. w \in View /\ w.keys = client.view.keys
  <2>1. client.view \in View /\ (client.view.current /\ ~offline) \in BOOLEAN
    BY <1>1 DEF Client
  <2> DEFINE x == client.view.current /\ ~offline
  <2> HIDE DEF x
  <2>2. [client.view EXCEPT !.current = x] \in View /\ [client.view EXCEPT !.current = x].keys = client.view.keys
    BY <2>1 DEF View, x
  <2> QED
    BY <2>2 DEF x
<1>8. e = [d EXCEPT !.view = w]
  BY <1>6 DEF Client
<1> HIDE DEF d, e, w
<1>9. /\ e \in Client /\ e.listening = client.listening /\ e.view = w
      /\ e.sent = <<>> /\ e.inbox = <<>>
  BY <1>6, <1>7, <1>8 DEF Client
<1>10. Good(client') /\ client'.listening = client.listening /\ client'.view.keys = client.view.keys
  <2>1. CASE client.listening
    <3>1. client' = StartWatchStream(e)
      BY <1>3, <1>6, <2>1
    <3> QED
      BY <1>1, <1>7, <1>9, <3>1, StartKeeps
  <2>2. CASE ~client.listening
    <3>1. client' = d
      BY <1>3, <1>6, <2>2
    <3>2. Cardinality(Answers(<<>>)) = 0
      BY <1>5, CountNews
    <3>3. Good(d)
      BY <1>4, <1>5, <1>6, <2>2, <3>2 DEF Good, InStep, Closed, Fit, IsActiveTarget
    <3> QED
      BY <1>6, <3>1, <3>3
  <2> QED
    BY <2>1, <2>2
<1>11. /\ UNCHANGED <<results, disk, shown, unmended, spoilt, listens>>
       /\ served' = 0 /\ breaks' = breaks + 1 /\ breaks < MaxBreaks
  BY DEF StreamCloses, history
<1>12. breaks' \in 0..MaxBreaks /\ served' \in Versions
  BY <1>1, <1>11 DEF Typed, Versions
<1> QED
  BY <1>1, <1>10, <1>11, <1>12, Closing DEF Typed

\* A process that has just started.
LEMMA IdleIsGood ==
  ASSUME Len(results) \in Nat
  PROVE  Good(Idle) /\ Idle.listening = FALSE
<1>1. NewTarget \in Target /\ NewTarget.due = 0 /\ NewTarget.changes = NoChanges
  BY NothingGathered
<1>2. <<>> \in Seq(Request) /\ <<>> \in Seq(Messages) /\ <<>> \in Seq(News) /\ Len(<<>>) = 0
  BY EmptySeq
<1>3. NoToken \in Versions /\ [keys |-> {}, current |-> FALSE] \in View
  BY DEF NoToken, Versions, View
<1> DEFINE v == [keys |-> {}, current |-> FALSE]
<1>4. Idle = [listening |-> FALSE, token |-> NoToken, stored |-> NoToken, stream |-> "closed",
              view |-> v, target |-> NewTarget, mismatch |-> FALSE, sent |-> <<>>, inbox |-> <<>>]
  BY DEF Idle
<1> HIDE DEF v
<1>5. Idle \in Client
  BY <1>1, <1>2, <1>3, <1>4 DEF Client, v
<1>6. /\ Idle.listening = FALSE /\ Idle.target = NewTarget /\ Idle.sent = <<>> /\ Idle.inbox = <<>>
  BY <1>4
<1>7. Cardinality(Answers(<<>>)) = 0
  BY <1>2, CountNews
<1> QED
  BY <1>1, <1>2, <1>5, <1>6, <1>7 DEF Good, InStep, Closed, Fit, IsActiveTarget

LEMMA RelaunchKeeps ==
  ASSUME IInv, Relaunch
  PROVE  IInv'
<1>1. Typed /\ disk \in Disk /\ Len(results) \in Nat /\ MaxBreaks \in Nat
  BY WatchBounds DEF IInv, Typed, Disk
<1>2. Good(client') /\ client'.listening = FALSE
  BY <1>1, IdleIsGood DEF Relaunch
<1>3. /\ UNCHANGED <<results, disk, shown, unmended, spoilt, listens>>
      /\ served' = 0 /\ breaks' = breaks + 1 /\ breaks < MaxBreaks
  BY DEF Relaunch, history
<1>4. breaks' \in 0..MaxBreaks /\ served' \in Versions
  BY <1>1, <1>3 DEF Typed, Versions
<1> QED
  BY <1>1, <1>2, <1>3, <1>4, Closing DEF Typed

\* A result more makes one version more; all that was typed still is.
LEMMA ResultKeeps ==
  ASSUME IInv, NEW K \in SUBSET Keys, ResultChanges(K)
  PROVE  IInv'
<1>1. /\ Typed /\ InStep(client) /\ Closed(client) /\ Fit(client) /\ Serving /\ DiskFollowsView
      /\ UNCHANGED <<served, client, disk, shown, unmended, spoilt, listens, breaks>>
  BY DEF IInv, ResultChanges, history
<1>2. results' = Append(results, K) /\ Len(results) < MaxVersions /\ results \in Seq(SUBSET Keys)
  BY <1>1 DEF ResultChanges, Typed
<1>3. results' \in Seq(SUBSET Keys) /\ Len(results') = Len(results) + 1 /\ Len(results) \in Nat
  BY <1>2, AppendProperties, LenProperties
<1>4. MaxVersions \in Nat /\ Len(results') \in 1..MaxVersions
  BY <1>2, <1>3, WatchBounds
<1>5. Versions \subseteq Versions'
  BY <1>3 DEF Versions
<1>6. Request \subseteq Request' /\ Messages \subseteq Messages' /\ Target \subseteq Target' /\ View' = View
  BY <1>5 DEF Request, Messages, Target, View, Changes, MessageKinds, Responses
<1>7. Seq(Request) \subseteq Seq(Request') /\ Seq(Messages) \subseteq Seq(Messages')
  BY <1>6, SeqMonotonic
<1>8. client' \in Client'
  BY <1>1, <1>5, <1>6, <1>7 DEF Typed, Client
<1>9. Typed'
  BY <1>1, <1>3, <1>4, <1>5, <1>8 DEF Typed
<1>10. InStep(client)' /\ Closed(client)' /\ Fit(client)' /\ Serving' /\ DiskFollowsView'
  BY <1>1 DEF InStep, Closed, Fit, IsActiveTarget, Fits, With, Answers, Responses,
              NewTarget, NoChanges, NoToken, DiskFollowsView, Serving
<1> QED
  BY <1>9, <1>10 DEF IInv

\* What the server does is to move requests and to send.
LEMMA ServerKeeps ==
  ASSUME IInv, Good(client'), client'.view = client.view, client'.listening = client.listening,
         client'.stream = "open",
         served' \in Versions, UNCHANGED <<results, disk, history, listens, breaks>>
  PROVE  IInv'
<1>1. Typed /\ disk \in Disk /\ (client.listening => disk.keys = client.view.keys)
  BY InvariantParts DEF Typed, Disk
<1>2. UNCHANGED <<results, disk, shown, unmended, spoilt, listens, breaks>>
  BY DEF history
<1> QED
  BY <1>1, <1>2, Closing DEF Typed

LEMMA WatchesKeeps ==
  ASSUME IInv, NEW v \in 1..Len(results), ServerWatches(v)
  PROVE  IInv'
<1> DEFINE c == [client EXCEPT !.sent = Tail(@), !.inbox = @ \o About("added")]
           r == Head(client.sent).token
<1>1. Typed /\ Good(client) /\ client \in Client /\ Len(results) \in Nat
  BY InvariantParts DEF Typed
<1>2. PICK batch \in Served(r, v) :
        client' = [client EXCEPT !.sent = Tail(@), !.inbox = @ \o About("added") \o batch]
  BY DEF ServerWatches
<1>3. client.sent # <<>> /\ v >= r /\ served' = v /\ UNCHANGED <<results, disk, history, listens, breaks>>
  BY DEF ServerWatches
<1>4. r \in Versions
  <2>1. client.sent \in Seq(Request)
    BY <1>1 DEF Client
  <2>2. Head(client.sent) \in Request
    BY <1>3, <2>1, TailElement
  <2> QED
    BY <2>2 DEF Request
<1>5. batch \in Seq(News)
  BY <1>1, <1>3, <1>4, ServedIsNews
<1>6. Good(c) /\ c.stream = "open" /\ c.view = client.view /\ c.listening = client.listening
  <2>1. "added" \in Responses
    BY DEF Responses
  <2>2. client.sent # <<>> /\ Typed /\ Good(client)
    BY <1>1, <1>3
  <2> QED
    BY <2>1, <2>2, AnswerKeeps
<1>7. client' = [c EXCEPT !.inbox = @ \o batch]
  BY <1>1, <1>2 DEF Client
<1> HIDE DEF c
<1>8. /\ Good(client') /\ client'.stream = "open"
      /\ client'.view = client.view /\ client'.listening = client.listening
  BY <1>5, <1>6, <1>7, NewsKeeps
<1>9. served' \in Versions
  BY <1>1, <1>3 DEF Versions
<1> QED
  BY <1>3, <1>8, <1>9, ServerKeeps

LEMMA UnwatchesKeeps ==
  ASSUME IInv, ServerUnwatches
  PROVE  IInv'
<1>1. Typed /\ Good(client) /\ Len(results) \in Nat
  BY InvariantParts DEF Typed
<1>2. /\ client.sent # <<>> /\ served' = 0 /\ UNCHANGED <<results, disk, history, listens, breaks>>
      /\ client' = [client EXCEPT !.sent = Tail(@), !.inbox = @ \o About("removed")]
  BY DEF ServerUnwatches
<1>3. /\ Good(client') /\ client'.stream = "open"
      /\ client'.view = client.view /\ client'.listening = client.listening
  <2> DEFINE d == [client EXCEPT !.sent = Tail(@), !.inbox = @ \o About("removed")]
  <2>1. "removed" \in Responses
    BY DEF Responses
  <2>2. client.sent # <<>> /\ Typed /\ Good(client)
    BY <1>1, <1>2
  <2>3. Good(d) /\ d.stream = "open" /\ d.view = client.view /\ d.listening = client.listening
    BY <2>1, <2>2, AnswerKeeps
  <2> HIDE DEF d
  <2> QED
    BY <1>2, <2>3 DEF d
<1>4. served' \in Versions
  BY <1>1, <1>2 DEF Versions
<1> QED
  BY <1>2, <1>3, <1>4, ServerKeeps

LEMMA UpdatesKeeps ==
  ASSUME IInv, ServerUpdates
  PROVE  IInv'
<1> DEFINE v == served + 1
           A == AboutKeys("in", results[v] \ results[served])
           B == AboutKeys("out", results[served] \ results[v])
           C == AtVersion("snapshot", v)
           b == client.inbox
<1>1. /\ Typed /\ Good(client) /\ client \in Client /\ Len(results) \in Nat
      /\ results \in Seq(SUBSET Keys) /\ (served # 0 => client.stream = "open")
  BY InvariantParts DEF Typed
<1>2. /\ served \in 1..(Len(results) - 1) /\ served' = v
      /\ client' = [client EXCEPT !.inbox = ((@ \o A) \o B) \o C]
      /\ UNCHANGED <<results, disk, history, listens, breaks>>
  BY DEF ServerUpdates
<1>3. served \in 1..Len(results) /\ v \in 1..Len(results) /\ v \in Versions /\ client.stream = "open"
  BY <1>1, <1>2 DEF Versions
<1>4. results[v] \in SUBSET Keys /\ results[served] \in SUBSET Keys
  BY <1>1, <1>3, ElementOfSeq
<1>5. A \in Seq(News) /\ B \in Seq(News)
  BY <1>1, <1>4, AboutKeysIsNews
<1>6. C \in Seq(News)
  BY <1>1, <1>3, OneMessage
<1> HIDE DEF A, B, C, b, v
<1> DEFINE c1 == [client EXCEPT !.inbox = @ \o A]
           c2 == [c1 EXCEPT !.inbox = @ \o B]
           c3 == [c2 EXCEPT !.inbox = @ \o C]
<1>7. client' = c3
  BY <1>1, <1>2 DEF Client
<1> HIDE DEF c3
<1>8. Good(c1) /\ c1.stream = "open" /\ c1.view = client.view /\ c1.listening = client.listening
  BY <1>1, <1>3, <1>5, NewsKeeps
<1> HIDE DEF c1
<1>9. Good(c2) /\ c2.stream = "open" /\ c2.view = client.view /\ c2.listening = client.listening
  BY <1>5, <1>8, NewsKeeps
<1> HIDE DEF c2
<1>10. Good(c3) /\ c3.stream = "open" /\ c3.view = client.view /\ c3.listening = client.listening
  BY <1>6, <1>9, NewsKeeps DEF c3
<1> QED
  BY <1>2, <1>3, <1>7, <1>10, ServerKeeps

-----------------------------------------------------------------------------
(* The theorems *)

LEMMA InitHolds == Init => IInv
<1> SUFFICES ASSUME Init PROVE IInv
  OBVIOUS
<1>1. PICK K \in SUBSET Keys : results = <<K>>
  BY DEF Init
<1>2. results \in Seq(SUBSET Keys) /\ Len(results) = 1
  BY <1>1, OneElement
<1>3. /\ served = 0 /\ client = Idle /\ disk = [keys |-> {}, token |-> NoToken, seen |-> 0]
      /\ shown = 0 /\ unmended = FALSE /\ spoilt = FALSE /\ listens = 0 /\ breaks = 0
  BY DEF Init
<1>4. Good(client) /\ client.listening = FALSE
  <2>1. Len(results) \in Nat
    BY <1>2
  <2>2. Good(Idle) /\ Idle.listening = FALSE
    BY <2>1, IdleIsGood, Zenon
  <2> QED
    BY <1>3, <2>2, Zenon
<1>5. 0 \in Versions /\ NoToken \in Versions
  BY <1>2 DEF Versions, NoToken
<1>6. 1 \in 1..MaxVersions /\ 0 \in 0..MaxListens /\ 0 \in 0..MaxBreaks
  BY WatchBounds
<1>7. disk \in [keys : SUBSET Keys, token : Versions, seen : Versions]
  BY <1>3, <1>5
<1>8. Typed
  BY <1>2, <1>3, <1>4, <1>5, <1>6, <1>7 DEF Typed, Good
<1> QED
  BY <1>3, <1>4, <1>8, InvariantParts

LEMMA StepKeeps == IInv /\ [Next]_vars => IInv'
<1> SUFFICES ASSUME IInv, [Next]_vars PROVE IInv'
  OBVIOUS
<1>1. CASE ListenStarts
  BY <1>1, ListenStartsKeeps
<1>2. CASE ListenEnds
  BY <1>2, ListenEndsKeeps
<1>3. CASE OnWatchStreamOpen
  BY <1>3, OpenKeeps
<1>4. CASE OnWatchStreamChange
  BY <1>4, ChangeKeeps
<1>5. CASE StreamCloses
  BY <1>5, ClosesKeeps
<1>6. CASE Relaunch
  BY <1>6, RelaunchKeeps
<1>7. CASE \E K \in SUBSET Keys : ResultChanges(K)
  BY <1>7, ResultKeeps
<1>8. CASE \E v \in 1..Len(results) : ServerWatches(v)
  BY <1>8, WatchesKeeps
<1>9. CASE ServerUnwatches
  BY <1>9, UnwatchesKeeps
<1>10. CASE ServerUpdates
  BY <1>10, UpdatesKeeps
<1>11. CASE UNCHANGED vars
  <2>1. UNCHANGED <<results, served, client, disk, shown, unmended, spoilt, listens, breaks>>
    BY <1>11 DEF vars, server, history
  <2>2. /\ Good(client) /\ disk \in Disk /\ Typed /\ (served # 0 => client.stream = "open")
        /\ (client.listening => disk.keys = client.view.keys)
    BY InvariantParts DEF Typed, Disk
  <2> QED
    BY <2>1, <2>2, Closing DEF Typed
<1> QED
  BY <1>1, <1>2, <1>3, <1>4, <1>5, <1>6, <1>7, <1>8, <1>9, <1>10, <1>11 DEF Next

LEMMA Invariance == Spec => []IInv
BY InitHolds, StepKeeps, PTL DEF Spec

\* Every variable has its type, however often the query's result changes and
\* however much waits in the inbox.
THEOREM TypeCorrect == Spec => []TypeOK
<1>1. IInv => TypeOK
  <2> SUFFICES ASSUME Typed PROVE TypeOK
    BY DEF IInv
  <2>1. client \in Client /\ client.target \in Target
    BY DEF Typed, Client
  <2>2. /\ client.stream \in {"closed", "starting", "open"}
        /\ client.listening \in BOOLEAN /\ client.mismatch \in BOOLEAN
        /\ client.view \in [keys : SUBSET Keys, current : BOOLEAN]
        /\ client.token \in Versions /\ client.stored \in Versions
    BY <2>1 DEF Client, View
  <2>3. /\ client.target.changes \in [Keys -> {"none", "added", "modified", "removed"}]
        /\ client.target.due \in Nat
    BY <2>1 DEF Target, Changes
  <2>4. /\ {served, shown, disk.token, disk.seen, client.token, client.stored} \subseteq 0..Len(results)
        /\ disk.keys \subseteq Keys
    BY <2>2 DEF Typed, Versions
  <2> QED
    BY <2>2, <2>3, <2>4 DEF Typed, TypeOK
<1> QED
  BY <1>1, Invariance, PTL

\* No message that answers or belongs to an earlier listen is taken for another's:
\* the answers the aggregator waits for are those under way, and what it gathers
\* fits the view it will be applied to.
THEOREM AggregatorKeepsStep == Spec => []AggregatorInStep
<1>1. IInv => DueIsUnderWay
  BY DEF IInv, InStep, DueIsUnderWay, Answers, Responses
<1>2. IInv => ChangesFitView
  BY DEF IInv, Fit, Fits, ChangesFitView
<1> QED
  BY <1>1, <1>2, Invariance, PTL DEF AggregatorInStep

\* What the view was told is on disk too, whenever a listen ends or the process
\* is killed.
THEOREM DiskIsNotBehind == Spec => []DiskFollowsView
<1>1. IInv => DiskFollowsView
  BY DEF IInv
<1> QED
  BY <1>1, Invariance, PTL

-----------------------------------------------------------------------------
(* A view that counts as current is exact: the invariant *)

\* The documents at version v; without a version there are none.
Result(R, v) == IF v = NoToken THEN {} ELSE R[v]

\* The documents the view will have after the next snapshot.
Gathered(c) == (c.view.keys \ With("removed", c.target.changes)) \cup With("added", c.target.changes)

\* What a message leaves of the documents gathered for a target, of its being
\* current, and of whether a filter did not match (bad).
Track == [keys : SUBSET Keys, current : BOOLEAN, bad : BOOLEAN]

\* Message m makes next of t.  A snapshot comes only where the documents are those
\* of its version, or where a mismatch is to be mended.
Passes(R, t, m, next) ==
  \/ m.kind = "in" /\ next = [t EXCEPT !.keys = t.keys \cup {m.key}]
  \/ m.kind = "out" /\ next = [t EXCEPT !.keys = t.keys \ {m.key}]
  \/ m.kind = "reset" /\ next = [t EXCEPT !.keys = {}, !.current = FALSE]
  \/ m.kind = "filter" /\ Cardinality(t.keys) = m.count /\ next = t
  \/ m.kind = "filter" /\ Cardinality(t.keys) # m.count
     /\ next = [keys |-> {}, current |-> FALSE, bad |-> TRUE]
  \/ m.kind = "current" /\ ~t.bad /\ next = [t EXCEPT !.current = TRUE]
  \/ /\ m.kind = "snapshot" /\ next = t /\ m.version \in 1..Len(R)
     /\ t.bad \/ (t.current /\ t.keys = R[m.version])

\* The messages of s after the first n lead along plan.
Passing(R, s, n, plan) ==
  /\ plan \in [n..Len(s) -> Track]
  /\ \A i \in (n + 1)..Len(s) : Passes(R, plan[i - 1], s[i], plan[i])

\* They lead from t to u.
Leads(R, s, n, t, u) == \E plan : Passing(R, s, n, plan) /\ plan[n] = t /\ plan[Len(s)] = u

\* t is what client c has of the target, or is at least that.
Tracks(c, t) == /\ t.keys = Gathered(c) /\ t.bad = c.mismatch
                /\ t.current => c.target.current

\* Where the messages that count begin: with the next one, or after the last
\* answer that is due, which finds the view as it is.
Starts(c, n, t) ==
  IF n = 0 THEN Tracks(c, t)
  ELSE c.inbox[n].kind = "added" /\ t = [keys |-> c.view.keys, current |-> FALSE, bad |-> FALSE]

\* Where they end: at the version that the server has served.
Ends(R, v, u) == v > 0 => u.bad \/ (u.current /\ u.keys = R[v])

\* While no request waits for the server, what is under way leads from what the
\* client has to what the server has sent.
InTouch(R, v, c) ==
  c.listening /\ c.stream = "open" /\ c.sent = <<>> =>
    \E n \in 0..Len(c.inbox), t \in Track, u \in Track :
      Leads(R, c.inbox, n, t, u) /\ Starts(c, n, t) /\ Ends(R, v, u)

\* What the disk has is the result its token names, if no mismatch is unmended.
Recorded(R, d, un) == ~un => d.keys = Result(R, d.token)

\* What the view has is the result that the tokens in memory name.
Told(R, c, un) ==
  c.listening =>
    /\ c.view.keys = Result(R, c.token)
    /\ ~un \/ c.view.current => c.view.keys = Result(R, c.stored)

\* The last request under way is that of the listen, with its token.
Asked(c) ==
  c.sent # <<>> =>
    LET q == c.sent[Len(c.sent)]
    IN IF c.listening THEN q.kind = "watch" /\ q.token = c.token ELSE q.kind = "unwatch"

\* A mismatch is of an active target that is not current.
Waits(c) == c.listening /\ c.mismatch => c.target.due = 0 /\ ~c.target.current

\* A current view has the result of the last snapshot that counted.
Shows(R, c, v) == c.listening /\ c.view.current => v > 0 /\ c.view.keys = R[v]

\* Without an open stream there is no mismatch.
Calm(c) == c.stream # "open" => ~c.mismatch

Exact(R, c, d, sv, sh, un) ==
  /\ Recorded(R, d, un) /\ Told(R, c, un) /\ Asked(c) /\ Waits(c) /\ Calm(c)
  /\ InTouch(R, sv, c) /\ Shows(R, c, sh)

EInv == ~spoilt => Exact(results, client, disk, served, shown, unmended)

-----------------------------------------------------------------------------
(* Messages that lead from one track to another *)

\* No message leads anywhere.
LEMMA NothingLeads ==
  ASSUME NEW R, NEW s \in Seq(Messages), NEW t \in Track
  PROVE  Leads(R, s, Len(s), t, t)
<1> DEFINE n == Len(s)
           plan == [i \in n..n |-> t]
<1>1. n \in Nat
  BY LenProperties
<1>2. plan \in [n..n -> Track] /\ plan[n] = t
  BY <1>1
<1>3. (n + 1)..n = {}
  BY <1>1
<1> HIDE DEF plan
<1>4. Passing(R, s, n, plan)
  BY <1>2, <1>3 DEF Passing
<1> QED
  BY <1>2, <1>4 DEF Leads

\* With the head gone the rest lead along the rest of the plan.
LEMMA TailPasses ==
  ASSUME NEW R, NEW s \in Seq(Messages), s # <<>>, NEW n \in 0..Len(s), NEW plan,
         Passing(R, s, n, plan), NEW k \in 0..Len(Tail(s)), k + 1 >= n
  PROVE  Leads(R, Tail(s), k, plan[k + 1], plan[Len(s)])
<1> DEFINE q == Tail(s)
           l == Len(q)
           rest == [i \in k..l |-> plan[i + 1]]
<1>1. /\ Len(s) \in Nat /\ l = Len(s) - 1 /\ l \in Nat
      /\ \A i \in 1..l : i + 1 \in 1..Len(s) /\ q[i] = s[i + 1]
  <2>1. /\ Len(s) \in Nat /\ l = Len(s) - 1 /\ 1 \in 1..Len(s)
        /\ \A i \in 1..l : i + 1 \in 1..Len(s) /\ q[i] = s[i + 1]
    BY TailElement
  <2> QED
    BY <2>1
<1> HIDE DEF q, l
<1>2. plan \in [n..Len(s) -> Track] /\ \A i \in (n + 1)..Len(s) : Passes(R, plan[i - 1], s[i], plan[i])
  BY DEF Passing
<1>3. k \in 0..l /\ k + 1 >= n
  BY DEF l, q
<1>4. \A i \in k..l : i + 1 \in n..Len(s)
  BY <1>1, <1>3
<1>5. rest \in [k..l -> Track]
  BY <1>2, <1>4
<1>6. ASSUME NEW i \in (k + 1)..l PROVE Passes(R, rest[i - 1], q[i], rest[i])
  <2>1. /\ i \in 1..l /\ i \in k..l /\ i - 1 \in k..l /\ i + 1 \in (n + 1)..Len(s)
        /\ (i + 1) - 1 = i /\ (i - 1) + 1 = i
    BY <1>1, <1>3
  <2>2. Passes(R, plan[i], s[i + 1], plan[i + 1])
    <3>1. Passes(R, plan[(i + 1) - 1], s[i + 1], plan[i + 1])
      BY <1>2, <2>1
    <3> QED
      BY <2>1, <3>1
  <2>3. rest[i] = plan[i + 1] /\ rest[i - 1] = plan[i] /\ q[i] = s[i + 1]
    BY <1>1, <2>1
  <2> QED
    BY <2>2, <2>3
<1>7. rest[k] = plan[k + 1] /\ rest[l] = plan[l + 1] /\ l + 1 = Len(s)
  BY <1>1, <1>3
<1> HIDE DEF rest
<1>8. Passing(R, q, k, rest)
  BY <1>5, <1>6 DEF Passing, l
<1>9. Leads(R, q, k, plan[k + 1], plan[Len(s)])
  BY <1>7, <1>8 DEF Leads, l
<1> QED
  BY <1>9 DEF q

\* A message before those that count goes, or the first of those that count.
LEMMA TailLeads ==
  ASSUME NEW R, NEW s \in Seq(Messages), s # <<>>, NEW n \in 0..Len(s), NEW t, NEW u,
         Leads(R, s, n, t, u)
  PROVE  /\ n > 0 => n - 1 \in 0..Len(Tail(s)) /\ Leads(R, Tail(s), n - 1, t, u)
         /\ n = 0 => \E next \in Track : /\ Passes(R, t, Head(s), next)
                                        /\ Leads(R, Tail(s), 0, next, u)
<1>1. PICK plan : Passing(R, s, n, plan) /\ plan[n] = t /\ plan[Len(s)] = u
  BY DEF Leads
<1>2. Len(s) \in Nat /\ Len(Tail(s)) = Len(s) - 1 /\ 1 \in 1..Len(s) /\ Head(s) = s[1]
  BY TailElement
<1>3. CASE n > 0
  <2>1. PICK k \in 0..Len(Tail(s)) : k = n - 1 /\ k + 1 = n /\ k + 1 >= n
    BY <1>2, <1>3
  <2>2. Leads(R, Tail(s), k, plan[k + 1], plan[Len(s)])
    BY <1>1, <2>1, TailPasses
  <2> QED
    BY <1>1, <1>3, <2>1, <2>2
<1>4. CASE n = 0
  <2>1. PICK k \in 0..Len(Tail(s)) : k = 0 /\ k + 1 = 1 /\ k + 1 >= n
    BY <1>2, <1>4
  <2>2. Leads(R, Tail(s), k, plan[k + 1], plan[Len(s)])
    BY <1>1, <2>1, TailPasses
  <2>3. plan[1] \in Track /\ Passes(R, plan[1 - 1], s[1], plan[1])
    BY <1>1, <1>2, <1>4 DEF Passing
  <2>4. 1 - 1 = 0
    OBVIOUS
  <2>5. Passes(R, t, Head(s), plan[1])
    BY <1>1, <1>2, <1>4, <2>3, <2>4
  <2>6. Leads(R, Tail(s), 0, plan[1], u)
    BY <1>1, <2>1, <2>2
  <2> QED
    BY <1>4, <2>3, <2>5, <2>6
<1> QED
  BY <1>2, <1>3, <1>4

\* Messages that are sent later lead on from where those before them end.
LEMMA MoreLeads ==
  ASSUME NEW R, NEW s \in Seq(Messages), NEW b \in Seq(Messages), NEW n \in 0..Len(s),
         NEW t, NEW w, NEW u, Leads(R, s, n, t, w), Leads(R, b, 0, w, u)
  PROVE  /\ s \o b \in Seq(Messages) /\ n \in 0..Len(s \o b)
         /\ Leads(R, s \o b, n, t, u)
<1>0. PICK plan : Passing(R, s, n, plan) /\ plan[n] = t /\ plan[Len(s)] = w
  BY DEF Leads
<1>1. PICK q : Passing(R, b, 0, q) /\ q[0] = plan[Len(s)] /\ q[Len(b)] = u
  BY <1>0 DEF Leads
<1> DEFINE l == Len(s)
           k == Len(b)
           z == s \o b
           long == [i \in n..(l + k) |-> IF i <= l THEN plan[i] ELSE q[i - l]]
<1>2. /\ Len(z) = l + k /\ l \in Nat /\ k \in Nat
      /\ \A i \in 1..l : z[i] = s[i]
      /\ \A i \in 1..k : z[i + l] = b[i]
  BY ConcatElement
<1>3. n \in 0..l
  OBVIOUS
<1>4. plan \in [n..l -> Track] /\ \A i \in (n + 1)..l : Passes(R, plan[i - 1], s[i], plan[i])
  BY <1>0 DEF Passing
<1>5. q \in [0..k -> Track] /\ \A i \in 1..k : Passes(R, q[i - 1], b[i], q[i])
  <2>1. 0 + 1 = 1
    OBVIOUS
  <2> QED
    BY <1>1, <2>1 DEF Passing
<1> HIDE DEF l, k, z
<1>6. long \in [n..(l + k) -> Track]
  <2> SUFFICES ASSUME NEW i \in n..(l + k)
               PROVE  (IF i <= l THEN plan[i] ELSE q[i - l]) \in Track
    OBVIOUS
  <2>1. CASE i <= l
    <3>1. i \in n..l
      BY <1>2, <1>3, <2>1
    <3> QED
      BY <1>4, <2>1, <3>1
  <2>2. CASE ~(i <= l)
    <3>1. i - l \in 0..k
      BY <1>2, <1>3, <2>2
    <3> QED
      BY <1>5, <2>2, <3>1
  <2> QED
    BY <2>1, <2>2
<1>7. ASSUME NEW i \in (n + 1)..(l + k) PROVE Passes(R, long[i - 1], z[i], long[i])
  <2>1. i \in n..(l + k) /\ i - 1 \in n..(l + k)
    BY <1>2, <1>3
  <2>2. CASE i <= l
    <3>1. i \in (n + 1)..l /\ i \in 1..l /\ i - 1 <= l
      BY <1>2, <1>3, <2>2
    <3>2. long[i] = plan[i] /\ long[i - 1] = plan[i - 1] /\ z[i] = s[i]
      BY <1>2, <2>1, <2>2, <3>1
    <3> QED
      BY <1>4, <3>1, <3>2
  <2>3. CASE ~(i <= l)
    <3>1. i - l \in 1..k /\ (i - l) + l = i
      BY <1>2, <1>3, <2>3
    <3>2. long[i] = q[i - l] /\ z[i] = b[i - l]
      BY <1>2, <2>1, <2>3, <3>1
    <3>3. long[i - 1] = q[(i - l) - 1]
      <4>1. CASE i - 1 <= l
        <5>1. i - 1 = l /\ (i - l) - 1 = 0
          BY <1>2, <1>3, <2>3, <4>1
        <5>2. long[i - 1] = plan[l]
          BY <2>1, <4>1, <5>1
        <5> QED
          BY <1>1, <5>1, <5>2 DEF l
      <4>2. CASE ~(i - 1 <= l)
        <5>1. (i - 1) - l = (i - l) - 1
          BY <1>2, <1>3
        <5> QED
          BY <2>1, <4>2, <5>1
      <4> QED
        BY <4>1, <4>2
    <3> QED
      BY <1>5, <3>1, <3>2, <3>3
  <2> QED
    BY <2>2, <2>3
<1>8. long[n] = plan[n]
  BY <1>2, <1>3
<1>9. long[l + k] = u
  <2>1. l + k \in n..(l + k)
    BY <1>2, <1>3
  <2>2. CASE k = 0
    <3>1. l + k = l
      BY <1>2, <2>2
    <3>2. long[l + k] = plan[l]
      BY <1>2, <2>1, <3>1
    <3> QED
      BY <1>1, <2>2, <3>2 DEF k, l
  <2>3. CASE k # 0
    <3>1. ~(l + k <= l) /\ (l + k) - l = k
      BY <1>2, <2>3
    <3> QED
      BY <1>1, <2>1, <3>1 DEF k
  <2> QED
    BY <2>2, <2>3
<1> HIDE DEF long
<1>10. Passing(R, z, n, long)
  BY <1>2, <1>6, <1>7 DEF Passing
<1>11. Leads(R, z, n, t, u) /\ n \in 0..Len(z)
  BY <1>0, <1>2, <1>3, <1>8, <1>9, <1>10 DEF Leads
<1>12. z \in Seq(Messages)
  BY ConcatElement DEF z
<1> QED
  BY <1>11, <1>12 DEF z

\* So all of a sequence leads on from all of another.
LEMMA LeadsOn ==
  ASSUME NEW R, NEW s \in Seq(Messages), NEW b \in Seq(Messages), NEW t, NEW w, NEW u,
         Leads(R, s, 0, t, w), Leads(R, b, 0, w, u)
  PROVE  s \o b \in Seq(Messages) /\ Leads(R, s \o b, 0, t, u)
<1>1. PICK n \in 0..Len(s) : n = 0
  BY LenProperties
<1>2. Leads(R, s, n, t, w)
  BY <1>1
<1>3. s \o b \in Seq(Messages) /\ Leads(R, s \o b, n, t, u)
  BY <1>2, MoreLeads
<1> QED
  BY <1>1, <1>3

\* One message leads where it passes to.
LEMMA OneLeads ==
  ASSUME NEW R, NEW m \in Messages, NEW t \in Track, NEW u \in Track, Passes(R, t, m, u)
  PROVE  <<m>> \in Seq(Messages) /\ Leads(R, <<m>>, 0, t, u)
<1> DEFINE s == <<m>>
           plan == [i \in 0..1 |-> IF i = 0 THEN t ELSE u]
<1>1. s \in Seq(Messages) /\ Len(s) = 1 /\ s[1] = m
  BY OneElement
<1>2. plan \in [0..1 -> Track] /\ plan[0] = t /\ plan[1] = u
  OBVIOUS
<1> HIDE DEF s, plan
<1>3. \A i \in (0 + 1)..1 : i = 1 /\ i - 1 = 0
  OBVIOUS
<1>4. Passing(R, s, 0, plan)
  BY <1>1, <1>2, <1>3 DEF Passing
<1> QED
  BY <1>1, <1>2, <1>4 DEF Leads, s

-----------------------------------------------------------------------------
(* What the server sends leads to the version it serves *)

\* Messages about documents lead to the documents with or without them.
LEMMA KeysLead ==
  ASSUME Typed, NEW R, NEW K \in SUBSET Keys, NEW t \in Track
  PROVE  /\ AboutKeys("in", K) \in Seq(Messages) /\ AboutKeys("out", K) \in Seq(Messages)
         /\ Leads(R, AboutKeys("in", K), 0, t, [t EXCEPT !.keys = t.keys \cup K])
         /\ Leads(R, AboutKeys("out", K), 0, t, [t EXCEPT !.keys = t.keys \ K])
<1> DEFINE order == SetToSeq(K)
           n == Cardinality(K)
           Listed(i) == {order[j] : j \in 1..i}
<1>1. IsFiniteSet(K)
  BY WatchBounds, FS_Subset
<1>2. n \in Nat /\ order \in [1..n -> K] /\ \A e \in K : \E i \in 1..n : order[i] = e
  BY <1>1, SetToSeqProperties
<1> HIDE DEF order, n
<1>3. Listed(0) = {} /\ Listed(n) = K
  BY <1>2
<1>4. ASSUME NEW i \in 1..n
      PROVE  /\ i - 1 \in 0..n /\ i \in 0..n /\ order[i] \in K
             /\ Listed(i) = Listed(i - 1) \cup {order[i]}
  <2>1. 1..i = (1..(i - 1)) \cup {i} /\ i - 1 \in 0..n /\ i \in 0..n
    BY <1>2
  <2> QED
    BY <1>2, <2>1
<1>5. ASSUME NEW i \in 0..n PROVE Listed(i) \subseteq Keys
  BY <1>2
<1>6. ASSUME NEW kind \in {"in", "out"}
      PROVE  LET s == AboutKeys(kind, K)
             IN /\ s \in Seq(Messages) /\ Len(s) = n
                /\ \A i \in 1..n : s[i].kind = kind /\ s[i].key = order[i]
  <2> DEFINE s == [i \in DOMAIN order |-> [Message EXCEPT !.kind = kind, !.key = order[i]]]
  <2>1. AboutKeys(kind, K) = s
    BY DEF AboutKeys, order
  <2>2. s \in Seq(News) /\ s \in [1..n -> News]
    <3>1. ASSUME NEW k \in Keys PROVE [Message EXCEPT !.kind = kind, !.key = k] \in News
      BY BlankForm, KeyFilledIn
    <3>2. s \in [1..n -> News]
      BY <1>2, <3>1
    <3> HIDE DEF s
    <3> QED
      BY <1>2, <3>2, FunctionIsSeq
  <2>3. \A i \in 1..n : s[i].kind = kind /\ s[i].key = order[i]
    BY <1>2 DEF Message
  <2> HIDE DEF s
  <2>4. s \in Seq(Messages)
    BY <2>2, CountNews
  <2>5. Len(s) = n
    BY <1>2, <2>2, FunctionIsSeq
  <2> QED
    BY <2>1, <2>3, <2>4, <2>5
<1> HIDE DEF Listed
<1>7. Leads(R, AboutKeys("in", K), 0, t, [t EXCEPT !.keys = t.keys \cup K])
  <2> DEFINE s == AboutKeys("in", K)
             plan == [i \in 0..n |-> [t EXCEPT !.keys = t.keys \cup Listed(i)]]
  <2>1. Len(s) = n /\ \A i \in 1..n : s[i].kind = "in" /\ s[i].key = order[i]
    BY <1>6
  <2> HIDE DEF s
  <2>2. plan \in [0..n -> Track]
    BY <1>5 DEF Track
  <2>3. ASSUME NEW i \in 1..n PROVE Passes(R, plan[i - 1], s[i], plan[i])
    <3>1. plan[i] = [t EXCEPT !.keys = t.keys \cup Listed(i)]
          /\ plan[i - 1] = [t EXCEPT !.keys = t.keys \cup Listed(i - 1)]
      BY <1>4
    <3>2. plan[i - 1].keys = t.keys \cup Listed(i - 1)
      BY <3>1 DEF Track
    <3>3. plan[i] = [plan[i - 1] EXCEPT !.keys = plan[i - 1].keys \cup {order[i]}]
      BY <1>4, <3>1, <3>2 DEF Track
    <3> QED
      BY <2>1, <3>3 DEF Passes
  <2>4. plan[0] = t /\ plan[n] = [t EXCEPT !.keys = t.keys \cup K]
    BY <1>2, <1>3 DEF Track
  <2> HIDE DEF plan
  <2>5. Passing(R, s, 0, plan)
    <3>1. (0 + 1)..n = 1..n
      OBVIOUS
    <3> QED
      BY <2>1, <2>2, <2>3, <3>1 DEF Passing
  <2> QED
    BY <2>1, <2>4, <2>5 DEF Leads, s
<1>8. Leads(R, AboutKeys("out", K), 0, t, [t EXCEPT !.keys = t.keys \ K])
  <2> DEFINE s == AboutKeys("out", K)
             plan == [i \in 0..n |-> [t EXCEPT !.keys = t.keys \ Listed(i)]]
  <2>1. Len(s) = n /\ \A i \in 1..n : s[i].kind = "out" /\ s[i].key = order[i]
    BY <1>6
  <2> HIDE DEF s
  <2>2. plan \in [0..n -> Track]
    BY <1>5 DEF Track
  <2>3. ASSUME NEW i \in 1..n PROVE Passes(R, plan[i - 1], s[i], plan[i])
    <3>1. plan[i] = [t EXCEPT !.keys = t.keys \ Listed(i)]
          /\ plan[i - 1] = [t EXCEPT !.keys = t.keys \ Listed(i - 1)]
      BY <1>4
    <3>2. plan[i - 1].keys = t.keys \ Listed(i - 1)
      BY <3>1 DEF Track
    <3>3. plan[i] = [plan[i - 1] EXCEPT !.keys = plan[i - 1].keys \ {order[i]}]
      BY <1>4, <3>1, <3>2 DEF Track
    <3> QED
      BY <2>1, <3>3 DEF Passes
  <2>4. plan[0] = t /\ plan[n] = [t EXCEPT !.keys = t.keys \ K]
    BY <1>2, <1>3 DEF Track
  <2> HIDE DEF plan
  <2>5. Passing(R, s, 0, plan)
    <3>1. (0 + 1)..n = 1..n
      OBVIOUS
    <3> QED
      BY <2>1, <2>2, <2>3, <3>1 DEF Passing
  <2> QED
    BY <2>1, <2>4, <2>5 DEF Leads, s
<1> QED
  BY <1>6, <1>7, <1>8

\* The messages about the target, one by one.
LEMMA TargetMessages ==
  ASSUME Typed, NEW v \in 1..Len(results)
  PROVE  /\ \E m \in Messages : m.kind = "reset" /\ About("reset") = <<m>>
         /\ \E m \in Messages : /\ m.kind = "filter" /\ m.count = Cardinality(results[v])
                                /\ FilterAt(v) = <<m>>
         /\ \A kind \in {"current", "snapshot"} :
              \E m \in Messages : m.kind = kind /\ m.version = v /\ AtVersion(kind, v) = <<m>>
<1>1. /\ Len(results) \in Nat /\ results \in Seq(SUBSET Keys) /\ Message \in Form
      /\ 0 \in Nat /\ v \in Versions
  BY BlankForm DEF Typed, Versions
<1>2. Cardinality(results[v]) \in Nat
  <2>1. results[v] \in SUBSET Keys
    BY <1>1, ElementOfSeq
  <2> QED
    BY <2>1, WatchBounds, FS_Subset, FS_CardinalityType
<1>3. \E m \in Messages : m.kind = "reset" /\ About("reset") = <<m>>
  <2> DEFINE m == [Message EXCEPT !.kind = "reset"]
  <2>1. "reset" \in MessageKinds \ {"in", "out"}
    BY DEF MessageKinds, Responses
  <2>2. m \in Messages /\ m.kind = "reset"
    BY <1>1, <2>1, FilledIn
  <2> QED
    BY <2>2 DEF About
<1>4. ASSUME NEW n \in Nat
      PROVE  LET m == [Message EXCEPT !.kind = "filter", !.count = n]
             IN m \in Messages /\ m.kind = "filter" /\ m.count = n
  <2> DEFINE m == [Message EXCEPT !.kind = "filter", !.count = n]
  <2>1. "filter" \in MessageKinds \ {"in", "out"}
    BY DEF MessageKinds, Responses
  <2>2. m \in Messages
    BY <1>1, <2>1, FilledIn
  <2> QED
    BY <2>2 DEF Message
<1>5. \E m \in Messages : /\ m.kind = "filter" /\ m.count = Cardinality(results[v])
                          /\ FilterAt(v) = <<m>>
  <2>1. PICK n \in Nat : n = Cardinality(results[v])
    BY <1>2
  <2> QED
    BY <1>4, <2>1 DEF FilterAt
<1>6. ASSUME NEW kind \in {"current", "snapshot"}
      PROVE  \E m \in Messages : m.kind = kind /\ m.version = v /\ AtVersion(kind, v) = <<m>>
  <2> DEFINE m == [Message EXCEPT !.kind = kind, !.version = v]
  <2>1. kind \in MessageKinds \ {"in", "out"}
    BY DEF MessageKinds, Responses
  <2>2. m \in Messages
    BY <1>1, <2>1, FilledIn
  <2>3. m.kind = kind /\ m.version = v
    BY DEF Message
  <2> QED
    BY <2>2, <2>3 DEF AtVersion
<1> QED
  BY <1>3, <1>5, <1>6

\* A target that has the documents of a version is current with it.
LEMMA CurrentLeads ==
  ASSUME Typed, NEW v \in 1..Len(results), NEW t \in Track, ~t.bad, t.keys = results[v]
  PROVE  /\ UpTo(v, <<>>) \in Seq(Messages)
         /\ \E u \in Track : Leads(results, UpTo(v, <<>>), 0, t, u) /\ Ends(results, v, u)
<1> DEFINE u == [t EXCEPT !.current = TRUE]
<1>1. u \in Track /\ u.keys = results[v] /\ u.current
  BY DEF Track
<1>2. PICK c \in Messages : c.kind = "current" /\ AtVersion("current", v) = <<c>>
  BY TargetMessages
<1>3. PICK s \in Messages : s.kind = "snapshot" /\ s.version = v /\ AtVersion("snapshot", v) = <<s>>
  BY TargetMessages
<1>4. Passes(results, t, c, u)
  BY <1>2 DEF Passes
<1> HIDE DEF u
<1>5. Passes(results, u, s, u)
  BY <1>1, <1>3 DEF Passes
<1>6. <<c>> \in Seq(Messages) /\ Leads(results, <<c>>, 0, t, u)
  BY <1>1, <1>4, OneLeads
<1>7. <<s>> \in Seq(Messages) /\ Leads(results, <<s>>, 0, u, u)
  BY <1>1, <1>5, OneLeads
<1>8. <<c>> \o <<s>> \in Seq(Messages) /\ Leads(results, <<c>> \o <<s>>, 0, t, u)
  BY <1>6, <1>7, LeadsOn
<1>9. UpTo(v, <<>>) = <<c>> \o <<s>>
  <2>1. UpTo(v, <<>>) = (<<c>> \o <<>>) \o <<s>>
    BY <1>2, <1>3 DEF UpTo
  <2>2. <<c>> \o <<>> = <<c>>
    BY <1>6, ConcatEmptySeq
  <2> QED
    BY <2>1, <2>2
<1> QED
  BY <1>1, <1>8, <1>9 DEF Ends

\* With a filter the target is current, or does not match, if it has no document
\* less than the version.
LEMMA FilterLeads ==
  ASSUME Typed, NEW v \in 1..Len(results), NEW t \in Track, ~t.bad, results[v] \subseteq t.keys
  PROVE  /\ UpTo(v, FilterAt(v)) \in Seq(Messages)
         /\ \E u \in Track : Leads(results, UpTo(v, FilterAt(v)), 0, t, u) /\ Ends(results, v, u)
<1> DEFINE w == [t EXCEPT !.current = TRUE]
           u == IF Cardinality(t.keys) = Cardinality(results[v]) THEN w
                ELSE [keys |-> {}, current |-> FALSE, bad |-> TRUE]
<1>1. w \in Track /\ w.keys = t.keys /\ w.current
  BY DEF Track
<1>2. PICK c \in Messages : c.kind = "current" /\ AtVersion("current", v) = <<c>>
  BY TargetMessages
<1>3. PICK s \in Messages : s.kind = "snapshot" /\ s.version = v /\ AtVersion("snapshot", v) = <<s>>
  BY TargetMessages
<1>4. PICK f \in Messages : f.kind = "filter" /\ f.count = Cardinality(results[v]) /\ FilterAt(v) = <<f>>
  BY TargetMessages
<1>5. Passes(results, t, c, w)
  BY <1>2 DEF Passes
<1> HIDE DEF w
<1>6. u \in Track /\ Passes(results, w, f, u)
  <2>1. [keys |-> {}, current |-> FALSE, bad |-> TRUE] \in Track
    BY DEF Track
  <2> QED
    BY <1>1, <1>4, <2>1 DEF Passes
<1>7. u.bad \/ (u.current /\ u.keys = results[v])
  <2>1. CASE Cardinality(t.keys) = Cardinality(results[v])
    <3>1. IsFiniteSet(t.keys)
      BY WatchBounds, FS_Subset DEF Track
    <3>2. t.keys = results[v]
      BY <2>1, <3>1, FS_Subset
    <3> QED
      BY <1>1, <2>1, <3>2
  <2>2. CASE Cardinality(t.keys) # Cardinality(results[v])
    BY <2>2
  <2> QED
    BY <2>1, <2>2
<1> HIDE DEF u
<1>8. Passes(results, u, s, u)
  BY <1>3, <1>7 DEF Passes
<1>9. <<c>> \in Seq(Messages) /\ Leads(results, <<c>>, 0, t, w)
  BY <1>1, <1>5, OneLeads
<1>10. <<f>> \in Seq(Messages) /\ Leads(results, <<f>>, 0, w, u)
  BY <1>1, <1>6, OneLeads
<1>11. <<s>> \in Seq(Messages) /\ Leads(results, <<s>>, 0, u, u)
  BY <1>6, <1>8, OneLeads
<1>12. <<c>> \o <<f>> \in Seq(Messages) /\ Leads(results, <<c>> \o <<f>>, 0, t, u)
  BY <1>9, <1>10, LeadsOn
<1>13. /\ (<<c>> \o <<f>>) \o <<s>> \in Seq(Messages)
       /\ Leads(results, (<<c>> \o <<f>>) \o <<s>>, 0, t, u)
  BY <1>11, <1>12, LeadsOn
<1>14. UpTo(v, FilterAt(v)) = (<<c>> \o <<f>>) \o <<s>>
  BY <1>2, <1>3, <1>4 DEF UpTo
<1> QED
  BY <1>6, <1>7, <1>13, <1>14 DEF Ends

\* A sequence that leads to where another one ends well.
LEMMA EndsOn ==
  ASSUME NEW v, NEW s \in Seq(Messages), NEW b \in Seq(Messages), NEW t, NEW w,
         Leads(results, s, 0, t, w),
         \E u \in Track : Leads(results, b, 0, w, u) /\ Ends(results, v, u)
  PROVE  /\ s \o b \in Seq(Messages)
         /\ \E u \in Track : Leads(results, s \o b, 0, t, u) /\ Ends(results, v, u)
<1>1. PICK u \in Track : Leads(results, b, 0, w, u) /\ Ends(results, v, u)
  OBVIOUS
<1>2. s \o b \in Seq(Messages) /\ Leads(results, s \o b, 0, t, u)
  BY <1>1, LeadsOn
<1> QED
  BY <1>1, <1>2

\* However the server brings a target up to date that has the documents of the
\* token, the target then has those of the version or a mismatch is known.
LEMMA ServedLeads ==
  ASSUME Typed, NEW r \in Versions, NEW v \in 1..Len(results), v >= r, NEW batch \in Served(r, v),
         NEW t \in Track, ~t.bad, t.keys = Result(results, r)
  PROVE  /\ batch \in Seq(Messages)
         /\ \E u \in Track : Leads(results, batch, 0, t, u) /\ Ends(results, v, u)
<1>1. results \in Seq(SUBSET Keys) /\ Len(results) \in Nat
  BY DEF Typed
<1>2. results[v] \in SUBSET Keys
  BY <1>1, ElementOfSeq
<1> DEFINE again == AboutKeys("in", results[v])
           a == [t EXCEPT !.keys = t.keys \cup results[v]]
<1>3. again \in Seq(Messages) /\ Leads(results, again, 0, t, a)
  BY <1>2, KeysLead
<1>4. a \in Track /\ a.keys = t.keys \cup results[v] /\ ~a.bad
  BY <1>2 DEF Track
<1> HIDE DEF a, again
<1>5. CASE r = NoToken
  <2>1. batch = again \o UpTo(v, <<>>)
    BY <1>5 DEF Served, again
  <2>2. a.keys = results[v]
    BY <1>4, <1>5 DEF Result
  <2>3. /\ UpTo(v, <<>>) \in Seq(Messages)
        /\ \E u \in Track : Leads(results, UpTo(v, <<>>), 0, a, u) /\ Ends(results, v, u)
    BY <1>4, <2>2, CurrentLeads
  <2> QED
    BY <1>3, <2>1, <2>3, EndsOn
<1>6. CASE r # NoToken
  <2> DEFINE gone == results[r] \ results[v]
             new == AboutKeys("in", results[v] \ results[r])
             out == AboutKeys("out", gone)
             kept == IF gone = {} THEN <<>> ELSE FilterAt(v)
             n == [t EXCEPT !.keys = t.keys \cup (results[v] \ results[r])]
             o == [n EXCEPT !.keys = n.keys \ gone]
  <2>1. r \in 1..Len(results) /\ t.keys = results[r]
    BY <1>1, <1>6 DEF Versions, NoToken, Result
  <2>2. results[r] \in SUBSET Keys
    BY <1>1, <2>1, ElementOfSeq
  <2>3. n \in Track /\ n.keys = results[r] \cup results[v] /\ ~n.bad
    BY <1>2, <2>1 DEF Track
  <2>4. new \in Seq(Messages) /\ Leads(results, new, 0, t, n)
    <3>1. results[v] \ results[r] \in SUBSET Keys
      BY <1>2
    <3> QED
      BY <3>1, KeysLead
  <2> HIDE DEF n
  <2>5. o \in Track /\ o.keys = results[v] /\ ~o.bad
    BY <2>3 DEF Track
  <2>6. out \in Seq(Messages) /\ Leads(results, out, 0, n, o)
    <3>1. gone \in SUBSET Keys
      BY <2>2
    <3> QED
      BY <2>3, <3>1, KeysLead
  <2>7. batch \in { new \o out \o UpTo(v, <<>>), new \o UpTo(v, FilterAt(v)),
                    again \o UpTo(v, kept), About("reset") \o again \o UpTo(v, <<>>) }
    BY <1>6 DEF Served, Resumed, again
  <2> HIDE DEF o, new, out
  <2>8. CASE batch = new \o out \o UpTo(v, <<>>)
    <3>1. /\ UpTo(v, <<>>) \in Seq(Messages)
          /\ \E u \in Track : Leads(results, UpTo(v, <<>>), 0, o, u) /\ Ends(results, v, u)
      BY <2>5, CurrentLeads
    <3>2. new \o out \in Seq(Messages) /\ Leads(results, new \o out, 0, t, o)
      BY <2>4, <2>6, LeadsOn
    <3> QED
      BY <2>8, <3>1, <3>2, EndsOn
  <2>9. CASE batch = new \o UpTo(v, FilterAt(v))
    <3>1. /\ UpTo(v, FilterAt(v)) \in Seq(Messages)
          /\ \E u \in Track : Leads(results, UpTo(v, FilterAt(v)), 0, n, u) /\ Ends(results, v, u)
      BY <2>3, FilterLeads
    <3> QED
      BY <2>4, <2>9, <3>1, EndsOn
  <2>10. CASE batch = again \o UpTo(v, kept)
    <3>1. /\ UpTo(v, kept) \in Seq(Messages)
          /\ \E u \in Track : Leads(results, UpTo(v, kept), 0, a, u) /\ Ends(results, v, u)
      <4>1. CASE gone = {}
        <5>1. a.keys = results[v] /\ kept = <<>>
          BY <1>4, <2>1, <4>1
        <5> QED
          BY <1>4, <5>1, CurrentLeads
      <4>2. CASE gone # {}
        <5>1. kept = FilterAt(v) /\ results[v] \subseteq a.keys
          BY <1>4, <4>2
        <5> HIDE DEF kept
        <5> QED
          BY <1>4, <5>1, FilterLeads
      <4> QED
        BY <4>1, <4>2
    <3> HIDE DEF kept
    <3> QED
      BY <1>3, <2>10, <3>1, EndsOn
  <2>11. CASE batch = About("reset") \o again \o UpTo(v, <<>>)
    <3> DEFINE e == [t EXCEPT !.keys = {}, !.current = FALSE]
               f == [e EXCEPT !.keys = e.keys \cup results[v]]
    <3>1. e \in Track /\ e.keys = {} /\ ~e.bad
      BY DEF Track
    <3>2. PICK m \in Messages : m.kind = "reset" /\ About("reset") = <<m>>
      BY TargetMessages
    <3>3. Passes(results, t, m, e)
      BY <3>2 DEF Passes
    <3> HIDE DEF e
    <3>4. <<m>> \in Seq(Messages) /\ Leads(results, <<m>>, 0, t, e)
      BY <3>1, <3>3, OneLeads
    <3>5. f \in Track /\ f.keys = results[v] /\ ~f.bad
      BY <1>2, <3>1 DEF Track
    <3>6. Leads(results, again, 0, e, f)
      BY <1>2, <3>1, KeysLead DEF again
    <3> HIDE DEF f
    <3>7. <<m>> \o again \in Seq(Messages) /\ Leads(results, <<m>> \o again, 0, t, f)
      BY <1>3, <3>4, <3>6, LeadsOn
    <3>8. /\ UpTo(v, <<>>) \in Seq(Messages)
          /\ \E u \in Track : Leads(results, UpTo(v, <<>>), 0, f, u) /\ Ends(results, v, u)
      BY <3>5, CurrentLeads
    <3>9. batch = (<<m>> \o again) \o UpTo(v, <<>>)
      BY <2>11, <3>2
    <3> QED
      BY <3>7, <3>8, <3>9, EndsOn
  <2> QED
    BY <2>7, <2>8, <2>9, <2>10, <2>11
<1> QED
  BY <1>5, <1>6

\* An update leads on to the next version.
LEMMA UpdateLeads ==
  ASSUME Typed, served \in 1..(Len(results) - 1), NEW t \in Track, Ends(results, served, t)
  PROVE  LET v == served + 1
             A == AboutKeys("in", results[v] \ results[served])
             B == AboutKeys("out", results[served] \ results[v])
             C == AtVersion("snapshot", v)
         IN /\ {A, B, C} \subseteq Seq(Messages)
            /\ \E a \in Track, u \in Track :
                 /\ Leads(results, A, 0, t, a) /\ Leads(results, B, 0, a, u)
                 /\ Leads(results, C, 0, u, u) /\ Ends(results, v, u)
<1> DEFINE v == served + 1
           new == results[v] \ results[served]
           gone == results[served] \ results[v]
           A == AboutKeys("in", new)
           B == AboutKeys("out", gone)
           a == [t EXCEPT !.keys = t.keys \cup new]
           u == [a EXCEPT !.keys = a.keys \ gone]
<1>1. /\ results \in Seq(SUBSET Keys) /\ Len(results) \in Nat
      /\ served \in 1..Len(results) /\ v \in 1..Len(results) /\ served > 0
  BY DEF Typed
<1>2. results[v] \in SUBSET Keys /\ results[served] \in SUBSET Keys
  BY <1>1, ElementOfSeq
<1> HIDE DEF v
<1>3. new \in SUBSET Keys /\ gone \in SUBSET Keys
  BY <1>2
<1>4. A \in Seq(Messages) /\ Leads(results, A, 0, t, a)
  BY <1>3, KeysLead
<1>5. a \in Track /\ a.keys = t.keys \cup new /\ a.bad = t.bad /\ a.current = t.current
  BY <1>3 DEF Track
<1> HIDE DEF a
<1>6. B \in Seq(Messages) /\ Leads(results, B, 0, a, u)
  BY <1>3, <1>5, KeysLead
<1>7. u \in Track /\ u.keys = (t.keys \cup new) \ gone /\ u.bad = t.bad /\ u.current = t.current
  BY <1>3, <1>5 DEF Track
<1> HIDE DEF u
<1>8. u.bad \/ (u.current /\ u.keys = results[v])
  <2>1. t.bad \/ (t.current /\ t.keys = results[served])
    BY <1>1 DEF Ends
  <2> QED
    BY <1>7, <2>1
<1>9. PICK s \in Messages : s.kind = "snapshot" /\ s.version = v /\ AtVersion("snapshot", v) = <<s>>
  BY <1>1, TargetMessages
<1>10. Passes(results, u, s, u)
  BY <1>1, <1>8, <1>9 DEF Passes
<1>11. <<s>> \in Seq(Messages) /\ Leads(results, <<s>>, 0, u, u)
  BY <1>7, <1>10, OneLeads
<1>12. Ends(results, v, u)
  BY <1>8 DEF Ends
<1> QED
  BY <1>4, <1>5, <1>6, <1>7, <1>9, <1>11, <1>12 DEF v

-----------------------------------------------------------------------------
(* The aggregator follows the messages *)

\* The filter is compared with the number of documents gathered.
LEMMA CountIsGathered ==
  ASSUME NEW c \in Client, Fits(c.target, c.view)
  PROVE  Gathered(c) \in SUBSET Keys /\ GetCurrentDocumentCount(c) = Cardinality(Gathered(c))
<1> DEFINE K == c.view.keys
           A == With("added", c.target.changes)
           D == With("removed", c.target.changes)
<1>1. K \in SUBSET Keys /\ A \in SUBSET Keys /\ D \in SUBSET Keys
  BY DEF Client, View, With
<1>2. A \cap K = {} /\ D \subseteq K
  BY DEF Fits
<1>3. Gathered(c) = (K \ D) \cup A /\ GetCurrentDocumentCount(c) = Cardinality(K) + Cardinality(A) - Cardinality(D)
  BY DEF Gathered, GetCurrentDocumentCount
<1> HIDE DEF K, A, D
<1>4. /\ IsFiniteSet(K) /\ IsFiniteSet(A) /\ IsFiniteSet(D)
      /\ Cardinality(K) \in Nat /\ Cardinality(A) \in Nat /\ Cardinality(D) \in Nat
  BY <1>1, WatchBounds, FS_Subset, FS_CardinalityType
<1>5. IsFiniteSet(K \ D) /\ Cardinality(K \ D) = Cardinality(K) - Cardinality(D)
  <2>1. K \cap D = D
    BY <1>2
  <2> QED
    BY <1>4, <2>1, FS_Difference
<1>6. Cardinality((K \ D) \cup A) = Cardinality(K \ D) + Cardinality(A) - Cardinality((K \ D) \cap A)
  BY <1>4, <1>5, FS_Union
<1>7. Cardinality((K \ D) \cap A) = 0
  <2>1. (K \ D) \cap A = {}
    BY <1>2
  <2> QED
    BY <2>1, FS_EmptySet
<1>8. Cardinality((K \ D) \cup A) = Cardinality(K) + Cardinality(A) - Cardinality(D)
  BY <1>4, <1>5, <1>6, <1>7
<1> QED
  BY <1>1, <1>3, <1>8

\* What is gathered after the change of one document.
LEMMA DocumentGathered ==
  ASSUME NEW c \in Client, Fits(c.target, c.view), NEW k \in Keys,
         NEW change \in {"none", "added", "modified", "removed"},
         change = "added" => k \notin c.view.keys,
         change \in {"modified", "removed"} => k \in c.view.keys,
         change = "none" => k \notin c.view.keys
  PROVE  LET d == AddDocumentChange(c, k, change)
         IN /\ d.mismatch = c.mismatch /\ d.target.current = c.target.current
            /\ Gathered(d) = IF change \in {"added", "modified"} THEN Gathered(c) \cup {k}
                             ELSE Gathered(c) \ {k}
<1> DEFINE t == c.target
           X == [t.changes EXCEPT ![k] = change]
           d == AddDocumentChange(c, k, change)
<1>1. t \in Target /\ t.changes \in Changes /\ c.view.keys \in SUBSET Keys
  BY DEF Client, Target, View
<1>2. \A j \in Keys : X[j] = IF j = k THEN change ELSE t.changes[j]
  BY <1>1 DEF Changes
<1>3. d = [c EXCEPT !.target.changes[k] = change, !.target.changed = TRUE]
  BY DEF AddDocumentChange
<1>4. d.target.changes = X /\ d.target.current = t.current /\ d.view = c.view /\ d.mismatch = c.mismatch
  <2> DEFINE T == [t EXCEPT !.changes = X, !.changed = TRUE]
  <2>1. T.changes = X /\ T.current = t.current
    BY <1>1 DEF Target
  <2>2. T = [t EXCEPT !.changes[k] = change, !.changed = TRUE]
    BY <1>1 DEF Target
  <2>3. d = [c EXCEPT !.target = T]
    BY <1>3, <2>2 DEF Client
  <2> HIDE DEF T, d, X
  <2> QED
    BY <2>1, <2>3 DEF Client
<1> HIDE DEF X, d
<1>5. /\ With("added", t.changes) \cap c.view.keys = {}
      /\ With("removed", t.changes) \subseteq c.view.keys
  BY DEF Fits
<1>6. ASSUME change \in {"added", "modified"} PROVE Gathered(d) = Gathered(c) \cup {k}
  <2>1. CASE change = "added"
    <3>1. /\ With("added", X) = With("added", t.changes) \cup {k}
          /\ With("removed", X) = With("removed", t.changes) \ {k}
      BY <1>2, <2>1 DEF With
    <3> QED
      BY <1>4, <1>5, <2>1, <3>1 DEF Gathered
  <2>2. CASE change = "modified"
    <3>1. /\ With("added", X) = With("added", t.changes) \ {k}
          /\ With("removed", X) = With("removed", t.changes) \ {k}
      BY <1>2, <2>2 DEF With
    <3> QED
      BY <1>4, <1>5, <2>2, <3>1 DEF Gathered
  <2> QED
    BY <1>6, <2>1, <2>2
<1>7. ASSUME change \in {"removed", "none"} PROVE Gathered(d) = Gathered(c) \ {k}
  <2>1. CASE change = "removed"
    <3>1. /\ With("added", X) = With("added", t.changes) \ {k}
          /\ With("removed", X) = With("removed", t.changes) \cup {k}
      BY <1>2, <2>1 DEF With
    <3> QED
      BY <1>4, <1>5, <2>1, <3>1 DEF Gathered
  <2>2. CASE change = "none"
    <3>1. /\ With("added", X) = With("added", t.changes) \ {k}
          /\ With("removed", X) = With("removed", t.changes) \ {k}
      BY <1>2, <2>2 DEF With
    <3> QED
      BY <1>4, <1>5, <2>2, <3>1 DEF Gathered
  <2> QED
    BY <1>7, <2>1, <2>2
<1> QED
  BY <1>4, <1>6, <1>7 DEF d

\* A reset gathers nothing.
LEMMA ResetGathered ==
  ASSUME NEW c \in Client
  PROVE  LET d == ResetTarget(c)
         IN Gathered(d) = {} /\ d.target.current = FALSE /\ d.mismatch = c.mismatch
<1> DEFINE X == [k \in Keys |-> IF k \in c.view.keys THEN "removed" ELSE "none"]
           d == ResetTarget(c)
<1>1. d = [c EXCEPT !.target = [NewTarget EXCEPT !.changes = X]]
  BY DEF ResetTarget
<1>2. /\ d.target = [NewTarget EXCEPT !.changes = X] /\ d.view = c.view /\ d.mismatch = c.mismatch
  BY <1>1 DEF Client
<1> HIDE DEF d
<1>3. d.target.changes = X /\ d.target.current = FALSE
  BY <1>2 DEF NewTarget
<1>4. c.view.keys \in SUBSET Keys
  BY DEF Client, View
<1>5. With("removed", X) = c.view.keys /\ With("added", X) = {}
  BY <1>4 DEF With
<1> QED
  BY <1>2, <1>3, <1>5 DEF Gathered, d

\* A message to an active target does to what is gathered what it does to the
\* track; a mismatch leaves the target not current; a snapshot's token is taken.
LEMMA HandleTracks ==
  ASSUME NEW c \in Client, NEW m \in Messages, IsActiveTarget(c), Fits(c.target, c.view),
         c.mismatch => ~c.target.current,
         NEW t \in Track, Tracks(c, t), NEW next \in Track, NEW R, Passes(R, t, m, next)
  PROVE  LET d == HandleWatchChange(c, m)
         IN /\ Tracks(d, next) /\ (d.mismatch => ~d.target.current)
            /\ m.kind = "snapshot" => /\ d.target.token = m.version /\ d.target.changed
                                      /\ d.target.changes = c.target.changes
<1> DEFINE d == HandleWatchChange(c, m)
<1>1. /\ t.keys = Gathered(c) /\ t.bad = c.mismatch /\ (t.current => c.target.current)
  BY DEF Tracks
<1>2. c.target \in Target /\ c.mismatch \in BOOLEAN /\ c.target.current \in BOOLEAN
  BY DEF Client, Target
<1>3. /\ m.kind = "in" => d = AddDocumentToTarget(c, m.key) /\ m.key \in Keys
      /\ m.kind = "out" => d = RemoveDocumentFromTarget(c, m.key) /\ m.key \in Keys
      /\ m.kind = "current" => d = UpdateResumeToken([c EXCEPT !.target.current = TRUE], m.version)
      /\ m.kind = "snapshot" => d = UpdateResumeToken(c, m.version)
      /\ m.kind = "reset" => d = ResetTarget(c)
      /\ m.kind = "filter" => d = HandleExistenceFilter(c, m.count)
  BY DEF HandleWatchChange, Messages
<1> HIDE DEF d
<1>4. CASE m.kind = "in"
  <2>1. next = [t EXCEPT !.keys = t.keys \cup {m.key}]
    BY <1>4 DEF Passes
  <2>2. next.keys = t.keys \cup {m.key} /\ next.bad = t.bad /\ next.current = t.current
    BY <2>1 DEF Track
  <2>3. PICK change \in {"added", "modified"} :
          /\ d = AddDocumentChange(c, m.key, change)
          /\ change = "added" => m.key \notin c.view.keys
          /\ change = "modified" => m.key \in c.view.keys
    BY <1>3, <1>4 DEF AddDocumentToTarget
  <2>4. d.mismatch = c.mismatch /\ d.target.current = c.target.current /\ Gathered(d) = Gathered(c) \cup {m.key}
    <3>1. m.key \in Keys /\ change \in {"none", "added", "modified", "removed"}
      BY <1>3, <1>4
    <3> QED
      BY <2>3, <3>1, DocumentGathered
  <2> QED
    BY <1>1, <1>4, <2>2, <2>4 DEF Tracks, d
<1>5. CASE m.kind = "out"
  <2>1. next = [t EXCEPT !.keys = t.keys \ {m.key}]
    BY <1>5 DEF Passes
  <2>2. next.keys = t.keys \ {m.key} /\ next.bad = t.bad /\ next.current = t.current
    BY <2>1 DEF Track
  <2>3. PICK change \in {"removed", "none"} :
          /\ d = AddDocumentChange(c, m.key, change)
          /\ change = "none" => m.key \notin c.view.keys
          /\ change = "removed" => m.key \in c.view.keys
    BY <1>3, <1>5 DEF RemoveDocumentFromTarget
  <2>4. d.mismatch = c.mismatch /\ d.target.current = c.target.current /\ Gathered(d) = Gathered(c) \ {m.key}
    <3>1. m.key \in Keys /\ change \in {"none", "added", "modified", "removed"}
      BY <1>3, <1>5
    <3> QED
      BY <2>3, <3>1, DocumentGathered
  <2> QED
    BY <1>1, <1>5, <2>2, <2>4 DEF Tracks, d
<1>6. CASE m.kind = "reset"
  <2>1. next = [t EXCEPT !.keys = {}, !.current = FALSE]
    BY <1>6 DEF Passes
  <2>2. next.keys = {} /\ next.bad = t.bad /\ next.current = FALSE
    BY <2>1 DEF Track
  <2>3. Gathered(d) = {} /\ d.target.current = FALSE /\ d.mismatch = c.mismatch
    BY <1>3, <1>6, ResetGathered
  <2> QED
    BY <1>1, <1>6, <2>2, <2>3 DEF Tracks, d
<1>7. CASE m.kind = "filter"
  <2>1. GetCurrentDocumentCount(c) = Cardinality(t.keys)
    BY <1>1, CountIsGathered
  <2>2. CASE Cardinality(t.keys) = m.count
    <3>1. d = c /\ next = t
      BY <1>3, <1>7, <2>1, <2>2 DEF HandleExistenceFilter, Passes
    <3> QED
      BY <1>7, <3>1 DEF d
  <2>3. CASE Cardinality(t.keys) # m.count
    <3> DEFINE r == ResetTarget(c)
    <3>1. d = [r EXCEPT !.mismatch = TRUE]
      BY <1>3, <1>7, <2>1, <2>3 DEF HandleExistenceFilter
    <3>2. next = [keys |-> {}, current |-> FALSE, bad |-> TRUE]
      BY <1>7, <2>3 DEF Passes
    <3>3. Gathered(r) = {} /\ r.target.current = FALSE
      BY ResetGathered
    <3>4. r = [c EXCEPT !.target = [NewTarget EXCEPT !.changes = [k \in Keys |-> IF k \in c.view.keys THEN "removed" ELSE "none"]]]
      BY DEF ResetTarget
    <3>5. d.target = r.target /\ d.view = r.view /\ d.mismatch = TRUE
      <4> DEFINE T == [NewTarget EXCEPT !.changes = [k \in Keys |-> IF k \in c.view.keys THEN "removed" ELSE "none"]]
      <4>1. r = [c EXCEPT !.target = T]
        BY <3>4
      <4> HIDE DEF T, r
      <4> QED
        BY <3>1, <4>1 DEF Client
    <3> HIDE DEF r
    <3>6. Gathered(d) = {} /\ d.target.current = FALSE
      BY <3>3, <3>5 DEF Gathered
    <3>7. next.keys = {} /\ next.current = FALSE /\ next.bad = TRUE
      BY <3>2
    <3> QED
      BY <1>7, <3>5, <3>6, <3>7 DEF Tracks, d
  <2> QED
    BY <2>2, <2>3
<1>8. CASE m.kind = "current"
  <2>1. next = [t EXCEPT !.current = TRUE] /\ ~t.bad
    BY <1>8 DEF Passes
  <2>2. next.keys = t.keys /\ next.bad = t.bad
    BY <2>1 DEF Track
  <2>3. d.target.changes = c.target.changes /\ d.target.current = TRUE /\ d.view = c.view /\ d.mismatch = c.mismatch
    <3> DEFINE b == [c.target EXCEPT !.current = TRUE]
               e == [c EXCEPT !.target.current = TRUE]
               T == [b EXCEPT !.token = m.version, !.changed = TRUE]
    <3>1. e = [c EXCEPT !.target = b]
      BY DEF Client
    <3>2. d = [e EXCEPT !.target.token = m.version, !.target.changed = TRUE]
      BY <1>3, <1>8 DEF UpdateResumeToken
    <3>3. T.changes = c.target.changes /\ T.current = TRUE
      BY <1>2 DEF Target
    <3>4. d = [c EXCEPT !.target = T]
      BY <3>1, <3>2 DEF Client
    <3> HIDE DEF T
    <3> QED
      BY <3>3, <3>4 DEF Client
  <2> QED
    BY <1>1, <1>8, <2>1, <2>2, <2>3 DEF Tracks, Gathered, d
<1>9. CASE m.kind = "snapshot"
  <2>1. next = t
    BY <1>9 DEF Passes
  <2>2. /\ d.target.changes = c.target.changes /\ d.target.current = c.target.current /\ d.view = c.view
        /\ d.mismatch = c.mismatch /\ d.target.token = m.version /\ d.target.changed = TRUE
    <3> DEFINE T == [c.target EXCEPT !.token = m.version, !.changed = TRUE]
    <3>1. /\ T.changes = c.target.changes /\ T.current = c.target.current
          /\ T.token = m.version /\ T.changed = TRUE
      BY <1>2 DEF Target
    <3>2. d = [c EXCEPT !.target = T]
      BY <1>3, <1>9 DEF UpdateResumeToken, Client
    <3> HIDE DEF T
    <3> QED
      BY <3>1, <3>2 DEF Client
  <2>3. Gathered(d) = Gathered(c)
    BY <2>2 DEF Gathered
  <2> QED
    BY <1>1, <1>9, <2>1, <2>2, <2>3 DEF Tracks, d
<1> QED
  BY <1>4, <1>5, <1>6, <1>7, <1>8, <1>9 DEF Passes

\* A mismatch comes of a message to an active target only.
LEMMA MismatchOfActive ==
  ASSUME NEW c \in Client, NEW m, ~IsActiveTarget(c) \/ m.kind \in Responses
  PROVE  HandleWatchChange(c, m).mismatch = c.mismatch
<1>1. CASE m.kind \in Responses
  BY <1>1 DEF HandleWatchChange, HandleAdded, HandleRemoved, Responses, RecordTargetResponse, Client
<1>2. CASE m.kind \notin Responses
  BY <1>2 DEF HandleWatchChange, Responses
<1> QED
  BY <1>1, <1>2

\* Neither does the last answer due make a target current, and what was gathered
\* is dropped with it.
LEMMA LastAnswerGathers ==
  ASSUME NEW c \in Client, NEW m, m.kind = "added", c.target.due = 1
  PROVE  LET d == HandleWatchChange(c, m)
         IN Gathered(d) = c.view.keys /\ d.mismatch = c.mismatch
<1> DEFINE t == c.target
           n == t.due - 1
           a == [t EXCEPT !.due = n]
           e == RecordTargetResponse(c)
           T == [a EXCEPT !.changes = NoChanges, !.changed = FALSE]
           d == HandleWatchChange(c, m)
<1>1. t \in Target /\ n = 0
  BY DEF Client
<1>2. e = [c EXCEPT !.target = a]
  BY DEF RecordTargetResponse, Client
<1>3. a.due = 0 /\ T.changes = NoChanges
  BY <1>1 DEF Target
<1> HIDE DEF n
<1>4. e.target = a /\ e.view = c.view /\ e.mismatch = c.mismatch
  <2> HIDE DEF a, e
  <2> QED
    BY <1>2 DEF Client
<1>5. d = [e EXCEPT !.target.changes = NoChanges, !.target.changed = FALSE]
  BY <1>3, <1>4 DEF HandleWatchChange, HandleAdded
<1>6. d = [c EXCEPT !.target = T]
  <2> HIDE DEF a
  <2> QED
    BY <1>2, <1>5 DEF Client
<1> HIDE DEF T, d
<1>7. d.target = T /\ d.view = c.view /\ d.mismatch = c.mismatch
  BY <1>6 DEF Client
<1>8. With("added", NoChanges) = {} /\ With("removed", NoChanges) = {}
  BY DEF With, NoChanges
<1> QED
  BY <1>3, <1>7, <1>8 DEF Gathered, d

\* Messages that lead somewhere answer no request.
LEMMA LeadingIsNews ==
  ASSUME NEW R, NEW s \in Seq(Messages), NEW t, NEW u, Leads(R, s, 0, t, u)
  PROVE  Cardinality(Answers(s)) = 0
<1>1. PICK plan : Passing(R, s, 0, plan)
  BY DEF Leads
<1>2. \A i \in (0 + 1)..Len(s) : s[i].kind \notin Responses
  BY <1>1 DEF Passing, Passes, Responses
<1>3. Answers(s) = {i \in 1..Len(s) : s[i].kind \in Responses}
  BY AnswersFinite
<1>4. Answers(s) = {}
  BY <1>2, <1>3
<1> QED
  BY <1>4, FS_EmptySet

\* An answer under way is due.
LEMMA AnswerIsDue ==
  ASSUME NEW c, Good(c), NEW i \in 1..Len(c.inbox), c.inbox[i].kind \in Responses
  PROVE  c.target.due # 0
<1>1. c.inbox \in Seq(Messages) /\ c.sent \in Seq(Request) /\ Len(c.sent) \in Nat
  BY LenProperties DEF Good, Client
<1>2. i \in Answers(c.inbox) /\ IsFiniteSet(Answers(c.inbox)) /\ Cardinality(Answers(c.inbox)) \in Nat
  BY <1>1, AnswersFinite
<1>3. Cardinality(Answers(c.inbox)) # 0
  BY <1>2, FS_EmptySet
<1> QED
  BY <1>1, <1>2, <1>3 DEF Good, InStep

-----------------------------------------------------------------------------
(* A message that is handled *)

\* The message that is handled moves the client one message on; a snapshot finds
\* what is gathered to be its version's, or a mismatch.
LEMMA TakenExact ==
  ASSUME IInv, OnWatchStreamChange, Exact(results, client, disk, served, shown, unmended)
  PROVE  LET m == Head(client.inbox)
             c == Taken
         IN /\ Told(results, c, unmended) /\ Asked(c) /\ Waits(c)
            /\ InTouch(results, served, c) /\ Shows(results, c, shown)
            /\ m.kind = "snapshot" /\ IsActiveTarget(c) =>
                 /\ m.version \in 1..Len(results) /\ c.target.token = m.version /\ c.target.changed
                 /\ c.mismatch \/ (c.target.current /\ Gathered(c) = results[m.version])
<1> DEFINE m == Head(client.inbox)
           c == Taken
           q == Tail(client.inbox)
           Final == m.kind = "snapshot" /\ IsActiveTarget(c) =>
                      /\ m.version \in 1..Len(results) /\ c.target.token = m.version /\ c.target.changed
                      /\ c.mismatch \/ (c.target.current /\ Gathered(c) = results[m.version])
<1>1. /\ m \in Messages /\ client.inbox # <<>> /\ client.stream = "open"
      /\ Rest \in Client /\ Rest = [client EXCEPT !.inbox = q]
      /\ Handled(Rest, m, c) /\ Good(c) /\ c.inbox = q /\ c.sent = client.sent /\ c.stream = "open"
      /\ c.view = client.view /\ c.listening = client.listening
      /\ c.token = client.token /\ c.stored = client.stored
      /\ c = HandleWatchChange(Rest, m)
  BY MessageTaken DEF Taken
<1>2. /\ Told(results, client, unmended) /\ Asked(client) /\ Waits(client)
      /\ InTouch(results, served, client) /\ Shows(results, client, shown)
  BY DEF Exact
<1>3. /\ Typed /\ Good(client) /\ client \in Client /\ client.inbox \in Seq(Messages)
      /\ client.sent \in Seq(Request) /\ client.target \in Target /\ client.mismatch \in BOOLEAN
  BY InvariantParts DEF Typed, Client
<1>4. /\ Rest.target = client.target /\ Rest.mismatch = client.mismatch /\ Rest.view = client.view
      /\ Rest.listening = client.listening
  BY <1>1, <1>3 DEF Client
<1>5. q \in Seq(Messages) /\ Len(client.inbox) \in Nat /\ Len(q) = Len(client.inbox) - 1 /\ m = client.inbox[1]
      /\ \A i \in 1..Len(q) : i + 1 \in 1..Len(client.inbox) /\ q[i] = client.inbox[i + 1]
  BY <1>1, <1>3, TailElement
<1> HIDE DEF m, c, q, Final
<1>6. Told(results, c, unmended) /\ Asked(c) /\ Shows(results, c, shown)
  BY <1>1, <1>2 DEF Told, Asked, Shows
<1>7. ASSUME client.listening, client.target.due # 0 PROVE c.mismatch = FALSE
  <2>1. client.mismatch = FALSE
    BY <1>2, <1>3, <1>7 DEF Waits
  <2>2. ~IsActiveTarget(Rest)
    BY <1>4, <1>7 DEF IsActiveTarget
  <2>3. HandleWatchChange(Rest, m).mismatch = Rest.mismatch
    BY <1>1, <2>2, MismatchOfActive
  <2> QED
    BY <1>1, <1>4, <2>1, <2>3
<1>8. CASE ~client.listening
  <2>1. Waits(c) /\ InTouch(results, served, c) /\ Final
    BY <1>1, <1>8 DEF Waits, InTouch, IsActiveTarget, Final
  <2> QED
    BY <1>6, <2>1 DEF Final, m, c
<1>9. CASE client.listening /\ client.sent # <<>>
  <2>1. Len(client.sent) \in Nat \ {0} /\ Cardinality(Answers(q)) \in Nat /\ Cardinality(Answers(client.inbox)) \in Nat
    BY <1>3, <1>5, <1>9, EmptySeq, AnswersFinite
  <2>2. client.target.due # 0 /\ c.target.due # 0
    BY <1>1, <1>3, <2>1 DEF Good, InStep
  <2>3. c.mismatch = FALSE
    BY <1>7, <1>9, <2>2
  <2>4. Waits(c) /\ InTouch(results, served, c) /\ Final
    BY <1>1, <1>9, <2>2, <2>3 DEF Waits, InTouch, IsActiveTarget, Final
  <2> QED
    BY <1>6, <2>4 DEF Final, m, c
<1>10. CASE client.listening /\ client.sent = <<>>
  <2>1. PICK n \in 0..Len(client.inbox), t \in Track, u \in Track :
          Leads(results, client.inbox, n, t, u) /\ Starts(client, n, t) /\ Ends(results, served, u)
    BY <1>1, <1>2, <1>10 DEF InTouch
  <2>2. /\ n > 0 => n - 1 \in 0..Len(q) /\ Leads(results, q, n - 1, t, u)
        /\ n = 0 => \E next \in Track : Passes(results, t, m, next) /\ Leads(results, q, 0, next, u)
    BY <1>1, <1>3, <2>1, TailLeads DEF q, m
  <2>3. Len(client.sent) = 0 /\ 0 \in Nat
    BY <1>10, EmptySeq
  <2>4. CASE n = 0
    <3>1. PICK next \in Track : Passes(results, t, m, next) /\ Leads(results, q, 0, next, u)
      BY <2>2, <2>4
    <3>2. Cardinality(Answers(client.inbox)) = 0
      BY <1>3, <2>1, <2>4, LeadingIsNews
    <3>3. client.target.due = 0
      BY <1>3, <2>3, <3>2 DEF Good, InStep
    <3>4. IsActiveTarget(Rest) /\ Fits(Rest.target, Rest.view)
      BY <1>3, <1>4, <1>10, <3>3 DEF IsActiveTarget, Good, Fit
    <3>5. Tracks(Rest, t) /\ (Rest.mismatch => ~Rest.target.current)
      <4>1. Gathered(Rest) = Gathered(client)
        BY <1>4 DEF Gathered
      <4> QED
        BY <1>2, <1>4, <1>10, <2>1, <2>4, <4>1 DEF Starts, Tracks, Waits
    <3>6. /\ Tracks(c, next) /\ (c.mismatch => ~c.target.current)
          /\ m.kind = "snapshot" => c.target.token = m.version /\ c.target.changed
      <4> DEFINE d == HandleWatchChange(Rest, m)
      <4>1. m \in Messages /\ Rest \in Client /\ c = d
        BY <1>1
      <4>2. /\ Tracks(d, next) /\ (d.mismatch => ~d.target.current)
            /\ m.kind = "snapshot" => d.target.token = m.version /\ d.target.changed
        BY <3>1, <3>4, <3>5, <4>1, HandleTracks
      <4> HIDE DEF d
      <4> QED
        BY <4>1, <4>2
    <3>7. c.target.due = 0
      <4>1. m.kind \notin Responses
        BY <3>1 DEF Passes, Responses
      <4> QED
        BY <1>1, <1>4, <3>3, <4>1 DEF Handled
    <3>8. Waits(c)
      BY <3>6, <3>7 DEF Waits
    <3>9. InTouch(results, served, c)
      <4>1. 0 \in 0..Len(c.inbox) /\ Leads(results, c.inbox, 0, next, u) /\ Starts(c, 0, next)
        BY <1>1, <1>5, <3>1, <3>6, LenProperties DEF Starts
      <4> QED
        BY <2>1, <4>1 DEF InTouch
    <3>10. Final
      <4> SUFFICES ASSUME m.kind = "snapshot"
                   PROVE  /\ m.version \in 1..Len(results) /\ c.target.token = m.version /\ c.target.changed
                          /\ c.mismatch \/ (c.target.current /\ Gathered(c) = results[m.version])
        BY DEF Final
      <4>1. next = t /\ m.version \in 1..Len(results) /\ (t.bad \/ (t.current /\ t.keys = results[m.version]))
        BY <3>1 DEF Passes
      <4> QED
        BY <3>6, <4>1 DEF Tracks
    <3> QED
      BY <1>6, <3>8, <3>9, <3>10 DEF Final, m, c
  <2>5. CASE n > 0
    <3>1. client.inbox[n].kind = "added" /\ t = [keys |-> client.view.keys, current |-> FALSE, bad |-> FALSE]
      BY <2>1, <2>5 DEF Starts
    <3>2. client.target.due # 0
      <4>1. n \in 1..Len(client.inbox) /\ client.inbox[n].kind \in Responses
        BY <1>5, <2>5, <3>1 DEF Responses
      <4> QED
        BY <1>3, <4>1, AnswerIsDue
    <3>3. c.mismatch = FALSE /\ Waits(c)
      BY <1>7, <1>10, <3>2 DEF Waits
    <3>4. CASE n = 1
      <4>1. m.kind = "added" /\ n - 1 = 0
        BY <1>5, <3>1, <3>4
      <4>2. Leads(results, q, 0, t, u)
        BY <2>2, <3>4, <4>1
      <4>3. Cardinality(Answers(q)) = 0
        BY <1>5, <4>2, LeadingIsNews
      <4>4. c.target.due = 0
        BY <1>1, <2>3, <4>3 DEF Good, InStep
      <4>5. Rest.target.due = 1
        <5>1. m.kind \in Responses
          BY <4>1 DEF Responses
        <5>2. c.target.due = Rest.target.due - 1 /\ Rest.target.due \in Nat
          BY <1>1, <1>3, <1>4, <5>1 DEF Handled, Target
        <5> QED
          BY <4>4, <5>2
      <4>6. Gathered(c) = client.view.keys
        <5> DEFINE d == HandleWatchChange(Rest, m)
        <5>1. Rest \in Client /\ c = d
          BY <1>1
        <5>2. Gathered(d) = Rest.view.keys
          BY <4>1, <4>5, <5>1, LastAnswerGathers
        <5> HIDE DEF d
        <5> QED
          BY <1>4, <5>1, <5>2
      <4>7. Starts(c, 0, t)
        BY <3>1, <3>3, <4>6 DEF Starts, Tracks
      <4>8. InTouch(results, served, c)
        <5>1. 0 \in 0..Len(c.inbox) /\ Leads(results, c.inbox, 0, t, u)
          BY <1>1, <1>5, <4>2, LenProperties
        <5> QED
          BY <2>1, <4>7, <5>1 DEF InTouch
      <4> QED
        BY <1>6, <3>3, <4>1, <4>8 DEF m, c
    <3>5. CASE n # 1
      <4>1. n - 1 > 0 /\ n - 1 \in 1..Len(q) /\ (n - 1) + 1 = n /\ n - 1 # 0
        BY <1>5, <2>1, <2>5, <3>5
      <4>2. c.inbox[n - 1].kind = "added" /\ n - 1 \in 0..Len(c.inbox) /\ n - 1 \in 1..Len(c.inbox)
        BY <1>1, <1>5, <2>2, <2>5, <3>1, <4>1
      <4>3. Starts(c, n - 1, t)
        BY <1>1, <3>1, <4>1, <4>2 DEF Starts
      <4>4. InTouch(results, served, c)
        BY <1>1, <2>1, <2>2, <2>5, <4>2, <4>3 DEF InTouch
      <4>5. c.target.due # 0
        BY <1>1, <4>2, AnswerIsDue DEF Responses
      <4> QED
        BY <1>6, <3>3, <4>4, <4>5 DEF m, c, IsActiveTarget
    <3> QED
      BY <3>4, <3>5
  <2> QED
    BY <2>1, <2>4, <2>5
<1> QED
  BY <1>6, <1>8, <1>9, <1>10 DEF Final, m, c

-----------------------------------------------------------------------------
(* Requests *)

\* Client d is c with request q sent last, and its answer due.
Asks(c, d, q) ==
  /\ d \in Client /\ d.sent # <<>> /\ d.sent[Len(d.sent)] = q /\ d.target.due # 0
  /\ d.listening = c.listening /\ d.token = c.token /\ d.stored = c.stored
  /\ d.view = c.view /\ d.mismatch = c.mismatch /\ d.stream = c.stream

LEMMA RequestAsks ==
  ASSUME NEW c \in Client, NEW q \in Request
  PROVE  Asks(c, Requested(c, q), q)
<1> DEFINE t == c.target
           n == t.due + 1
           T == [t EXCEPT !.due = n]
           s == Append(c.sent, q)
           d == Requested(c, q)
<1>1. t \in Target /\ t.due \in Nat /\ c.sent \in Seq(Request)
  BY DEF Client, Target
<1>2. n \in Nat /\ n # 0
  BY <1>1
<1>3. s \in Seq(Request) /\ s # <<>> /\ s[Len(s)] = q
  <2>1. Len(c.sent) \in Nat /\ Len(s) = Len(c.sent) + 1 /\ s \in Seq(Request) /\ s[Len(c.sent) + 1] = q
    BY <1>1, AppendProperties, LenProperties
  <2>2. Len(s) # 0
    BY <2>1
  <2> HIDE DEF s
  <2> QED
    BY <2>1, <2>2, EmptySeq
<1>4. d = [c EXCEPT !.target = T, !.sent = s]
  BY DEF Requested, Client
<1> HIDE DEF n, s, d
<1>5. T \in Target /\ T.due = n
  BY <1>1, <1>2 DEF Target
<1> HIDE DEF T
<1>6. d \in Client /\ d.target = T /\ d.sent = s
  BY <1>3, <1>4, <1>5 DEF Client
<1>7. /\ d.listening = c.listening /\ d.token = c.token /\ d.stored = c.stored
      /\ d.view = c.view /\ d.mismatch = c.mismatch /\ d.stream = c.stream
  BY <1>4 DEF Client
<1> QED
  BY <1>2, <1>3, <1>5, <1>6, <1>7 DEF Asks, d

LEMMA SendAsks ==
  ASSUME Len(results) \in Nat, NEW c \in Client
  PROVE  /\ Asks(c, SendWatchRequest(c), [kind |-> "watch", token |-> c.token])
         /\ Asks(c, SendUnwatchRequest(c), [kind |-> "unwatch", token |-> NoToken])
<1> DEFINE w == [kind |-> "watch", token |-> c.token]
           u == [kind |-> "unwatch", token |-> NoToken]
<1>1. w \in Request
  BY DEF Client, Request
<1>2. u \in Request
  BY DEF Request, Versions, NoToken
<1>3. SendWatchRequest(c) = Requested(c, w)
  BY DEF SendWatchRequest, RecordPendingTargetRequest, Requested, Client
<1>4. SendUnwatchRequest(c) = Requested(c, u)
  BY DEF SendUnwatchRequest, RecordPendingTargetRequest, Requested, Client
<1> HIDE DEF w, u
<1> QED
  BY <1>1, <1>2, <1>3, <1>4, RequestAsks DEF w, u

\* Without a mismatch there is nothing to ask anew; with one the target is dropped
\* and asked for without a token.
LEMMA RewatchAsks ==
  ASSUME Len(results) \in Nat, NEW c \in Client
  PROVE  LET d == Rewatch(c)
         IN /\ ~c.mismatch => d = c
            /\ c.listening /\ c.mismatch =>
                 /\ d \in Client /\ d.sent # <<>> /\ d.sent[Len(d.sent)] = [kind |-> "watch", token |-> NoToken]
                 /\ d.target.due # 0 /\ d.token = NoToken /\ d.mismatch = FALSE
                 /\ d.listening = c.listening /\ d.view = c.view /\ d.stream = c.stream
<1> DEFINE e == [c EXCEPT !.token = NoToken, !.mismatch = FALSE]
           f == [c EXCEPT !.mismatch = FALSE]
           g == SendUnwatchRequest(e)
           h == SendWatchRequest(g)
<1>1. NoToken \in Versions
  BY DEF NoToken, Versions
<1>2. /\ e \in Client /\ e.listening = c.listening /\ e.stream = c.stream /\ e.view = c.view
      /\ e.token = NoToken /\ e.mismatch = FALSE
  BY <1>1 DEF Client
<1>3. Rewatch(c) = IF c.mismatch /\ c.listening THEN h ELSE f
  BY DEF Rewatch
<1>4. ~c.mismatch => f = c
  BY DEF Client
<1> HIDE DEF e, f
<1>5. Asks(e, g, [kind |-> "unwatch", token |-> NoToken])
  BY <1>2, SendAsks
<1> HIDE DEF g
<1>6. g \in Client
  BY <1>5 DEF Asks
<1>7. Asks(g, h, [kind |-> "watch", token |-> g.token])
  BY <1>6, SendAsks
<1> HIDE DEF h
<1>8. ASSUME c.listening, c.mismatch
      PROVE  /\ h \in Client /\ h.sent # <<>> /\ h.sent[Len(h.sent)] = [kind |-> "watch", token |-> NoToken]
             /\ h.target.due # 0 /\ h.token = NoToken /\ h.mismatch = FALSE
             /\ h.listening = c.listening /\ h.view = c.view /\ h.stream = c.stream
  BY <1>2, <1>5, <1>7 DEF Asks
<1> QED
  BY <1>3, <1>4, <1>8

-----------------------------------------------------------------------------
(* The steps of the app, of the stream and of the device *)

\* A stream that starts: nothing is under way, and there is no mismatch.
LEMMA StartExact ==
  ASSUME Len(results) \in Nat, NEW c \in Client, c.sent = <<>>, c.inbox = <<>>
  PROVE  LET d == StartWatchStream(c)
         IN /\ d.stream = "starting" /\ d.sent = <<>> /\ d.mismatch = FALSE
            /\ d.listening = c.listening /\ d.token = c.token /\ d.stored = c.stored /\ d.view = c.view
<1>1. NewTarget \in Target
  BY NothingGathered
<1> QED
  BY <1>1 DEF StartWatchStream, Client

LEMMA ListenStartsExact ==
  ASSUME IInv, EInv, ListenStarts, ~spoilt'
  PROVE  Exact(results', client', disk', served', shown', unmended')
<1> DEFINE v == [keys |-> disk.keys, current |-> FALSE]
           d == [client EXCEPT !.listening = TRUE, !.token = disk.token, !.stored = disk.token, !.view = v]
           e == Listen(client)
<1>1. /\ Typed /\ Good(client) /\ client \in Client /\ Len(results) \in Nat
      /\ disk.keys \in SUBSET Keys /\ disk.token \in Versions
  BY InvariantParts DEF Typed
<1>2. /\ client' = e /\ UNCHANGED <<results, served, disk, shown, unmended>>
      /\ ~spoilt /\ ~unmended /\ ~client.mismatch
  BY DEF ListenStarts, server
<1>3. Exact(results, client, disk, served, shown, unmended)
  BY <1>2 DEF EInv
<1>4. e = CASE d.stream = "closed" -> StartWatchStream(d)
            [] d.stream = "open" -> SendWatchRequest(d)
            [] OTHER -> d
  BY DEF Listen
<1>5. v \in View /\ v.keys = disk.keys /\ v.current = FALSE
  BY <1>1 DEF View
<1> HIDE DEF v, d, e
<1>6. /\ d \in Client /\ d.listening = TRUE /\ d.token = disk.token /\ d.stored = disk.token /\ d.view = v
      /\ d.stream = client.stream /\ d.sent = client.sent /\ d.inbox = client.inbox
      /\ d.mismatch = client.mismatch
  BY <1>1, <1>5 DEF Client, d
<1>7. /\ d.stream # "open" => d.sent = <<>> /\ d.inbox = <<>>
      /\ d.stream \in {"closed", "starting", "open"}
  BY <1>1, <1>6 DEF Good, Closed, Client
<1>8. /\ e.listening = TRUE /\ e.token = disk.token /\ e.stored = disk.token /\ e.view = v
      /\ e.mismatch = FALSE
      /\ \/ e.sent = <<>> /\ e.stream # "open"
         \/ e.sent # <<>> /\ e.sent[Len(e.sent)] = [kind |-> "watch", token |-> e.token]
  <2>1. CASE d.stream = "closed"
    BY <1>1, <1>4, <1>6, <1>7, <2>1, StartExact
  <2>2. CASE d.stream = "open"
    <3>1. e = SendWatchRequest(d)
      BY <1>4, <2>2
    <3>2. Asks(d, e, [kind |-> "watch", token |-> d.token])
      BY <1>1, <1>6, <3>1, SendAsks
    <3> QED
      BY <1>2, <1>6, <3>2 DEF Asks
  <2>3. CASE d.stream = "starting"
    BY <1>2, <1>4, <1>6, <1>7, <2>3
  <2> QED
    BY <1>7, <2>1, <2>2, <2>3
<1>9. Recorded(results', disk', unmended') /\ v.keys = Result(results, disk.token)
  BY <1>2, <1>3, <1>5 DEF Exact, Recorded
<1>10. Told(results', client', unmended') /\ Asked(client') /\ Waits(client') /\ Calm(client')
  BY <1>2, <1>8, <1>9 DEF Told, Asked, Waits, Calm
<1>11. InTouch(results', served', client') /\ Shows(results', client', shown')
  BY <1>2, <1>5, <1>8 DEF InTouch, Shows
<1> QED
  BY <1>9, <1>10, <1>11 DEF Exact

LEMMA ListenEndsExact ==
  ASSUME IInv, EInv, ListenEnds, ~spoilt'
  PROVE  Exact(results', client', disk', served', shown', unmended')
<1> DEFINE v == [keys |-> {}, current |-> FALSE]
           d == [client EXCEPT !.listening = FALSE, !.token = NoToken, !.stored = NoToken, !.view = v]
           e == StopListening(client)
<1>1. /\ Typed /\ Good(client) /\ client \in Client /\ Len(results) \in Nat /\ disk \in Disk
      /\ (client.listening => disk.keys = client.view.keys)
  BY InvariantParts DEF Typed, Disk
<1>2. /\ client.listening /\ client' = e /\ disk' = [disk EXCEPT !.token = client.stored]
      /\ unmended' = (unmended /\ ~client.view.current) /\ UNCHANGED <<results, served, shown, spoilt>>
  BY DEF ListenEnds, server
<1>3. Told(results, client, unmended) /\ Calm(client)
  BY <1>2 DEF EInv, Exact
<1>4. e = IF d.stream = "open" THEN SendUnwatchRequest(d) ELSE d
  BY DEF StopListening
<1>5. v \in View /\ NoToken \in Versions
  BY DEF View, NoToken, Versions
<1> HIDE DEF v, d, e
<1>6. /\ d \in Client /\ d.listening = FALSE /\ d.stream = client.stream /\ d.sent = client.sent
      /\ d.mismatch = client.mismatch
  BY <1>1, <1>5 DEF Client, d
<1>7. /\ e.listening = FALSE /\ (e.sent # <<>> => e.sent[Len(e.sent)].kind = "unwatch")
      /\ e.stream = client.stream /\ e.mismatch = client.mismatch
  <2>1. CASE d.stream = "open"
    <3>1. Asks(d, e, [kind |-> "unwatch", token |-> NoToken])
      BY <1>1, <1>4, <1>6, <2>1, SendAsks
    <3> QED
      BY <1>6, <3>1 DEF Asks
  <2>2. CASE d.stream # "open"
    BY <1>1, <1>4, <1>6, <2>2 DEF Good, Closed
  <2> QED
    BY <2>1, <2>2
<1>8. Recorded(results', disk', unmended')
  <2>1. disk'.keys = client.view.keys /\ disk'.token = client.stored
    BY <1>1, <1>2 DEF Disk
  <2> QED
    BY <1>2, <1>3, <2>1 DEF Recorded, Told
<1>9. Told(results', client', unmended') /\ Asked(client') /\ Waits(client') /\ Calm(client')
  BY <1>2, <1>3, <1>7 DEF Told, Asked, Waits, Calm
<1>10. InTouch(results', served', client') /\ Shows(results', client', shown')
  BY <1>2, <1>7 DEF InTouch, Shows
<1> QED
  BY <1>8, <1>9, <1>10 DEF Exact

LEMMA OpenExact ==
  ASSUME IInv, EInv, OnWatchStreamOpen, ~spoilt'
  PROVE  Exact(results', client', disk', served', shown', unmended')
<1> DEFINE c == [client EXCEPT !.stream = "open"]
           e == IF c.listening THEN SendWatchRequest(c) ELSE c
<1>1. Typed /\ Good(client) /\ client \in Client /\ Len(results) \in Nat
  BY InvariantParts DEF Typed
<1>2. /\ client.stream = "starting" /\ client' = e
      /\ UNCHANGED <<results, served, disk, shown, unmended, spoilt>>
  BY DEF OnWatchStreamOpen, server, history
<1>3. Exact(results, client, disk, served, shown, unmended)
  BY <1>2 DEF EInv
<1> HIDE DEF c, e
<1>4. /\ c \in Client /\ c.stream = "open" /\ c.listening = client.listening /\ c.view = client.view
      /\ c.token = client.token /\ c.stored = client.stored /\ c.sent = <<>> /\ c.mismatch = FALSE
  <2>1. client.sent = <<>> /\ client.mismatch = FALSE
    BY <1>1, <1>2, <1>3 DEF Good, Closed, Exact, Calm, Client
  <2> QED
    BY <1>1, <2>1 DEF Client, c
<1>5. /\ e.listening = client.listening /\ e.view = client.view /\ e.mismatch = FALSE
      /\ e.token = client.token /\ e.stored = client.stored
      /\ IF e.listening THEN e.sent # <<>> /\ e.sent[Len(e.sent)] = [kind |-> "watch", token |-> e.token]
         ELSE e.sent = <<>>
  <2>1. CASE c.listening
    <3>1. Asks(c, e, [kind |-> "watch", token |-> c.token])
      BY <1>1, <1>4, <2>1, SendAsks DEF e
    <3> QED
      BY <1>4, <2>1, <3>1 DEF Asks
  <2>2. CASE ~c.listening
    BY <1>4, <2>2 DEF e
  <2> QED
    BY <2>1, <2>2
<1>6. /\ Recorded(results', disk', unmended') /\ Told(results', client', unmended')
      /\ Shows(results', client', shown')
  BY <1>2, <1>3, <1>5 DEF Exact, Recorded, Told, Shows
<1>7. Asked(client') /\ Waits(client') /\ Calm(client') /\ InTouch(results', served', client')
  BY <1>2, <1>5 DEF Asked, Waits, Calm, InTouch
<1> QED
  BY <1>6, <1>7 DEF Exact

LEMMA ClosesExact ==
  ASSUME IInv, EInv, StreamCloses, ~spoilt'
  PROVE  Exact(results', client', disk', served', shown', unmended')
<1>1. Typed /\ client \in Client /\ Len(results) \in Nat
  BY InvariantParts DEF Typed
<1>2. PICK offline \in BOOLEAN : client' = OnWatchStreamClose(client, offline)
  BY DEF StreamCloses
<1> DEFINE d == [client EXCEPT !.stream = "closed", !.target = NewTarget, !.mismatch = FALSE,
                               !.sent = <<>>, !.inbox = <<>>]
           x == client.view.current /\ ~offline
           w == [client.view EXCEPT !.current = x]
           e == [d EXCEPT !.view.current = @ /\ ~offline]
<1>3. client' = IF d.listening THEN StartWatchStream(e) ELSE d
  BY <1>2 DEF OnWatchStreamClose
<1>4. NewTarget \in Target /\ <<>> \in Seq(Request) /\ <<>> \in Seq(Messages)
  BY NothingGathered, EmptySeq
<1>5. /\ d \in Client /\ d.listening = client.listening /\ d.view = client.view /\ d.stream = "closed"
      /\ d.token = client.token /\ d.stored = client.stored
      /\ d.mismatch = FALSE /\ d.sent = <<>> /\ d.inbox = <<>>
  BY <1>1, <1>4 DEF Client
<1>6. x \in BOOLEAN /\ (x => client.view.current) /\ client.view \in View
  BY <1>1 DEF Client
<1>7. e = [d EXCEPT !.view = w]
  BY <1>5 DEF Client
<1> HIDE DEF d, e, x
<1>8. w \in View /\ w.keys = client.view.keys /\ w.current = x
  BY <1>6 DEF View
<1> HIDE DEF w
<1>9. /\ e \in Client /\ e.listening = client.listening /\ e.view = w
      /\ e.token = client.token /\ e.stored = client.stored /\ e.sent = <<>> /\ e.inbox = <<>>
  BY <1>5, <1>7, <1>8 DEF Client
<1>10. /\ client'.listening = client.listening /\ client'.stream # "open" /\ client'.sent = <<>>
       /\ client'.mismatch = FALSE /\ client'.token = client.token /\ client'.stored = client.stored
       /\ client.listening => client'.view = w
  <2>1. CASE client.listening
    BY <1>1, <1>3, <1>5, <1>9, <2>1, StartExact
  <2>2. CASE ~client.listening
    BY <1>3, <1>5, <2>2
  <2> QED
    BY <2>1, <2>2
<1>11. UNCHANGED <<results, disk, shown, unmended, spoilt>>
  BY DEF StreamCloses, history
<1>12. Exact(results, client, disk, served, shown, unmended)
  BY <1>11 DEF EInv
<1>13. /\ Recorded(results', disk', unmended') /\ Told(results', client', unmended')
       /\ Shows(results', client', shown')
  BY <1>6, <1>8, <1>10, <1>11, <1>12 DEF Exact, Recorded, Told, Shows
<1>14. Asked(client') /\ Waits(client') /\ Calm(client') /\ InTouch(results', served', client')
  BY <1>10 DEF Asked, Waits, Calm, InTouch
<1> QED
  BY <1>13, <1>14 DEF Exact

\* Without a listen, and with nothing under way, only the disk matters.
LEMMA IdleExact ==
  ASSUME NEW R, NEW d, NEW un, Recorded(R, d, un), NEW sv, NEW sh
  PROVE  Exact(R, Idle, d, sv, sh, un)
<1>1. Idle.listening = FALSE /\ Idle.sent = <<>> /\ Idle.mismatch = FALSE
  BY DEF Idle
<1> QED
  BY <1>1 DEF Exact, Told, Asked, Waits, Calm, InTouch, Shows

LEMMA RelaunchExact ==
  ASSUME EInv, Relaunch, ~spoilt'
  PROVE  Exact(results', client', disk', served', shown', unmended')
<1>1. client' = Idle /\ UNCHANGED <<results, disk, shown, unmended, spoilt>>
  BY DEF Relaunch, history
<1>2. Recorded(results', disk', unmended')
  BY <1>1 DEF EInv, Exact
<1> QED
  BY <1>1, <1>2, IdleExact

-----------------------------------------------------------------------------
(* The steps of the server *)

\* A result more changes nothing of what leads where.
LEMMA LeadsLater ==
  ASSUME NEW R, NEW Q, Len(R) \in Nat, Len(Q) = Len(R) + 1, \A v \in 1..Len(R) : Q[v] = R[v],
         NEW s, NEW n, NEW t, NEW u, Leads(R, s, n, t, u)
  PROVE  Leads(Q, s, n, t, u)
<1>1. PICK plan : Passing(R, s, n, plan) /\ plan[n] = t /\ plan[Len(s)] = u
  BY DEF Leads
<1>2. ASSUME NEW a, NEW m, NEW b, Passes(R, a, m, b) PROVE Passes(Q, a, m, b)
  <2>1. \A v \in 1..Len(R) : v \in 1..Len(Q) /\ Q[v] = R[v]
    OBVIOUS
  <2> QED
    BY <1>2, <2>1 DEF Passes
<1>3. Passing(Q, s, n, plan)
  BY <1>1, <1>2 DEF Passing
<1> QED
  BY <1>1, <1>3 DEF Leads

LEMMA ResultExact ==
  ASSUME IInv, EInv, NEW K \in SUBSET Keys, ResultChanges(K), ~spoilt'
  PROVE  Exact(results', client', disk', served', shown', unmended')
<1>1. /\ Typed /\ results \in Seq(SUBSET Keys) /\ Len(results) \in Nat
      /\ client \in Client /\ disk.token \in Versions /\ shown \in Versions /\ served \in Versions
  BY InvariantParts DEF Typed
<1>2. results' = Append(results, K) /\ UNCHANGED <<served, client, disk, shown, unmended, spoilt>>
  BY DEF ResultChanges, history
<1>3. Len(results') = Len(results) + 1 /\ \A v \in 1..Len(results) : results'[v] = results[v]
  BY <1>1, <1>2, AppendProperties
<1>4. Exact(results, client, disk, served, shown, unmended)
  BY <1>2 DEF EInv
<1>5. \A v \in Versions : Result(results', v) = Result(results, v)
  BY <1>1, <1>3 DEF Result, Versions, NoToken
<1>6. client.token \in Versions /\ client.stored \in Versions
  BY <1>1 DEF Client
<1>7. Recorded(results', disk', unmended') /\ Told(results', client', unmended')
  BY <1>1, <1>2, <1>4, <1>5, <1>6 DEF Exact, Recorded, Told
<1>8. Shows(results', client', shown')
  BY <1>1, <1>2, <1>3, <1>4 DEF Exact, Shows, Versions
<1>9. Asked(client') /\ Waits(client') /\ Calm(client')
  BY <1>2, <1>4 DEF Exact
<1>10. InTouch(results', served, client)
  <2> SUFFICES ASSUME client.listening, client.stream = "open", client.sent = <<>>
               PROVE  \E n \in 0..Len(client.inbox), t \in Track, u \in Track :
                        /\ Leads(results', client.inbox, n, t, u)
                        /\ Starts(client, n, t) /\ Ends(results', served, u)
    BY DEF InTouch
  <2>1. PICK n \in 0..Len(client.inbox), t \in Track, u \in Track :
          Leads(results, client.inbox, n, t, u) /\ Starts(client, n, t) /\ Ends(results, served, u)
    BY <1>4 DEF Exact, InTouch
  <2>2. Leads(results', client.inbox, n, t, u)
    BY <1>1, <1>3, <2>1, LeadsLater
  <2>3. Ends(results', served, u)
    BY <1>1, <1>3, <2>1 DEF Ends, Versions
  <2> QED
    BY <2>1, <2>2, <2>3
<1>11. InTouch(results', served', client')
  BY <1>2, <1>10
<1> QED
  BY <1>7, <1>8, <1>9, <1>11 DEF Exact

\* A server's step leaves all of the client but the wire.
LEMMA WireExact ==
  ASSUME NEW c \in Client, NEW q \in Seq(Request), NEW b \in Seq(Messages)
  PROVE  LET d == [c EXCEPT !.sent = q, !.inbox = b]
         IN /\ d.sent = q /\ d.inbox = b /\ d.listening = c.listening /\ d.stream = c.stream
            /\ d.token = c.token /\ d.stored = c.stored /\ d.view = c.view
            /\ d.target = c.target /\ d.mismatch = c.mismatch
BY DEF Client

\* The last of several requests stays when the first is read.
LEMMA LastOfTail ==
  ASSUME NEW S, NEW s \in Seq(S), s # <<>>
  PROVE  /\ Tail(s) = <<>> => Head(s) = s[Len(s)]
         /\ Tail(s) # <<>> => Tail(s)[Len(Tail(s))] = s[Len(s)]
<1>1. /\ Tail(s) \in Seq(S) /\ Len(s) \in Nat /\ Len(Tail(s)) = Len(s) - 1 /\ Head(s) = s[1]
      /\ \A i \in 1..Len(Tail(s)) : Tail(s)[i] = s[i + 1]
  BY TailElement
<1>2. Len(Tail(s)) \in Nat
  BY <1>1, LenProperties
<1>3. Tail(s) = <<>> <=> Len(Tail(s)) = 0
  BY <1>1, EmptySeq
<1> QED
  BY <1>1, <1>2, <1>3

\* What is known and told does not change with the wire.
LEMMA SameExact ==
  ASSUME NEW R, NEW c, NEW d, NEW k, NEW sv, NEW sh, NEW un, Exact(R, c, k, sv, sh, un),
         d.listening = c.listening, d.stream = c.stream, d.token = c.token, d.stored = c.stored,
         d.view = c.view, d.target = c.target, d.mismatch = c.mismatch
  PROVE  /\ Recorded(R, k, un) /\ Told(R, d, un) /\ Waits(d) /\ Calm(d) /\ Shows(R, d, sh)
BY DEF Exact, Told, Waits, Calm, Shows

LEMMA WatchesExact ==
  ASSUME IInv, EInv, NEW v \in 1..Len(results), ServerWatches(v), ~spoilt'
  PROVE  Exact(results', client', disk', served', shown', unmended')
<1> DEFINE q == Tail(client.sent)
           r == Head(client.sent).token
           a == client.inbox \o About("added")
           k == client.view.keys
           t == [keys |-> k, current |-> FALSE, bad |-> FALSE]
<1>1. /\ Typed /\ Good(client) /\ client \in Client /\ Len(results) \in Nat
      /\ client.sent \in Seq(Request) /\ client.inbox \in Seq(Messages) /\ k \in SUBSET Keys
  BY InvariantParts DEF Typed, Client, View
<1>2. PICK batch \in Served(r, v) :
        client' = [client EXCEPT !.sent = Tail(@), !.inbox = @ \o About("added") \o batch]
  BY DEF ServerWatches
<1>3. /\ client.sent # <<>> /\ Head(client.sent).kind = "watch" /\ v >= r /\ served' = v
      /\ UNCHANGED <<results, disk, shown, unmended, spoilt>>
  BY DEF ServerWatches, history
<1>4. Exact(results, client, disk, served, shown, unmended)
  BY <1>3 DEF EInv
<1>5. q \in Seq(Request) /\ Head(client.sent) \in Request
  BY <1>1, <1>3, TailElement
<1>6. r \in Versions
  BY <1>5 DEF Request
<1>7. batch \in Seq(Messages)
  <2>1. batch \in Seq(News) /\ News \subseteq Messages
    BY <1>1, <1>3, <1>6, ServedIsNews DEF News
  <2> QED
    BY <2>1, SeqMonotonic
<1>8. /\ About("added") \in Seq(Messages) /\ a \in Seq(Messages) /\ Len(a) = Len(client.inbox) + 1
      /\ Len(client.inbox) \in Nat /\ a[Len(a)].kind = "added"
  <2>1. "added" \in Responses
    BY DEF Responses
  <2>2. About("added") \in Seq(Messages) /\ Len(About("added")) = 1 /\ About("added")[1].kind = "added"
    BY <1>1, <2>1, OneMessage DEF About, Message
  <2>3. Len(client.inbox) \in Nat
    BY <1>1, LenProperties
  <2>4. 1 \in 1..Len(About("added"))
    BY <2>2
  <2> QED
    BY <1>1, <2>2, <2>3, <2>4, ConcatElement
<1> HIDE DEF q, r, a, k, t
<1>9. a \o batch \in Seq(Messages) /\ client' = [client EXCEPT !.sent = q, !.inbox = a \o batch]
  <2>1. client' = [client EXCEPT !.sent = q, !.inbox = a \o batch]
    BY <1>1, <1>2 DEF Client, q, a
  <2> QED
    BY <1>7, <1>8, <2>1, ConcatProperties
<1>10. /\ client'.sent = q /\ client'.inbox = a \o batch /\ client'.listening = client.listening
       /\ client'.stream = client.stream /\ client'.token = client.token /\ client'.stored = client.stored
       /\ client'.view = client.view /\ client'.target = client.target /\ client'.mismatch = client.mismatch
  BY <1>1, <1>5, <1>9, WireExact
<1>11. /\ Recorded(results', disk', unmended') /\ Told(results', client', unmended')
       /\ Waits(client') /\ Calm(client') /\ Shows(results', client', shown')
  BY <1>3, <1>4, <1>10, SameExact
<1>12. Asked(client')
  BY <1>1, <1>3, <1>4, <1>10, LastOfTail DEF Exact, Asked, q
<1>13. ASSUME client.listening, q = <<>>
       PROVE  \E n \in 0..Len(client'.inbox), x \in Track, u \in Track :
                Leads(results, client'.inbox, n, x, u) /\ Starts(client', n, x) /\ Ends(results, v, u)
  <2>1. r = client.token
    BY <1>1, <1>3, <1>4, <1>13, LastOfTail DEF Exact, Asked, q, r
  <2>2. k = Result(results, r)
    BY <1>4, <1>13, <2>1 DEF Exact, Told, k
  <2>3. t \in Track /\ t.keys = k /\ ~t.bad
    BY <1>1 DEF Track, t, k
  <2>4. PICK u : Leads(results, batch, 0, t, u) /\ Ends(results, v, u) /\ u \in Track
    BY <1>1, <1>2, <1>3, <1>6, <2>2, <2>3, ServedLeads
  <2>5. Len(a) \in 0..Len(a) /\ Len(a) # 0 /\ Len(a) \in 1..Len(a)
    BY <1>8
  <2>6. Leads(results, a, Len(a), t, t)
    BY <1>8, <2>3, NothingLeads
  <2>7. Len(a) \in 0..Len(a \o batch) /\ Leads(results, a \o batch, Len(a), t, u)
    BY <1>7, <1>8, <2>4, <2>5, <2>6, MoreLeads
  <2>8. (a \o batch)[Len(a)] = a[Len(a)]
    BY <1>7, <1>8, <2>5, ConcatElement
  <2>9. Starts(client', Len(a), t)
    BY <1>8, <1>10, <2>5, <2>8 DEF Starts, t, k
  <2> QED
    BY <1>10, <2>3, <2>4, <2>7, <2>9
<1>14. InTouch(results', served', client')
  BY <1>3, <1>10, <1>13 DEF InTouch
<1> QED
  BY <1>11, <1>12, <1>14 DEF Exact

LEMMA UnwatchesExact ==
  ASSUME IInv, EInv, ServerUnwatches, ~spoilt'
  PROVE  Exact(results', client', disk', served', shown', unmended')
<1> DEFINE q == Tail(client.sent)
           a == client.inbox \o About("removed")
<1>1. /\ Typed /\ client \in Client /\ Len(results) \in Nat
      /\ client.sent \in Seq(Request) /\ client.inbox \in Seq(Messages)
  BY InvariantParts DEF Typed, Client
<1>2. /\ client.sent # <<>> /\ Head(client.sent).kind = "unwatch"
      /\ client' = [client EXCEPT !.sent = Tail(@), !.inbox = @ \o About("removed")]
      /\ UNCHANGED <<results, disk, shown, unmended, spoilt>>
  BY DEF ServerUnwatches, history
<1>3. Exact(results, client, disk, served, shown, unmended)
  BY <1>2 DEF EInv
<1>4. q \in Seq(Request)
  BY <1>1, <1>2, TailElement
<1>5. a \in Seq(Messages)
  <2>1. "removed" \in Responses
    BY DEF Responses
  <2>2. About("removed") \in Seq(Messages)
    BY <1>1, <2>1, OneMessage
  <2> QED
    BY <1>1, <2>2, ConcatProperties
<1>6. client' = [client EXCEPT !.sent = q, !.inbox = a]
  BY <1>1, <1>2 DEF Client
<1> HIDE DEF q, a
<1>7. /\ client'.sent = q /\ client'.listening = client.listening
      /\ client'.stream = client.stream /\ client'.token = client.token /\ client'.stored = client.stored
      /\ client'.view = client.view /\ client'.target = client.target /\ client'.mismatch = client.mismatch
  BY <1>1, <1>4, <1>5, <1>6, WireExact
<1>8. /\ Recorded(results', disk', unmended') /\ Told(results', client', unmended')
      /\ Waits(client') /\ Calm(client') /\ Shows(results', client', shown')
  BY <1>2, <1>3, <1>7, SameExact
<1>9. Asked(client')
  BY <1>1, <1>2, <1>3, <1>7, LastOfTail DEF Exact, Asked, q
<1>10. client.listening => q # <<>>
  BY <1>1, <1>2, <1>3, LastOfTail DEF Exact, Asked, q
<1>11. InTouch(results', served', client')
  BY <1>7, <1>10 DEF InTouch
<1> QED
  BY <1>8, <1>9, <1>11 DEF Exact

LEMMA UpdatesExact ==
  ASSUME IInv, EInv, ServerUpdates, ~spoilt'
  PROVE  Exact(results', client', disk', served', shown', unmended')
<1> DEFINE v == served + 1
           A == AboutKeys("in", results[v] \ results[served])
           B == AboutKeys("out", results[served] \ results[v])
           C == AtVersion("snapshot", v)
           s == client.inbox
           b == ((s \o A) \o B) \o C
<1>1. /\ Typed /\ client \in Client /\ Len(results) \in Nat /\ client.sent \in Seq(Request)
      /\ s \in Seq(Messages) /\ Len(s) \in Nat
  BY InvariantParts, LenProperties DEF Typed, Client
<1>2. /\ served \in 1..(Len(results) - 1) /\ served' = v
      /\ client' = [client EXCEPT !.inbox = ((@ \o A) \o B) \o C]
      /\ UNCHANGED <<results, disk, shown, unmended, spoilt>>
  BY DEF ServerUpdates, history
<1>3. Exact(results, client, disk, served, shown, unmended)
  BY <1>2 DEF EInv
<1>4. {A, B, C} \subseteq Seq(Messages)
  <2> DEFINE t == [keys |-> results[served], current |-> TRUE, bad |-> FALSE]
  <2>1. results[served] \in SUBSET Keys
    BY <1>1, <1>2, ElementOfSeq DEF Typed
  <2>2. t \in Track /\ Ends(results, served, t)
    BY <2>1 DEF Track, Ends
  <2> HIDE DEF t
  <2> QED
    BY <1>1, <1>2, <2>2, UpdateLeads
<1>5. client' = [client EXCEPT !.sent = client.sent, !.inbox = b]
  BY <1>1, <1>2 DEF Client
<1>6. b \in Seq(Messages)
  BY <1>1, <1>4, ConcatProperties
<1>7. \A t \in Track : Ends(results, served, t) =>
        \E x \in Track, u \in Track :
          /\ Leads(results, A, 0, t, x) /\ Leads(results, B, 0, x, u)
          /\ Leads(results, C, 0, u, u) /\ Ends(results, v, u)
  BY <1>1, <1>2, UpdateLeads
<1> HIDE DEF v, A, B, C, s
<1>8. \A n \in 1..Len(s) : b[n] = s[n]
  <2> TAKE n \in 1..Len(s)
  <2>1. (s \o A)[n] = s[n] /\ s \o A \in Seq(Messages) /\ n \in 1..Len(s \o A)
    BY <1>1, <1>4, ConcatProperties
  <2>2. ((s \o A) \o B)[n] = s[n] /\ (s \o A) \o B \in Seq(Messages) /\ n \in 1..Len((s \o A) \o B)
    <3> DEFINE p == s \o A
    <3> HIDE DEF p
    <3>1. (p \o B)[n] = p[n] /\ p \o B \in Seq(Messages) /\ n \in 1..Len(p \o B)
      <4>1. p \in Seq(Messages) /\ Len(p) \in Nat /\ n \in 1..Len(p)
        BY <2>1, LenProperties DEF p
      <4> QED
        BY <1>4, <4>1, ConcatProperties
    <3> QED
      BY <2>1, <3>1 DEF p
  <2> DEFINE p == (s \o A) \o B
  <2> HIDE DEF p
  <2>3. p \in Seq(Messages) /\ n \in 1..Len(p) /\ p[n] = s[n]
    BY <2>2 DEF p
  <2>4. (p \o C)[n] = p[n]
    BY <1>4, <2>3, ConcatProperties
  <2> QED
    BY <2>3, <2>4 DEF p
<1>9. /\ client'.sent = client.sent /\ client'.inbox = b /\ client'.listening = client.listening
      /\ client'.stream = client.stream /\ client'.token = client.token /\ client'.stored = client.stored
      /\ client'.view = client.view /\ client'.target = client.target /\ client'.mismatch = client.mismatch
  <2> HIDE DEF b
  <2> QED
    BY <1>1, <1>5, <1>6, WireExact
<1>10. /\ Recorded(results', disk', unmended') /\ Told(results', client', unmended')
       /\ Waits(client') /\ Calm(client') /\ Shows(results', client', shown')
  BY <1>2, <1>3, <1>9, SameExact
<1>11. Asked(client')
  BY <1>3, <1>9 DEF Exact, Asked
<1>12. ASSUME client.listening, client.stream = "open", client.sent = <<>>
       PROVE  \E n \in 0..Len(client'.inbox), t \in Track, u \in Track :
                Leads(results, client'.inbox, n, t, u) /\ Starts(client', n, t) /\ Ends(results, v, u)
  <2>1. PICK n \in 0..Len(s), t \in Track, w \in Track :
          Leads(results, s, n, t, w) /\ Starts(client, n, t) /\ Ends(results, served, w)
    BY <1>3, <1>12 DEF Exact, InTouch, s
  <2>2. PICK x \in Track, u \in Track :
          /\ Leads(results, A, 0, w, x) /\ Leads(results, B, 0, x, u)
          /\ Leads(results, C, 0, u, u) /\ Ends(results, v, u)
    BY <1>7, <2>1
  <2> DEFINE p == s \o A
             q == p \o B
  <2>3. p \in Seq(Messages) /\ n \in 0..Len(p) /\ Leads(results, p, n, t, x)
    BY <1>1, <1>4, <2>1, <2>2, MoreLeads
  <2> HIDE DEF p
  <2>4. q \in Seq(Messages) /\ n \in 0..Len(q) /\ Leads(results, q, n, t, u)
    BY <1>4, <2>2, <2>3, MoreLeads
  <2> HIDE DEF q
  <2>5. n \in 0..Len(q \o C) /\ Leads(results, q \o C, n, t, u)
    BY <1>4, <2>2, <2>4, MoreLeads
  <2>6. q \o C = b
    BY DEF p, q
  <2> HIDE DEF b
  <2>7. Starts(client', n, t)
    <3>1. CASE n = 0
      BY <1>9, <2>1, <3>1 DEF Starts, Tracks, Gathered
    <3>2. CASE n # 0
      <4>1. n \in 1..Len(s)
        BY <1>1, <2>1, <3>2
      <4> QED
        BY <1>8, <1>9, <2>1, <3>2, <4>1 DEF Starts, s
    <3> QED
      BY <3>1, <3>2
  <2> QED
    BY <1>9, <2>2, <2>5, <2>6, <2>7
<1>13. InTouch(results', served', client')
  BY <1>2, <1>9, <1>12 DEF InTouch
<1> QED
  BY <1>10, <1>11, <1>13 DEF Exact

-----------------------------------------------------------------------------
(* A snapshot is raised *)

\* What a client with a snapshot of its version has of the target is exact.
SnapshotDue(c, version) ==
  /\ version \in 1..Len(results) /\ c.target.token = version /\ c.target.changed
  /\ c.mismatch \/ (c.target.current /\ Gathered(c) = results[version])

\* A snapshot that is applied: the view and the disk take the same changes.
LEMMA ApplyTaken ==
  ASSUME Typed, NEW c \in Client, NEW change \in Target, NEW version \in Versions,
         change.token # NoToken, ApplyRemoteEvent(c, change, version)
  PROVE  LET keys == (c.view.keys \ With("removed", change.changes)) \cup With("added", change.changes)
         IN /\ client'.view = [keys |-> keys, current |-> change.current]
            /\ client'.stored = change.token /\ client'.token = c.token
            /\ client'.listening = c.listening /\ client'.stream = c.stream
            /\ client'.target = c.target /\ client'.mismatch = c.mismatch
            /\ client'.sent = c.sent /\ client'.inbox = c.inbox
            /\ disk'.keys = (disk.keys \ With("removed", change.changes)) \cup With("added", change.changes)
            /\ disk'.token = change.token
               \/ (disk'.token = disk.token /\ change.changes = NoChanges)
<1> DEFINE keys == (c.view.keys \ With("removed", change.changes)) \cup With("added", change.changes)
           v == [keys |-> keys, current |-> change.current]
           w == [c EXCEPT !.view = v]
           x == [w EXCEPT !.stored = change.token]
           stored == (disk.keys \ With("removed", change.changes)) \cup With("added", change.changes)
<1>1. client' = x
  BY DEF ApplyRemoteEvent
<1>2. \E persists \in ShouldPersistTargetData(c, change) :
        disk' = [keys |-> stored, seen |-> version,
                 token |-> IF persists THEN change.token ELSE disk.token]
  BY DEF ApplyRemoteEvent
<1> HIDE DEF v, stored
<1>3. /\ client'.view = v /\ client'.stored = change.token /\ client'.token = c.token
      /\ client'.listening = c.listening /\ client'.stream = c.stream
      /\ client'.target = c.target /\ client'.mismatch = c.mismatch
      /\ client'.sent = c.sent /\ client'.inbox = c.inbox
  BY <1>1 DEF Client
<1>4. PICK persists \in ShouldPersistTargetData(c, change) :
        disk' = [keys |-> stored, seen |-> version,
                 token |-> IF persists THEN change.token ELSE disk.token]
  BY <1>2
<1>5. persists = TRUE \/ (persists = FALSE /\ change.changes = NoChanges)
  BY <1>4 DEF ShouldPersistTargetData
<1>6. /\ disk'.keys = stored
      /\ disk'.token = change.token \/ (disk'.token = disk.token /\ change.changes = NoChanges)
  BY <1>4, <1>5
<1> QED
  BY <1>3, <1>6 DEF v, stored

\* The client from which the snapshot has taken what was gathered.
Cleared(c) ==
  [c EXCEPT !.target.changes = NoChanges, !.target.changed = FALSE,
            !.token = IF c.target.token = NoToken THEN @ ELSE c.target.token]

LEMMA ClearedFields ==
  ASSUME Typed, NEW c \in Client, c.target.token # NoToken
  PROVE  LET d == Cleared(c)
         IN /\ d \in Client /\ d.token = c.target.token /\ d.target.changes = NoChanges
            /\ d.target.current = c.target.current /\ d.target.due = c.target.due
            /\ d.listening = c.listening /\ d.stream = c.stream /\ d.view = c.view
            /\ d.mismatch = c.mismatch /\ d.sent = c.sent /\ d.inbox = c.inbox
<1> DEFINE t == c.target
           T == [t EXCEPT !.changes = NoChanges, !.changed = FALSE]
           d == Cleared(c)
<1>1. t \in Target /\ t.token \in Versions /\ NoChanges \in Changes
  BY NothingGathered DEF Client, Target, Typed
<1>2. T \in Target /\ T.changes = NoChanges /\ T.current = t.current /\ T.due = t.due
  BY <1>1 DEF Target
<1>3. d = [c EXCEPT !.target = T, !.token = t.token]
  BY DEF Client, Cleared
<1> HIDE DEF T, d
<1> QED
  BY <1>1, <1>2, <1>3 DEF Client, d

\* Nothing gathered changes nothing.
LEMMA NothingChanges ==
  ASSUME NEW K
  PROVE  (K \ With("removed", NoChanges)) \cup With("added", NoChanges) = K
BY DEF With, NoChanges

\* A snapshot of a target that is not active leaves view, keys and wire alone.
LEMMA InactiveExact ==
  ASSUME Typed, NEW c \in Client, ~IsActiveTarget(c), NEW version, RaiseWatchSnapshot(c, version),
         Exact(results, c, disk, served, shown, unmended), results' = results, served' = served
  PROVE  Exact(results', client', disk', served', shown', unmended')
<1>1. /\ client' = Rewatch(c) /\ disk' = [disk EXCEPT !.seen = version]
      /\ shown' = shown /\ unmended' = unmended
  BY DEF RaiseWatchSnapshot, Typed
<1>2. disk'.keys = disk.keys /\ disk'.token = disk.token
  BY <1>1 DEF Typed
<1>3. Recorded(results', disk', unmended')
  BY <1>1, <1>2 DEF Exact, Recorded
<1>4. CASE c.listening
  <2>1. c.mismatch = FALSE
    BY <1>4 DEF Exact, Waits, IsActiveTarget, Client
  <2>2. Rewatch(c) = c
    <3>1. Len(results) \in Nat /\ ~c.mismatch
      BY <2>1 DEF Typed
    <3> QED
      BY <3>1, RewatchAsks
  <2> QED
    BY <1>1, <1>3, <2>2 DEF Exact
<1>5. CASE ~c.listening
  <2>1. client' = [c EXCEPT !.mismatch = FALSE]
    BY <1>1, <1>5 DEF Rewatch
  <2>2. client'.listening = FALSE /\ client'.sent = c.sent /\ client'.mismatch = FALSE
    BY <1>5, <2>1 DEF Client
  <2>3. Asked(client')
    BY <1>5, <2>2 DEF Exact, Asked
  <2> QED
    BY <1>3, <2>2, <2>3 DEF Exact, Told, Waits, Calm, InTouch, Shows
<1> QED
  BY <1>4, <1>5

\* The snapshot after a mismatch: the view has nothing, and the target is asked for
\* anew without a token.
LEMMA MismatchExact ==
  ASSUME Typed, NEW c \in Client, IsActiveTarget(c), c.mismatch, c.stream = "open", NEW version,
         SnapshotDue(c, version), RaiseWatchSnapshot(c, version),
         Waits(c), results' = results, served' = served, ~spoilt'
  PROVE  Exact(results', client', disk', served', shown', unmended')
<1> DEFINE t == c.target
           e == Cleared(c)
           d == Rewatch(e)
<1>1. /\ c.listening /\ t.due = 0 /\ ~t.current /\ t \in Target /\ Len(results) \in Nat
      /\ version \in Versions /\ t.token = version /\ t.token # NoToken /\ t.changed
  BY DEF IsActiveTarget, Waits, SnapshotDue, Client, Typed, Versions, NoToken
<1>2. /\ ApplyRemoteEvent(d, t, version)
      /\ unmended' = TRUE /\ client'.view.keys = {}
  BY <1>1 DEF RaiseWatchSnapshot, Cleared
<1>3. /\ e \in Client /\ e.listening /\ e.mismatch /\ e.stream = "open"
  BY <1>1, ClearedFields
<1> HIDE DEF e
<1>4. /\ d \in Client /\ d.sent # <<>> /\ d.sent[Len(d.sent)] = [kind |-> "watch", token |-> NoToken]
      /\ d.token = NoToken /\ d.mismatch = FALSE /\ d.listening = TRUE /\ d.stream = "open"
  BY <1>1, <1>3, RewatchAsks DEF Client
<1> HIDE DEF d
<1>5. /\ client'.token = d.token /\ client'.listening = d.listening /\ client'.stream = d.stream
      /\ client'.mismatch = d.mismatch /\ client'.sent = d.sent /\ client'.view.current = t.current
  <2>1. d \in Client /\ t \in Target /\ version \in Versions /\ t.token # NoToken
        /\ ApplyRemoteEvent(d, t, version)
    BY <1>1, <1>2, <1>4
  <2> DEFINE v == [keys |-> (d.view.keys \ With("removed", t.changes)) \cup With("added", t.changes),
                   current |-> t.current]
  <2> HIDE DEF t
  <2>2. /\ client'.token = d.token /\ client'.listening = d.listening /\ client'.stream = d.stream
        /\ client'.mismatch = d.mismatch /\ client'.sent = d.sent /\ client'.view = v
    BY <2>1, ApplyTaken
  <2>3. v.current = t.current
    OBVIOUS
  <2> HIDE DEF v
  <2> QED
    BY <2>2, <2>3
<1>6. Recorded(results', disk', unmended') /\ Told(results', client', unmended')
  BY <1>1, <1>2, <1>4, <1>5 DEF Recorded, Told, Result
<1>7. Asked(client') /\ Waits(client') /\ Calm(client')
  BY <1>4, <1>5 DEF Asked, Waits, Calm
<1>8. InTouch(results', served', client') /\ Shows(results', client', shown')
  BY <1>1, <1>4, <1>5 DEF InTouch, Shows
<1> QED
  BY <1>6, <1>7, <1>8 DEF Exact

\* The snapshot of an active target without a mismatch: the view and the disk have
\* the result of its version.
LEMMA ActiveExact ==
  ASSUME Typed, NEW c, Good(c), IsActiveTarget(c), ~c.mismatch, c.stream = "open", NEW version,
         SnapshotDue(c, version), RaiseWatchSnapshot(c, version), disk.keys = c.view.keys,
         Recorded(results, disk, unmended), InTouch(results, served, c),
         results' = results, served' = served
  PROVE  Exact(results', client', disk', served', shown', unmended')
<1> DEFINE t == c.target
           d == Cleared(c)
           K == results[version]
<1>1. /\ c \in Client /\ c.listening /\ t.due = 0 /\ t.current /\ t \in Target /\ Len(results) \in Nat
      /\ version \in Versions /\ version > 0 /\ version # NoToken /\ t.token = version
      /\ t.token # NoToken /\ t.changed /\ Gathered(c) = K
  BY DEF Good, IsActiveTarget, SnapshotDue, Client, Typed, Versions, NoToken
<1>2. c.sent = <<>>
  <2>1. /\ c.sent \in Seq(Request) /\ Len(c.sent) \in Nat /\ Cardinality(Answers(c.inbox)) \in Nat
        /\ 0 = Len(c.sent) + Cardinality(Answers(c.inbox))
    BY <1>1, LenProperties, AnswersFinite DEF Good, InStep, Client
  <2>2. Len(c.sent) = 0
    BY <2>1
  <2> QED
    BY <2>1, <2>2, EmptySeq
<1>3. /\ d \in Client /\ d.token = version /\ d.target.changes = NoChanges
      /\ d.target.current = t.current /\ d.listening = c.listening /\ d.stream = c.stream
      /\ d.view = c.view /\ d.mismatch = c.mismatch /\ d.sent = c.sent /\ d.inbox = c.inbox
  BY <1>1, ClearedFields
<1>4. /\ ApplyRemoteEvent(Rewatch(d), t, version) /\ shown' = version
      /\ unmended' = (unmended /\ ~(t.current /\ disk'.token = version))
  BY <1>1 DEF RaiseWatchSnapshot, Cleared, Typed
<1> HIDE DEF d
<1>5. Rewatch(d) = d
  BY <1>1, <1>3, RewatchAsks
<1>6. /\ client'.view.keys = K /\ client'.view.current = TRUE
      /\ client'.stored = version /\ client'.token = version
      /\ client'.listening = c.listening /\ client'.stream = c.stream
      /\ client'.target = d.target /\ client'.mismatch = c.mismatch
      /\ client'.sent = c.sent /\ client'.inbox = c.inbox
      /\ disk'.keys = K
      /\ disk'.token = version \/ (disk'.token = disk.token /\ t.changes = NoChanges)
  <2> DEFINE keys == (d.view.keys \ With("removed", t.changes)) \cup With("added", t.changes)
             stored == (disk.keys \ With("removed", t.changes)) \cup With("added", t.changes)
  <2>1. ApplyRemoteEvent(d, t, version)
    BY <1>4, <1>5
  <2>2. /\ client'.view = [keys |-> keys, current |-> t.current]
        /\ client'.stored = t.token /\ client'.token = d.token
        /\ client'.listening = d.listening /\ client'.stream = d.stream
        /\ client'.target = d.target /\ client'.mismatch = d.mismatch
        /\ client'.sent = d.sent /\ client'.inbox = d.inbox
        /\ disk'.keys = stored
        /\ disk'.token = t.token \/ (disk'.token = disk.token /\ t.changes = NoChanges)
    BY <1>1, <1>3, <2>1, ApplyTaken
  <2>3. keys = K /\ stored = K
    BY <1>1, <1>3 DEF Gathered
  <2> HIDE DEF keys, stored
  <2>4. t.current = TRUE
    BY <1>1 DEF Target
  <2> QED
    BY <1>1, <1>3, <2>2, <2>3, <2>4
<1>7. Result(results, version) = K
  BY <1>1 DEF Result
<1>8. Told(results', client', unmended') /\ Asked(client') /\ Waits(client') /\ Calm(client')
  BY <1>2, <1>6, <1>7 DEF Told, Asked, Waits, Calm
<1>9. Shows(results', client', shown')
  BY <1>1, <1>4, <1>6 DEF Shows
<1>10. Recorded(results', disk', unmended')
  <2>1. CASE disk'.token = version
    BY <1>6, <1>7, <2>1 DEF Recorded
  <2>2. CASE disk'.token # version
    <3>1. disk'.token = disk.token /\ t.changes = NoChanges
      BY <1>6, <2>2
    <3>2. Gathered(c) = c.view.keys
      BY <3>1, NothingChanges DEF Gathered
    <3> QED
      BY <1>1, <1>4, <1>6, <2>2, <3>1, <3>2 DEF Recorded
  <2> QED
    BY <2>1, <2>2
<1>11. InTouch(results', served', client')
  <2>1. PICK n \in 0..Len(c.inbox), x \in Track, u \in Track :
          Leads(results, c.inbox, n, x, u) /\ Starts(c, n, x) /\ Ends(results, served, u)
    BY <1>1, <1>2 DEF InTouch
  <2>2. n = 0
    <3>1. n # 0 => n \in 1..Len(c.inbox) /\ c.inbox[n].kind \in Responses
      <4>1. Len(c.inbox) \in Nat
        BY <1>1, LenProperties DEF Client
      <4> QED
        BY <2>1, <4>1 DEF Starts, Responses
    <3> QED
      BY <1>1, <3>1, AnswerIsDue
  <2>3. Tracks(client', x)
    <3>1. Tracks(c, x)
      BY <2>1, <2>2 DEF Starts
    <3>2. Gathered(client') = client'.view.keys
      BY <1>3, <1>6, NothingChanges DEF Gathered
    <3> QED
      BY <1>1, <1>3, <1>6, <3>1, <3>2 DEF Tracks
  <2>4. Starts(client', n, x) /\ client'.inbox = c.inbox
    BY <1>6, <2>2, <2>3 DEF Starts
  <2> QED
    BY <2>1, <2>4 DEF InTouch
<1> QED
  BY <1>8, <1>9, <1>10, <1>11 DEF Exact

LEMMA ChangeExact ==
  ASSUME IInv, EInv, OnWatchStreamChange, ~spoilt'
  PROVE  Exact(results', client', disk', served', shown', unmended')
<1> DEFINE m == Head(client.inbox)
           c == Taken
<1>1. Typed /\ (client.listening => disk.keys = client.view.keys)
  BY InvariantParts
<1>2. /\ m \in Messages /\ Good(c) /\ c \in Client /\ c.stream = "open"
      /\ c.view = client.view /\ c.listening = client.listening
      /\ IF m.kind = "snapshot" /\ m.version >= disk.seen
         THEN RaiseWatchSnapshot(c, m.version)
         ELSE client' = c /\ UNCHANGED <<disk, history>>
      /\ UNCHANGED <<results, served, listens, breaks>>
  BY MessageTaken DEF Good
<1>3. ~spoilt
  <2> HIDE DEF c, m
  <2> QED
    BY <1>1, <1>2 DEF RaiseWatchSnapshot, history, Typed
<1>4. Exact(results, client, disk, served, shown, unmended)
  BY <1>3 DEF EInv
<1>5. /\ Told(results, c, unmended) /\ Asked(c) /\ Waits(c)
      /\ InTouch(results, served, c) /\ Shows(results, c, shown)
      /\ m.kind = "snapshot" /\ IsActiveTarget(c) => SnapshotDue(c, m.version)
  BY <1>4, TakenExact DEF SnapshotDue
<1> HIDE DEF c, m
<1>6. Exact(results, c, disk, served, shown, unmended)
  BY <1>2, <1>4, <1>5 DEF Exact, Calm
<1>7. CASE m.kind = "snapshot" /\ m.version >= disk.seen
  <2>1. RaiseWatchSnapshot(c, m.version) /\ results' = results /\ served' = served
    BY <1>2, <1>7
  <2>2. CASE ~IsActiveTarget(c)
    BY <1>1, <1>2, <1>6, <2>1, <2>2, InactiveExact
  <2>3. CASE IsActiveTarget(c) /\ c.mismatch
    <3>1. SnapshotDue(c, m.version)
      BY <1>5, <1>7, <2>3
    <3> QED
      BY <1>1, <1>2, <1>5, <2>1, <2>3, <3>1, MismatchExact
  <2>4. CASE IsActiveTarget(c) /\ ~c.mismatch
    <3>1. SnapshotDue(c, m.version)
      BY <1>5, <1>7, <2>4
    <3>2. disk.keys = c.view.keys
      BY <1>1, <1>2, <2>4 DEF IsActiveTarget
    <3>3. Recorded(results, disk, unmended)
      BY <1>4 DEF Exact
    <3> QED
      BY <1>1, <1>2, <1>5, <2>1, <2>4, <3>1, <3>2, <3>3, ActiveExact
  <2> QED
    BY <2>2, <2>3, <2>4
<1>8. CASE ~(m.kind = "snapshot" /\ m.version >= disk.seen)
  <2>1. client' = c /\ UNCHANGED <<results, served, disk, shown, unmended>>
    BY <1>2, <1>8 DEF history
  <2> QED
    BY <1>6, <2>1
<1> QED
  BY <1>7, <1>8

-----------------------------------------------------------------------------
(* A view that counts as current is exact: the theorem *)

LEMMA InitExact == Init => EInv
<1> SUFFICES ASSUME Init PROVE EInv
  OBVIOUS
<1>1. client = Idle /\ disk.keys = {} /\ disk.token = NoToken
  BY DEF Init
<1>2. Recorded(results, disk, unmended)
  BY <1>1 DEF Recorded, Result
<1> QED
  BY <1>1, <1>2, IdleExact DEF EInv

LEMMA StepExact == IInv /\ EInv /\ [Next]_vars => EInv'
<1> SUFFICES ASSUME IInv, EInv, [Next]_vars, ~spoilt'
             PROVE  Exact(results', client', disk', served', shown', unmended')
  BY DEF EInv
<1>1. CASE ListenStarts
  BY <1>1, ListenStartsExact
<1>2. CASE ListenEnds
  BY <1>2, ListenEndsExact
<1>3. CASE OnWatchStreamOpen
  BY <1>3, OpenExact
<1>4. CASE OnWatchStreamChange
  BY <1>4, ChangeExact
<1>5. CASE StreamCloses
  BY <1>5, ClosesExact
<1>6. CASE Relaunch
  BY <1>6, RelaunchExact
<1>7. CASE \E K \in SUBSET Keys : ResultChanges(K)
  BY <1>7, ResultExact
<1>8. CASE \E v \in 1..Len(results) : ServerWatches(v)
  BY <1>8, WatchesExact
<1>9. CASE ServerUnwatches
  BY <1>9, UnwatchesExact
<1>10. CASE ServerUpdates
  BY <1>10, UpdatesExact
<1>11. CASE UNCHANGED vars
  BY <1>11 DEF vars, server, history, EInv
<1> QED
  BY <1>1, <1>2, <1>3, <1>4, <1>5, <1>6, <1>7, <1>8, <1>9, <1>10, <1>11 DEF Next

\* A view that counts as current shows exactly the result of the last snapshot that
\* counted, whatever was under way of earlier listens, however removals were told
\* and from whatever token the query was resumed, but for the two cases after a
\* filter mismatch that CurrentIsExact names.
THEOREM CurrentViewsAreExact == Spec => []CurrentIsExact
<1>1. EInv => CurrentIsExact
  BY DEF EInv, Exact, Shows, CurrentIsExact
<1> QED
  BY <1>1, InitExact, StepExact, Invariance, PTL DEF Spec
=============================================================================
