------------------------------ MODULE Account -------------------------------
(***************************************************************************)
(* Signing up, signing in, signing out and editing the login of MyMealPrep *)
(* on one device.  An account exists twice: in Firebase Auth, and as a     *)
(* document of the users collection with the same email and password.      *)
(*                                                                         *)
(* Every call to either service is answered later, on the main thread, in  *)
(* any order; the closure that handles the answer usually makes the next   *)
(* call.  pending holds the calls not yet answered, and each action below  *)
(* but the taps is one answer with the closure that handles it.            *)
(***************************************************************************)
EXTENDS Integers, Sequences, FiniteSets, SequencesExt

CONSTANTS
  Emails,      \* valid email addresses
  Passwords,   \* passwords of at least six characters
  AccountIds,  \* identities of Firebase Auth accounts
  UserIds,     \* UUIDs of users documents
  None,        \* no account, no user, an empty text field
  MaxCalls     \* bound on the calls in flight

ASSUME AccountBounds == MaxCalls \in Nat \ {0}

VARIABLES
  calm,         \* TRUE: one chain of calls at a time, none failing or cut short, and
                \* one email edit after each sign-in; FALSE: anything but email edits
  auth,         \* Firebase Auth: account id -> email and password
  users,        \* the users collection: document id -> email and password
  authUser,     \* Auth.auth().currentUser, kept by the device across launches
  currentUser,  \* UserController.shared.currentUser
  pending,      \* calls to the services not answered yet
  screen        \* "login" or, past it, "tabs"

vars == <<calm, auth, users, authUser, currentUser, pending, screen>>

Login == [email : Emails, password : Passwords]
User == [id : UserIds, email : Emails, password : Passwords]

ASSUME NoneAssumption == None \notin Emails \cup Passwords \cup AccountIds \cup UserIds \cup User

Kinds == {"launchFetch", "signInFetch", "signIn", "signUpFetch", "createAccount",
          "createUser", "editAccount", "editUser"}

\* A call in flight.  subject is the account, the document or the email
\* address it is about; onTop is FALSE once another screen covers the login
\* controller that made it.
Call(kind, email, password, subject) ==
  [kind |-> kind, email |-> email, password |-> password, subject |-> subject, onTop |-> TRUE]

Put(f, x, y) == [z \in DOMAIN f \cup {x} |-> IF z = x THEN y ELSE f[z]]
Drop(f, x) == [z \in DOMAIN f \ {x} |-> f[z]]

AccountsOf(e) == {a \in DOMAIN auth : auth[a].email = e}

\* Documents a fetchUserWithEmail may return; any one of them comes first.
Found(e) == {u \in DOMAIN users : users[u].email = e}
AsUser(u) == [id |-> u, email |-> users[u].email, password |-> users[u].password]

Quiet == pending = <<>>
MayAct(n) == Len(pending) + n <= MaxCalls /\ (calm => Quiet /\ n <= 1)

Answered(i) == pending' = RemoveAt(pending, i)

\* The closure makes the next call of its chain, of another kind.
Continues(i, kind, subject) ==
  pending' = Append(RemoveAt(pending, i), [pending[i] EXCEPT !.kind = kind, !.subject = subject])

\* Only a controller that presents nothing else can present the tab bar: not
\* one under the tabs of an earlier login, nor one showing the popup of
\* another chain of calls.
toTabBar(i) ==
  \/ pending[i].onTop /\ screen' = "tabs"
  \/ ~(calm /\ pending[i].onTop) /\ UNCHANGED screen

Init ==
  /\ calm \in BOOLEAN
  /\ auth = <<>> /\ users = <<>>
  /\ authUser = None /\ currentUser = None
  /\ pending = <<>>
  /\ screen = "login"

-----------------------------------------------------------------------------
(* Taps *)

\* The login screen appears in a new process; a session kept by Firebase Auth
\* is looked up by its email address.
Relaunch ==
  /\ calm => Quiet
  /\ currentUser' = None /\ screen' = "login"
  /\ pending' = IF authUser = None THEN <<>>
                ELSE <<Call("launchFetch", auth[authUser].email, None, None)>>
  /\ UNCHANGED <<calm, auth, users, authUser>>

signInTapped(e, p) ==
  /\ screen = "login" /\ MayAct(1)
  /\ pending' = Append(pending, Call("signInFetch", e, p, None))
  /\ UNCHANGED <<calm, auth, users, authUser, currentUser, screen>>

signUpTapped(e, p) ==
  /\ screen = "login" /\ MayAct(1)
  /\ pending' = Append(pending, Call("signUpFetch", e, p, None))
  /\ UNCHANGED <<calm, auth, users, authUser, currentUser, screen>>

\* A new login controller covers the one that is waiting for answers; the
\* current user is not forgotten.
logoutButtonTapped ==
  /\ screen = "tabs" /\ (calm => Quiet)
  /\ authUser' = None /\ screen' = "login"
  /\ pending' = [i \in DOMAIN pending |-> [pending[i] EXCEPT !.onTop = FALSE]]
  /\ UNCHANGED <<calm, auth, users, currentUser>>

\* Save on the edit screen: one call per filled field, made together.
saveButtonTapped(e, p) ==
  LET edits == (IF e = None THEN <<>> ELSE <<Call("editAccount", e, None, authUser)>>)
            \o (IF p = None THEN <<>> ELSE <<Call("editAccount", None, p, authUser)>>)
  IN  /\ screen = "tabs"
      /\ IF calm THEN currentUser.email = auth[authUser].email ELSE e = None
      /\ MayAct(Len(edits))
      /\ pending' = pending \o edits
      /\ UNCHANGED <<calm, auth, users, authUser, currentUser, screen>>

-----------------------------------------------------------------------------
(* Answers *)

Is(i, kind) == i \in DOMAIN pending /\ pending[i].kind = kind

\* An error, or an answer the closure does nothing with but print or pop up.
Fails(i) ==
  /\ ~calm /\ i \in DOMAIN pending
  /\ users' = IF pending[i].kind = "createUser" THEN Drop(users, pending[i].subject)
                                               ELSE users
  /\ Answered(i)
  /\ UNCHANGED <<calm, auth, authUser, currentUser, screen>>

LaunchFetched(i) ==
  /\ Is(i, "launchFetch")
  /\ \/ /\ Found(pending[i].email) = {}
        /\ UNCHANGED <<currentUser, screen>>
     \/ \E u \in Found(pending[i].email) : currentUser' = AsUser(u) /\ toTabBar(i)
  /\ Answered(i)
  /\ UNCHANGED <<calm, auth, users, authUser>>

PasswordMatches(u, p) == users[u].password = p

Mut_SignInFetched(i) ==
  /\ Is(i, "signInFetch")
  /\ LET e == pending[i].email p == pending[i].password IN
     \/ /\ \/ Found(e) = {}
           \/ \E u \in Found(e) : ~PasswordMatches(u, p)
        /\ Answered(i)
     \/ /\ \E u \in Found(e) : PasswordMatches(u, p)
        /\ Continues(i, "signIn", None)
  /\ UNCHANGED <<calm, auth, users, authUser, currentUser, screen>>

\* The document's password is compared first, and the user is the current one
\* from here on, whatever Auth.signIn says.
SignInFetched(i) ==
  /\ Is(i, "signInFetch")
  /\ LET e == pending[i].email p == pending[i].password IN
     \/ /\ \/ Found(e) = {}
           \/ \E u \in Found(e) : ~PasswordMatches(u, p)
        /\ Answered(i) /\ UNCHANGED currentUser
     \/ \E u \in Found(e) :
          /\ PasswordMatches(u, p)
          /\ currentUser' = AsUser(u)
          /\ Continues(i, "signIn", None)
  /\ UNCHANGED <<calm, auth, users, authUser, screen>>

SignedIn(i) ==
  /\ Is(i, "signIn")
  /\ \/ \E a \in AccountsOf(pending[i].email) :
          /\ auth[a].password = pending[i].password
          /\ authUser' = a /\ toTabBar(i)
     \/ /\ \A a \in AccountsOf(pending[i].email) : auth[a].password # pending[i].password
        /\ UNCHANGED <<authUser, screen>>
  /\ Answered(i)
  /\ UNCHANGED <<calm, auth, users, currentUser>>

SignUpFetched(i) ==
  /\ Is(i, "signUpFetch")
  /\ \/ Found(pending[i].email) # {} /\ Answered(i)
     \/ /\ Found(pending[i].email) = {}
        /\ Continues(i, "createAccount", None)
  /\ UNCHANGED <<calm, auth, users, authUser, currentUser, screen>>

\* Firebase Auth has one account per email address.
EmailFree(e) == AccountsOf(e) = {}

\* Mutant: the document is written although the account was refused.
Mut_AccountCreated(i) ==
  /\ Is(i, "createAccount")
  /\ LET e == pending[i].email p == pending[i].password IN
     /\ IF EmailFree(e)
          THEN \E a \in AccountIds \ DOMAIN auth :
                 auth' = Put(auth, a, [email |-> e, password |-> p]) /\ authUser' = a
          ELSE UNCHANGED <<auth, authUser>>
     /\ \E u \in UserIds \ DOMAIN users :
          /\ users' = Put(users, u, [email |-> e, password |-> p])
          /\ Continues(i, "createUser", u)
  /\ UNCHANGED <<calm, currentUser, screen>>

\* The account is created, and signed in, before the closure checks that the
\* two password fields agree; only then is the document written.
AccountCreated(i) ==
  /\ Is(i, "createAccount")
  /\ LET e == pending[i].email p == pending[i].password IN
     \/ /\ ~EmailFree(e)
        /\ Answered(i) /\ UNCHANGED <<auth, users, authUser>>
     \/ /\ EmailFree(e)
        /\ \E a \in AccountIds \ DOMAIN auth :
             auth' = Put(auth, a, [email |-> e, password |-> p]) /\ authUser' = a
        /\ \/ Answered(i) /\ UNCHANGED users
           \/ \E u \in UserIds \ DOMAIN users :
                /\ users' = Put(users, u, [email |-> e, password |-> p])
                /\ Continues(i, "createUser", u)
  /\ UNCHANGED <<calm, currentUser, screen>>

UserCreated(i) ==
  /\ Is(i, "createUser")
  /\ currentUser' = [id |-> pending[i].subject, email |-> pending[i].email,
                     password |-> pending[i].password]
  /\ toTabBar(i)
  /\ Answered(i)
  /\ UNCHANGED <<calm, auth, users, authUser>>

Mut_Edited(login, call) == [email |-> call.email, password |-> call.password]

Edited(login, call) ==
  [email    |-> IF call.email = None THEN login.email ELSE call.email,
   password |-> IF call.password = None THEN login.password ELSE call.password]

\* Refused when the address is taken, or the login is not recent: the
\* re-authentication the app then asks for changes nothing here.
AccountEdited(i) ==
  /\ Is(i, "editAccount")
  /\ LET a == pending[i].subject IN
     \/ Answered(i) /\ UNCHANGED auth
     \/ /\ AccountsOf(pending[i].email) \subseteq {a}
        /\ auth' = [auth EXCEPT ![a] = Edited(@, pending[i])]
        /\ IF currentUser = None THEN Answered(i)
                                 ELSE Continues(i, "editUser", currentUser.email)
  /\ UNCHANGED <<calm, users, authUser, currentUser, screen>>

Mut_UserEdited(i) ==
  /\ Is(i, "editUser") /\ Answered(i)
  /\ UNCHANGED <<calm, users, auth, authUser, currentUser, screen>>

\* The document is looked up by the email address the current user had when
\* it was fetched, which no edit updates.
UserEdited(i) ==
  /\ Is(i, "editUser")
  /\ \/ Found(pending[i].subject) = {} /\ UNCHANGED users
     \/ \E u \in Found(pending[i].subject) :
          users' = [users EXCEPT ![u] = Edited(@, pending[i])]
  /\ Answered(i)
  /\ UNCHANGED <<calm, auth, authUser, currentUser, screen>>

Answer(i) ==
  \/ LaunchFetched(i) \/ SignInFetched(i) \/ SignedIn(i)
  \/ SignUpFetched(i) \/ AccountCreated(i) \/ UserCreated(i)
  \/ AccountEdited(i) \/ UserEdited(i)

Next ==
  \/ Relaunch \/ logoutButtonTapped
  \/ \E e \in Emails, p \in Passwords : signInTapped(e, p) \/ signUpTapped(e, p)
  \/ \E e \in Emails \cup {None}, p \in Passwords \cup {None} : saveButtonTapped(e, p)
  \/ \E i \in 1..MaxCalls : Answer(i) \/ Fails(i)

Spec == Init /\ [][Next]_vars

\* The services answer every call in the end.
FairSpec == Spec /\ \A i \in 1..MaxCalls : WF_vars(Answer(i))

-----------------------------------------------------------------------------
(* Properties *)

\* Every part of the state has its type; no call is about an account or a
\* document that does not exist.
TypeOK ==
  /\ calm \in BOOLEAN
  /\ DOMAIN auth \subseteq AccountIds /\ Range(auth) \subseteq Login
  /\ DOMAIN users \subseteq UserIds /\ Range(users) \subseteq Login
  /\ authUser \in DOMAIN auth \cup {None}
  /\ currentUser \in User \cup {None}
  /\ Len(pending) <= MaxCalls
  /\ \A i \in DOMAIN pending :
       /\ pending[i].kind \in Kinds
       /\ pending[i].email \in Emails \cup {None}
       /\ pending[i].password \in Passwords \cup {None}
       /\ pending[i].kind = "createUser" => pending[i].subject \in DOMAIN users
       /\ pending[i].kind = "editAccount" => pending[i].subject \in DOMAIN auth
  /\ screen \in {"login", "tabs"}

\* Signing up looks an address up and creates the document two calls later;
\* while addresses stay, two sign-ups racing through it leave one document,
\* because Firebase Auth refuses the second account.
OneDocPerEmail ==
  \A u, v \in DOMAIN users : users[u].email = users[v].email => u = v

\* However logins, logouts, relaunches and late answers interleave, the tabs are
\* never on screen without a current user and a Firebase Auth session: every screen
\* behind them force-reads one or the other.  With one chain of calls at a time, the
\* current user, chosen by the users collection, and the session, chosen by
\* Firebase Auth, have the same email and password between the chains.
SameUser ==
  screen = "tabs" =>
    /\ currentUser # None /\ authUser # None
    /\ calm /\ Quiet => users[currentUser.id] = auth[authUser]

\* Between chains, what a document says is a login Firebase Auth accepts: signing
\* in compares with the first and then calls the second.  An edit that follows an
\* email edit without a sign-in between them would break this.
LoginsAgree ==
  calm /\ Quiet => \A u \in DOMAIN users : \E a \in DOMAIN auth : auth[a] = users[u]

\* Tapping Sign In with what a document says ends behind the tabs.
SignInSucceeds ==
  (calm /\ \E i \in DOMAIN pending : /\ pending[i].kind = "signInFetch"
                                     /\ \E u \in Found(pending[i].email) :
                                          users[u].password = pending[i].password)
    ~> screen = "tabs"
=============================================================================
