------------------------- MODULE FirestoreGetProofs --------------------------
(***************************************************************************)
(* Proofs about FirestoreGet for every set of queries, however many gets   *)
(* the app makes and however often the stream breaks or connectivity       *)
(* changes.                                                                *)
(***************************************************************************)
EXTENDS FirestoreGet, FiniteSetTheorems, SequenceTheorems, TLAPS

-----------------------------------------------------------------------------
(* The inductive invariant *)

From == {"server", "cache", "error"}
Get == [query : Queries, muted : BOOLEAN, answers : Nat]
Task == [kind : {"listen", "unlisten"}, get : Gets]
Event == [get : Gets, from : From]

\* The events a worker step raises for gs, unless it rejects a query.
Events(gs, froms) == Seq([get : gs, from : froms])
EventsFor(gs) == Events(gs, {"server", "cache"})

\* The client, also within a step, when some events may have been raised.
Client ==
  [state : StreamStates, idle : BOOLEAN,
   targets : SUBSET Queries, asked : SUBSET Queries,
   online : {"Unknown", "Online", "Offline"}, timer : BOOLEAN,
   failures : 0..MaxWatchStreamFailures,
   views : [Queries -> {"none", "local", "synced"}],
   listeners : SUBSET Gets, initial : SUBSET Gets, raised : Seq(Event), aborted : BOOLEAN]

Typed ==
  /\ gets \in Seq(Get) /\ Len(gets) <= MaxGets
  /\ worker \in Seq(Task)
  /\ events \in Seq(Event)
  /\ flaps \in 0..MaxFlaps
  /\ client \in Client /\ client.raised = <<>>

\* A query has a view while it has listeners, and a target likewise.
ViewsAgree(c) == \A q \in Queries : c.views[q] # "none" <=> ListenersTo(c, q) # {}
TargetsAgree(c) == \A q \in Queries : q \in c.targets <=> ListenersTo(c, q) # {}

\* What is listened to is asked for on an open stream, until the server, which
\* counts as online from then on, has sent it.
Asks(c) ==
  /\ c.asked \subseteq c.targets
  /\ IsOpen(c) => \A q \in c.targets \ c.asked : c.online = "Online" /\ c.views[q] = "synced"

\* The stream is up, or on its way, while it is needed and while the timer runs.
Started(c) == c.targets # {} \/ c.timer => IsStarted(c)

\* Who listens offline has had an event.
Told(c) == c.online = "Offline" => c.listeners \subseteq c.initial

\* The timer, the count of failures and the idle timer fit the state, and no
\* assertion has failed.
Timers(c) ==
  /\ ~c.aborted
  /\ c.timer => c.online = "Unknown" /\ c.failures = 0
  /\ c.online = "Online" => c.failures = 0
  /\ c.idle => IsOpen(c) /\ c.targets = {}

Well(c) ==
  ViewsAgree(c) /\ TargetsAgree(c) /\ Started(c) /\ Asks(c) /\ Told(c) /\ Timers(c)

\* The task that makes g a listener has not run.
Pending(g) == \E i \in 1..Len(worker) : worker[i].kind = "listen" /\ worker[i].get = g
HasEvent(g) == \E i \in 1..Len(events) : events[i].get = g

\* A get is added once,
AddedOnce ==
  \A i, j \in 1..Len(worker) :
    worker[i].kind = "listen" /\ worker[j].kind = "listen" /\ worker[i].get = worker[j].get => i = j

\* before which nothing happens to it.
NothingBefore ==
  \A g \in Gets : Pending(g) => gets[g].answers = 0 /\ g \notin client.listeners /\ ~HasEvent(g)

\* An error is the last event of its get, whose listener is gone.
ErrorsAreLast ==
  \A i \in 1..Len(events) : events[i].from = "error" =>
    /\ events[i].get \notin client.listeners
    /\ \A j \in (i + 1)..Len(events) : events[j].get # events[i].get

\* Who is answered is muted, or cannot get another event.
AnsweredIsOver ==
  \A g \in Gets :
    /\ gets[g].answers \in {0, 1}
    /\ gets[g].answers = 1 /\ ~gets[g].muted => g \notin client.listeners /\ ~HasEvent(g)

Answers == AddedOnce /\ NothingBefore /\ ErrorsAreLast /\ AnsweredIsOver

IInv == Typed /\ Well(client) /\ Answers

\* Within a step, what has been raised is for who listens.
Outgoing(c) == c.raised \in EventsFor(c.listeners)

\* Well, but for the stream.
Consistent(c) ==
  ViewsAgree(c) /\ TargetsAgree(c) /\ c.asked \subseteq c.targets /\ Told(c) /\ Timers(c)

\* What no snapshot and no change of the online state touches.
Frame(c, d) ==
  /\ d.state = c.state /\ d.idle = c.idle /\ d.targets = c.targets /\ d.asked = c.asked
  /\ d.timer = c.timer /\ d.failures = c.failures /\ d.aborted = c.aborted /\ d.listeners = c.listeners
  /\ c.initial \subseteq d.initial

-----------------------------------------------------------------------------
(* Snapshots and events *)

\* A function on 1..n is a sequence.
LEMMA FunctionIsSeq ==
  ASSUME NEW S, NEW n \in Nat, NEW f \in [1..n -> S]
  PROVE  f \in Seq(S) /\ Len(f) = n
<1>1. f \in Seq(S)
  BY SeqDef
<1>2. DOMAIN f = 1..n /\ DOMAIN f = 1..Len(f) /\ Len(f) \in Nat
  BY <1>1, LenProperties
<1> QED
  BY <1>1, <1>2

\* SetToSeq lists the members of a finite set, each once.
LEMMA SetToSeqProperties ==
  ASSUME NEW S, IsFiniteSet(S)
  PROVE  /\ Cardinality(S) \in Nat
         /\ SetToSeq(S) \in [1..Cardinality(S) -> S]
         /\ \A i, j \in 1..Cardinality(S) : SetToSeq(S)[i] = SetToSeq(S)[j] => i = j
<1>1. Cardinality(S) \in Nat /\ ExistsBijection(1..Cardinality(S), S)
  BY FS_CardinalityType
<1>2. PICK f \in [1..Cardinality(S) -> S] : IsInjective(f)
  BY <1>1 DEF ExistsBijection, Bijection, Injection
<1>3. SetToSeq(S) \in [1..Cardinality(S) -> S] /\ IsInjective(SetToSeq(S))
  BY <1>2 DEF SetToSeq
<1> QED
  BY <1>1, <1>3 DEF IsInjective

\* The gets of the app are finitely many.
LEMMA GetsFinite ==
  ASSUME gets \in Seq(Get), NEW gs \in SUBSET Gets
  PROVE  IsFiniteSet(gs)
<1>1. Len(gets) \in Nat
  BY LenProperties
<1>2. IsFiniteSet(Gets)
  BY <1>1, FS_Interval DEF Gets
<1> QED
  BY <1>2, FS_Subset

\* What was raised after r, one event each, is one of evs.
RaisedOnce(s, r, evs) ==
  \E new \in evs :
    /\ s = r \o new
    /\ \A i, j \in 1..Len(new) : new[i].get = new[j].get => i = j

\* One event is raised for each get.
LEMMA RaiseProperties ==
  ASSUME gets \in Seq(Get), NEW c \in Client, NEW gs \in SUBSET Gets, NEW from \in From
  PROVE  /\ Raise(c, gs, from) \in Client
         /\ Frame(c, Raise(c, gs, from))
         /\ Raise(c, gs, from).online = c.online /\ Raise(c, gs, from).views = c.views
         /\ Raise(c, gs, from).initial = c.initial \cup gs
         /\ RaisedOnce(Raise(c, gs, from).raised, c.raised, Events(gs, {from}))
<1> DEFINE n == Cardinality(gs)
           order == SetToSeq(gs)
           new == [i \in 1..n |-> [get |-> order[i], from |-> from]]
           E == [get : gs, from : {from}]
           d == Raise(c, gs, from)
<1>1. n \in Nat /\ order \in [1..n -> gs] /\ \A i, j \in 1..n : order[i] = order[j] => i = j
  BY GetsFinite, SetToSeqProperties
<1>2. d = [c EXCEPT !.raised = c.raised \o new, !.initial = c.initial \cup gs]
  BY Zenon DEF Raise
<1> HIDE DEF n, order
<1>3. new \in [1..n -> E] /\ \A i \in 1..n : new[i].get = order[i]
  BY <1>1
<1> HIDE DEF new
<1>4. new \in Seq(E)
  BY <1>1, <1>3, FunctionIsSeq
<1>5. Len(new) = n
  BY <1>1, <1>3, FunctionIsSeq
<1>6. \A i, j \in 1..Len(new) : new[i].get = new[j].get => i = j
  BY <1>1, <1>3, <1>5
<1>7. new \in Seq(Event)
  <2>1. E \subseteq Event
    BY DEF Event
  <2> QED
    BY <1>4, <2>1, SeqMonotonic
<1>8. c.raised \in Seq(Event) /\ c.initial \in SUBSET Gets
  BY DEF Client
<1>9. c.raised \o new \in Seq(Event)
  BY <1>7, <1>8, ConcatProperties
<1> HIDE DEF d
<1>10. d \in Client /\ d.online = c.online /\ d.views = c.views /\ d.initial = c.initial \cup gs
       /\ d.raised = c.raised \o new /\ d.state = c.state /\ d.idle = c.idle
       /\ d.targets = c.targets /\ d.asked = c.asked /\ d.timer = c.timer
       /\ d.failures = c.failures /\ d.aborted = c.aborted /\ d.listeners = c.listeners
  BY <1>2, <1>8, <1>9 DEF Client
<1>11. Frame(c, d)
  BY <1>10 DEF Frame
<1> QED
  BY <1>4, <1>6, <1>10, <1>11 DEF d, Events, RaisedOnce

\* Events for who listens go out to who listens.
LEMMA RaiseOutgoing ==
  ASSUME gets \in Seq(Get), NEW c \in Client, NEW gs \in SUBSET c.listeners,
         NEW from \in {"server", "cache"}, Outgoing(c)
  PROVE  Outgoing(Raise(c, gs, from))
<1> DEFINE E == [get : c.listeners, from : {"server", "cache"}]
<1>1. gs \in SUBSET Gets /\ from \in From
  BY DEF Client, From
<1>2. PICK new \in Events(gs, {from}) : Raise(c, gs, from).raised = c.raised \o new
  <2>1. RaisedOnce(Raise(c, gs, from).raised, c.raised, Events(gs, {from}))
    BY <1>1, RaiseProperties
  <2> QED
    BY <2>1 DEF RaisedOnce
<1>3. [get : gs, from : {from}] \subseteq E
  OBVIOUS
<1>4. new \in Seq(E)
  BY <1>3, SeqMonotonic DEF Events
<1>5. c.raised \in Seq(E)
  BY DEF Outgoing, EventsFor, Events
<1>6. c.raised \o new \in Seq(E)
  BY <1>4, <1>5, ConcatProperties
<1>7. Raise(c, gs, from).listeners = c.listeners
  <2>1. Frame(c, Raise(c, gs, from))
    BY <1>1, RaiseProperties
  <2> QED
    BY <2>1 DEF Frame
<1> QED
  BY <1>2, <1>6, <1>7 DEF Outgoing, EventsFor, Events

\* A snapshot is an event for those who had one, and for all when it comes from
\* the server or the client is offline.
LEMMA OnViewSnapshotProperties ==
  ASSUME gets \in Seq(Get), NEW c \in Client, NEW gs \in SUBSET c.listeners,
         NEW from \in {"server", "cache"}, Outgoing(c)
  PROVE  LET d == OnViewSnapshot(c, gs, from)
         IN /\ d \in Client /\ Outgoing(d) /\ Frame(c, d)
            /\ d.online = c.online /\ d.views = c.views
            /\ c.online = "Offline" => gs \subseteq d.initial
<1> DEFINE hs == {g \in gs : g \in c.initial \/ from = "server" \/ c.online = "Offline"}
<1>1. hs \in SUBSET c.listeners /\ hs \in SUBSET Gets /\ from \in From
  BY DEF Client, From
<1>2. OnViewSnapshot(c, gs, from) = Raise(c, hs, from)
  BY DEF OnViewSnapshot
<1>3. c.online = "Offline" => gs \subseteq hs
  OBVIOUS
<1> HIDE DEF hs
<1>4. /\ Raise(c, hs, from) \in Client /\ Frame(c, Raise(c, hs, from))
      /\ Raise(c, hs, from).online = c.online /\ Raise(c, hs, from).views = c.views
      /\ Raise(c, hs, from).initial = c.initial \cup hs
  BY <1>1, RaiseProperties
<1>5. Outgoing(Raise(c, hs, from))
  BY <1>1, RaiseOutgoing
<1> QED
  BY <1>2, <1>3, <1>4, <1>5

\* A change of the online state that is not to offline changes nothing else.
LEMMA BroadcastOnline ==
  ASSUME NEW c \in Client, NEW state \in {"Unknown", "Online"}
  PROVE  SetAndBroadcast(c, state) = [c EXCEPT !.online = state]
<1>1. CASE state = c.online
  <2>1. SetAndBroadcast(c, state) = c
    BY <1>1, Zenon DEF SetAndBroadcast
  <2>2. [c EXCEPT !.online = state] = c
    BY <1>1 DEF Client
  <2> QED
    BY <2>1, <2>2
<1>2. CASE state # c.online
  BY <1>2 DEF SetAndBroadcast
<1> QED
  BY <1>1, <1>2

\* Going offline, every view is in step no more, and who listens is told.
LEMMA BroadcastOffline ==
  ASSUME gets \in Seq(Get), NEW c \in Client, Outgoing(c), Told(c)
  PROVE  LET d == SetAndBroadcast(c, "Offline")
         IN /\ d \in Client /\ Outgoing(d) /\ Frame(c, d) /\ Told(d)
            /\ d.online = "Offline"
            /\ \A q \in Queries : d.views[q] = "none" <=> c.views[q] = "none"
<1> DEFINE d == SetAndBroadcast(c, "Offline")
<1>1. CASE c.online = "Offline"
  <2>1. d = c
    BY <1>1, Zenon DEF SetAndBroadcast
  <2> QED
    BY <1>1, <2>1 DEF Frame
<1>2. CASE c.online # "Offline"
  <2> DEFINE behind == {q \in Queries : c.views[q] = "synced"}
             stale == {g \in c.listeners : gets[g].query \in behind}
             e == OnViewSnapshot(c, stale, "cache")
             V == [q \in Queries |-> IF q \in behind THEN "local" ELSE e.views[q]]
             offline == [e EXCEPT !.views = V, !.online = "Offline"]
             rest == c.listeners \ offline.initial
  <2>1. d = Raise(offline, rest, "cache")
    BY <1>2 DEF SetAndBroadcast
  <2>2. stale \in SUBSET c.listeners
    OBVIOUS
  <2> HIDE DEF stale
  <2>3. /\ e \in Client /\ Outgoing(e) /\ Frame(c, e)
        /\ e.online = c.online /\ e.views = c.views
    BY <2>2, OnViewSnapshotProperties
  <2> HIDE DEF e
  <2>4. V \in [Queries -> {"none", "local", "synced"}]
    BY <2>3 DEF Client
  <2>5. \A q \in Queries : V[q] = "none" <=> c.views[q] = "none"
    BY <2>3
  <2> HIDE DEF V, behind
  <2>6. /\ offline \in Client /\ offline.online = "Offline" /\ offline.views = V
        /\ offline.initial = e.initial /\ offline.raised = e.raised /\ offline.listeners = e.listeners
        /\ offline.state = e.state /\ offline.idle = e.idle /\ offline.targets = e.targets
        /\ offline.asked = e.asked /\ offline.timer = e.timer /\ offline.failures = e.failures /\ offline.aborted = e.aborted
    BY <2>3, <2>4 DEF Client
  <2>7. Frame(c, offline) /\ Outgoing(offline)
    BY <2>3, <2>6 DEF Frame, Outgoing
  <2> HIDE DEF offline
  <2>8. rest \in SUBSET offline.listeners /\ rest \in SUBSET Gets /\ "cache" \in From
    BY <2>6, <2>7 DEF Frame, Client, From
  <2>9. c.listeners \subseteq offline.initial \cup rest
    OBVIOUS
  <2> HIDE DEF rest, d
  <2>10. /\ d \in Client /\ Frame(offline, d) /\ d.online = "Offline" /\ d.views = V
         /\ d.initial = offline.initial \cup rest
    BY <2>1, <2>6, <2>8, RaiseProperties
  <2>11. Outgoing(d)
    BY <2>1, <2>6, <2>7, <2>8, RaiseOutgoing
  <2>12. Frame(c, d)
    BY <2>7, <2>10 DEF Frame
  <2>13. Told(d)
    BY <2>9, <2>10, <2>12 DEF Told, Frame
  <2> QED
    BY <2>5, <2>10, <2>11, <2>12, <2>13 DEF d
<1> QED
  BY <1>1, <1>2

-----------------------------------------------------------------------------
(* The online state *)

\* An assertion that holds changes nothing.
LEMMA HardAssertHolds ==
  ASSUME NEW c \in Client, NEW holds, holds
  PROVE  HardAssert(c, holds) = c
BY DEF HardAssert, Client

\* Views and targets that agree with the listeners go on doing so as long as
\* neither come nor go.
LEMMA AgreementStays ==
  ASSUME NEW c, NEW d, d.listeners = c.listeners, d.targets = c.targets,
         \A q \in Queries : d.views[q] = "none" <=> c.views[q] = "none"
  PROVE  /\ ViewsAgree(c) => ViewsAgree(d)
         /\ TargetsAgree(c) => TargetsAgree(d)
<1>1. \A q \in Queries : ListenersTo(d, q) = ListenersTo(c, q)
  BY DEF ListenersTo
<1> QED
  BY <1>1 DEF ViewsAgree, TargetsAgree

\* Word from the server, or that the stream is over, stops the timer.
LEMMA UpdateStateKeeps ==
  ASSUME NEW c \in Client, Outgoing(c), Consistent(c), NEW state \in {"Unknown", "Online"}
  PROVE  LET d == UpdateState(c, state)
         IN /\ d \in Client /\ Outgoing(d) /\ Consistent(d)
            /\ d.state = c.state /\ d.targets = c.targets /\ d.asked = c.asked
            /\ d.listeners = c.listeners /\ d.views = c.views /\ d.raised = c.raised
            /\ d.online = state /\ ~d.timer
<1> DEFINE b == [c EXCEPT !.timer = FALSE, !.failures = 0]
           d == UpdateState(c, state)
<1>0. 0 \in 0..MaxWatchStreamFailures
  BY DEF MaxWatchStreamFailures
<1>1. /\ b \in Client /\ b.timer = FALSE /\ b.failures = 0 /\ b.aborted = c.aborted
      /\ b.state = c.state /\ b.targets = c.targets /\ b.asked = c.asked /\ b.idle = c.idle
      /\ b.listeners = c.listeners /\ b.views = c.views /\ b.raised = c.raised /\ b.initial = c.initial
  BY <1>0 DEF Client
<1>2. d = [b EXCEPT !.online = state]
  BY <1>1, BroadcastOnline DEF UpdateState
<1> HIDE DEF d, b
<1>3. /\ d \in Client
      /\ d.state = c.state /\ d.targets = c.targets /\ d.asked = c.asked /\ d.idle = c.idle
      /\ d.listeners = c.listeners /\ d.views = c.views /\ d.raised = c.raised /\ d.initial = c.initial
      /\ d.online = state /\ d.timer = FALSE /\ d.failures = 0 /\ d.aborted = c.aborted
  BY <1>1, <1>2 DEF Client
<1>4. ViewsAgree(d) /\ TargetsAgree(d)
  BY <1>3, AgreementStays DEF Consistent
<1>5. d.asked \subseteq d.targets /\ Told(d) /\ Timers(d)
  BY <1>3 DEF Consistent, Told, Timers, IsOpen
<1>6. Outgoing(d)
  BY <1>3 DEF Outgoing
<1> QED
  BY <1>3, <1>4, <1>5, <1>6 DEF Consistent, d

\* A failure makes the client doubt that it is online, and the next one ends the
\* doubt.  Neither leaves a timer.
LEMMA FailureKeeps ==
  ASSUME gets \in Seq(Get), NEW c \in Client, Outgoing(c), Consistent(c), ~IsOpen(c)
  PROVE  LET d == HandleWatchStreamFailure(c)
         IN /\ d \in Client /\ Outgoing(d) /\ Consistent(d) /\ ~d.timer
            /\ d.state = c.state /\ d.targets = c.targets /\ d.listeners = c.listeners
<1> DEFINE d == HandleWatchStreamFailure(c)
<1>1. CASE c.online = "Online"
  <2> DEFINE b == [c EXCEPT !.online = "Unknown"]
  <2>0. SetAndBroadcast(c, "Unknown") = b /\ b \in Client
    BY BroadcastOnline DEF Client
  <2>9. c.failures = 0 /\ ~c.timer
    BY <1>1 DEF Consistent, Timers
  <2> HIDE DEF b
  <2>8. HardAssert(b, c.failures = 0 /\ ~c.timer) = b
    BY <2>0, <2>9, HardAssertHolds
  <2>7. d = b
    BY <1>1, <2>0, <2>8 DEF HandleWatchStreamFailure
  <2>1. d = [c EXCEPT !.online = "Unknown"]
    BY <2>7 DEF b
  <2> HIDE DEF d
  <2>2. /\ d \in Client
        /\ d.state = c.state /\ d.targets = c.targets /\ d.asked = c.asked /\ d.idle = c.idle
        /\ d.listeners = c.listeners /\ d.views = c.views /\ d.raised = c.raised
        /\ d.online = "Unknown" /\ d.timer = c.timer /\ d.failures = c.failures /\ d.aborted = c.aborted
    BY <2>1 DEF Client
  <2>3. ViewsAgree(d) /\ TargetsAgree(d)
    BY <2>2, AgreementStays DEF Consistent
  <2>4. d.asked \subseteq d.targets /\ Told(d) /\ Timers(d)
    BY <1>1, <2>2 DEF Consistent, Told, Timers, IsOpen
  <2>5. Outgoing(d)
    BY <2>2 DEF Outgoing
  <2> QED
    BY <2>2, <2>3, <2>4, <2>5, <2>9 DEF Consistent, d
<1>2. CASE c.online # "Online"
  <2> DEFINE b == [c EXCEPT !.failures = 1, !.timer = FALSE]
  <2>1. d = SetAndBroadcast(b, "Offline")
    <3>1. ~(c.failures + 1 < MaxWatchStreamFailures)
      BY DEF Client, MaxWatchStreamFailures
    <3> QED
      BY <1>2, <3>1 DEF HandleWatchStreamFailure, MaxWatchStreamFailures
  <2>0. 1 \in 0..MaxWatchStreamFailures
    BY DEF MaxWatchStreamFailures
  <2>2. /\ b \in Client
        /\ b.state = c.state /\ b.targets = c.targets /\ b.asked = c.asked /\ b.idle = c.idle
        /\ b.listeners = c.listeners /\ b.views = c.views /\ b.raised = c.raised
        /\ b.online = c.online /\ b.timer = FALSE /\ b.failures = 1 /\ b.initial = c.initial
        /\ b.aborted = c.aborted
    BY <2>0 DEF Client
  <2> HIDE DEF b, d
  <2>3. Outgoing(b) /\ Told(b)
    BY <2>2 DEF Outgoing, Consistent, Told
  <2>4. /\ d \in Client /\ Outgoing(d) /\ Frame(b, d) /\ Told(d)
        /\ d.online = "Offline"
        /\ \A q \in Queries : d.views[q] = "none" <=> b.views[q] = "none"
    BY <2>1, <2>2, <2>3, BroadcastOffline
  <2>5. /\ d.state = c.state /\ d.targets = c.targets /\ d.asked = c.asked /\ d.idle = c.idle
        /\ d.listeners = c.listeners /\ d.timer = FALSE /\ d.aborted = c.aborted
        /\ \A q \in Queries : d.views[q] = "none" <=> c.views[q] = "none"
    BY <2>2, <2>4 DEF Frame
  <2>6. ViewsAgree(d) /\ TargetsAgree(d)
    BY <2>5, AgreementStays DEF Consistent
  <2>7. d.asked \subseteq d.targets /\ Timers(d)
    BY <2>4, <2>5 DEF Consistent, Timers, IsOpen
  <2> QED
    BY <2>4, <2>5, <2>6, <2>7 DEF Consistent, d
<1> QED
  BY <1>1, <1>2

-----------------------------------------------------------------------------
(* The watch stream *)

\* A stream that starts is well, for nothing is asked for before it is open and
\* no timer runs yet.
LEMMA StartKeeps ==
  ASSUME NEW c \in Client, Outgoing(c), Consistent(c), ~IsStarted(c), ~c.timer
  PROVE  LET d == StartWatchStream(c)
         IN d \in Client /\ Outgoing(d) /\ Well(d) /\ d.listeners = c.listeners
<1> DEFINE b == Start(c)
           d == StartWatchStream(c)
<1>1. /\ b \in Client /\ b.state \in {"Starting", "Backoff"}
      /\ b.targets = c.targets /\ b.asked = c.asked /\ b.idle = c.idle
      /\ b.listeners = c.listeners /\ b.views = c.views /\ b.raised = c.raised /\ b.initial = c.initial
      /\ b.online = c.online /\ b.timer = c.timer /\ b.failures = c.failures /\ b.aborted = c.aborted
  <2> DEFINE s == IF c.state = "Error" THEN "Backoff" ELSE "Starting"
  <2>1. s \in {"Starting", "Backoff"}
    OBVIOUS
  <2>2. b = [c EXCEPT !.state = s]
    BY DEF Start
  <2> HIDE DEF s, b
  <2> QED
    BY <2>1, <2>2 DEF Client, StreamStates
<1>2. d = HandleWatchStreamStart(b)
  BY DEF StartWatchStream
<1> HIDE DEF b, d
<1>3. \/ d = b /\ b.failures # 0
      \/ d = [b EXCEPT !.online = "Unknown", !.timer = TRUE] /\ b.failures = 0
  <2>1. CASE b.failures # 0
    BY <1>2, <2>1, Zenon DEF HandleWatchStreamStart
  <2>2. CASE b.failures = 0
    <3>1. SetAndBroadcast(b, "Unknown") = [b EXCEPT !.online = "Unknown"]
      BY <1>1, BroadcastOnline
    <3> DEFINE e == [b EXCEPT !.online = "Unknown"]
    <3>2. d = [HardAssert(e, ~b.timer) EXCEPT !.timer = TRUE]
      BY <1>2, <2>2, <3>1 DEF HandleWatchStreamStart
    <3>3. e \in Client
      BY <1>1 DEF Client
    <3> HIDE DEF e
    <3>4. HardAssert(e, ~b.timer) = e
      BY <1>1, <3>3, HardAssertHolds
    <3>5. d = [e EXCEPT !.timer = TRUE]
      BY <3>2, <3>4
    <3> QED
      BY <1>1, <2>2, <3>5 DEF Client, e
  <2> QED
    BY <2>1, <2>2
<1>4. /\ d \in Client /\ d.state \in {"Starting", "Backoff"}
      /\ d.targets = c.targets /\ d.asked = c.asked /\ d.idle = c.idle
      /\ d.listeners = c.listeners /\ d.views = c.views /\ d.raised = c.raised /\ d.initial = c.initial
      /\ d.failures = c.failures /\ d.aborted = c.aborted
      /\ \/ d.online = c.online /\ d.timer = c.timer
         \/ d.online = "Unknown" /\ d.timer = TRUE /\ d.failures = 0
  <2>1. CASE d = b
    BY <1>1, <2>1
  <2>2. CASE d = [b EXCEPT !.online = "Unknown", !.timer = TRUE] /\ b.failures = 0
    BY <1>1, <2>2 DEF Client
  <2> QED
    BY <1>3, <2>1, <2>2
<1>5. ViewsAgree(d) /\ TargetsAgree(d)
  BY <1>4, AgreementStays DEF Consistent
<1>6. Started(d) /\ Asks(d)
  BY <1>4 DEF Consistent, Started, Asks, IsOpen, IsStarted
<1>7. Told(d) /\ Timers(d)
  BY <1>4 DEF Consistent, Told, Timers, IsOpen, IsStarted
<1>8. Outgoing(d)
  BY <1>4 DEF Outgoing
<1> QED
  BY <1>4, <1>5, <1>6, <1>7, <1>8 DEF Well, d

\* All that is listened to is asked for as the stream opens.
LEMMA OpenKeeps ==
  ASSUME NEW c \in Client, Outgoing(c), Well(c), c.state = "Starting"
  PROVE  LET d == OnWatchStreamOpen(c)
         IN d \in Client /\ Outgoing(d) /\ Well(d) /\ d.listeners = c.listeners
<1> DEFINE d == OnWatchStreamOpen(c)
           A == c.asked \cup c.targets
<1>0. A = c.targets /\ c.idle = FALSE /\ A \in SUBSET Queries
  BY DEF Client, Well, Asks, Timers, IsOpen
<1>1. d = [c EXCEPT !.state = "Open", !.asked = A, !.idle = FALSE]
  <2> DEFINE o == Opened(c)
  <2>1. o = [c EXCEPT !.state = "Open"]
    BY DEF Opened
  <2> HIDE DEF o
  <2>2. CASE c.targets = {}
    <3>1. d = o
      BY <2>2, Zenon DEF OnWatchStreamOpen, SendWatchRequest, o
    <3>2. A = c.asked
      BY <2>2
    <3> QED
      BY <1>0, <2>1, <3>1, <3>2 DEF Client
  <2>3. CASE c.targets # {}
    BY <2>1, <2>3 DEF OnWatchStreamOpen, SendWatchRequest, Wrote, Client, o
  <2> QED
    BY <2>2, <2>3
<1> HIDE DEF d, A
<1>2. /\ d \in Client /\ d.state = "Open"
      /\ d.targets = c.targets /\ d.asked = d.targets /\ d.idle = FALSE
      /\ d.listeners = c.listeners /\ d.views = c.views /\ d.raised = c.raised /\ d.initial = c.initial
      /\ d.online = c.online /\ d.timer = c.timer /\ d.failures = c.failures /\ d.aborted = c.aborted
  BY <1>0, <1>1 DEF Client, StreamStates
<1>3. ViewsAgree(d) /\ TargetsAgree(d)
  BY <1>2, AgreementStays DEF Well
<1>4. Started(d) /\ Asks(d) /\ Told(d) /\ Timers(d)
  BY <1>2 DEF Well, Started, Asks, IsOpen, IsStarted, Told, Timers
<1>5. Outgoing(d)
  BY <1>2 DEF Outgoing
<1> QED
  BY <1>2, <1>3, <1>4, <1>5 DEF Well, d

\* Without targets and without a timer a client is well that is consistent.
LEMMA NothingToWatch ==
  ASSUME NEW c, Consistent(c), c.targets = {}, ~c.timer
  PROVE  Well(c)
BY DEF Consistent, Well, Started, Asks

\* What is well is consistent.
LEMMA WellIsConsistent ==
  ASSUME NEW c, Well(c)
  PROVE  Consistent(c)
BY DEF Consistent, Well, Asks

\* A stream that is closed has nothing asked for.
LEMMA ClosedKeeps ==
  ASSUME NEW c \in Client, Outgoing(c), Consistent(c), NEW ok \in BOOLEAN
  PROVE  LET d == [Closed(c, ok) EXCEPT !.asked = {}]
         IN /\ d \in Client /\ Outgoing(d) /\ Consistent(d) /\ ~IsStarted(d)
            /\ d.listeners = c.listeners /\ d.targets = c.targets /\ d.raised = c.raised
<1> DEFINE s == IF ok THEN "Initial" ELSE "Error"
           d == [Closed(c, ok) EXCEPT !.asked = {}]
<1>1. s \in {"Initial", "Error"}
  OBVIOUS
<1>2. d = [c EXCEPT !.state = s, !.idle = FALSE, !.asked = {}]
  BY DEF Closed, Client
<1> HIDE DEF s, d
<1>3. /\ d \in Client /\ d.state \in {"Initial", "Error"}
      /\ d.targets = c.targets /\ d.asked = {} /\ d.idle = FALSE
      /\ d.listeners = c.listeners /\ d.views = c.views /\ d.raised = c.raised /\ d.initial = c.initial
      /\ d.online = c.online /\ d.timer = c.timer /\ d.failures = c.failures /\ d.aborted = c.aborted
  BY <1>1, <1>2 DEF Client, StreamStates
<1>4. ViewsAgree(d) /\ TargetsAgree(d)
  BY <1>3, AgreementStays DEF Consistent
<1>5. d.asked \subseteq d.targets /\ Told(d) /\ Timers(d)
  BY <1>3 DEF Consistent, Told, Timers, IsOpen
<1>6. Outgoing(d) /\ ~IsStarted(d)
  BY <1>3 DEF Outgoing, IsStarted
<1> QED
  BY <1>3, <1>4, <1>5, <1>6 DEF Consistent, d

\* After an error the stream starts again for as long as there are targets.
LEMMA ErrorKeeps ==
  ASSUME gets \in Seq(Get), NEW c \in Client, Outgoing(c), Well(c)
  PROVE  LET d == OnWatchStreamError(c)
         IN d \in Client /\ Outgoing(d) /\ Well(d) /\ d.listeners = c.listeners
<1> DEFINE b == [Closed(c, FALSE) EXCEPT !.asked = {}]
           d == OnWatchStreamError(c)
<1>1. d = IF ShouldStartWatchStream(b) THEN StartWatchStream(HandleWatchStreamFailure(b))
          ELSE UpdateState(b, "Unknown")
  BY DEF OnWatchStreamError
<1>2. Consistent(c)
  BY WellIsConsistent
<1>3. /\ b \in Client /\ Outgoing(b) /\ Consistent(b) /\ ~IsStarted(b)
      /\ b.listeners = c.listeners
  BY <1>2, ClosedKeeps
<1> HIDE DEF b, d
<1>4. CASE ShouldStartWatchStream(b)
  <2> DEFINE e == HandleWatchStreamFailure(b)
  <2>1. ~IsOpen(b)
    BY <1>3 DEF IsStarted, IsOpen
  <2>2. /\ e \in Client /\ Outgoing(e) /\ Consistent(e) /\ ~e.timer
        /\ e.state = b.state /\ e.targets = b.targets /\ e.listeners = b.listeners
    BY <1>3, <2>1, FailureKeeps
  <2>3. d = StartWatchStream(e)
    BY <1>1, <1>4
  <2> HIDE DEF e
  <2>4. ~IsStarted(e)
    BY <1>3, <2>2 DEF IsStarted
  <2>5. /\ StartWatchStream(e) \in Client /\ Outgoing(StartWatchStream(e))
        /\ Well(StartWatchStream(e)) /\ StartWatchStream(e).listeners = e.listeners
    BY <2>2, <2>4, StartKeeps
  <2> QED
    BY <1>3, <2>2, <2>3, <2>5 DEF d
<1>5. CASE ~ShouldStartWatchStream(b)
  <2>1. b.targets = {}
    BY <1>3, <1>5 DEF ShouldStartWatchStream
  <2>2. d = UpdateState(b, "Unknown")
    BY <1>1, <1>5
  <2>3. /\ d \in Client /\ Outgoing(d) /\ Consistent(d)
        /\ d.targets = b.targets /\ d.listeners = b.listeners /\ ~d.timer
    BY <1>3, <2>2, UpdateStateKeeps
  <2>4. Well(d)
    BY <2>1, <2>3, NothingToWatch
  <2> QED
    BY <1>3, <2>3, <2>4 DEF d
<1> QED
  BY <1>4, <1>5

\* A stream that is stopped leaves the client consistent.
LEMMA StopKeeps ==
  ASSUME NEW c \in Client, Outgoing(c), Consistent(c), Started(c)
  PROVE  LET d == Stop(c)
         IN /\ d \in Client /\ Outgoing(d) /\ Consistent(d) /\ ~IsStarted(d) /\ ~d.timer
            /\ d.listeners = c.listeners /\ d.targets = c.targets
<1> DEFINE b == [Closed(c, TRUE) EXCEPT !.asked = {}]
           d == Stop(c)
<1>1. d = IF IsStarted(c) THEN UpdateState(b, "Unknown") ELSE c
  BY DEF Stop
<1>2. /\ b \in Client /\ Outgoing(b) /\ Consistent(b) /\ ~IsStarted(b)
      /\ b.listeners = c.listeners /\ b.targets = c.targets
  BY ClosedKeeps
<1> HIDE DEF b, d
<1>3. CASE IsStarted(c)
  <2>1. d = UpdateState(b, "Unknown")
    BY <1>1, <1>3
  <2>2. /\ d \in Client /\ Outgoing(d) /\ Consistent(d)
        /\ d.state = b.state /\ d.targets = b.targets /\ d.listeners = b.listeners /\ ~d.timer
    BY <1>2, <2>1, UpdateStateKeeps
  <2>3. ~IsStarted(d)
    BY <1>2, <2>2 DEF IsStarted
  <2> QED
    BY <1>2, <2>2, <2>3 DEF d
<1>4. CASE ~IsStarted(c)
  <2>1. d = c
    BY <1>1, <1>4
  <2>2. ~c.timer
    BY <1>4 DEF Started
  <2> QED
    BY <1>4, <2>1, <2>2 DEF d
<1> QED
  BY <1>3, <1>4

\* So a client is well again when the network is back.
LEMMA RestartKeeps ==
  ASSUME NEW c \in Client, Outgoing(c), Well(c)
  PROVE  LET d == RestartNetwork(c)
         IN d \in Client /\ Outgoing(d) /\ Well(d) /\ d.listeners = c.listeners
<1> DEFINE a == Stop(c)
           b == UpdateState(a, "Unknown")
           e == InhibitBackoff(b)
           d == RestartNetwork(c)
<1>1. d = IF ShouldStartWatchStream(e) THEN StartWatchStream(e) ELSE UpdateState(e, "Unknown")
  BY DEF RestartNetwork
<1>2. Consistent(c)
  BY WellIsConsistent
<1>3. /\ a \in Client /\ Outgoing(a) /\ Consistent(a) /\ ~IsStarted(a)
      /\ a.listeners = c.listeners
  BY <1>2, StopKeeps DEF Well
<1> HIDE DEF a, d
<1>4. /\ b \in Client /\ Outgoing(b) /\ Consistent(b) /\ ~b.timer
      /\ b.state = a.state /\ b.listeners = a.listeners
  BY <1>3, UpdateStateKeeps
<1>5. e = [b EXCEPT !.state = "Initial"]
  BY DEF InhibitBackoff
<1> HIDE DEF b, e
<1>6. /\ e \in Client /\ e.state = "Initial"
      /\ e.targets = b.targets /\ e.asked = b.asked /\ e.idle = b.idle
      /\ e.listeners = b.listeners /\ e.views = b.views /\ e.raised = b.raised /\ e.initial = b.initial
      /\ e.online = b.online /\ e.timer = b.timer /\ e.failures = b.failures /\ e.aborted = b.aborted
  BY <1>4, <1>5 DEF Client, StreamStates
<1>7. ViewsAgree(e) /\ TargetsAgree(e)
  BY <1>4, <1>6, AgreementStays DEF Consistent
<1>8. e.asked \subseteq e.targets /\ Told(e) /\ Timers(e)
  BY <1>3, <1>4, <1>6 DEF Consistent, Told, Timers, IsOpen, IsStarted
<1>9. Outgoing(e) /\ Consistent(e) /\ ~IsStarted(e) /\ ~e.timer
  BY <1>4, <1>6, <1>7, <1>8 DEF Outgoing, Consistent, IsStarted
<1>10. CASE ShouldStartWatchStream(e)
  <2>1. d = StartWatchStream(e)
    BY <1>1, <1>10
  <2>2. d \in Client /\ Outgoing(d) /\ Well(d) /\ d.listeners = e.listeners
    BY <1>6, <1>9, <2>1, StartKeeps
  <2> QED
    BY <1>3, <1>4, <1>6, <2>2 DEF d
<1>11. CASE ~ShouldStartWatchStream(e)
  <2>1. e.targets = {}
    BY <1>9, <1>11 DEF ShouldStartWatchStream
  <2>2. d = UpdateState(e, "Unknown")
    BY <1>1, <1>11
  <2>3. /\ d \in Client /\ Outgoing(d) /\ Consistent(d)
        /\ d.targets = e.targets /\ d.listeners = e.listeners /\ ~d.timer
    BY <1>6, <1>9, <2>2, UpdateStateKeeps
  <2>4. Well(d)
    BY <2>1, <2>3, NothingToWatch
  <2> QED
    BY <1>3, <1>4, <1>6, <2>3, <2>4 DEF d
<1> QED
  BY <1>10, <1>11

\* A query that has got its first listener is asked for as soon as may be.
LEMMA ListenKeeps ==
  ASSUME NEW c \in Client, Outgoing(c), NEW q \in Queries, q \notin c.targets,
         ListenersTo(c, q) # {}, ViewsAgree(c),
         \A p \in Queries \ {q} : p \in c.targets <=> ListenersTo(c, p) # {},
         Started(c), Asks(c), Told(c), Timers(c)
  PROVE  LET d == Listen(c, q)
         IN d \in Client /\ Outgoing(d) /\ Well(d) /\ d.listeners = c.listeners
<1> DEFINE T == c.targets \cup {q}
           b == [c EXCEPT !.targets = T]
           d == Listen(c, q)
<1>1. d = IF ShouldStartWatchStream(b) THEN StartWatchStream(b)
          ELSE IF IsOpen(b) THEN SendWatchRequest(b, {q}) ELSE b
  BY DEF Listen
<1>2. /\ b \in Client /\ b.targets = T
      /\ b.state = c.state /\ b.asked = c.asked /\ b.idle = c.idle
      /\ b.listeners = c.listeners /\ b.views = c.views /\ b.raised = c.raised /\ b.initial = c.initial
      /\ b.online = c.online /\ b.timer = c.timer /\ b.failures = c.failures /\ b.aborted = c.aborted
  BY DEF Client
<1>3. \A p \in Queries : p \in T <=> ListenersTo(c, p) # {}
  OBVIOUS
<1> HIDE DEF b, d
<1>4. \A p \in Queries : ListenersTo(b, p) = ListenersTo(c, p)
  BY <1>2 DEF ListenersTo
<1>5. ViewsAgree(b) /\ TargetsAgree(b) /\ Told(b) /\ Outgoing(b)
  BY <1>2, <1>3, <1>4 DEF ViewsAgree, TargetsAgree, Told, Outgoing
<1>6. CASE ShouldStartWatchStream(b)
  <2>1. ~IsStarted(b) /\ ~b.timer
    BY <1>2, <1>6 DEF ShouldStartWatchStream, Started, IsStarted
  <2>2. b.asked \subseteq b.targets /\ Timers(b)
    BY <1>2, <2>1 DEF Asks, Timers, IsOpen, IsStarted
  <2>3. Consistent(b)
    BY <1>5, <2>2 DEF Consistent
  <2>4. d = StartWatchStream(b)
    BY <1>1, <1>6
  <2>5. d \in Client /\ Outgoing(d) /\ Well(d) /\ d.listeners = b.listeners
    BY <1>2, <1>5, <2>1, <2>3, <2>4, StartKeeps
  <2> QED
    BY <1>2, <2>5 DEF d
<1>7. CASE ~ShouldStartWatchStream(b) /\ IsOpen(b)
  <2> DEFINE A == c.asked \cup {q}
  <2>1. d = Wrote([b EXCEPT !.asked = A])
    <3>1. d = SendWatchRequest(b, {q})
      BY <1>1, <1>7
    <3>2. {q} # {}
      OBVIOUS
    <3> QED
      BY <1>2, <3>1, <3>2 DEF SendWatchRequest
  <2>2. A \in SUBSET Queries
    BY DEF Client
  <2> HIDE DEF A
  <2>3. /\ d \in Client /\ d.state = b.state
        /\ d.targets = b.targets /\ d.asked = A /\ d.idle = FALSE
        /\ d.listeners = b.listeners /\ d.views = b.views /\ d.raised = b.raised /\ d.initial = b.initial
        /\ d.online = b.online /\ d.timer = b.timer /\ d.failures = b.failures /\ d.aborted = b.aborted
    BY <1>2, <2>1, <2>2 DEF Client, Wrote
  <2>4. ViewsAgree(d) /\ TargetsAgree(d)
    BY <1>5, <2>3, AgreementStays
  <2>5. Started(d) /\ Asks(d) /\ Told(d) /\ Timers(d)
    BY <1>2, <1>7, <2>3 DEF Started, Asks, IsOpen, IsStarted, Told, Timers, A
  <2> QED
    BY <1>2, <2>3, <2>4, <2>5 DEF Well, Outgoing, d
<1>8. CASE ~ShouldStartWatchStream(b) /\ ~IsOpen(b)
  <2>1. d = b
    BY <1>1, <1>8
  <2>2. IsStarted(b)
    BY <1>2, <1>8 DEF ShouldStartWatchStream
  <2>3. Started(b) /\ Asks(b) /\ Timers(b)
    BY <1>2, <1>8, <2>2 DEF Started, Asks, Timers, IsOpen
  <2> QED
    BY <1>2, <1>5, <2>1, <2>3 DEF Well, d
<1> QED
  BY <1>6, <1>7, <1>8

\* A query that has lost its last listener is not listened to any more; with the
\* last query the stream becomes idle, or the state unknown.
LEMMA StopListeningKeeps ==
  ASSUME NEW c \in Client, Outgoing(c), NEW q \in Queries, q \in c.targets,
         ListenersTo(c, q) = {}, ViewsAgree(c),
         \A p \in Queries \ {q} : p \in c.targets <=> ListenersTo(c, p) # {},
         c.asked \subseteq c.targets, Started(c), Told(c), Timers(c),
         IsOpen(c) => \A p \in c.targets \ c.asked :
           p # q => c.online = "Online" /\ c.views[p] = "synced"
  PROVE  LET d == StopListening(c, q)
         IN d \in Client /\ Outgoing(d) /\ Well(d) /\ d.listeners = c.listeners
<1> DEFINE T == c.targets \ {q}
           A == c.asked \ {q}
           b == [c EXCEPT !.targets = T, !.asked = A]
           u == IF IsOpen(b) THEN Wrote(b) ELSE b
           d == StopListening(c, q)
<1>1. d = IF T # {} THEN u ELSE IF IsOpen(b) THEN MarkIdle(u) ELSE UpdateState(b, "Unknown")
  <2>1. b.targets = T
    BY DEF Client
  <2>2. HardAssert(c, q \in c.targets) = c
    BY HardAssertHolds
  <2> QED
    BY <2>1, <2>2 DEF StopListening
<1>2. /\ b \in Client /\ b.targets = T /\ b.asked = A
      /\ b.state = c.state /\ b.idle = FALSE
      /\ b.listeners = c.listeners /\ b.views = c.views /\ b.raised = c.raised /\ b.initial = c.initial
      /\ b.online = c.online /\ b.timer = c.timer /\ b.failures = c.failures /\ b.aborted = c.aborted
  BY DEF Client, Timers
<1>3. /\ \A p \in Queries : p \in T <=> ListenersTo(c, p) # {}
      /\ A \subseteq T
  OBVIOUS
<1> HIDE DEF b, d
<1>4. \A p \in Queries : ListenersTo(b, p) = ListenersTo(c, p)
  BY <1>2 DEF ListenersTo
<1>5. ViewsAgree(b) /\ TargetsAgree(b) /\ Told(b) /\ Timers(b) /\ Outgoing(b)
  BY <1>2, <1>3, <1>4 DEF ViewsAgree, TargetsAgree, Told, Timers, Outgoing
<1>6. Started(b) /\ Asks(b)
  BY <1>2, <1>3 DEF Started, Asks, IsOpen, IsStarted
<1>7. u \in Client /\ Outgoing(u) /\ u.listeners = c.listeners /\ Well(u)
      /\ u.targets = T /\ u.state = b.state
  <2>1. u = b
    <3>1. Wrote(b) = b
      BY <1>2 DEF Wrote, Client
    <3> QED
      BY <3>1
  <2> QED
    BY <1>2, <1>5, <1>6, <2>1 DEF Well
<1> HIDE DEF u
<1>8. CASE T # {}
  BY <1>1, <1>7, <1>8 DEF d
<1>9. CASE T = {} /\ IsOpen(b)
  <2>1. d = [u EXCEPT !.idle = TRUE]
    <3>1. IsOpen(u)
      BY <1>7, <1>9 DEF IsOpen
    <3>2. d = MarkIdle(u)
      BY <1>1, <1>9
    <3> QED
      BY <3>1, <3>2 DEF MarkIdle
  <2>2. /\ d \in Client /\ d.state = u.state
        /\ d.targets = u.targets /\ d.asked = u.asked /\ d.idle = TRUE
        /\ d.listeners = u.listeners /\ d.views = u.views /\ d.raised = u.raised /\ d.initial = u.initial
        /\ d.online = u.online /\ d.timer = u.timer /\ d.failures = u.failures /\ d.aborted = u.aborted
    BY <1>7, <2>1 DEF Client
  <2>3. ViewsAgree(d) /\ TargetsAgree(d)
    BY <1>7, <2>2, AgreementStays DEF Well
  <2>4. Started(d) /\ Asks(d) /\ Told(d) /\ Timers(d)
    BY <1>7, <1>9, <2>2 DEF Well, Started, Asks, IsOpen, IsStarted, Told, Timers
  <2> QED
    BY <1>7, <2>2, <2>3, <2>4 DEF Well, Outgoing, d
<1>10. CASE T = {} /\ ~IsOpen(b)
  <2>1. d = UpdateState(b, "Unknown")
    BY <1>1, <1>10
  <2>2. Consistent(b)
    BY <1>2, <1>3, <1>5 DEF Consistent
  <2>3. /\ d \in Client /\ Outgoing(d) /\ Consistent(d)
        /\ d.targets = b.targets /\ d.listeners = b.listeners /\ ~d.timer
    BY <1>2, <1>5, <2>1, <2>2, UpdateStateKeeps
  <2>4. Well(d)
    BY <1>2, <1>10, <2>3, NothingToWatch
  <2> QED
    BY <1>2, <2>3, <2>4 DEF d
<1> QED
  BY <1>8, <1>9, <1>10

-----------------------------------------------------------------------------
(* The event manager and the sync engine *)

\* Nothing raised is an outgoing event.
LEMMA NothingOutgoing ==
  ASSUME NEW c, c.raised = <<>>
  PROVE  Outgoing(c)
BY EmptySeq DEF Outgoing, EventsFor, Events

\* A new listener has its view, and its first event when the client is offline.
LEMMA AddKeeps ==
  ASSUME gets \in Seq(Get), NEW c \in Client, c.raised = <<>>, Well(c),
         NEW g \in Gets, g \notin c.listeners
  PROVE  LET d == AddQueryListener(c, g)
         IN d \in Client /\ Outgoing(d) /\ Well(d) /\ d.listeners = c.listeners \cup {g}
<1> DEFINE q == gets[g].query
           L == c.listeners \cup {g}
           joined == [c EXCEPT !.listeners = L]
           d == AddQueryListener(c, g)
<1>1. q \in Queries
  <2>1. gets[g] \in Get
    BY ElementOfSeq DEF Gets
  <2> QED
    BY <2>1 DEF Get
<1>2. /\ joined \in Client /\ joined.listeners = L
      /\ joined.state = c.state /\ joined.idle = c.idle /\ joined.targets = c.targets
      /\ joined.asked = c.asked /\ joined.views = c.views /\ joined.raised = c.raised
      /\ joined.initial = c.initial /\ joined.online = c.online /\ joined.timer = c.timer
      /\ joined.failures = c.failures /\ joined.aborted = c.aborted
  BY DEF Client
<1>3. \A p \in Queries : {h \in L : gets[h].query = p} =
        IF p = q THEN ListenersTo(c, p) \cup {g} ELSE ListenersTo(c, p)
  BY DEF ListenersTo
<1>4. d = IF c.views[q] = "none"
          THEN Listen(OnViewSnapshot([joined EXCEPT !.views[q] = "local"], {g}, "cache"), q)
          ELSE OnViewSnapshot(joined, {g}, IF c.views[q] = "synced" THEN "server" ELSE "cache")
  BY <1>2 DEF AddQueryListener
<1> HIDE DEF joined, d, q
<1>5. CASE c.views[q] = "none"
  <2> DEFINE V == [c.views EXCEPT ![q] = "local"]
             a == [joined EXCEPT !.views = V]
             e == OnViewSnapshot(a, {g}, "cache")
  <2>1. /\ V \in [Queries -> {"none", "local", "synced"}]
        /\ \A p \in Queries : V[p] = IF p = q THEN "local" ELSE c.views[p]
    BY <1>1 DEF Client
  <2>2. d = Listen(e, q)
    <3>1. [joined EXCEPT !.views[q] = "local"] = [joined EXCEPT !.views = V]
      BY <1>2
    <3> QED
      BY <1>4, <1>5, <3>1
  <2> HIDE DEF V
  <2>3. /\ a \in Client /\ a.listeners = L
        /\ a.state = c.state /\ a.idle = c.idle /\ a.targets = c.targets
        /\ a.asked = c.asked /\ a.views = V /\ a.raised = <<>>
        /\ a.initial = c.initial /\ a.online = c.online /\ a.timer = c.timer
        /\ a.failures = c.failures /\ a.aborted = c.aborted
    BY <1>2, <2>1 DEF Client
  <2> HIDE DEF a
  <2>4. Outgoing(a) /\ {g} \in SUBSET a.listeners
    BY <2>3, NothingOutgoing
  <2>5. /\ e \in Client /\ Outgoing(e) /\ Frame(a, e)
        /\ e.online = a.online /\ e.views = a.views
        /\ a.online = "Offline" => {g} \subseteq e.initial
    BY <2>3, <2>4, OnViewSnapshotProperties
  <2> HIDE DEF e
  <2>6. /\ e.listeners = L /\ e.state = c.state /\ e.idle = c.idle /\ e.targets = c.targets
        /\ e.asked = c.asked /\ e.views = V /\ e.online = c.online /\ e.timer = c.timer
        /\ e.failures = c.failures /\ e.aborted = c.aborted /\ c.initial \subseteq e.initial
        /\ c.online = "Offline" => g \in e.initial
    BY <2>3, <2>5 DEF Frame
  <2>7. \A p \in Queries : ListenersTo(e, p) =
          IF p = q THEN ListenersTo(c, p) \cup {g} ELSE ListenersTo(c, p)
    BY <1>3, <2>6 DEF ListenersTo
  <2>8. ListenersTo(c, q) = {} /\ q \notin c.targets
    BY <1>1, <1>5 DEF Well, ViewsAgree, TargetsAgree
  <2>9. ViewsAgree(e)
    BY <1>5, <2>1, <2>6, <2>7 DEF Well, ViewsAgree
  <2>10. \A p \in Queries \ {q} : p \in e.targets <=> ListenersTo(e, p) # {}
    BY <2>6, <2>7 DEF Well, TargetsAgree
  <2>11. Started(e) /\ Timers(e)
    BY <2>6 DEF Well, Started, IsStarted, Timers, IsOpen
  <2>12. Asks(e)
    BY <2>1, <2>6, <2>8 DEF Well, Asks, IsOpen, Client
  <2>13. Told(e)
    BY <2>6 DEF Well, Told
  <2>14. ListenersTo(e, q) # {} /\ q \notin e.targets
    BY <1>1, <2>6, <2>7, <2>8
  <2>15. d \in Client /\ Outgoing(d) /\ Well(d) /\ d.listeners = e.listeners
    BY <1>1, <2>2, <2>5, <2>9, <2>10, <2>11, <2>12, <2>13, <2>14, ListenKeeps
  <2> QED
    BY <2>6, <2>15 DEF d
<1>6. CASE c.views[q] # "none"
  <2> DEFINE from == IF c.views[q] = "synced" THEN "server" ELSE "cache"
  <2>1. d = OnViewSnapshot(joined, {g}, from) /\ from \in {"server", "cache"}
    BY <1>4, <1>6
  <2> HIDE DEF from
  <2>2. Outgoing(joined) /\ {g} \in SUBSET joined.listeners
    BY <1>2, NothingOutgoing
  <2>3. /\ d \in Client /\ Outgoing(d) /\ Frame(joined, d)
        /\ d.online = joined.online /\ d.views = joined.views
        /\ joined.online = "Offline" => {g} \subseteq d.initial
    BY <1>2, <2>1, <2>2, OnViewSnapshotProperties
  <2>4. /\ d.listeners = L /\ d.state = c.state /\ d.idle = c.idle /\ d.targets = c.targets
        /\ d.asked = c.asked /\ d.views = c.views /\ d.online = c.online /\ d.timer = c.timer
        /\ d.failures = c.failures /\ d.aborted = c.aborted /\ c.initial \subseteq d.initial
        /\ c.online = "Offline" => g \in d.initial
    BY <1>2, <2>3 DEF Frame
  <2>5. \A p \in Queries : ListenersTo(d, p) =
          IF p = q THEN ListenersTo(c, p) \cup {g} ELSE ListenersTo(c, p)
    BY <1>3, <2>4 DEF ListenersTo
  <2>6. ListenersTo(c, q) # {}
    BY <1>1, <1>6 DEF Well, ViewsAgree
  <2>7. ViewsAgree(d) /\ TargetsAgree(d)
    BY <2>4, <2>5, <2>6 DEF Well, ViewsAgree, TargetsAgree
  <2>8. Started(d) /\ Asks(d) /\ Told(d) /\ Timers(d)
    BY <2>4 DEF Well, Started, Asks, IsOpen, IsStarted, Told, Timers
  <2> QED
    BY <2>3, <2>4, <2>7, <2>8 DEF Well, d
<1> QED
  BY <1>5, <1>6

\* With its last listener goes the view of a query.
LEMMA RemoveKeeps ==
  ASSUME gets \in Seq(Get), NEW c \in Client, c.raised = <<>>, Well(c), NEW g \in Gets
  PROVE  LET d == RemoveQueryListener(c, g)
         IN d \in Client /\ Outgoing(d) /\ Well(d) /\ d.listeners = c.listeners \ {g}
<1> DEFINE q == gets[g].query
           L == c.listeners \ {g}
           left == [c EXCEPT !.listeners = L]
           V == [c.views EXCEPT ![q] = "none"]
           d == RemoveQueryListener(c, g)
<1>1. q \in Queries
  <2>1. gets[g] \in Get
    BY ElementOfSeq DEF Gets
  <2> QED
    BY <2>1 DEF Get
<1>2. /\ left \in Client /\ left.listeners = L
      /\ left.state = c.state /\ left.idle = c.idle /\ left.targets = c.targets
      /\ left.asked = c.asked /\ left.views = c.views /\ left.raised = c.raised
      /\ left.initial = c.initial /\ left.online = c.online /\ left.timer = c.timer
      /\ left.failures = c.failures /\ left.aborted = c.aborted
  BY DEF Client
<1>3. \A p \in Queries : {h \in L : gets[h].query = p} =
        IF p = q THEN ListenersTo(c, p) \ {g} ELSE ListenersTo(c, p)
  BY DEF ListenersTo
<1>4. d = IF c.views[q] = "none" THEN c
          ELSE IF ListenersTo(left, q) # {} THEN left
          ELSE StopListening([left EXCEPT !.views = V], q)
  <2>1. [left EXCEPT !.views[q] = "none"] = [left EXCEPT !.views = V]
    BY <1>2
  <2> QED
    BY <2>1 DEF RemoveQueryListener
<1>5. /\ V \in [Queries -> {"none", "local", "synced"}]
      /\ \A p \in Queries : V[p] = IF p = q THEN "none" ELSE c.views[p]
  BY <1>1 DEF Client
<1> HIDE DEF left, d, q, V
<1>6. \A p \in Queries : ListenersTo(left, p) =
        IF p = q THEN ListenersTo(c, p) \ {g} ELSE ListenersTo(c, p)
  BY <1>2, <1>3 DEF ListenersTo
<1>7. CASE c.views[q] = "none"
  <2>1. d = c
    BY <1>4, <1>7
  <2>2. ListenersTo(c, q) = {}
    BY <1>1, <1>7 DEF Well, ViewsAgree
  <2>3. g \notin c.listeners
    BY <2>2 DEF ListenersTo, q
  <2> QED
    BY <2>1, <2>3, NothingOutgoing DEF d
<1>8. CASE c.views[q] # "none" /\ ListenersTo(left, q) # {}
  <2>1. d = left
    BY <1>4, <1>8
  <2>2. ViewsAgree(left) /\ TargetsAgree(left)
    BY <1>1, <1>2, <1>6, <1>8 DEF Well, ViewsAgree, TargetsAgree
  <2>3. Started(left) /\ Asks(left) /\ Told(left) /\ Timers(left)
    BY <1>2 DEF Well, Started, Asks, IsOpen, IsStarted, Told, Timers
  <2>4. Outgoing(left)
    BY <1>2, NothingOutgoing
  <2> QED
    BY <1>2, <2>1, <2>2, <2>3, <2>4 DEF Well, d
<1>9. CASE c.views[q] # "none" /\ ListenersTo(left, q) = {}
  <2> DEFINE a == [left EXCEPT !.views = V]
  <2>1. d = StopListening(a, q)
    BY <1>4, <1>9
  <2>2. /\ a \in Client /\ a.listeners = L
        /\ a.state = c.state /\ a.idle = c.idle /\ a.targets = c.targets
        /\ a.asked = c.asked /\ a.views = V /\ a.raised = <<>>
        /\ a.initial = c.initial /\ a.online = c.online /\ a.timer = c.timer
        /\ a.failures = c.failures /\ a.aborted = c.aborted
    BY <1>2, <1>5 DEF Client
  <2> HIDE DEF a
  <2>3. \A p \in Queries : ListenersTo(a, p) =
          IF p = q THEN {} ELSE ListenersTo(c, p)
    BY <1>1, <1>2, <1>6, <1>9, <2>2 DEF ListenersTo
  <2>4. q \in a.targets /\ ListenersTo(a, q) = {}
    BY <1>1, <1>9, <2>2, <2>3 DEF Well, ViewsAgree, TargetsAgree
  <2>5. ViewsAgree(a)
    BY <1>5, <2>2, <2>3 DEF Well, ViewsAgree
  <2>6. \A p \in Queries \ {q} : p \in a.targets <=> ListenersTo(a, p) # {}
    BY <2>2, <2>3 DEF Well, TargetsAgree
  <2>7. a.asked \subseteq a.targets /\ Started(a) /\ Told(a) /\ Timers(a)
    BY <2>2 DEF Well, Started, Asks, IsOpen, IsStarted, Told, Timers
  <2>8. IsOpen(a) => \A p \in a.targets \ a.asked :
          p # q => a.online = "Online" /\ a.views[p] = "synced"
    <3> SUFFICES ASSUME IsOpen(a), NEW p \in a.targets \ a.asked, p # q
                 PROVE  a.online = "Online" /\ a.views[p] = "synced"
      OBVIOUS
    <3>1. p \in Queries /\ c.online = "Online" /\ c.views[p] = "synced"
      BY <2>2 DEF Well, Asks, IsOpen, Client
    <3> QED
      BY <1>5, <2>2, <3>1
  <2>9. Outgoing(a)
    BY <2>2, NothingOutgoing
  <2>10. d \in Client /\ Outgoing(d) /\ Well(d) /\ d.listeners = a.listeners
    BY <1>1, <2>1, <2>2, <2>4, <2>5, <2>6, <2>7, <2>8, <2>9, StopListeningKeeps
  <2> QED
    BY <2>2, <2>10 DEF d
<1> QED
  BY <1>7, <1>8, <1>9

\* Word from the server leaves a client well, and nothing is raised for it.
LEMMA OnlineKeeps ==
  ASSUME NEW c \in Client, c.raised = <<>>, Well(c)
  PROVE  LET d == UpdateState(c, "Online")
         IN /\ d \in Client /\ d.raised = <<>> /\ Well(d) /\ d.online = "Online"
            /\ d.listeners = c.listeners /\ d.asked = c.asked /\ d.state = c.state
<1> DEFINE d == UpdateState(c, "Online")
<1>1. Outgoing(c) /\ Consistent(c)
  BY NothingOutgoing, WellIsConsistent
<1>2. /\ d \in Client /\ Consistent(d)
      /\ d.state = c.state /\ d.targets = c.targets /\ d.asked = c.asked
      /\ d.listeners = c.listeners /\ d.views = c.views /\ d.raised = c.raised
      /\ d.online = "Online" /\ ~d.timer
  BY <1>1, UpdateStateKeeps
<1> HIDE DEF d
<1>3. Started(d) /\ Asks(d)
  BY <1>2 DEF Well, Started, IsStarted, Asks, IsOpen
<1> QED
  BY <1>2, <1>3 DEF Consistent, Well, d

\* A query that is in step is heard of by those who listen to it.
LEMMA CurrentKeeps ==
  ASSUME gets \in Seq(Get), NEW c \in Client, c.raised = <<>>, Well(c), c.online = "Online",
         NEW q \in c.asked
  PROVE  LET d == TargetCurrent(c, q)
         IN d \in Client /\ Outgoing(d) /\ Well(d) /\ d.listeners = c.listeners
<1> DEFINE A == c.asked \ {q}
           V == [c.views EXCEPT ![q] = "synced"]
           b == [c EXCEPT !.asked = A, !.views = V]
           d == TargetCurrent(c, q)
<1>1. q \in Queries /\ q \in c.targets /\ A \in SUBSET Queries
  BY DEF Client, Well, Asks
<1>2. d = IF c.views[q] = "synced" THEN b ELSE OnViewSnapshot(b, ListenersTo(b, q), "server")
  <2>1. [c EXCEPT !.asked = @ \ {q}, !.views[q] = "synced"] = b
    BY DEF Client
  <2> QED
    BY <2>1 DEF TargetCurrent
<1>3. /\ V \in [Queries -> {"none", "local", "synced"}]
      /\ \A p \in Queries : V[p] = IF p = q THEN "synced" ELSE c.views[p]
  BY <1>1 DEF Client
<1> HIDE DEF V, d
<1>4. /\ b \in Client /\ b.listeners = c.listeners
      /\ b.state = c.state /\ b.idle = c.idle /\ b.targets = c.targets
      /\ b.asked = A /\ b.views = V /\ b.raised = <<>>
      /\ b.initial = c.initial /\ b.online = c.online /\ b.timer = c.timer
      /\ b.failures = c.failures /\ b.aborted = c.aborted
  BY <1>1, <1>3 DEF Client
<1> HIDE DEF b
<1>5. \A p \in Queries : ListenersTo(b, p) = ListenersTo(c, p)
  BY <1>4 DEF ListenersTo
<1>6. ViewsAgree(b) /\ TargetsAgree(b)
  BY <1>1, <1>3, <1>4, <1>5 DEF Well, ViewsAgree, TargetsAgree
<1>7. Asks(b)
  BY <1>1, <1>3, <1>4 DEF Well, Asks, IsOpen, Client
<1>8. Started(b) /\ Told(b) /\ Timers(b)
  BY <1>4 DEF Well, Started, IsOpen, IsStarted, Told, Timers
<1>9. Outgoing(b) /\ Well(b)
  BY <1>4, <1>6, <1>7, <1>8, NothingOutgoing DEF Well
<1>10. CASE c.views[q] = "synced"
  BY <1>2, <1>4, <1>9, <1>10 DEF d
<1>11. CASE c.views[q] # "synced"
  <2>1. d = OnViewSnapshot(b, ListenersTo(b, q), "server")
    BY <1>2, <1>11
  <2>2. ListenersTo(b, q) \in SUBSET b.listeners
    BY DEF ListenersTo
  <2>3. /\ d \in Client /\ Outgoing(d) /\ Frame(b, d)
        /\ d.online = b.online /\ d.views = b.views
    BY <1>4, <1>9, <2>1, <2>2, OnViewSnapshotProperties
  <2>4. /\ d.state = b.state /\ d.idle = b.idle /\ d.targets = b.targets /\ d.asked = b.asked
        /\ d.timer = b.timer /\ d.failures = b.failures /\ d.aborted = b.aborted /\ d.listeners = b.listeners
        /\ b.initial \subseteq d.initial
    BY <2>3 DEF Frame
  <2>5. ViewsAgree(d) /\ TargetsAgree(d)
    BY <1>6, <2>3, <2>4, AgreementStays
  <2>6. Started(d) /\ Asks(d) /\ Told(d) /\ Timers(d)
    BY <1>7, <1>8, <2>3, <2>4 DEF Started, Asks, IsOpen, IsStarted, Told, Timers
  <2> QED
    BY <1>4, <2>3, <2>4, <2>5, <2>6 DEF Well, d
<1> QED
  BY <1>10, <1>11

\* A query that is rejected is gone with its listeners, who get one event each.
LEMMA RejectKeeps ==
  ASSUME gets \in Seq(Get), NEW c \in Client, c.raised = <<>>, Well(c), NEW q \in c.asked
  PROVE  LET d == HandleRejectedListen(c, q)
         IN /\ d \in Client /\ Well(d)
            /\ d.listeners = c.listeners \ ListenersTo(c, q)
            /\ RaisedOnce(d.raised, <<>>, Events(ListenersTo(c, q), {"error"}))
<1> DEFINE L == ListenersTo(c, q)
           b == Raise(c, L, "error")
           A == b.asked \ {q}
           T == b.targets \ {q}
           V == [b.views EXCEPT ![q] = "none"]
           M == b.listeners \ L
           d == HandleRejectedListen(c, q)
<1>1. /\ q \in Queries /\ q \in c.targets
      /\ L \in SUBSET Gets /\ L \subseteq c.listeners /\ "error" \in From
  BY DEF Client, Well, Asks, ListenersTo, From
<1>2. \A p \in Queries : {h \in c.listeners \ L : gets[h].query = p} =
        IF p = q THEN {} ELSE ListenersTo(c, p)
  BY DEF ListenersTo
<1>3. d = [b EXCEPT !.asked = A, !.targets = T, !.views[q] = "none", !.listeners = M]
  BY Zenon DEF HandleRejectedListen
<1> HIDE DEF L, d
<1>4. /\ b \in Client /\ Frame(c, b) /\ b.online = c.online /\ b.views = c.views
      /\ RaisedOnce(b.raised, <<>>, Events(L, {"error"}))
  BY <1>1, RaiseProperties
<1> HIDE DEF b
<1>5. /\ b.state = c.state /\ b.idle = c.idle /\ b.targets = c.targets /\ b.asked = c.asked
      /\ b.timer = c.timer /\ b.failures = c.failures /\ b.aborted = c.aborted /\ b.listeners = c.listeners
      /\ c.initial \subseteq b.initial
  BY <1>4 DEF Frame
<1>6. /\ V \in [Queries -> {"none", "local", "synced"}]
      /\ \A p \in Queries : V[p] = IF p = q THEN "none" ELSE c.views[p]
  BY <1>1, <1>4 DEF Client
<1>7. d = [b EXCEPT !.asked = A, !.targets = T, !.views = V, !.listeners = M]
  BY <1>3, <1>4 DEF Client
<1>8. A \in SUBSET Queries /\ T \in SUBSET Queries /\ M \in SUBSET Gets
  BY <1>4 DEF Client
<1>9. A = c.asked \ {q} /\ T = c.targets \ {q} /\ M = c.listeners \ L
  BY <1>5
<1> HIDE DEF V, A, T, M
<1>10. /\ d \in Client /\ d.listeners = M
       /\ d.state = b.state /\ d.idle = b.idle /\ d.targets = T
       /\ d.asked = A /\ d.views = V /\ d.raised = b.raised
       /\ d.initial = b.initial /\ d.online = b.online /\ d.timer = b.timer
       /\ d.failures = b.failures /\ d.aborted = b.aborted
  BY <1>4, <1>6, <1>7, <1>8 DEF Client
<1>11. \A p \in Queries : ListenersTo(d, p) = IF p = q THEN {} ELSE ListenersTo(c, p)
  BY <1>2, <1>9, <1>10 DEF ListenersTo
<1>12. ViewsAgree(d) /\ TargetsAgree(d)
  BY <1>1, <1>6, <1>9, <1>10, <1>11 DEF Well, ViewsAgree, TargetsAgree
<1>13. Asks(d)
  <2>1. d.asked \subseteq d.targets
    BY <1>9, <1>10 DEF Well, Asks
  <2>2. ASSUME IsOpen(d), NEW p \in d.targets \ d.asked
        PROVE  d.online = "Online" /\ d.views[p] = "synced"
    <3>1. p \in c.targets \ c.asked /\ p # q /\ IsOpen(c) /\ p \in Queries
      BY <1>5, <1>8, <1>9, <1>10, <2>2 DEF IsOpen
    <3>2. c.online = "Online" /\ c.views[p] = "synced"
      BY <3>1 DEF Well, Asks
    <3> QED
      BY <1>4, <1>6, <1>10, <3>1, <3>2
  <2> QED
    BY <2>1, <2>2 DEF Asks
<1>14. Started(d) /\ Told(d) /\ Timers(d)
  BY <1>1, <1>4, <1>5, <1>9, <1>10 DEF Well, Started, IsOpen, IsStarted, Told, Timers
<1> QED
  BY <1>4, <1>9, <1>10, <1>12, <1>13, <1>14 DEF Well, d, L

-----------------------------------------------------------------------------
(* The steps and the client *)

\* The client between two steps of the worker.
Settled(c) == c \in Client /\ c.raised = <<>> /\ Well(c)

\* What a step of the worker makes of the client, its events handed over.
LEMMA BecomesKeeps ==
  ASSUME NEW c \in Client, Well(c), Becomes(c), gets' = gets
  PROVE  /\ Settled(client)' /\ client'.listeners = c.listeners
         /\ events' = events \o c.raised
<1> DEFINE d == [c EXCEPT !.raised = <<>>]
<1>1. client' = d /\ events' = events \o c.raised
  BY DEF Becomes
<1>2. /\ d \in Client /\ d.raised = <<>> /\ d.listeners = c.listeners
      /\ d.state = c.state /\ d.idle = c.idle /\ d.targets = c.targets
      /\ d.asked = c.asked /\ d.views = c.views
      /\ d.initial = c.initial /\ d.online = c.online /\ d.timer = c.timer
      /\ d.failures = c.failures /\ d.aborted = c.aborted
  <2>1. <<>> \in Seq(Event)
    BY EmptySeq
  <2> QED
    BY <2>1 DEF Client
<1> HIDE DEF d
<1>3. ViewsAgree(d) /\ TargetsAgree(d)
  BY <1>2, AgreementStays DEF Well
<1>4. Started(d) /\ Asks(d) /\ Told(d) /\ Timers(d)
  BY <1>2 DEF Well, Started, Asks, IsOpen, IsStarted, Told, Timers
<1>5. Client' = Client
  BY DEF Client, Event, Gets
<1>6. Well(client)'
  <2>1. ViewsAgree(client)' /\ TargetsAgree(client)'
    BY <1>1, <1>3 DEF ViewsAgree, TargetsAgree, ListenersTo
  <2>2. Started(client)' /\ Asks(client)' /\ Told(client)' /\ Timers(client)'
    BY <1>1, <1>4 DEF Started, Asks, IsOpen, IsStarted, Told, Timers
  <2> QED
    BY <2>1, <2>2 DEF Well
<1> QED
  BY <1>1, <1>2, <1>5, <1>6 DEF Settled

\* The steps that neither add nor remove listeners keep the client well, and
\* raise events for who listens.
Steady == Token \/ RetryAfterBackoff \/ OnlineStateTimeout \/ IdleTimeout \/ CallBreaks
          \/ (\E q \in Queries : ServerSendsCurrent(q)) \/ ServerSpeaks \/ ConnectivityChanges

LEMMA SteadyKeeps ==
  ASSUME gets \in Seq(Get), Settled(client), flaps \in 0..MaxFlaps, Steady
  PROVE  /\ Settled(client)' /\ UNCHANGED <<gets, worker>> /\ flaps' \in 0..MaxFlaps
         /\ client'.listeners = client.listeners
         /\ \E new \in EventsFor(client.listeners) : events' = events \o new
<1> DEFINE Good(c) == c \in Client /\ Outgoing(c) /\ Well(c) /\ c.listeners = client.listeners
<1> USE DEF Settled
<1>0. Outgoing(client)
  BY NothingOutgoing
<1>1. ASSUME NEW c, Good(c), Becomes(c), UNCHANGED <<gets, worker>>, flaps' \in 0..MaxFlaps
      PROVE  /\ Settled(client)' /\ UNCHANGED <<gets, worker>> /\ flaps' \in 0..MaxFlaps
             /\ client'.listeners = client.listeners
             /\ \E new \in EventsFor(client.listeners) : events' = events \o new
  <2>1. /\ Settled(client)' /\ client'.listeners = c.listeners
        /\ events' = events \o c.raised
    BY <1>1, BecomesKeeps
  <2>2. c.raised \in EventsFor(client.listeners)
    BY <1>1 DEF Outgoing
  <2> QED
    BY <1>1, <2>1, <2>2
<1>2. ASSUME NEW c, UNCHANGED <<gets, worker, flaps>>, Becomes(c), Good(c)
      PROVE  /\ Settled(client)' /\ UNCHANGED <<gets, worker>> /\ flaps' \in 0..MaxFlaps
             /\ client'.listeners = client.listeners
             /\ \E new \in EventsFor(client.listeners) : events' = events \o new
  BY <1>1, <1>2
<1>3. CASE TokenComes
  <2>1. Good(OnWatchStreamOpen(client))
    BY <1>0, <1>3, OpenKeeps DEF TokenComes
  <2> HIDE DEF Good
  <2> QED
    BY <1>2, <1>3, <2>1 DEF TokenComes
<1>4. CASE TokenFails \/ CallBreaks
  <2>1. Good(OnWatchStreamError(client))
    BY <1>0, ErrorKeeps
  <2> HIDE DEF Good
  <2> QED
    BY <1>2, <1>4, <2>1 DEF TokenFails, CallBreaks
<1>5. CASE RetryAfterBackoff
  <2> DEFINE d == BackoffElapsed(client)
  <2>1. client.state = "Backoff" /\ d = [client EXCEPT !.state = "Starting"]
    BY <1>5 DEF RetryAfterBackoff, BackoffElapsed
  <2> HIDE DEF d
  <2>2. /\ d \in Client /\ d.raised = <<>> /\ d.listeners = client.listeners
        /\ d.state = "Starting" /\ d.idle = client.idle /\ d.targets = client.targets
        /\ d.asked = client.asked /\ d.views = client.views
        /\ d.initial = client.initial /\ d.online = client.online /\ d.timer = client.timer
        /\ d.failures = client.failures /\ d.aborted = client.aborted
    BY <2>1 DEF Client, StreamStates
  <2>3. ViewsAgree(d) /\ TargetsAgree(d)
    BY <2>2, AgreementStays DEF Well
  <2>4. Started(d) /\ Asks(d) /\ Told(d) /\ Timers(d)
    BY <2>1, <2>2 DEF Well, Started, Asks, IsOpen, IsStarted, Told, Timers
  <2>5. Good(d)
    BY <2>2, <2>3, <2>4, NothingOutgoing DEF Well
  <2> HIDE DEF Good
  <2> QED
    BY <1>2, <1>5, <2>5 DEF RetryAfterBackoff, d
<1>6. CASE OnlineStateTimeout
  <2> DEFINE b == [client EXCEPT !.timer = FALSE]
             d == SetAndBroadcast(b, "Offline")
  <2>1. client.timer /\ client.online = "Unknown" /\ client.failures = 0
    BY <1>6 DEF OnlineStateTimeout, Well, Timers
  <2>2. /\ b \in Client /\ b.raised = <<>> /\ b.listeners = client.listeners
        /\ b.state = client.state /\ b.idle = client.idle /\ b.targets = client.targets
        /\ b.asked = client.asked /\ b.views = client.views
        /\ b.initial = client.initial /\ b.online = client.online /\ b.timer = FALSE
        /\ b.failures = client.failures /\ b.aborted = client.aborted
    BY DEF Client
  <2> HIDE DEF b
  <2>10. HardAssert(b, client.online = "Unknown") = b
    BY <2>1, <2>2, HardAssertHolds
  <2>3. Becomes(d) /\ UNCHANGED <<gets, worker, flaps>>
    BY <1>6, <2>10 DEF OnlineStateTimeout, b
  <2> HIDE DEF d
  <2>4. Outgoing(b) /\ Told(b)
    BY <2>2, NothingOutgoing DEF Well, Told
  <2>5. /\ d \in Client /\ Outgoing(d) /\ Frame(b, d) /\ Told(d)
        /\ d.online = "Offline"
        /\ \A q \in Queries : d.views[q] = "none" <=> b.views[q] = "none"
    BY <2>2, <2>4, BroadcastOffline DEF d
  <2>6. /\ d.state = client.state /\ d.idle = client.idle /\ d.targets = client.targets
        /\ d.asked = client.asked /\ d.timer = FALSE /\ d.failures = client.failures /\ d.aborted = client.aborted
        /\ d.listeners = client.listeners
        /\ \A q \in Queries : d.views[q] = "none" <=> client.views[q] = "none"
    BY <2>2, <2>5 DEF Frame
  <2>7. ViewsAgree(d) /\ TargetsAgree(d)
    BY <2>6, AgreementStays DEF Well
  <2>8. Started(d) /\ Asks(d) /\ Timers(d)
    BY <2>1, <2>5, <2>6 DEF Well, Started, Asks, IsOpen, IsStarted, Timers
  <2>9. Good(d)
    BY <2>5, <2>6, <2>7, <2>8 DEF Well
  <2> HIDE DEF Good
  <2> QED
    BY <1>2, <2>3, <2>9
<1>7. CASE IdleTimeout
  <2>1. client.targets = {}
    BY <1>7 DEF IdleTimeout, Well, Timers
  <2>2. Consistent(client)
    BY WellIsConsistent
  <2>3. /\ Stop(client) \in Client /\ Outgoing(Stop(client)) /\ Consistent(Stop(client))
        /\ Stop(client).listeners = client.listeners /\ Stop(client).targets = client.targets
        /\ ~Stop(client).timer
    BY <1>0, <2>2, StopKeeps DEF Well
  <2>4. Well(Stop(client))
    BY <2>1, <2>3, NothingToWatch
  <2>5. Good(Stop(client))
    BY <2>3, <2>4
  <2>6. HardAssert(Stop(client), client.targets = {}) = Stop(client)
    BY <2>1, <2>3, HardAssertHolds
  <2> HIDE DEF Good
  <2> QED
    BY <1>2, <1>7, <2>5, <2>6 DEF IdleTimeout
<1>8. ASSUME NEW q \in Queries, ServerSendsCurrent(q)
      PROVE  /\ Settled(client)' /\ UNCHANGED <<gets, worker>> /\ flaps' \in 0..MaxFlaps
             /\ client'.listeners = client.listeners
             /\ \E new \in EventsFor(client.listeners) : events' = events \o new
  <2> DEFINE u == UpdateState(client, "Online")
  <2>1. q \in client.asked /\ Becomes(TargetCurrent(u, q)) /\ UNCHANGED <<gets, worker, flaps>>
    BY <1>8 DEF ServerSendsCurrent
  <2>2. /\ u \in Client /\ u.raised = <<>> /\ Well(u) /\ u.online = "Online"
        /\ u.listeners = client.listeners /\ u.asked = client.asked
    BY OnlineKeeps
  <2> HIDE DEF u
  <2>3. Good(TargetCurrent(u, q))
    BY <2>1, <2>2, CurrentKeeps
  <2> HIDE DEF Good
  <2> QED
    BY <1>2, <2>1, <2>3
<1>9. CASE ServerSpeaks
  <2> DEFINE u == UpdateState(client, "Online")
  <2>1. u \in Client /\ u.raised = <<>> /\ Well(u) /\ u.listeners = client.listeners
    BY OnlineKeeps
  <2>2. Good(u)
    BY <2>1, NothingOutgoing
  <2>3. Becomes(u) /\ UNCHANGED <<gets, worker>> /\ flaps' \in 0..MaxFlaps
    BY <1>9, BoundsAreNumbers DEF ServerSpeaks, Flap
  <2> HIDE DEF Good, u
  <2> QED
    BY <1>1, <2>2, <2>3
<1>10. CASE ConnectivityChanges
  <2> DEFINE u == RestartNetwork(client)
  <2>1. Good(u)
    BY <1>0, RestartKeeps
  <2>2. Becomes(u) /\ UNCHANGED <<gets, worker>> /\ flaps' \in 0..MaxFlaps
    BY <1>10, BoundsAreNumbers DEF ConnectivityChanges, Flap
  <2> HIDE DEF Good, u
  <2> QED
    BY <1>1, <2>1, <2>2
<1> QED
  BY <1>3, <1>4, <1>5, <1>6, <1>7, <1>8, <1>9, <1>10 DEF Steady, Token

-----------------------------------------------------------------------------
(* The steps and the answers *)

\* Where an element of a concatenation comes from.
LEMMA ConcatElement ==
  ASSUME NEW S, NEW s \in Seq(S), NEW t \in Seq(S)
  PROVE  /\ s \o t \in Seq(S)
         /\ \A i \in 1..Len(s \o t) :
              \/ i \in 1..Len(s) /\ (s \o t)[i] = s[i]
              \/ i > Len(s) /\ i - Len(s) \in 1..Len(t) /\ (s \o t)[i] = t[i - Len(s)]
<1>1. Len(s) \in Nat /\ Len(t) \in Nat
  BY LenProperties
<1>2. /\ s \o t \in Seq(S) /\ Len(s \o t) = Len(s) + Len(t)
      /\ \A i \in 1..(Len(s) + Len(t)) :
           (s \o t)[i] = IF i <= Len(s) THEN s[i] ELSE t[i - Len(s)]
  BY ConcatProperties
<1> QED
  BY <1>1, <1>2

\* The tail has the elements but the first, one place before.
LEMMA TailElement ==
  ASSUME NEW S, NEW s \in Seq(S), s # <<>>
  PROVE  /\ Tail(s) \in Seq(S) /\ 1 \in 1..Len(s) /\ Head(s) = s[1] /\ Head(s) \in S
         /\ \A i \in 1..Len(Tail(s)) : i + 1 \in 1..Len(s) /\ Tail(s)[i] = s[i + 1]
<1>1. Len(s) \in Nat \ {0}
  BY EmptySeq
<1>2. /\ Tail(s) \in Seq(S) /\ Len(Tail(s)) = Len(s) - 1 /\ Head(s) \in S
      /\ \A i \in 1..Len(Tail(s)) : Tail(s)[i] = s[i + 1]
  BY HeadTailProperties
<1>3. 1 \in 1..Len(s) /\ Head(s) = s[1]
  BY <1>1
<1> QED
  BY <1>1, <1>2, <1>3

\* What an appended element is.
LEMMA AppendElement ==
  ASSUME NEW S, NEW s \in Seq(S), NEW e \in S
  PROVE  /\ Append(s, e) \in Seq(S) /\ Len(s) \in Nat /\ Len(Append(s, e)) = Len(s) + 1
         /\ Append(s, e)[Len(s) + 1] = e
         /\ \A i \in 1..Len(s) : Append(s, e)[i] = s[i]
<1>1. Len(s) \in Nat
  BY LenProperties
<1> QED
  BY <1>1, AppendProperties

\* Events for listeners join those that wait, and come after every error.
LEMMA EventsGrow ==
  ASSUME events \in Seq(Event), ErrorsAreLast, NEW L \in SUBSET Gets, client'.listeners = L,
         gets' = gets,
         NEW new \in EventsFor(L), events' = events \o new,
         \A g \in L \ client.listeners : ~HasEvent(g)
  PROVE  /\ (events \in Seq(Event))'
         /\ ErrorsAreLast'
         /\ \A g \in Gets : HasEvent(g)' => HasEvent(g) \/ g \in L
<1>1. /\ new \in Seq(Event)
      /\ \A i \in 1..Len(new) : new[i].get \in L /\ new[i].from # "error"
  <2> DEFINE E == [get : L, from : {"server", "cache"}]
  <2>1. new \in Seq(E) /\ E \subseteq Event
    BY DEF EventsFor, Events, Event, From
  <2>2. \A i \in 1..Len(new) : new[i] \in E
    BY <2>1, ElementOfSeq
  <2>3. new \in Seq(Event)
    BY <2>1, SeqMonotonic
  <2> QED
    BY <2>2, <2>3
<1>2. /\ events' \in Seq(Event)
      /\ \A i \in 1..Len(events') :
           \/ i \in 1..Len(events) /\ events'[i] = events[i]
           \/ i > Len(events) /\ i - Len(events) \in 1..Len(new) /\ events'[i] = new[i - Len(events)]
  BY <1>1, ConcatElement
<1>3. \A i \in 1..Len(events') :
        \/ i \in 1..Len(events) /\ events'[i] = events[i]
        \/ events'[i].get \in L /\ events'[i].from # "error"
  BY <1>1, <1>2
<1>4. \A g \in Gets : HasEvent(g)' => HasEvent(g) \/ g \in L
  BY <1>3 DEF HasEvent
<1>5. ErrorsAreLast'
  <2> SUFFICES ASSUME NEW i \in 1..Len(events'), events'[i].from = "error"
               PROVE  /\ events'[i].get \notin L
                      /\ \A j \in (i + 1)..Len(events') : events'[j].get # events'[i].get
    BY DEF ErrorsAreLast
  <2>1. i \in 1..Len(events) /\ events'[i] = events[i]
    BY <1>3
  <2>2. /\ events[i].get \notin client.listeners
        /\ \A j \in (i + 1)..Len(events) : events[j].get # events[i].get
    BY <2>1 DEF ErrorsAreLast
  <2>3. events'[i].get \notin L
    BY <2>1, <2>2 DEF HasEvent
  <2>4. ASSUME NEW j \in (i + 1)..Len(events')
        PROVE  events'[j].get # events'[i].get
    <3>1. Len(events) \in Nat /\ j \in 1..Len(events')
      BY <1>2, LenProperties
    <3>2. CASE j \in 1..Len(events) /\ events'[j] = events[j]
      <4>1. j \in (i + 1)..Len(events)
        BY <3>1, <3>2
      <4> QED
        BY <2>1, <2>2, <3>2, <4>1
    <3>3. CASE events'[j].get \in L
      BY <2>3, <3>3
    <3> QED
      BY <1>3, <3>1, <3>2, <3>3
  <2> QED
    BY <2>3, <2>4
<1>6. Event' = Event
  BY DEF Event, Gets
<1> QED
  BY <1>2, <1>4, <1>5, <1>6

\* A step of the worker that leaves the listeners alone.
LEMMA SteadyAnswers ==
  ASSUME Typed, Answers, UNCHANGED <<gets, worker>>, client'.listeners = client.listeners,
         NEW new \in EventsFor(client.listeners), events' = events \o new
  PROVE  Answers' /\ (events \in Seq(Event))'
<1>1. client.listeners \in SUBSET Gets
  BY DEF Typed, Client
<1>2. /\ (events \in Seq(Event))' /\ ErrorsAreLast'
      /\ \A g \in Gets : HasEvent(g)' => HasEvent(g) \/ g \in client.listeners
  BY <1>1, EventsGrow DEF Typed, Answers
<1>3. AddedOnce'
  BY DEF Answers, AddedOnce
<1>4. \A g \in Gets : Pending(g)' => Pending(g)
  BY DEF Pending
<1>5. NothingBefore'
  BY <1>2, <1>4 DEF Answers, NothingBefore, Gets
<1>6. AnsweredIsOver'
  BY <1>2 DEF Answers, AnsweredIsOver, Gets
<1> QED
  BY <1>2, <1>3, <1>5, <1>6 DEF Answers

\* A step of the worker that adds or removes the listener of a get.
LEMMA TaskAnswers ==
  ASSUME Typed, Answers, gets' = gets, worker # <<>>, worker' = Tail(worker),
         NEW L \in SUBSET Gets, client'.listeners = L,
         \/ Head(worker).kind = "listen" /\ L = client.listeners \cup {Head(worker).get}
         \/ Head(worker).kind = "unlisten" /\ L = client.listeners \ {Head(worker).get},
         NEW new \in EventsFor(L), events' = events \o new
  PROVE  Answers' /\ (events \in Seq(Event))' /\ (worker \in Seq(Task))'
<1> DEFINE g == Head(worker).get
<1>1. /\ Tail(worker) \in Seq(Task) /\ 1 \in 1..Len(worker) /\ Head(worker) = worker[1]
      /\ Head(worker) \in Task
      /\ \A i \in 1..Len(Tail(worker)) : i + 1 \in 1..Len(worker) /\ Tail(worker)[i] = worker[i + 1]
  BY TailElement DEF Typed
<1>2. g \in Gets /\ (Head(worker).kind = "listen" => Pending(g))
  BY <1>1 DEF Task, Pending
<1>3. \A h \in L \ client.listeners : Head(worker).kind = "listen" /\ h = g
  OBVIOUS
<1>4. Head(worker).kind = "listen" =>
        gets[g].answers = 0 /\ g \notin client.listeners /\ ~HasEvent(g)
  BY <1>2 DEF Answers, NothingBefore
<1>5. \A h \in L \ client.listeners : ~HasEvent(h)
  BY <1>3, <1>4
<1>6. /\ (events \in Seq(Event))' /\ ErrorsAreLast'
      /\ \A h \in Gets : HasEvent(h)' => HasEvent(h) \/ h \in L
  BY <1>5, EventsGrow DEF Typed, Answers
<1>7. \A h \in Gets : Pending(h)' => Pending(h) /\ (Head(worker).kind = "listen" => h # g)
  <2> SUFFICES ASSUME NEW h \in Gets, NEW i \in 1..Len(Tail(worker)),
                      Tail(worker)[i].kind = "listen", Tail(worker)[i].get = h
               PROVE  Pending(h) /\ (Head(worker).kind = "listen" => h # g)
    BY DEF Pending
  <2>1. i + 1 \in 1..Len(worker) /\ worker[i + 1].kind = "listen" /\ worker[i + 1].get = h
    BY <1>1
  <2>2. i + 1 # 1
    OBVIOUS
  <2>3. Head(worker).kind = "listen" => h # g
    BY <1>1, <2>1, <2>2 DEF Answers, AddedOnce
  <2> QED
    BY <2>1, <2>3 DEF Pending
<1>8. AddedOnce'
  <2> SUFFICES ASSUME NEW i \in 1..Len(Tail(worker)), NEW j \in 1..Len(Tail(worker)),
                      Tail(worker)[i].kind = "listen", Tail(worker)[j].kind = "listen",
                      Tail(worker)[i].get = Tail(worker)[j].get
               PROVE  i = j
    BY DEF AddedOnce
  <2>1. /\ i + 1 \in 1..Len(worker) /\ Tail(worker)[i] = worker[i + 1]
        /\ j + 1 \in 1..Len(worker) /\ Tail(worker)[j] = worker[j + 1]
    BY <1>1
  <2>2. i + 1 = j + 1
    BY <2>1 DEF Answers, AddedOnce
  <2> QED
    BY <2>2
<1>9. NothingBefore'
  <2> SUFFICES ASSUME NEW h \in Gets, Pending(h)'
               PROVE  gets[h].answers = 0 /\ h \notin L /\ ~HasEvent(h)'
    BY DEF NothingBefore, Gets
  <2>1. Pending(h) /\ (Head(worker).kind = "listen" => h # g)
    BY <1>7
  <2>2. gets[h].answers = 0 /\ h \notin client.listeners /\ ~HasEvent(h)
    BY <2>1 DEF Answers, NothingBefore
  <2>3. h \notin L
    BY <1>3, <2>1, <2>2
  <2> QED
    BY <1>6, <2>2, <2>3
<1>10. AnsweredIsOver'
  <2> SUFFICES ASSUME NEW h \in Gets
               PROVE  /\ gets[h].answers \in {0, 1}
                      /\ gets[h].answers = 1 /\ ~gets[h].muted => h \notin L /\ ~HasEvent(h)'
    BY DEF AnsweredIsOver, Gets
  <2>1. /\ gets[h].answers \in {0, 1}
        /\ gets[h].answers = 1 /\ ~gets[h].muted => h \notin client.listeners /\ ~HasEvent(h)
    BY DEF Answers, AnsweredIsOver
  <2>2. gets[h].answers = 1 /\ ~gets[h].muted => h \notin L
    BY <1>3, <1>4, <2>1
  <2> QED
    BY <1>6, <2>1, <2>2
<1>11. (worker \in Seq(Task))'
  BY <1>1 DEF Task, Gets
<1> QED
  BY <1>6, <1>8, <1>9, <1>10, <1>11 DEF Answers

\* A step of the worker that rejects a query.
LEMMA RejectAnswers ==
  ASSUME Typed, Answers, UNCHANGED <<gets, worker>>,
         NEW R \in SUBSET client.listeners, client'.listeners = client.listeners \ R,
         NEW new \in Events(R, {"error"}), events' = events \o new,
         \A i, j \in 1..Len(new) : new[i].get = new[j].get => i = j
  PROVE  Answers' /\ (events \in Seq(Event))'
<1>1. /\ new \in Seq(Event)
      /\ \A i \in 1..Len(new) : new[i].get \in R /\ new[i].from = "error"
  <2> DEFINE E == [get : R, from : {"error"}]
  <2>1. new \in Seq(E) /\ E \subseteq Event
    BY DEF Events, Event, From, Typed, Client
  <2>2. \A i \in 1..Len(new) : new[i] \in E
    BY <2>1, ElementOfSeq
  <2>3. new \in Seq(Event)
    BY <2>1, SeqMonotonic
  <2> QED
    BY <2>2, <2>3
<1>2. /\ events' \in Seq(Event) /\ Len(events) \in Nat
      /\ \A i \in 1..Len(events') :
           \/ i \in 1..Len(events) /\ events'[i] = events[i]
           \/ i > Len(events) /\ i - Len(events) \in 1..Len(new) /\ events'[i] = new[i - Len(events)]
  BY <1>1, ConcatElement, LenProperties DEF Typed
<1>3. \A i \in 1..Len(events') :
        \/ i \in 1..Len(events) /\ events'[i] = events[i]
        \/ events'[i].get \in R
  BY <1>1, <1>2
<1>4. \A g \in Gets : HasEvent(g)' => HasEvent(g) \/ g \in R
  BY <1>3 DEF HasEvent
<1>5. ErrorsAreLast'
  <2> SUFFICES ASSUME NEW i \in 1..Len(events'), events'[i].from = "error"
               PROVE  /\ events'[i].get \notin client.listeners \ R
                      /\ \A j \in (i + 1)..Len(events') : events'[j].get # events'[i].get
    BY DEF ErrorsAreLast
  <2>1. CASE i \in 1..Len(events) /\ events'[i] = events[i]
    <3>1. /\ events[i].get \notin client.listeners
          /\ \A j \in (i + 1)..Len(events) : events[j].get # events[i].get
      BY <2>1 DEF Answers, ErrorsAreLast
    <3>2. ASSUME NEW j \in (i + 1)..Len(events')
          PROVE  events'[j].get # events'[i].get
      <4>1. j \in 1..Len(events')
        OBVIOUS
      <4>2. CASE j \in 1..Len(events) /\ events'[j] = events[j]
        <5>1. j \in (i + 1)..Len(events)
          BY <1>2, <4>2
        <5> QED
          BY <2>1, <3>1, <4>2, <5>1
      <4>3. CASE events'[j].get \in R
        BY <2>1, <3>1, <4>3
      <4> QED
        BY <1>3, <4>1, <4>2, <4>3
    <3> QED
      BY <2>1, <3>1, <3>2
  <2>2. CASE i > Len(events) /\ i - Len(events) \in 1..Len(new) /\ events'[i] = new[i - Len(events)]
    <3>1. events'[i].get \in R
      BY <1>1, <2>2
    <3>2. ASSUME NEW j \in (i + 1)..Len(events')
          PROVE  events'[j].get # events'[i].get
      <4>1. j \in 1..Len(events') /\ j > Len(events) /\ j # i
        BY <1>2, <2>2
      <4>2. j - Len(events) \in 1..Len(new) /\ events'[j] = new[j - Len(events)]
        BY <1>2, <4>1
      <4>3. j - Len(events) # i - Len(events)
        BY <1>2, <4>1
      <4> QED
        BY <2>2, <4>2, <4>3
    <3> QED
      BY <3>1, <3>2
  <2> QED
    BY <1>2, <2>1, <2>2
<1>6. AddedOnce'
  BY DEF Answers, AddedOnce
<1>7. \A g \in Gets : Pending(g)' => Pending(g)
  BY DEF Pending
<1>8. NothingBefore'
  <2> SUFFICES ASSUME NEW g \in Gets, Pending(g)'
               PROVE  gets[g].answers = 0 /\ g \notin client.listeners \ R /\ ~HasEvent(g)'
    BY DEF NothingBefore, Gets
  <2>1. gets[g].answers = 0 /\ g \notin client.listeners /\ ~HasEvent(g)
    BY <1>7 DEF Answers, NothingBefore
  <2> QED
    BY <1>4, <2>1
<1>9. AnsweredIsOver'
  <2> SUFFICES ASSUME NEW g \in Gets
               PROVE  /\ gets[g].answers \in {0, 1}
                      /\ gets[g].answers = 1 /\ ~gets[g].muted =>
                           g \notin client.listeners \ R /\ ~HasEvent(g)'
    BY DEF AnsweredIsOver, Gets
  <2>1. /\ gets[g].answers \in {0, 1}
        /\ gets[g].answers = 1 /\ ~gets[g].muted => g \notin client.listeners /\ ~HasEvent(g)
    BY DEF Answers, AnsweredIsOver
  <2> QED
    BY <1>4, <2>1
<1>10. Event' = Event
  BY DEF Event, Gets
<1> QED
  BY <1>2, <1>5, <1>6, <1>8, <1>9, <1>10 DEF Answers

\* The types of tasks, events and clients grow with the gets.
LEMMA TypesGrow ==
  ASSUME Gets \subseteq Gets', Typed
  PROVE  /\ Task \subseteq Task' /\ (events \in Seq(Event'))
         /\ client \in Client'
<1>1. Task \subseteq Task' /\ Event \subseteq Event'
  BY DEF Task, Event
<1>2. events \in Seq(Event')
  BY <1>1, SeqMonotonic DEF Typed
<1>3. client.raised \in Seq(Event')
  BY EmptySeq DEF Typed
<1>4. client \in Client'
  <2>1. /\ client.listeners \in SUBSET Gets' /\ client.initial \in SUBSET Gets'
    BY DEF Typed, Client
  <2>2. Client' =
          [state : StreamStates, idle : BOOLEAN,
           targets : SUBSET Queries, asked : SUBSET Queries,
           online : {"Unknown", "Online", "Offline"}, timer : BOOLEAN,
           failures : 0..MaxWatchStreamFailures,
           views : [Queries -> {"none", "local", "synced"}],
           listeners : SUBSET Gets', initial : SUBSET Gets', raised : Seq(Event'),
           aborted : BOOLEAN]
    BY DEF Client
  <2> QED
    BY <1>3, <2>1, <2>2 DEF Typed, Client
<1> QED
  BY <1>1, <1>2, <1>4

\* The client stays well while the queries of its listeners stay.
LEMMA WellStays ==
  ASSUME Typed, Well(client), client' = client,
         \A g \in Gets : gets'[g].query = gets[g].query
  PROVE  Well(client)'
<1>1. \A q \in Queries : ListenersTo(client, q)' = ListenersTo(client, q)
  BY DEF ListenersTo, Typed, Client
<1>2. ViewsAgree(client)' /\ TargetsAgree(client)'
  BY <1>1 DEF Well, ViewsAgree, TargetsAgree
<1>3. Started(client)' /\ Asks(client)' /\ Told(client)' /\ Timers(client)'
  BY DEF Well, Started, Asks, IsOpen, IsStarted, Told, Timers
<1> QED
  BY <1>2, <1>3 DEF Well

\* A new get waits for its task.
LEMMA GetDocumentsKeeps ==
  ASSUME IInv, NEW q \in Queries, GetDocuments(q)
  PROVE  IInv'
<1> DEFINE n == Len(gets)
           get == [query |-> q, muted |-> FALSE, answers |-> 0]
           task == [kind |-> "listen", get |-> n + 1]
<1>1. /\ gets' = Append(gets, get) /\ n < MaxGets
      /\ worker' = Append(worker, [kind |-> "listen", get |-> Len(gets')])
      /\ UNCHANGED <<client, events, flaps>>
  BY DEF GetDocuments
<1>2. get \in Get
  BY DEF Get
<1>3. /\ gets' \in Seq(Get) /\ n \in Nat /\ Len(gets') = n + 1 /\ gets'[n + 1] = get
      /\ \A g \in 1..n : gets'[g] = gets[g]
  BY <1>1, <1>2, AppendElement DEF IInv, Typed
<1>4. Gets = 1..n /\ Gets' = 1..(n + 1) /\ Gets \subseteq Gets' /\ n + 1 \notin Gets
  BY <1>3 DEF Gets
<1>5. Task \subseteq Task' /\ events \in Seq(Event') /\ client \in Client'
  BY <1>4, TypesGrow DEF IInv
<1>6. worker' = Append(worker, task) /\ task \in Task'
  BY <1>1, <1>3, <1>4 DEF Task
<1>7. worker \in Seq(Task')
  BY <1>5, SeqMonotonic DEF IInv, Typed
<1> HIDE DEF task
<1>8. /\ worker' \in Seq(Task') /\ Len(worker) \in Nat /\ Len(worker') = Len(worker) + 1
      /\ worker'[Len(worker) + 1] = task
      /\ \A i \in 1..Len(worker) : worker'[i] = worker[i]
  BY <1>6, <1>7, AppendElement
<1>9. Typed'
  <2>1. Get' = Get
    BY DEF Get
  <2>2. n + 1 <= MaxGets
    BY <1>1, <1>3, BoundsAreNumbers
  <2> QED
    BY <1>1, <1>3, <1>5, <1>8, <2>1, <2>2 DEF IInv, Typed
<1>10. Well(client)'
  BY <1>1, <1>3, <1>4, WellStays DEF IInv
<1>11. \A i \in 1..Len(worker) : worker[i].get \in Gets
  <2>1. \A i \in 1..Len(worker) : worker[i] \in Task
    BY ElementOfSeq DEF IInv, Typed
  <2> QED
    BY <2>1 DEF Task
<1>12. \A i \in 1..Len(events) : events[i].get \in Gets
  <2>1. \A i \in 1..Len(events) : events[i] \in Event
    BY ElementOfSeq DEF IInv, Typed
  <2> QED
    BY <2>1 DEF Event
<1>13. \A i \in 1..Len(worker') :
         \/ i \in 1..Len(worker) /\ worker'[i] = worker[i] /\ worker'[i].get # n + 1
         \/ i = Len(worker) + 1 /\ worker'[i].get = n + 1
  BY <1>4, <1>8, <1>11 DEF task
<1>14. AddedOnce'
  BY <1>13 DEF IInv, Answers, AddedOnce
<1>15. NothingBefore'
  <2> SUFFICES ASSUME NEW g \in 1..(n + 1), Pending(g)'
               PROVE  gets'[g].answers = 0 /\ g \notin client.listeners /\ ~HasEvent(g)
    BY <1>1, <1>4 DEF NothingBefore, HasEvent
  <2>1. CASE g = n + 1
    BY <1>3, <1>4, <1>12, <2>1 DEF HasEvent, IInv, Typed, Client
  <2>2. CASE g \in 1..n
    <3>1. g # n + 1
      BY <1>3, <2>2
    <3>2. Pending(g)
      BY <1>13, <3>1 DEF Pending
    <3> QED
      BY <1>3, <1>4, <2>2, <3>2 DEF IInv, Answers, NothingBefore
  <2> QED
    BY <1>3, <2>1, <2>2
<1>16. ErrorsAreLast'
  BY <1>1 DEF IInv, Answers, ErrorsAreLast
<1>17. AnsweredIsOver'
  <2> SUFFICES ASSUME NEW g \in 1..(n + 1)
               PROVE  /\ gets'[g].answers \in {0, 1}
                      /\ gets'[g].answers = 1 /\ ~gets'[g].muted =>
                           g \notin client.listeners /\ ~HasEvent(g)
    BY <1>1, <1>4 DEF AnsweredIsOver, HasEvent
  <2>1. CASE g = n + 1
    BY <1>3, <2>1
  <2>2. CASE g \in 1..n
    BY <1>3, <1>4, <2>2 DEF IInv, Answers, AnsweredIsOver
  <2> QED
    BY <1>3, <2>1, <2>2
<1> QED
  BY <1>9, <1>10, <1>14, <1>15, <1>16, <1>17 DEF IInv, Answers

\* An event is the last that counts for its get: the listener is muted by it, or
\* gone before it.
LEMMA OnEventKeeps ==
  ASSUME IInv, OnEvent
  PROVE  IInv'
<1> DEFINE e == Head(events)
           g == e.get
           removes == e.from # "error"
           get == [gets[g] EXCEPT !.answers = @ + 1, !.muted = removes]
           task == [kind |-> "unlisten", get |-> g]
<1>1. events # <<>> /\ events' = Tail(events) /\ UNCHANGED <<client, flaps>>
  BY DEF OnEvent
<1>2. /\ events' \in Seq(Event) /\ 1 \in 1..Len(events) /\ e = events[1] /\ e \in Event
      /\ \A i \in 1..Len(events') : i + 1 \in 1..Len(events) /\ events'[i] = events[i + 1]
  BY <1>1, TailElement DEF IInv, Typed
<1>3. g \in Gets /\ HasEvent(g)
  BY <1>2 DEF Event, HasEvent
<1>4. \A h \in Gets : HasEvent(h)' => HasEvent(h)
  BY <1>2 DEF HasEvent
<1>5. ErrorsAreLast'
  <2> SUFFICES ASSUME NEW i \in 1..Len(events'), events'[i].from = "error"
               PROVE  /\ events'[i].get \notin client.listeners
                      /\ \A j \in (i + 1)..Len(events') : events'[j].get # events'[i].get
    BY <1>1 DEF ErrorsAreLast
  <2>1. i + 1 \in 1..Len(events) /\ events'[i] = events[i + 1]
    BY <1>2
  <2>2. /\ events[i + 1].get \notin client.listeners
        /\ \A j \in (i + 1 + 1)..Len(events) : events[j].get # events[i + 1].get
    BY <2>1 DEF IInv, Answers, ErrorsAreLast
  <2>3. ASSUME NEW j \in (i + 1)..Len(events')
        PROVE  events'[j].get # events'[i].get
    <3>1. j \in 1..Len(events')
      OBVIOUS
    <3>2. j + 1 \in 1..Len(events) /\ events'[j] = events[j + 1]
      BY <1>2, <3>1
    <3>3. j + 1 \in (i + 1 + 1)..Len(events)
      BY <3>2
    <3> QED
      BY <2>1, <2>2, <3>2, <3>3
  <2> QED
    BY <2>1, <2>2, <2>3
<1>6. CASE gets[g].muted
  <2>1. UNCHANGED <<gets, worker>>
    BY <1>6 DEF OnEvent
  <2>2. Typed'
    <3>1. Get' = Get /\ Task' = Task /\ Event' = Event /\ Client' = Client
      BY <2>1 DEF Get, Task, Event, Client, Gets
    <3> QED
      BY <1>1, <1>2, <2>1, <3>1 DEF IInv, Typed
  <2>3. Well(client)'
    BY <1>1, <2>1, WellStays DEF IInv
  <2>4. AddedOnce'
    BY <2>1 DEF IInv, Answers, AddedOnce
  <2>5. NothingBefore'
    BY <1>1, <1>4, <2>1 DEF IInv, Answers, NothingBefore, Pending, Gets
  <2>6. AnsweredIsOver'
    BY <1>1, <1>4, <2>1 DEF IInv, Answers, AnsweredIsOver, Gets
  <2> QED
    BY <1>5, <2>2, <2>3, <2>4, <2>5, <2>6 DEF IInv, Answers
<1>7. CASE ~gets[g].muted
  <2>1. /\ gets' = [gets EXCEPT ![g].answers = @ + 1, ![g].muted = removes]
        /\ worker' = IF removes THEN Append(worker, task) ELSE worker
    BY <1>7 DEF OnEvent
  <2>2. gets \in Seq(Get) /\ gets[g] \in Get /\ g \in 1..Len(gets) /\ Len(gets) \in Nat
    BY <1>3, ElementOfSeq, LenProperties DEF IInv, Typed, Gets
  <2>3. gets[g].answers = 0
    BY <1>3, <1>7 DEF IInv, Answers, AnsweredIsOver
  <2>4. get \in Get /\ get.answers = 1 /\ get.muted = removes /\ get.query = gets[g].query
    <3>1. removes \in BOOLEAN
      OBVIOUS
    <3> HIDE DEF removes
    <3>2. gets[g].answers + 1 = 1 /\ 1 \in Nat
      BY <2>3
    <3>3. get = [gets[g] EXCEPT !.answers = 1, !.muted = removes]
      BY <3>2
    <3> HIDE DEF get
    <3> QED
      BY <2>2, <3>1, <3>2, <3>3 DEF Get
  <2>5. gets' = [gets EXCEPT ![g] = get]
    BY <2>1, <2>2 DEF Get
  <2> HIDE DEF get
  <2>6. /\ gets' \in Seq(Get) /\ Len(gets') = Len(gets)
        /\ \A h \in 1..Len(gets) : gets'[h] = IF h = g THEN get ELSE gets[h]
    BY <2>2, <2>4, <2>5, ExceptSeq
  <2>7. Gets' = Gets
    BY <2>6 DEF Gets
  <2>8. /\ worker' \in Seq(Task)
        /\ \A i \in 1..Len(worker') :
             worker'[i].kind = "listen" => i \in 1..Len(worker) /\ worker'[i] = worker[i]
    <3>1. CASE ~removes
      BY <2>1, <3>1 DEF IInv, Typed
    <3>2. CASE removes
      <4>1. worker' = Append(worker, task) /\ task \in Task /\ task.kind # "listen"
        BY <1>3, <2>1, <3>2 DEF Task
      <4> HIDE DEF task
      <4>2. /\ worker' \in Seq(Task) /\ Len(worker) \in Nat /\ Len(worker') = Len(worker) + 1
            /\ worker'[Len(worker) + 1] = task
            /\ \A i \in 1..Len(worker) : worker'[i] = worker[i]
        BY <4>1, AppendElement DEF IInv, Typed
      <4> QED
        BY <4>1, <4>2
    <3> QED
      BY <3>1, <3>2
  <2>9. Typed'
    <3>1. Get' = Get /\ Task' = Task /\ Event' = Event /\ Client' = Client
      BY <2>7 DEF Get, Task, Event, Client
    <3> QED
      BY <1>1, <1>2, <2>6, <2>8, <3>1 DEF IInv, Typed
  <2>10. Well(client)'
    BY <1>1, <2>4, <2>6, WellStays DEF IInv, Gets
  <2>11. AddedOnce'
    BY <2>8 DEF IInv, Answers, AddedOnce
  <2>12. NothingBefore'
    <3> SUFFICES ASSUME NEW h \in Gets, Pending(h)'
                 PROVE  gets'[h].answers = 0 /\ h \notin client.listeners /\ ~HasEvent(h)'
      BY <1>1, <2>7 DEF NothingBefore
    <3>1. Pending(h)
      BY <2>8 DEF Pending
    <3>2. gets[h].answers = 0 /\ h \notin client.listeners /\ ~HasEvent(h)
      BY <3>1 DEF IInv, Answers, NothingBefore
    <3>3. h # g /\ h \in 1..Len(gets)
      BY <1>3, <3>2 DEF Gets
    <3> QED
      BY <1>4, <2>6, <3>2, <3>3
  <2>13. AnsweredIsOver'
    <3> SUFFICES ASSUME NEW h \in Gets
                 PROVE  /\ gets'[h].answers \in {0, 1}
                        /\ gets'[h].answers = 1 /\ ~gets'[h].muted =>
                             h \notin client.listeners /\ ~HasEvent(h)'
      BY <1>1, <2>7 DEF AnsweredIsOver
    <3>1. h \in 1..Len(gets)
      BY DEF Gets
    <3>2. CASE h # g
      BY <1>4, <2>6, <3>1, <3>2 DEF IInv, Answers, AnsweredIsOver
    <3>3. CASE h = g
      <4>1. gets'[h] = get
        BY <2>6, <3>1, <3>3
      <4>2. CASE removes
        BY <2>4, <4>1, <4>2
      <4>3. CASE ~removes
        <5>1. /\ g \notin client.listeners
              /\ \A j \in 2..Len(events) : events[j].get # g
          BY <1>2, <4>3 DEF IInv, Answers, ErrorsAreLast
        <5>2. \A i \in 1..Len(events') : events'[i].get # g
          <6> TAKE i \in 1..Len(events')
          <6>1. i + 1 \in 2..Len(events) /\ events'[i] = events[i + 1]
            BY <1>2
          <6> QED
            BY <5>1, <6>1
        <5> QED
          BY <2>4, <3>3, <4>1, <5>1, <5>2 DEF HasEvent
      <4> QED
        BY <4>2, <4>3
    <3> QED
      BY <3>2, <3>3
  <2> QED
    BY <1>5, <2>9, <2>10, <2>11, <2>12, <2>13 DEF IInv, Answers
<1> QED
  BY <1>6, <1>7

\* A task of the worker.
LEMMA RunTaskKeeps ==
  ASSUME IInv, RunTask
  PROVE  IInv'
<1> DEFINE g == Head(worker).get
           d == IF Head(worker).kind = "listen" THEN AddQueryListener(client, g)
                ELSE RemoveQueryListener(client, g)
<1>1. worker # <<>> /\ worker' = Tail(worker) /\ Becomes(d) /\ UNCHANGED <<gets, flaps>>
  BY DEF RunTask
<1>2. /\ Head(worker) \in Task /\ 1 \in 1..Len(worker) /\ Head(worker) = worker[1]
  BY <1>1, TailElement DEF IInv, Typed
<1>3. g \in Gets /\ Head(worker).kind \in {"listen", "unlisten"}
  BY <1>2 DEF Task
<1>4. gets \in Seq(Get) /\ client \in Client /\ client.raised = <<>> /\ Well(client)
  BY DEF IInv, Typed
<1>5. /\ d \in Client /\ Outgoing(d) /\ Well(d)
      /\ \/ Head(worker).kind = "listen" /\ d.listeners = client.listeners \cup {g}
         \/ Head(worker).kind = "unlisten" /\ d.listeners = client.listeners \ {g}
  <2>1. CASE Head(worker).kind = "listen"
    <3>1. g \notin client.listeners
      BY <1>2, <1>3, <2>1 DEF IInv, Answers, NothingBefore, Pending
    <3>2. d = AddQueryListener(client, g)
      BY <2>1
    <3> HIDE DEF d
    <3>3. d \in Client /\ Outgoing(d) /\ Well(d) /\ d.listeners = client.listeners \cup {g}
      BY <1>3, <1>4, <3>1, <3>2, AddKeeps
    <3> QED
      BY <2>1, <3>3
  <2>2. CASE Head(worker).kind = "unlisten"
    <3>1. d = RemoveQueryListener(client, g)
      BY <2>2
    <3> HIDE DEF d
    <3>2. d \in Client /\ Outgoing(d) /\ Well(d) /\ d.listeners = client.listeners \ {g}
      BY <1>3, <1>4, <3>1, RemoveKeeps
    <3> QED
      BY <2>2, <3>2
  <2> QED
    BY <1>3, <2>1, <2>2
<1> HIDE DEF d
<1>6. Settled(client)' /\ client'.listeners = d.listeners /\ events' = events \o d.raised
  BY <1>1, <1>5, BecomesKeeps
<1>7. d.listeners \in SUBSET Gets /\ d.raised \in EventsFor(d.listeners)
  BY <1>5 DEF Client, Outgoing
<1>8. Answers' /\ (events \in Seq(Event))' /\ (worker \in Seq(Task))'
  BY <1>1, <1>5, <1>6, <1>7, TaskAnswers DEF IInv
<1>9. Typed'
  BY <1>1, <1>6, <1>8 DEF IInv, Typed, Settled, Get
<1> QED
  BY <1>6, <1>8, <1>9 DEF IInv, Settled

\* A query that the server rejects.
LEMMA ServerRejectsKeeps ==
  ASSUME IInv, NEW q \in Queries, ServerRejects(q)
  PROVE  IInv'
<1> DEFINE u == UpdateState(client, "Online")
           d == HandleRejectedListen(u, q)
           R == ListenersTo(u, q)
<1>1. q \in client.asked /\ Becomes(d) /\ UNCHANGED <<gets, worker, flaps>>
  BY DEF ServerRejects
<1>2. gets \in Seq(Get) /\ client \in Client /\ client.raised = <<>> /\ Well(client)
  BY DEF IInv, Typed
<1>3. /\ u \in Client /\ u.raised = <<>> /\ Well(u) /\ u.listeners = client.listeners
      /\ u.asked = client.asked
  BY <1>2, OnlineKeeps
<1> HIDE DEF u
<1>4. R \in SUBSET client.listeners /\ R \in SUBSET Gets
  BY <1>2, <1>3 DEF ListenersTo, Client
<1>5. /\ d \in Client /\ Well(d) /\ d.listeners = u.listeners \ R
      /\ RaisedOnce(d.raised, <<>>, Events(R, {"error"}))
  BY <1>1, <1>2, <1>3, RejectKeeps
<1> HIDE DEF d, R
<1>6. PICK new \in Events(R, {"error"}) :
        /\ d.raised = <<>> \o new
        /\ \A i, j \in 1..Len(new) : new[i].get = new[j].get => i = j
  BY <1>5 DEF RaisedOnce
<1>7. d.raised = new
  BY <1>6, ConcatEmptySeq DEF Events
<1>8. Settled(client)' /\ client'.listeners = d.listeners /\ events' = events \o d.raised
  BY <1>1, <1>5, BecomesKeeps
<1>9. client'.listeners = client.listeners \ R /\ events' = events \o new
  BY <1>3, <1>5, <1>7, <1>8
<1>10. Answers' /\ (events \in Seq(Event))'
  BY <1>1, <1>4, <1>6, <1>9, RejectAnswers DEF IInv
<1>11. Typed'
  BY <1>1, <1>8, <1>10 DEF IInv, Typed, Settled, Get, Task, Gets
<1> QED
  BY <1>8, <1>10, <1>11 DEF IInv, Settled

-----------------------------------------------------------------------------
(* The theorems *)

\* The invariant holds at first,
LEMMA InitHolds == Init => IInv
<1> SUFFICES ASSUME Init PROVE IInv
  OBVIOUS
<1>1. Gets = {}
  BY EmptySeq DEF Init, Gets
<1>2. \A S : <<>> \in Seq(S) /\ Len(<<>>) = 0
  BY EmptySeq
<1>3. client \in Client
  <2>1. 0 \in 0..MaxWatchStreamFailures /\ <<>> \in Seq(Event)
    BY <1>2 DEF MaxWatchStreamFailures
  <2> QED
    BY <2>1 DEF Init, Client, StreamStates
<1>4. Typed
  BY <1>2, <1>3, BoundsAreNumbers DEF Init, Typed
<1>5. \A q \in Queries : ListenersTo(client, q) = {}
  BY DEF Init, ListenersTo
<1>6. Well(client)
  BY <1>5 DEF Init, Well, ViewsAgree, TargetsAgree, Started, Asks, Told, Timers, IsOpen
<1>7. Answers
  BY <1>1, <1>2 DEF Init, Answers, AddedOnce, NothingBefore, ErrorsAreLast, AnsweredIsOver
<1> QED
  BY <1>4, <1>6, <1>7 DEF IInv

\* and every step keeps it.
LEMMA StepKeeps == IInv /\ [Next]_vars => IInv'
<1> SUFFICES ASSUME IInv, [Next]_vars PROVE IInv'
  OBVIOUS
<1>1. CASE UNCHANGED vars
  <2>1. gets' = gets /\ worker' = worker /\ client' = client /\ events' = events /\ flaps' = flaps
    BY <1>1 DEF vars
  <2>2. Typed'
    BY <2>1 DEF IInv, Typed, Get, Task, Event, Client, Gets
  <2>3. Well(client)'
    BY <2>1, WellStays DEF IInv
  <2>4. Answers'
    BY <2>1 DEF IInv, Answers, AddedOnce, NothingBefore, ErrorsAreLast, AnsweredIsOver,
                Pending, HasEvent, Gets
  <2> QED
    BY <2>2, <2>3, <2>4 DEF IInv
<1>2. CASE Steady
  <2>1. gets \in Seq(Get) /\ Settled(client) /\ flaps \in 0..MaxFlaps
    BY DEF IInv, Typed, Settled
  <2>2. /\ Settled(client)' /\ UNCHANGED <<gets, worker>> /\ flaps' \in 0..MaxFlaps
        /\ client'.listeners = client.listeners
        /\ \E new \in EventsFor(client.listeners) : events' = events \o new
    BY <1>2, <2>1, SteadyKeeps
  <2>3. Answers' /\ (events \in Seq(Event))'
    BY <2>2, SteadyAnswers DEF IInv
  <2>4. Typed'
    BY <2>2, <2>3 DEF IInv, Typed, Settled, Get, Task, Gets
  <2> QED
    BY <2>2, <2>3, <2>4 DEF IInv, Settled
<1>3. ASSUME NEW q \in Queries, GetDocuments(q) PROVE IInv'
  BY <1>3, GetDocumentsKeeps
<1>4. CASE RunTask
  BY <1>4, RunTaskKeeps
<1>5. CASE OnEvent
  BY <1>5, OnEventKeeps
<1>6. ASSUME NEW q \in Queries, ServerRejects(q) PROVE IInv'
  BY <1>6, ServerRejectsKeeps
<1> QED
  BY <1>1, <1>2, <1>3, <1>4, <1>5, <1>6 DEF Next, Outcome, Steady

\* So it holds in every reachable state.
LEMMA Invariance == Spec => []IInv
<1> QED
  BY InitHolds, StepKeeps, PTL DEF Spec

\* The gets, the tasks, the events and the client keep their types, and a get is
\* never answered more often than there are gets.
THEOREM TypeCorrect == Spec => []TypeOK
<1>1. IInv => TypeOK
  <2> SUFFICES ASSUME IInv PROVE TypeOK
    OBVIOUS
  <2>1. gets \in Seq([query : Queries, muted : BOOLEAN, answers : 0..MaxGets])
    <3> DEFINE G == [query : Queries, muted : BOOLEAN, answers : 0..MaxGets]
    <3>1. \A g \in 1..Len(gets) : gets[g] \in G
      <4> TAKE g \in 1..Len(gets)
      <4>1. gets[g] \in Get /\ Len(gets) \in Nat /\ Len(gets) <= MaxGets
        BY ElementOfSeq, LenProperties DEF IInv, Typed
      <4>2. 0 \in 0..MaxGets /\ 1 \in 0..MaxGets
        BY <4>1, BoundsAreNumbers
      <4>3. gets[g].answers \in 0..MaxGets
        BY <4>2 DEF IInv, Answers, AnsweredIsOver, Gets
      <4> QED
        BY <4>1, <4>3 DEF Get
    <3>2. Len(gets) \in Nat /\ gets \in [1..Len(gets) -> Get]
      BY LenProperties DEF IInv, Typed
    <3> HIDE DEF G
    <3>3. gets \in [1..Len(gets) -> G]
      BY <3>1, <3>2
    <3>4. gets \in Seq(G)
      BY <3>2, <3>3, FunctionIsSeq
    <3> QED
      BY <3>4 DEF G
  <2>2. client \in [state : StreamStates, idle : BOOLEAN,
                    targets : SUBSET Queries, asked : SUBSET Queries,
                    online : {"Unknown", "Online", "Offline"}, timer : BOOLEAN,
                    failures : 0..MaxWatchStreamFailures,
                    views : [Queries -> {"none", "local", "synced"}],
                    listeners : SUBSET Gets, initial : SUBSET Gets, raised : {<<>>},
                    aborted : BOOLEAN]
    BY DEF IInv, Typed, Client
  <2>3. worker \in Seq([kind : {"listen", "unlisten"}, get : Gets])
    BY DEF IInv, Typed, Task
  <2>4. events \in Seq([get : Gets, from : {"server", "cache", "error"}])
    BY DEF IInv, Typed, Event, From
  <2> QED
    BY <2>1, <2>2, <2>3, <2>4, Zenon DEF TypeOK, IInv, Typed
<1> QED
  BY <1>1, Invariance, PTL

\* The completion of a get runs once at most, however many events are raised for
\* its listener.
THEOREM AtMostOneAnswer == Spec => []AnsweredOnce
<1>1. IInv => AnsweredOnce
  BY DEF IInv, Answers, AnsweredIsOver, AnsweredOnce
<1> QED
  BY <1>1, Invariance, PTL

\* The event manager, the sync engine and the remote store agree on what is
\* listened to, and the stream is open or on its way for it.
THEOREM AllLayersAgree == Spec => []LayersAgree
<1>1. IInv => LayersAgree
  <2> SUFFICES ASSUME IInv, NEW q \in Queries
               PROVE  /\ q \in client.targets <=> ListenersTo(client, q) # {}
                      /\ client.views[q] # "none" <=> ListenersTo(client, q) # {}
                      /\ q \in client.targets => IsStarted(client)
                      /\ q \in client.targets /\ IsOpen(client) =>
                           q \in client.asked \/ client.views[q] = "synced"
    BY DEF LayersAgree
  <2> QED
    BY DEF IInv, Well, ViewsAgree, TargetsAgree, Started, Asks
<1> QED
  BY <1>1, Invariance, PTL

\* Who listens while the client is offline has had an event.
THEOREM NobodyIsKeptWaiting == Spec => []NobodyWaitsOffline
<1>1. IInv => NobodyWaitsOffline
  BY DEF IInv, Well, Told, NobodyWaitsOffline
<1> QED
  BY <1>1, Invariance, PTL

\* The online state tracker never finds a timer where it starts one, nor a count
\* or a state it does not expect; what is unlistened to is listened to, and an
\* idle stream that stops is not needed.
THEOREM NoAssertionFails == Spec => []AssertionsHold
<1>1. IInv => AssertionsHold
  BY DEF IInv, Well, Timers, AssertionsHold
<1> QED
  BY <1>1, Invariance, PTL
=============================================================================
