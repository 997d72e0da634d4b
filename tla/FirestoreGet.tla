---------------------------- MODULE FirestoreGet ----------------------------
(* How a getDocuments of the app is answered: the listeners, the watch       *)
(* stream and the online state of the Firestore client.                      *)
(*                                                                           *)
(* A get is a listener for one event.  The worker adds it to the query it    *)
(* reads, which the remote store listens to over the watch stream while      *)
(* somebody wants it.  The event is raised when the server has sent all      *)
(* documents of the query or the client is offline, runs on the user's       *)
(* executor, and removes the listener.                                       *)
(*                                                                           *)
(* Covered: gets that overlap, of one query or several; a stream that breaks *)
(* or hangs; tokens that fail; rejected queries; the timer and the failures  *)
(* that make the client offline; backoff; idle streams; connectivity that    *)
(* changes.                                                                  *)
(* Limits: documents are left out, so an event says only whether it comes    *)
(* from the cache; what the server says of a target that is not listened to  *)
(* any more is ignored; no documents are in limbo.                           *)
EXTENDS Integers, Sequences, FiniteSets, SequencesExt, FirestoreStream

CONSTANTS
  Queries,
  MaxGets,     \* bound: gets the app makes
  MaxFlaps,    \* bound: times the server speaks or connectivity changes for nothing
  MaxEvents    \* bound: events that wait when the server sends documents

ASSUME BoundsAreNumbers == {MaxGets, MaxFlaps, MaxEvents} \subseteq Nat

VARIABLES
  gets,      \* the gets of the app: query, whether muted, how often answered
  worker,    \* tasks for the worker: listen and unlisten
  client,    \* what the worker changes, see TypeOK
  events,    \* events on the user's executor
  flaps      \* bound: flaps so far

vars == <<gets, worker, client, events, flaps>>

Gets == 1..Len(gets)
ListenersTo(c, q) == {g \in c.listeners : gets[g].query = q}

-----------------------------------------------------------------------------
(* Snapshots and events.  An operator makes of the client c what a method of *)
(* the code makes of it; c.raised are the events it raised.                  *)

MaxWatchStreamFailures == 1

\* HARD_ASSERT stops the program unless the condition holds.
HardAssert(c, holds) == [c EXCEPT !.aborted = @ \/ ~holds]

Raise(c, gs, from) ==
  [c EXCEPT !.raised = @ \o [i \in 1..Cardinality(gs) |-> [get |-> SetToSeq(gs)[i], from |-> from]],
            !.initial = @ \cup gs]

\* Mutant: a get waits for the server, offline or not.
Mut_OnViewSnapshot(c, gs, from) ==
  Raise(c, {g \in gs : g \in c.initial \/ from = "server"}, from)

\* Later events are for those who had their first; a get waits for the server,
\* or for the client to be offline.
OnViewSnapshot(c, gs, from) ==
  Raise(c, {g \in gs : g \in c.initial \/ from = "server" \/ c.online = "Offline"}, from)

\* Offline, no view is in step with the server, and those who wait wait no more.
SetAndBroadcast(c, state) ==
  LET behind == {q \in Queries : c.views[q] = "synced"}
      stale == {g \in c.listeners : gets[g].query \in behind}
      offline == [OnViewSnapshot(c, stale, "cache") EXCEPT
                    !.views = [q \in Queries |-> IF q \in behind THEN "local" ELSE @[q]],
                    !.online = state]
  IN IF state = c.online THEN c
     ELSE IF state # "Offline" THEN [c EXCEPT !.online = state]
     ELSE Raise(offline, c.listeners \ offline.initial, "cache")

UpdateState(c, state) ==
  SetAndBroadcast([c EXCEPT !.timer = FALSE, !.failures = 0], state)

HandleWatchStreamStart(c) ==
  IF c.failures # 0 THEN c
  ELSE [HardAssert(SetAndBroadcast(c, "Unknown"), ~c.timer) EXCEPT !.timer = TRUE]

\* Mutant: failures are counted past the limit.
Mut_HandleWatchStreamFailure(c) ==
  IF c.online = "Online" THEN SetAndBroadcast(c, "Unknown")
  ELSE IF c.failures + 1 < MaxWatchStreamFailures THEN [c EXCEPT !.failures = @ + 1]
  ELSE SetAndBroadcast([c EXCEPT !.failures = @ + 1, !.timer = FALSE], "Offline")

\* Mutant: the client never goes offline for a failure.
Mut_NeverOffline(c) ==
  IF c.online = "Online" THEN SetAndBroadcast(c, "Unknown")
  ELSE [c EXCEPT !.failures = MaxWatchStreamFailures, !.timer = FALSE]

\* Failures beyond the limit make no difference and are not counted.
HandleWatchStreamFailure(c) ==
  IF c.online = "Online"
  THEN HardAssert(SetAndBroadcast(c, "Unknown"), c.failures = 0 /\ ~c.timer)
  ELSE IF c.failures + 1 < MaxWatchStreamFailures THEN [c EXCEPT !.failures = @ + 1]
  ELSE SetAndBroadcast([c EXCEPT !.failures = MaxWatchStreamFailures, !.timer = FALSE], "Offline")

-----------------------------------------------------------------------------
(* The remote store and its watch stream.                                    *)

ShouldStartWatchStream(c) == ~IsStarted(c) /\ c.targets # {}
StartWatchStream(c) == HandleWatchStreamStart(Start(c))
SendWatchRequest(c, qs) == IF qs = {} THEN c ELSE Wrote([c EXCEPT !.asked = @ \cup qs])

Listen(c, q) ==
  LET d == [c EXCEPT !.targets = @ \cup {q}]
  IN IF q \in c.targets THEN c
     ELSE IF ShouldStartWatchStream(d) THEN StartWatchStream(d)
     ELSE IF IsOpen(d) THEN SendWatchRequest(d, {q})
     ELSE d

StopListening(c, q) ==
  LET d == [HardAssert(c, q \in c.targets) EXCEPT !.targets = @ \ {q}, !.asked = @ \ {q}]
      unwatched == IF IsOpen(d) THEN Wrote(d) ELSE d
  IN IF d.targets # {} THEN unwatched
     ELSE IF IsOpen(d) THEN MarkIdle(unwatched)
     ELSE UpdateState(d, "Unknown")

OnWatchStreamOpen(c) == SendWatchRequest(Opened(c), c.targets)

OnWatchStreamError(c) ==
  LET d == [Closed(c, FALSE) EXCEPT !.asked = {}]
  IN IF ShouldStartWatchStream(d) THEN StartWatchStream(HandleWatchStreamFailure(d))
     ELSE UpdateState(d, "Unknown")

\* Mutant: the online state and its timer are left as they were.
Mut_Stop(c) == IF IsStarted(c) THEN [Closed(c, TRUE) EXCEPT !.asked = {}] ELSE c

Stop(c) ==
  IF IsStarted(c) THEN UpdateState([Closed(c, TRUE) EXCEPT !.asked = {}], "Unknown") ELSE c

RestartNetwork(c) ==
  LET d == InhibitBackoff(UpdateState(Stop(c), "Unknown"))
  IN IF ShouldStartWatchStream(d) THEN StartWatchStream(d) ELSE UpdateState(d, "Unknown")

-----------------------------------------------------------------------------
(* The event manager and the sync engine.                                    *)

\* A later listener gets the snapshot there is; the first one opens the view.
AddQueryListener(c, g) ==
  LET q == gets[g].query
      joined == [c EXCEPT !.listeners = @ \cup {g}]
  IN IF c.views[q] = "none"
     THEN Listen(OnViewSnapshot([joined EXCEPT !.views[q] = "local"], {g}, "cache"), q)
     ELSE OnViewSnapshot(joined, {g}, IF c.views[q] = "synced" THEN "server" ELSE "cache")

\* Mutant: the view is closed with its first listener.
Mut_RemoveQueryListener(c, g) ==
  LET q == gets[g].query
      left == [c EXCEPT !.listeners = @ \ {g}]
  IN IF c.views[q] = "none" THEN c ELSE StopListening([left EXCEPT !.views[q] = "none"], q)

RemoveQueryListener(c, g) ==
  LET q == gets[g].query
      left == [c EXCEPT !.listeners = @ \ {g}]
  IN IF c.views[q] = "none" THEN c
     ELSE IF ListenersTo(left, q) # {} THEN left
     ELSE StopListening([left EXCEPT !.views[q] = "none"], q)

\* All documents of the query have come, in a snapshot.
TargetCurrent(c, q) ==
  LET d == [c EXCEPT !.asked = @ \ {q}, !.views[q] = "synced"]
  IN IF c.views[q] = "synced" THEN d ELSE OnViewSnapshot(d, ListenersTo(d, q), "server")

HandleRejectedListen(c, q) ==
  LET d == Raise(c, ListenersTo(c, q), "error")
  IN [d EXCEPT !.asked = @ \ {q}, !.targets = @ \ {q}, !.views[q] = "none",
               !.listeners = @ \ ListenersTo(c, q)]

-----------------------------------------------------------------------------
(* The steps.                                                                *)

\* The client after a step of the worker; the executor takes the events.
Becomes(c) ==
  /\ client' = [c EXCEPT !.raised = <<>>]
  /\ events' = events \o c.raised

GetDocuments(q) ==
  /\ Len(gets) < MaxGets
  /\ gets' = Append(gets, [query |-> q, muted |-> FALSE, answers |-> 0])
  /\ worker' = Append(worker, [kind |-> "listen", get |-> Len(gets')])
  /\ UNCHANGED <<client, events, flaps>>

RunTask ==
  /\ worker # <<>>
  /\ worker' = Tail(worker)
  /\ Becomes(IF Head(worker).kind = "listen" THEN AddQueryListener(client, Head(worker).get)
             ELSE RemoveQueryListener(client, Head(worker).get))
  /\ UNCHANGED <<gets, flaps>>

\* Mutant: the listener is removed but not muted.
Mut_OnEvent ==
  /\ events # <<>>
  /\ events' = Tail(events)
  /\ LET e == Head(events)
         removes == e.from # "error"
     IN /\ gets' = [gets EXCEPT ![e.get].answers = @ + 1]
        /\ worker' = IF removes THEN Append(worker, [kind |-> "unlisten", get |-> e.get])
                     ELSE worker
  /\ UNCHANGED <<client, flaps>>

\* ListenOnce: the listener is muted and removed before the app is called.
OnEvent ==
  /\ events # <<>>
  /\ events' = Tail(events)
  /\ LET e == Head(events)
         removes == e.from # "error"
     IN IF gets[e.get].muted THEN UNCHANGED <<gets, worker>>
        ELSE /\ gets' = [gets EXCEPT ![e.get].answers = @ + 1, ![e.get].muted = removes]
             /\ worker' = IF removes THEN Append(worker, [kind |-> "unlisten", get |-> e.get])
                          ELSE worker
  /\ UNCHANGED <<client, flaps>>

\* A call to gRPC counts as open at once, whatever the network does.
TokenComes ==
  /\ client.state = "Starting"
  /\ Becomes(OnWatchStreamOpen(client))
  /\ UNCHANGED <<gets, worker, flaps>>

TokenFails ==
  /\ client.state = "Starting"
  /\ Becomes(OnWatchStreamError(client))
  /\ UNCHANGED <<gets, worker, flaps>>

RetryAfterBackoff ==
  /\ client.state = "Backoff"
  /\ Becomes(BackoffElapsed(client))
  /\ UNCHANGED <<gets, worker, flaps>>

OnlineStateTimeout ==
  /\ client.timer
  /\ Becomes(SetAndBroadcast(HardAssert([client EXCEPT !.timer = FALSE], client.online = "Unknown"),
                             "Offline"))
  /\ UNCHANGED <<gets, worker, flaps>>

\* The idle timer stops the stream, and OnWatchStreamClose asserts that a graceful stop
\* finds the stream no longer needed.
IdleTimeout ==
  /\ client.idle
  /\ Becomes(HardAssert(Stop(client), client.targets = {}))
  /\ UNCHANGED <<gets, worker, flaps>>

ServerSendsCurrent(q) ==
  /\ Len(events) < MaxEvents
  /\ IsOpen(client)
  /\ q \in client.asked
  /\ Becomes(TargetCurrent(UpdateState(client, "Online"), q))
  /\ UNCHANGED <<gets, worker, flaps>>

ServerRejects(q) ==
  /\ IsOpen(client)
  /\ q \in client.asked
  /\ Becomes(HandleRejectedListen(UpdateState(client, "Online"), q))
  /\ UNCHANGED <<gets, worker, flaps>>

CallBreaks ==
  /\ IsOpen(client)
  /\ Becomes(OnWatchStreamError(client))
  /\ UNCHANGED <<gets, worker, flaps>>

Flap ==
  /\ flaps < MaxFlaps
  /\ flaps' = flaps + 1
  /\ UNCHANGED <<gets, worker>>

\* Something that is no answer, such as that a query was added.
ServerSpeaks ==
  /\ Flap
  /\ IsOpen(client)
  /\ client.asked # {}
  /\ Becomes(UpdateState(client, "Online"))

ConnectivityChanges ==
  /\ Flap
  /\ Becomes(RestartNetwork(client))

-----------------------------------------------------------------------------

Init ==
  /\ gets = <<>>
  /\ worker = <<>>
  /\ events = <<>>
  /\ flaps = 0
  /\ client = [state |-> "Initial", idle |-> FALSE, targets |-> {}, asked |-> {},
               online |-> "Unknown", timer |-> FALSE, failures |-> 0,
               views |-> [q \in Queries |-> "none"],
               listeners |-> {}, initial |-> {}, raised |-> <<>>, aborted |-> FALSE]

Token == TokenComes \/ TokenFails
Outcome == CallBreaks \/ \E q \in Queries : ServerSendsCurrent(q) \/ ServerRejects(q)

Next ==
  \/ \E q \in Queries : GetDocuments(q)
  \/ RunTask
  \/ OnEvent
  \/ Token
  \/ RetryAfterBackoff
  \/ OnlineStateTimeout
  \/ IdleTimeout
  \/ Outcome
  \/ ServerSpeaks
  \/ ConnectivityChanges

Spec == Init /\ [][Next]_vars

\* The client does its part: tasks and events run, timers fire, tokens come or fail.
ClientSpec ==
  /\ Spec
  /\ WF_vars(RunTask)
  /\ WF_vars(OnEvent)
  /\ WF_vars(Token)
  /\ WF_vars(RetryAfterBackoff)
  /\ WF_vars(OnlineStateTimeout)

\* Besides, a call that waits for an answer gets one or breaks.
FairSpec == ClientSpec /\ WF_vars(client.asked # {} /\ Outcome)

-----------------------------------------------------------------------------
(* Properties.                                                               *)

\* Every variable has its type.
TypeOK ==
  /\ gets \in Seq([query : Queries, muted : BOOLEAN, answers : 0..MaxGets])
  /\ worker \in Seq([kind : {"listen", "unlisten"}, get : Gets])
  /\ events \in Seq([get : Gets, from : {"server", "cache", "error"}])
  /\ flaps \in 0..MaxFlaps
  /\ client \in [state : StreamStates, idle : BOOLEAN,
                 targets : SUBSET Queries, asked : SUBSET Queries,
                 online : {"Unknown", "Online", "Offline"}, timer : BOOLEAN,
                 failures : 0..MaxWatchStreamFailures,
                 views : [Queries -> {"none", "local", "synced"}],
                 listeners : SUBSET Gets, initial : SUBSET Gets, raised : {<<>>},
                 aborted : BOOLEAN]

\* The completion of a get runs once at most, though a listener is sent another
\* event when its query comes in step, goes offline or fails while the first
\* event waits on the user's executor.
AnsweredOnce == \A g \in Gets : gets[g].answers <= 1

\* The event manager, the sync engine and the remote store agree on what is
\* listened to: a query has a view and a target while it has listeners, through
\* gets that share it, errors and removals on their way.  While anything is
\* listened to, the stream is open or on its way, and once it is open each view
\* that is not in step has been asked for.
LayersAgree ==
  \A q \in Queries :
    /\ q \in client.targets <=> ListenersTo(client, q) # {}
    /\ client.views[q] # "none" <=> ListenersTo(client, q) # {}
    /\ q \in client.targets => IsStarted(client)
    /\ q \in client.targets /\ IsOpen(client) => q \in client.asked \/ client.views[q] = "synced"

\* Nobody waits for the server while the client is offline, however the client
\* came to be offline and whenever the listener was added.
NobodyWaitsOffline == client.online = "Offline" => client.listeners \subseteq client.initial

\* No assertion about the online state, the listens and the idle stream fails:
\* whenever a stream starts without a failure before it, whatever stopped the one
\* before has cancelled its timer, and the timer fires only while the state is
\* unknown; a failure after word from the server finds no failure counted and no
\* timer; what is unlistened to was listened to; and no stream that is needed
\* stops for idleness.
AssertionsHold == ~client.aborted

\* Every get is answered, from the server, from the cache or with an error.
GetsAreAnswered == \A g \in 1..MaxGets : (g \in Gets) ~> (g \in Gets /\ gets[g].answers > 0)

\* As a comment of the online state tracker says, the client does not wait
\* indefinitely for a stream: with something to listen to, its state does not
\* stay unknown.
UnknownEnds == (client.online = "Unknown" /\ client.targets # {})
               ~> (client.online # "Unknown" \/ client.targets = {})
=============================================================================
