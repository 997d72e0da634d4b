-------------------------- MODULE FirestoreWrites ---------------------------
(* How a write of the app reaches the server: the write pipeline of the      *)
(* Firestore client, from the call to the acknowledgement.                   *)
(*                                                                           *)
(* A call is queued for the worker (AsyncQueue), which puts the write into   *)
(* the mutation queue of the user, on disk, and into the pipeline, in        *)
(* memory; the pipeline is sent over the write stream, and each answer of    *)
(* the server settles the write at its front.                                *)
(*                                                                           *)
(* Covered: a change of user at any time, calls and tokens under way then; a *)
(* stream that breaks, before or after the server acted; a token that cannot *)
(* be had; a refused handshake; a refused write; connectivity that changes;  *)
(* idle streams; the end of the process at any time.                         *)
(* Limits: a write is one document; the server answers in order and does not *)
(* read on in a broken call; the stream token, which the handshake does not  *)
(* send, is left out; documents are not evicted from the cache.              *)
EXTENDS Integers, Sequences, FiniteSets, FiniteSetsExt, SequencesExt, FirestoreStream

CONSTANTS
  Users,             \* signed in or not: nobody is a user too
  Keys,              \* documents
  MaxPendingWrites,  \* size of the pipeline: kMaxPendingWrites, 10
  MaxWrites,         \* bound: writes the app makes
  MaxFaults,         \* bound: faults of the network, and ends of the process
  MaxSignIns         \* bound: changes of user

ASSUME BoundsAreSizes ==
  /\ MaxPendingWrites \in Nat \ {0}
  /\ {MaxWrites, MaxFaults, MaxSignIns} \subseteq Nat

VARIABLES
  auth,       \* the user of Firebase Auth
  signIns,    \* bound: changes of user so far
  writes,     \* the writes of the app: user and document of each
  client,     \* what the client has in memory, see TypeOK
  queue,      \* on disk: per user, the batches not settled
  cache,      \* on disk: per document, the version last read or acknowledged
  seen,       \* on disk: the version of the last snapshot of the server
  commits,    \* server: the writes applied; the n-th is version n
  refused,    \* server: the writes it refused at least once
  settled,    \* history: how the client settled each write
  told,       \* history: what the completion of each write was told
  faults      \* bound: faults so far

app == <<auth, signIns, writes>>
disk == <<queue, cache, seen>>
server == <<commits, refused>>
history == <<settled, told>>
vars == <<app, client, disk, server, history, faults>>

Writes == 1..MaxWrites
WritesOf(batches) == [i \in 1..Len(batches) |-> batches[i].w]
NoWrite == 0

-----------------------------------------------------------------------------
(* The pipeline and the stream.  c is the client; q the queue of its user.   *)

\* Mutant: ids start again with every launch and user.
Mut_NextBatchId(queues) == 1

NextBatchId(queues) ==
  1 + Max({0} \cup UNION {{queues[u][i].id : i \in 1..Len(queues[u])} : u \in Users})

\* The token is for the user that Auth has when it is asked.
StartStream(c) ==
  [Start(c) EXCEPT !.asks =
     IF c.state = "Error" THEN @ ELSE @ \cup {[live |-> TRUE, fresh |-> TRUE, user |-> auth]}]

ShouldStartWriteStream(c) == ~IsStarted(c) /\ c.pipeline # <<>>
StartIfNeeded(c) == IF ShouldStartWriteStream(c) THEN StartStream(c) ELSE c

Send(c, requests) ==
  IF requests = <<>> THEN c ELSE Wrote([c EXCEPT !.sent = @ \o requests])

WriteMutations(c, batches) ==
  IF IsOpen(c) /\ c.handshake THEN Send(c, WritesOf(batches)) ELSE c

\* Where a seek on disk lands: at the first batch whose id is not below, or past the end.
Seek(q, id) ==
  CHOOSE i \in 1..(Len(q) + 1) :
    /\ i <= Len(q) => q[i].id >= id
    /\ \A j \in 1..(i - 1) : q[j].id < id

LastBatchIdRetrieved(c) == IF c.pipeline = <<>> THEN 0 ELSE Last(c.pipeline).id

\* The next batches of the queue after one of them, up to a number.
NextMutationBatches(q, id, room) ==
  LET rest == SubSeq(q, Seek(q, id + 1), Len(q))
  IN IF Len(rest) <= room THEN rest ELSE SubSeq(rest, 1, room)

\* Mutant: a full pipeline takes one more.
Mut_FillWritePipeline(c, q) ==
  LET room == 1 + MaxPendingWrites - Len(c.pipeline)
      added == NextMutationBatches(q, LastBatchIdRetrieved(c), room)
      filled == WriteMutations([c EXCEPT !.pipeline = @ \o added], added)
  IN IF c.pipeline = <<>> /\ q = <<>> THEN MarkIdle(c) ELSE StartIfNeeded(filled)

FillWritePipeline(c, q) ==
  LET room == MaxPendingWrites - Len(c.pipeline)
      added == NextMutationBatches(q, LastBatchIdRetrieved(c), room)
      filled == WriteMutations([c EXCEPT !.pipeline = @ \o added], added)
  IN IF c.pipeline = <<>> /\ q = <<>> THEN MarkIdle(c) ELSE StartIfNeeded(filled)

\* Tokens under way are of no use to the next stream: close_count_ tells.
Close(c, ok) ==
  [Closed(c, ok) EXCEPT
     !.sent = <<>>,
     !.answers = <<>>,
     !.asks = {[a EXCEPT !.live = FALSE] : a \in @},
     !.worker = [i \in DOMAIN @ |->
                   IF @[i].kind = "resume" THEN [@[i] EXCEPT !.live = FALSE] ELSE @[i]]]

HandshakeOver(c) == [c EXCEPT !.handshake = FALSE]

Stop(c) == IF IsStarted(c) THEN HandshakeOver(Close(c, TRUE)) ELSE c

\* Mutant: the stream is not started again.
Mut_OnTransientError(c) == HandshakeOver(Close(c, FALSE))

OnTransientError(c) == HandshakeOver(StartIfNeeded(Close(c, FALSE)))

\* The batch at the front is taken for the one that was refused.
OnWriteError(c, q) ==
  LET popped == [Close(c, FALSE) EXCEPT !.pipeline = Tail(@)]
  IN HandshakeOver(FillWritePipeline(InhibitBackoff(popped), q))

\* Mutant: the pipeline is not cleared.
Mut_RestartNetwork(c, q) == FillWritePipeline(InhibitBackoff(Stop(c)), q)

\* Mutant: the stream of the last user stays.
Mut_KeepStream(c, q) == FillWritePipeline([c EXCEPT !.pipeline = <<>>], q)

RestartNetwork(c, q) ==
  FillWritePipeline(InhibitBackoff([Stop(c) EXCEPT !.pipeline = <<>>]), q)

Launched(user) ==
  FillWritePipeline(
    [user |-> user, worker |-> <<>>, asks |-> {}, state |-> "Initial", idle |-> FALSE,
     handshake |-> FALSE, name |-> user, pipeline |-> <<>>, sent |-> <<>>,
     answers |-> <<>>, callbacks |-> {}, nextId |-> NextBatchId(queue)],
    queue[user])

Enqueue(c, task) == [c EXCEPT !.worker = Append(@, task)]
Dequeue(c) == [c EXCEPT !.worker = Tail(@)]
Without(q, id) == RemoveAt(q, Seek(q, id))
IsTask(kind) == client.worker # <<>> /\ Head(client.worker).kind = kind
IsAnswer(kind) == client.answers # <<>> /\ Head(client.answers).kind = kind

-----------------------------------------------------------------------------
(* The app and Firebase Auth.                                                *)

CallSetData(k) ==
  /\ Len(writes) < MaxWrites
  /\ writes' = Append(writes, [user |-> auth, key |-> k])
  /\ client' = Enqueue(client, [kind |-> "write", w |-> Len(writes')])
  /\ UNCHANGED <<auth, signIns, disk, server, history, faults>>

\* token_counter is raised: tokens asked for are not for this user.
AuthStateDidChange(u) ==
  /\ u # auth
  /\ signIns < MaxSignIns
  /\ auth' = u
  /\ signIns' = signIns + 1
  /\ client' = Enqueue([client EXCEPT !.asks = {[a EXCEPT !.fresh = FALSE] : a \in @}],
                       [kind |-> "user", user |-> u])
  /\ UNCHANGED <<writes, disk, server, history, faults>>

\* A token asked for before the last change of user is asked for again.
GetToken(a) ==
  LET others == [client EXCEPT !.asks = @ \ {a}]
  IN /\ client' = IF a.fresh
                  THEN Enqueue(others, [kind |-> "resume", live |-> a.live, user |-> a.user])
                  ELSE [others EXCEPT !.asks = @ \cup {[a EXCEPT !.fresh = TRUE, !.user = auth]}]
     /\ UNCHANGED <<app, disk, server, history, faults>>

-----------------------------------------------------------------------------
(* The worker.  One step is one task with everything it calls.               *)

WriteLocally ==
  /\ IsTask("write")
  /\ LET w == Head(client.worker).w
         u == client.user
         c == [Dequeue(client) EXCEPT
                 !.nextId = @ + 1,
                 !.callbacks = @ \cup {[user |-> u, id |-> client.nextId, w |-> w]}]
     IN /\ queue' = [queue EXCEPT ![u] = Append(@, [id |-> client.nextId, w |-> w])]
        /\ client' = FillWritePipeline(c, queue'[u])
  /\ UNCHANGED <<app, cache, seen, server, history, faults>>

\* The queue of the new user is loaded, even when the user is the same.
HandleCredentialChange ==
  /\ IsTask("user")
  /\ LET u == Head(client.worker).user
         c == IF u = client.user THEN client
              ELSE [client EXCEPT !.user = u, !.nextId = NextBatchId(queue)]
     IN client' = RestartNetwork(Dequeue(c), queue[u])
  /\ UNCHANGED <<app, disk, server, history, faults>>

\* A gRPC stream counts as open at once, and the handshake is its first request.
ResumeStartWithCredentials ==
  /\ IsTask("resume")
  /\ LET task == Head(client.worker)
         c == Dequeue(client)
     IN client' = IF ~task.live THEN c
                  ELSE Send(Opened([c EXCEPT !.name = task.user]), <<NoWrite>>)
  /\ UNCHANGED <<app, disk, server, history, faults>>

RetryAfterBackoff ==
  /\ client.state = "Backoff"
  /\ client' = StartStream(InhibitBackoff(client))
  /\ UNCHANGED <<app, disk, server, history, faults>>

IdleTimeout ==
  /\ client.idle
  /\ client' = Stop(client)
  /\ UNCHANGED <<app, disk, server, history, faults>>

OnWriteStreamHandshakeComplete ==
  /\ IsAnswer("hello")
  /\ client' = WriteMutations([client EXCEPT !.answers = Tail(@), !.handshake = TRUE],
                              client.pipeline)
  /\ UNCHANGED <<app, disk, server, history, faults>>

\* Runs the completion of a batch, if this process still has it.
NotifyUser(u, id, how) ==
  LET waiting == {cb \in client.callbacks : cb.user = u /\ cb.id = id}
  IN told' = [w \in Writes |-> IF \E cb \in waiting : cb.w = w THEN how ELSE told[w]]

Unregister(c, u, id) ==
  [c EXCEPT !.callbacks = {cb \in @ : ~(cb.user = u /\ cb.id = id)}]

OnWriteStreamMutationResult ==
  /\ IsAnswer("ok")
  /\ client.pipeline # <<>>
  /\ LET u == client.user
         batch == Head(client.pipeline)
         key == writes[batch.w].key
         version == Head(client.answers).version
         c == [client EXCEPT !.answers = Tail(@), !.pipeline = Tail(@)]
     IN /\ NotifyUser(u, batch.id, "ok")
        /\ settled' = [settled EXCEPT ![batch.w] = "ok"]
        /\ queue' = [queue EXCEPT ![u] = Without(@, batch.id)]
        /\ cache' = [cache EXCEPT ![key] = Max({@, version})]
        /\ client' = FillWritePipeline(Unregister(c, u, batch.id), queue'[u])
  /\ UNCHANGED <<app, seen, server, faults>>

\* Mutant: a refused handshake is taken for a refused write.
Mut_HandleWriteError ==
  /\ IsAnswer("refused")
  /\ client.pipeline # <<>>
  /\ LET u == client.user
         batch == Head(client.pipeline)
     IN /\ NotifyUser(u, batch.id, "error")
        /\ settled' = [settled EXCEPT ![batch.w] = "error"]
        /\ queue' = [queue EXCEPT ![u] = Without(@, batch.id)]
        /\ client' = OnWriteError(Unregister(client, u, batch.id), queue'[u])
  /\ UNCHANGED <<app, cache, seen, server, faults>>

HandleWriteError ==
  /\ IsAnswer("refused")
  /\ client.handshake
  /\ client.pipeline # <<>>
  /\ LET u == client.user
         batch == Head(client.pipeline)
     IN /\ NotifyUser(u, batch.id, "error")
        /\ settled' = [settled EXCEPT ![batch.w] = "error"]
        /\ queue' = [queue EXCEPT ![u] = Without(@, batch.id)]
        /\ client' = OnWriteError(Unregister(client, u, batch.id), queue'[u])
  /\ UNCHANGED <<app, cache, seen, server, faults>>

\* Only the stream token is reset: the writes are tried again.
HandleHandshakeError ==
  /\ IsAnswer("refused")
  /\ ~client.handshake
  /\ client' = OnTransientError(client)
  /\ UNCHANGED <<app, disk, server, history, faults>>

\* Mutant: a snapshot replaces what the cache has, however old it is.
Mut_ApplyRemoteEvent(v, K) ==
  LET VersionOf(k) == Max({0} \cup {n \in 1..v : writes[commits[n].w].key = k})
  IN /\ v >= seen
     /\ seen' = v
     /\ cache' = [k \in Keys |-> IF k \in K THEN VersionOf(k) ELSE cache[k]]
     /\ UNCHANGED <<app, client, queue, server, history, faults>>

\* A snapshot of the server at version v, for the documents K of a query.
ApplyRemoteEvent(v, K) ==
  LET VersionOf(k) == Max({0} \cup {n \in 1..v : writes[commits[n].w].key = k})
  IN /\ v >= seen
     /\ seen' = v
     /\ cache' = [k \in Keys |-> IF k \in K THEN Max({cache[k], VersionOf(k)}) ELSE cache[k]]
     /\ UNCHANGED <<app, client, queue, server, history, faults>>

-----------------------------------------------------------------------------
(* The server.  It reads one request of an open call at a time.              *)

IsReading == client.sent # <<>> /\ \A i \in DOMAIN client.answers : client.answers[i].kind # "refused"
Answer(kind, w, version) ==
  client' = [client EXCEPT !.sent = Tail(@),
                           !.answers = Append(@, [kind |-> kind, w |-> w, version |-> version])]

AnswerHandshake ==
  /\ IsReading
  /\ Head(client.sent) = NoWrite
  /\ Answer("hello", NoWrite, 0)
  /\ UNCHANGED <<app, disk, server, history, faults>>

Commit ==
  /\ IsReading
  /\ Head(client.sent) # NoWrite
  /\ commits' = Append(commits, [w |-> Head(client.sent), name |-> client.name])
  /\ Answer("ok", Head(client.sent), Len(commits'))
  /\ UNCHANGED <<app, disk, refused, history, faults>>

\* The call ends with a permanent status, after the answers before.
Refuse ==
  /\ IsReading
  /\ Head(client.sent) # NoWrite
  /\ refused' = refused \cup {Head(client.sent)}
  /\ Answer("refused", Head(client.sent), 0)
  /\ UNCHANGED <<app, disk, commits, history, faults>>

-----------------------------------------------------------------------------
(* Faults.                                                                   *)

Fault ==
  /\ faults < MaxFaults
  /\ faults' = faults + 1

RefuseHandshake ==
  /\ Fault
  /\ IsReading
  /\ Head(client.sent) = NoWrite
  /\ Answer("refused", NoWrite, 0)
  /\ UNCHANGED <<app, disk, server, history>>

StreamBreaks ==
  /\ Fault
  /\ IsOpen(client)
  /\ client' = OnTransientError(client)
  /\ UNCHANGED <<app, disk, server, history>>

TokenFails ==
  /\ Fault
  /\ IsTask("resume")
  /\ client' = IF Head(client.worker).live
               THEN OnTransientError(Dequeue(client)) ELSE Dequeue(client)
  /\ UNCHANGED <<app, disk, server, history>>

ConnectivityChanges ==
  /\ Fault
  /\ client' = RestartNetwork(client, queue[client.user])
  /\ UNCHANGED <<app, disk, server, history>>

\* The process ends and the app is launched again.
Crash ==
  /\ Fault
  /\ client' = Launched(auth)
  /\ UNCHANGED <<app, disk, server, history>>

-----------------------------------------------------------------------------

Init ==
  /\ auth \in Users
  /\ signIns = 0
  /\ writes = <<>>
  /\ queue = [u \in Users |-> <<>>]
  /\ client = Launched(auth)
  /\ cache = [k \in Keys |-> 0]
  /\ seen = 0
  /\ commits = <<>>
  /\ refused = {}
  /\ settled = [w \in Writes |-> "none"]
  /\ told = [w \in Writes |-> "none"]
  /\ faults = 0

Worker ==
  \/ WriteLocally
  \/ HandleCredentialChange
  \/ ResumeStartWithCredentials

Stream ==
  \/ RetryAfterBackoff
  \/ OnWriteStreamHandshakeComplete
  \/ OnWriteStreamMutationResult
  \/ HandleWriteError
  \/ HandleHandshakeError

Server ==
  \/ AnswerHandshake
  \/ Commit
  \/ Refuse

Next ==
  \/ \E k \in Keys : CallSetData(k)
  \/ \E u \in Users : AuthStateDidChange(u)
  \/ \E a \in client.asks : GetToken(a)
  \/ Worker
  \/ Stream
  \/ Server
  \/ IdleTimeout
  \/ \E v \in seen..Len(commits), K \in SUBSET Keys : ApplyRemoteEvent(v, K)
  \/ RefuseHandshake
  \/ StreamBreaks
  \/ TokenFails
  \/ ConnectivityChanges
  \/ Crash

Spec == Init /\ [][Next]_vars

\* The worker runs its tasks, tokens come, backoff timers fire, the server reads.
FairSpec ==
  /\ Spec
  /\ WF_vars(\E a \in client.asks : GetToken(a))
  /\ WF_vars(Worker)
  /\ WF_vars(Stream)
  /\ WF_vars(Server)

-----------------------------------------------------------------------------
(* Properties.                                                               *)

\* Every variable has its type.
TypeOK ==
  /\ auth \in Users
  /\ signIns \in 0..MaxSignIns
  /\ faults \in 0..MaxFaults
  /\ writes \in Seq([user : Users, key : Keys]) /\ Len(writes) <= MaxWrites
  /\ \A u \in Users : queue[u] \in Seq([id : Nat, w : Writes])
  /\ cache \in [Keys -> Nat]
  /\ seen \in 0..Len(commits)
  /\ commits \in Seq([w : Writes, name : Users])
  /\ refused \subseteq Writes
  /\ {settled, told} \subseteq [Writes -> {"none", "ok", "error"}]
  /\ {client.user, client.name} \subseteq Users
  /\ client.state \in StreamStates
  /\ {client.idle, client.handshake} \subseteq BOOLEAN
  /\ client.asks \subseteq [live : BOOLEAN, fresh : BOOLEAN, user : Users]
  /\ client.callbacks \subseteq [user : Users, id : Nat, w : Writes]
  /\ client.sent \in Seq(Writes \cup {NoWrite})
  /\ client.pipeline \in Seq([id : Nat, w : Writes])
  /\ Len(client.pipeline) <= MaxPendingWrites

\* Of WireFollowsQueue: the pipeline in memory is the front of the current user's
\* queue on disk, as much as has room.
PipelineIsFront ==
  LET q == queue[client.user]
  IN client.pipeline = SubSeq(q, 1, Min({Len(q), MaxPendingWrites}))

\* Of WireFollowsQueue: on a stream past the handshake the answers and requests under
\* way are the pipeline, in its order and once each.
WireMatchesPipeline ==
  IsOpen(client) /\ client.handshake =>
    LET answered == WritesOf(client.answers)
        wanted == WritesOf(client.pipeline)
    IN IF \E i \in DOMAIN client.answers : client.answers[i].kind = "refused"
       THEN IsPrefix(answered, wanted)
       ELSE answered \o client.sent = wanted

\* Queue on disk, pipeline in memory and requests and answers under way are one
\* sequence: answers carry no name, so each has to belong to the write at the front
\* of the pipeline, whatever was settled, restarted or loaded in between.
WireFollowsQueue == PipelineIsFront /\ WireMatchesPipeline

\* A write is queued, and applied by the server, in the name of the user who
\* made it, though users change while calls and tokens are under way.
UnderOwnName ==
  /\ \A u \in Users : \A i \in DOMAIN queue[u] : writes[queue[u][i].w].user = u
  /\ \A n \in DOMAIN commits : commits[n].name = writes[commits[n].w].user

\* Of CompletionsAreRight: one that is told of success belongs to a write that the server has
\* applied, one that is told of an error to a write that it has refused.
TruthfulAnswers ==
  \A w \in Writes :
    /\ told[w] = "ok" => \E n \in DOMAIN commits : commits[n].w = w
    /\ told[w] = "error" => w \in refused

\* Of CompletionsAreRight: none in memory is left to a later batch of the same id.
CallbacksMatch ==
  \A cb \in client.callbacks :
    [id |-> cb.id, w |-> cb.w] \in ToSet(queue[cb.user])

\* A completion is told what became of the write it was given with, though batch
\* ids are used again after a launch or a change of user, answers are lost and a
\* refused handshake looks like a refused write.
CompletionsAreRight == TruthfulAnswers /\ CallbacksMatch

\* Who has written a document reads that or something later: the write is still
\* queued and laid over the cache, or the cache has its version.
ReadYourWrites ==
  \A w \in 1..Len(writes) :
    settled[w] = "ok" =>
      \E n \in DOMAIN commits : commits[n].w = w /\ cache[writes[w].key] >= n

\* No assertion of the client fails: an answer finds the pipeline not empty, a
\* token finds the stream starting, a stream stops for idleness only if no write
\* needs it, and backoff is inhibited only on a stopped stream.
AssertionsHold ==
  /\ IsAnswer("ok") => client.pipeline # <<>>
  /\ IsTask("resume") /\ Head(client.worker).live => client.state = "Starting"
  /\ client.idle => client.pipeline = <<>> /\ IsOpen(client)
  /\ IsAnswer("refused") /\ client.handshake => client.pipeline # <<>>
  /\ client.answers # <<>> => IsStarted(client)

\* The client and the server together keep the promise of DurableWrites.
Promise ==
  INSTANCE DurableWrites WITH
    waiting <- [u \in Users |-> WritesOf(queue[u])],
    applied <- WritesOf(commits)
KeepsPromise == Promise!Spec

\* A write queued for the current user is settled some day, unless the user
\* changes first.
WritesSettle ==
  \A w \in Writes :
    w \in ToSet(WritesOf(queue[client.user])) ~> w \notin ToSet(WritesOf(queue[client.user]))
=============================================================================
