--------------------------- MODULE FirestoreWatch ---------------------------
(* How the client learns which documents a query has: the watch stream's     *)
(* messages, the aggregator that makes snapshots of them, and the keys and   *)
(* the resume token that the device keeps of the query.                      *)
(*                                                                           *)
(* A query has one target id, on every stream and in every listen, and the   *)
(* messages name nothing else.  So a message may be about a listen that is   *)
(* over; the aggregator counts the answers that are due for its requests and *)
(* ignores the target until the last one has come.                           *)
(*                                                                           *)
(* Covered: listens that end and begin while messages are under way; streams *)
(* that break; relaunches; resumed queries; resets; existence filters and    *)
(* the second request after a mismatch; servers that lag behind a snapshot.  *)
(* Limits: one query, which is not rejected (see FirestoreGet); of documents *)
(* only their keys; no documents in limbo; the cache is not collected.       *)
EXTENDS Integers, Sequences, FiniteSets, SequencesExt

CONSTANTS
  Keys,          \* documents
  MaxVersions,   \* bound: versions of the query's result
  MaxListens,    \* bound: listens of the app
  MaxBreaks,     \* bound: streams that break and relaunches
  MaxMessages    \* bound: messages under way when the server sends more

ASSUME WatchBounds ==
  /\ IsFiniteSet(Keys)
  /\ MaxVersions \in Nat \ {0}
  /\ {MaxListens, MaxBreaks, MaxMessages} \subseteq Nat

VARIABLES
  results,   \* server: the result of the query, version by version
  served,    \* server: the version this stream was sent, 0 if it does not watch
  client,    \* what the client has in memory, and the wire, see TypeOK
  disk,      \* on disk: the target's keys and resume token, the last snapshot
  shown,     \* history: version of the last snapshot that counted for the target
  unmended,  \* history: a mismatch dropped the keys on disk, and no token of a current
             \* result has come to the disk since
  spoilt,    \* history: a listen has begun before a mismatch was mended, or documents
             \* came between a mismatch and the snapshot that drops the keys
  listens,   \* bound: listens so far
  breaks     \* bound: breaks so far

server == <<results, served>>
history == <<shown, unmended, spoilt>>
vars == <<server, client, disk, history, listens, breaks>>

NoToken == 0
NoChanges == [k \in Keys |-> "none"]
\* A target that is new counts as changed, so that its next snapshot has it.
NewTarget == [due |-> 0, changes |-> NoChanges, changed |-> TRUE, current |-> FALSE, token |-> NoToken]
With(change, changes) == {k \in Keys : changes[k] = change}

-----------------------------------------------------------------------------
(* The aggregator.  c is the client; c.target what is known of the target.   *)

IsActiveTarget(c) == c.listening /\ c.target.due = 0

RecordPendingTargetRequest(c) == [c EXCEPT !.target.due = @ + 1]

RecordTargetResponse(c) == [c EXCEPT !.target.due = @ - 1]

UpdateResumeToken(c, token) == [c EXCEPT !.target.token = token, !.target.changed = TRUE]

AddDocumentChange(c, k, change) ==
  [c EXCEPT !.target.changes[k] = change, !.target.changed = TRUE]

AddDocumentToTarget(c, k) == AddDocumentChange(c, k, IF k \in c.view.keys THEN "modified" ELSE "added")

\* A document that came and went between two snapshots leaves no trace.
RemoveDocumentFromTarget(c, k) ==
  AddDocumentChange(c, k, IF k \in c.view.keys THEN "removed" ELSE "none")

\* As if all documents were removed; the server sends again those that were not.
ResetTarget(c) ==
  [c EXCEPT !.target =
     [NewTarget EXCEPT !.changes = [k \in Keys |-> IF k \in c.view.keys THEN "removed" ELSE "none"]]]

GetCurrentDocumentCount(c) ==
  Cardinality(c.view.keys) + Cardinality(With("added", c.target.changes))
    - Cardinality(With("removed", c.target.changes))

\* Mutant: the filter is compared with the view, without what is gathered.
Mut_HandleExistenceFilter(c, count) ==
  IF Cardinality(c.view.keys) = count THEN c ELSE [ResetTarget(c) EXCEPT !.mismatch = TRUE]

HandleExistenceFilter(c, count) ==
  IF GetCurrentDocumentCount(c) = count THEN c
  ELSE [ResetTarget(c) EXCEPT !.mismatch = TRUE]

\* Mutant: any answer makes the target start from nothing.
Mut_HandleAdded(c) == [RecordTargetResponse(c) EXCEPT !.target.due = 0]

\* What was gathered for a listen before is dropped with the last answer due.
HandleAdded(c) ==
  LET d == RecordTargetResponse(c)
  IN IF d.target.due = 0
     THEN [d EXCEPT !.target.changes = NoChanges, !.target.changed = FALSE] ELSE d

HandleRemoved(c) ==
  LET d == RecordTargetResponse(c)
  IN IF d.target.due = 0 THEN [d EXCEPT !.target = NewTarget] ELSE d

\* A message about documents or state counts for an active target only.
HandleWatchChange(c, m) ==
  CASE m.kind = "added" -> HandleAdded(c)
    [] m.kind = "removed" -> HandleRemoved(c)
    [] OTHER ->
         IF ~IsActiveTarget(c) THEN c
         ELSE CASE m.kind = "in" -> AddDocumentToTarget(c, m.key)
                [] m.kind = "out" -> RemoveDocumentFromTarget(c, m.key)
                [] m.kind = "current" ->
                     UpdateResumeToken([c EXCEPT !.target.current = TRUE], m.version)
                [] m.kind = "snapshot" -> UpdateResumeToken(c, m.version)
                [] m.kind = "reset" -> ResetTarget(c)
                [] m.kind = "filter" -> HandleExistenceFilter(c, m.count)

-----------------------------------------------------------------------------
(* The remote store, the sync engine and the local store.                    *)

SendWatchRequest(c) ==
  [RecordPendingTargetRequest(c) EXCEPT !.sent = Append(@, [kind |-> "watch", token |-> c.token])]

\* Mutant: the answer to an unwatch request is not counted.
Mut_SendUnwatchRequest(c) == [c EXCEPT !.sent = Append(@, [kind |-> "unwatch", token |-> NoToken])]

SendUnwatchRequest(c) ==
  [RecordPendingTargetRequest(c) EXCEPT !.sent = Append(@, [kind |-> "unwatch", token |-> NoToken])]

StartWatchStream(c) == [c EXCEPT !.stream = "starting", !.target = NewTarget, !.mismatch = FALSE]

Listen(c) ==
  LET d == [c EXCEPT !.listening = TRUE, !.token = disk.token, !.stored = disk.token,
                     !.view = [keys |-> disk.keys, current |-> FALSE]]
  IN CASE d.stream = "closed" -> StartWatchStream(d)
       [] d.stream = "open" -> SendWatchRequest(d)
       [] OTHER -> d

StopListening(c) ==
  LET d == [c EXCEPT !.listening = FALSE, !.token = NoToken, !.stored = NoToken,
                     !.view = [keys |-> {}, current |-> FALSE]]
  IN IF d.stream = "open" THEN SendUnwatchRequest(d) ELSE d

\* Mutant: the target is not asked for again after a mismatch.
Mut_Rewatch(c) == [c EXCEPT !.mismatch = FALSE]

\* After a mismatch the target is dropped and asked for anew, without a token.
Rewatch(c) ==
  IF c.mismatch /\ c.listening
  THEN SendWatchRequest(SendUnwatchRequest([c EXCEPT !.token = NoToken, !.mismatch = FALSE]))
  ELSE [c EXCEPT !.mismatch = FALSE]

\* A token is written with the first changes; one that brings none may wait.
ShouldPersistTargetData(c, change) ==
  IF change.token = NoToken THEN {FALSE}
  ELSE IF c.stored = NoToken \/ change.changes # NoChanges THEN {TRUE}
  ELSE BOOLEAN

\* Mutant: the keys on disk are only added to.
Mut_ApplyRemoteEvent(c, change, version) ==
  LET keys == (c.view.keys \ With("removed", change.changes)) \cup With("added", change.changes)
      viewed == [c EXCEPT !.view = [keys |-> keys, current |-> change.current]]
  IN /\ client' = IF change.token = NoToken THEN viewed ELSE [viewed EXCEPT !.stored = change.token]
     /\ \E persists \in ShouldPersistTargetData(c, change) :
          disk' = [keys |-> disk.keys \cup With("added", change.changes), seen |-> version,
                   token |-> IF persists THEN change.token ELSE disk.token]

\* The target's part of the snapshot goes to the disk and to the view.
ApplyRemoteEvent(c, change, version) ==
  LET keys == (c.view.keys \ With("removed", change.changes)) \cup With("added", change.changes)
      stored == (disk.keys \ With("removed", change.changes)) \cup With("added", change.changes)
      viewed == [c EXCEPT !.view = [keys |-> keys, current |-> change.current]]
      noted == IF change.token = NoToken THEN viewed ELSE [viewed EXCEPT !.stored = change.token]
  IN /\ client' = noted
     /\ \E persists \in ShouldPersistTargetData(c, change) :
          disk' = [keys |-> stored, seen |-> version,
                   token |-> IF persists THEN change.token ELSE disk.token]

\* Only an active target with changes has a part in the snapshot.
RaiseWatchSnapshot(c, version) ==
  LET active == IsActiveTarget(c)
      change == c.target
      cleared == [c EXCEPT !.target.changes = NoChanges, !.target.changed = FALSE,
                           !.token = IF change.token = NoToken THEN @ ELSE change.token]
  IN /\ shown' = IF active THEN version ELSE shown
     /\ IF active /\ change.changed
        THEN ApplyRemoteEvent(Rewatch(cleared), change, version)
        ELSE /\ client' = Rewatch(c)
             /\ disk' = [disk EXCEPT !.seen = version]
     /\ LET dropped == active /\ c.mismatch
            mended == active /\ change.current /\ disk'.token = version
        IN /\ unmended' = (dropped \/ (unmended /\ ~mended))
           /\ spoilt' = (spoilt \/ (dropped /\ client'.view.keys # {}))

-----------------------------------------------------------------------------
(* The client's steps.                                                       *)

ListenStarts ==
  /\ ~client.listening
  /\ listens < MaxListens
  /\ listens' = listens + 1
  /\ client' = Listen(client)
  /\ spoilt' = (spoilt \/ unmended \/ client.mismatch)
  /\ UNCHANGED <<server, disk, shown, unmended, breaks>>

\* A target that is released takes the latest token to the disk.
ListenEnds ==
  /\ client.listening
  /\ client' = StopListening(client)
  /\ disk' = [disk EXCEPT !.token = client.stored]
  /\ unmended' = (unmended /\ ~client.view.current)
  /\ UNCHANGED <<server, shown, spoilt, listens, breaks>>

OnWatchStreamOpen ==
  /\ client.stream = "starting"
  /\ LET c == [client EXCEPT !.stream = "open"]
     IN client' = IF c.listening THEN SendWatchRequest(c) ELSE c
  /\ UNCHANGED <<server, disk, history, listens, breaks>>

OnWatchStreamChange ==
  /\ client.inbox # <<>>
  /\ LET m == Head(client.inbox)
         c == HandleWatchChange([client EXCEPT !.inbox = Tail(@)], m)
     IN IF m.kind = "snapshot" /\ m.version >= disk.seen
        THEN RaiseWatchSnapshot(c, m.version)
        ELSE /\ client' = c
             /\ UNCHANGED <<disk, history>>
  /\ UNCHANGED <<server, listens, breaks>>

\* The aggregator ends with the stream, and so does what is under way.  A view
\* is not current any more if the failure makes the client go offline.
OnWatchStreamClose(c, offline) ==
  LET d == [c EXCEPT !.stream = "closed", !.target = NewTarget, !.mismatch = FALSE,
                     !.sent = <<>>, !.inbox = <<>>]
  IN IF d.listening THEN StartWatchStream([d EXCEPT !.view.current = @ /\ ~offline]) ELSE d

StreamCloses ==
  /\ client.stream # "closed"
  /\ breaks < MaxBreaks
  /\ breaks' = breaks + 1
  /\ \E offline \in BOOLEAN : client' = OnWatchStreamClose(client, offline)
  /\ served' = 0
  /\ UNCHANGED <<results, disk, history, listens>>

Idle ==
  [listening |-> FALSE, token |-> NoToken, stored |-> NoToken, stream |-> "closed",
   view |-> [keys |-> {}, current |-> FALSE], target |-> NewTarget, mismatch |-> FALSE,
   sent |-> <<>>, inbox |-> <<>>]

Relaunch ==
  /\ breaks < MaxBreaks
  /\ breaks' = breaks + 1
  /\ client' = Idle
  /\ served' = 0
  /\ UNCHANGED <<results, disk, history, listens>>

-----------------------------------------------------------------------------
(* The server.                                                               *)

Message == [kind |-> "", key |-> "", version |-> 0, count |-> 0]
About(kind) == <<[Message EXCEPT !.kind = kind]>>
AboutKeys(kind, K) ==
  LET order == SetToSeq(K)
  IN [i \in DOMAIN order |-> [Message EXCEPT !.kind = kind, !.key = order[i]]]
AtVersion(kind, v) == <<[Message EXCEPT !.kind = kind, !.version = v]>>
FilterAt(v) == <<[Message EXCEPT !.kind = "filter", !.count = Cardinality(results[v])]>>
UpTo(v, extra) == AtVersion("current", v) \o extra \o AtVersion("snapshot", v)

\* What changed since the token: removals are sent one by one, or left to a
\* filter, or the target is reset.  Documents that stay may be sent again, and
\* a filter may come though nothing was removed.
Resumed(r, v) ==
  LET gone == results[r] \ results[v]
      new == AboutKeys("in", results[v] \ results[r])
      again == AboutKeys("in", results[v])
      kept == IF gone = {} THEN <<>> ELSE FilterAt(v)
  IN { new \o AboutKeys("out", gone) \o UpTo(v, <<>>),
       new \o UpTo(v, FilterAt(v)),
       again \o UpTo(v, kept),
       About("reset") \o again \o UpTo(v, <<>>) }

Served(r, v) == IF r = NoToken THEN {AboutKeys("in", results[v]) \o UpTo(v, <<>>)} ELSE Resumed(r, v)

ResultChanges(K) ==
  /\ Len(results) < MaxVersions
  /\ K # Last(results)
  /\ results' = Append(results, K)
  /\ UNCHANGED <<served, client, disk, history, listens, breaks>>

\* A server may lag, but not behind what the token says was seen.
ServerWatches(v) ==
  /\ client.sent # <<>>
  /\ Head(client.sent).kind = "watch"
  /\ v >= Head(client.sent).token
  /\ served' = v
  /\ \E batch \in Served(Head(client.sent).token, v) :
       client' = [client EXCEPT !.sent = Tail(@), !.inbox = @ \o About("added") \o batch]
  /\ UNCHANGED <<results, disk, history, listens, breaks>>

ServerUnwatches ==
  /\ client.sent # <<>>
  /\ Head(client.sent).kind = "unwatch"
  /\ served' = 0
  /\ client' = [client EXCEPT !.sent = Tail(@), !.inbox = @ \o About("removed")]
  /\ UNCHANGED <<results, disk, history, listens, breaks>>

ServerUpdates ==
  /\ served \in 1..(Len(results) - 1)
  /\ Len(client.inbox) < MaxMessages
  /\ LET v == served + 1
     IN /\ served' = v
        /\ client' = [client EXCEPT
             !.inbox = @ \o AboutKeys("in", results[v] \ results[served])
                         \o AboutKeys("out", results[served] \ results[v])
                         \o AtVersion("snapshot", v)]
  /\ UNCHANGED <<results, disk, history, listens, breaks>>

-----------------------------------------------------------------------------

Init ==
  /\ results \in {<<K>> : K \in SUBSET Keys}
  /\ served = 0
  /\ client = Idle
  /\ disk = [keys |-> {}, token |-> NoToken, seen |-> 0]
  /\ shown = 0
  /\ unmended = FALSE
  /\ spoilt = FALSE
  /\ listens = 0
  /\ breaks = 0

Next ==
  \/ ListenStarts
  \/ ListenEnds
  \/ OnWatchStreamOpen
  \/ OnWatchStreamChange
  \/ StreamCloses
  \/ Relaunch
  \/ \E K \in SUBSET Keys : ResultChanges(K)
  \/ \E v \in 1..Len(results) : ServerWatches(v)
  \/ ServerUnwatches
  \/ ServerUpdates

Spec == Init /\ [][Next]_vars

\* The stream opens, messages are handled, and the server reads and sends.
FairSpec ==
  /\ Spec
  /\ WF_vars(OnWatchStreamOpen)
  /\ WF_vars(OnWatchStreamChange)
  /\ WF_vars(\E v \in 1..Len(results) : ServerWatches(v))
  /\ WF_vars(ServerUnwatches)
  /\ WF_vars(ServerUpdates)

-----------------------------------------------------------------------------
(* Properties.                                                               *)

\* Every variable has its type.
TypeOK ==
  /\ results \in Seq(SUBSET Keys) /\ Len(results) \in 1..MaxVersions
  /\ {served, shown, disk.token, disk.seen, client.token, client.stored} \subseteq 0..Len(results)
  /\ disk.keys \subseteq Keys
  /\ listens \in 0..MaxListens /\ breaks \in 0..MaxBreaks
  /\ client.stream \in {"closed", "starting", "open"}
  /\ client.listening \in BOOLEAN /\ client.mismatch \in BOOLEAN
  /\ client.view \in [keys : SUBSET Keys, current : BOOLEAN]
  /\ client.target.changes \in [Keys -> {"none", "added", "modified", "removed"}]
  /\ client.target.due \in Nat
  /\ {unmended, spoilt} \subseteq BOOLEAN

\* A view that counts as current shows exactly the documents that the query had
\* on the server at the last snapshot, though messages of earlier listens were
\* under way, removals were left to a filter or the query was resumed.  Two cases
\* after a filter mismatch are excepted, in which the code keeps what it should
\* not: a listen that begins before the mismatch is mended, and documents that come
\* before the snapshot with which the target is dropped and asked for anew.
CurrentIsExact ==
  client.listening /\ client.view.current /\ ~spoilt =>
    shown > 0 /\ client.view.keys = results[shown]

\* Of AggregatorInStep: the answers due are those under way, one for each request
\* not read yet and for each added or removed in the inbox.
DueIsUnderWay ==
  client.stream = "open" =>
    client.target.due =
      Len(client.sent)
        + Cardinality({i \in DOMAIN client.inbox : client.inbox[i].kind \in {"added", "removed"}})

\* Of AggregatorInStep: changes that wait for a snapshot fit the view they will be
\* applied to.
ChangesFitView ==
  IsActiveTarget(client) =>
    /\ With("added", client.target.changes) \cap client.view.keys = {}
    /\ With("modified", client.target.changes) \cup With("removed", client.target.changes)
         \subseteq client.view.keys

\* Messages name a target and not a listen, yet none that answers or belongs to an
\* earlier listen is taken for another's, and no assertion fails when what was
\* gathered is applied to the view.
AggregatorInStep == DueIsUnderWay /\ ChangesFitView

\* What the view was told is on disk too: a listen that ends or a process that
\* is killed loses nothing that the resume token on disk speaks for.
DiskFollowsView == client.listening => disk.keys = client.view.keys

\* Who goes on listening sees the server's latest result some day.
ListenerCatchesUp ==
  client.listening ~>
    (~client.listening \/ spoilt \/ (client.view.current /\ client.view.keys = Last(results)))
=============================================================================
