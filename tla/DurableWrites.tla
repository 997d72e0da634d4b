--------------------------- MODULE DurableWrites ----------------------------
(* What a store that works offline promises about writes.  Each user has a   *)
(* queue of writes that outlives the app.  The server applies a user's       *)
(* writes in the order in which they were made, each at least once before it *)
(* is reported as done, and nothing else.  They are settled in that order    *)
(* too, once each: done, or refused.                                         *)
EXTENDS Naturals, Sequences

CONSTANTS
  Users,
  Writes

VARIABLES
  waiting,   \* per user, the writes not settled yet
  applied,   \* what the server applied, in its order
  settled    \* per write: "none", or how it was settled

vars == <<waiting, applied, settled>>

IsApplied(w) == \E n \in 1..Len(applied) : applied[n] = w

Init ==
  /\ waiting = [u \in Users |-> <<>>]
  /\ applied = <<>>
  /\ settled = [w \in Writes |-> "none"]

Accept(u, w) ==
  /\ settled[w] = "none"
  /\ \A v \in Users : \A i \in 1..Len(waiting[v]) : waiting[v][i] # w
  /\ waiting' = [waiting EXCEPT ![u] = Append(@, w)]
  /\ UNCHANGED <<applied, settled>>

\* Again and again, if its answer is lost.
Apply(u, i) ==
  /\ \A j \in 1..(i - 1) : IsApplied(waiting[u][j])
  /\ applied' = Append(applied, waiting[u][i])
  /\ UNCHANGED <<waiting, settled>>

Settle(u, how) ==
  /\ waiting[u] # <<>>
  /\ how = "ok" => IsApplied(Head(waiting[u]))
  /\ settled' = [settled EXCEPT ![Head(waiting[u])] = how]
  /\ waiting' = [waiting EXCEPT ![u] = Tail(@)]
  /\ UNCHANGED applied

Next ==
  \E u \in Users :
    \/ \E w \in Writes : Accept(u, w)
    \/ \E i \in 1..Len(waiting[u]) : Apply(u, i)
    \/ \E how \in {"ok", "error"} : Settle(u, how)

Spec == Init /\ [][Next]_vars
=============================================================================
