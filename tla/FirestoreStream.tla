-------------------------- MODULE FirestoreStream ---------------------------
(* The life of a stream to Firestore, which the write stream and the watch   *)
(* stream share (remote/stream.cc).  A stream is a record with at least the  *)
(* fields                                                                    *)
(*   state  where it is in its life                                          *)
(*   idle   whether the timer runs that stops it after a minute of silence   *)
(* Each operator is one method of Stream: what it makes of the record.       *)

StreamStates == {"Initial", "Starting", "Open", "Error", "Backoff"}

IsOpen(s) == s.state = "Open"
IsStarted(s) == s.state \in {"Starting", "Backoff", "Open"}

\* After an error a start waits for the backoff timer first.
Start(s) == [s EXCEPT !.state = IF @ = "Error" THEN "Backoff" ELSE "Starting"]
BackoffElapsed(s) == [s EXCEPT !.state = "Starting"]
InhibitBackoff(s) == [s EXCEPT !.state = "Initial"]
Opened(s) == [s EXCEPT !.state = "Open"]

MarkIdle(s) == IF IsOpen(s) THEN [s EXCEPT !.idle = TRUE] ELSE s

\* Mutant: the timer runs on.
Mut_Wrote(s) == s

Wrote(s) == [s EXCEPT !.idle = FALSE]

Closed(s, ok) ==
  [s EXCEPT !.state = IF ok THEN "Initial" ELSE "Error", !.idle = FALSE]
=============================================================================
