------------------------- MODULE MCFirestoreWrites --------------------------
(* Small instances of FirestoreWrites.                                      *)
EXTENDS FirestoreWrites, TLC
=============================================================================
