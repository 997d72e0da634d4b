-------------------------- MODULE MCFirestoreWatch --------------------------
(* Small instances of FirestoreWatch.                                        *)
EXTENDS FirestoreWatch
=============================================================================
