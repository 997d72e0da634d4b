--------------------------- MODULE MCFirestoreGet ---------------------------
(* Small instances of FirestoreGet.                                          *)
EXTENDS FirestoreGet, TLC
=============================================================================
