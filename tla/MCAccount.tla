----------------------------- MODULE MCAccount ------------------------------
(* Small instances of Account.                                              *)
EXTENDS Account
=============================================================================
