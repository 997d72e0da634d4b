----------------------------- MODULE MCLibrary ------------------------------
(* Small instances of Library.  Ids are interchangeable, and so are recipes. *)
EXTENDS Library

Symmetry == Permutations(Users) \cup Permutations(Recipes) \cup Permutations(Uids) \cup Permutations(PlanIds)
=============================================================================
