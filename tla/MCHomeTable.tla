---------------------------- MODULE MCHomeTable -----------------------------
(* Small instances of HomeTable.  Cells are interchangeable, and recipes are *)
(* if the lists the store may return are.                                    *)
EXTENDS HomeTable

MCStoredLists == {<<>>} \cup {<<r>> : r \in Recipes} \cup {<<r, s>> : r, s \in Recipes}
Symmetry == Permutations(Cells) \cup Permutations(Recipes)
=============================================================================
