--------------------------- MODULE MCRecipeSearch ---------------------------
(* Small instances of RecipeSearch: two terms that share a recipe, at        *)
(* different rows and among a different number of hits.  The tabs are        *)
(* interchangeable.                                                          *)
EXTENDS RecipeSearch

CONSTANTS r1, r2, soup, cake

MCHits == (soup :> <<r1, r2>>) @@ (cake :> <<r2>>)
MCRandomHits == {{}, {r1}}
Symmetry == Permutations(Screens)
=============================================================================
