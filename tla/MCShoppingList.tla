--------------------------- MODULE MCShoppingList ---------------------------
(* Small instances of ShoppingList.  The two names stand for an ingredient   *)
(* line with a comma, "rice, cooked", and for "rice", the part of it that    *)
(* the edit field shows, so an edit confirmed without typing is covered.     *)
(* The batches are a plan without recipes, a recipe of one line, a recipe    *)
(* of two lines, and a plan whose recipes share a line.                      *)
EXTENDS ShoppingList

CONSTANTS rice, riceCooked

MCNames == {rice, riceCooked}
MCBatches == {<<>>, <<riceCooked>>, <<riceCooked, rice>>, <<rice, riceCooked, rice>>}
=============================================================================
