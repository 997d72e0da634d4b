------------------------------ MODULE HomeTable ------------------------------
(***************************************************************************)
(* The table of recently saved recipes on the home screen, and the images  *)
(* its cells fetch.                                                        *)
(*                                                                         *)
(* reloadData counts the sections at once and draws the cells later, when  *)
(* the run loop lays the screen out: other blocks of the main thread may   *)
(* run in between, and loadUserData empties the saved recipes without a    *)
(* reload.  Cells are reused.  A tap opens a recipe from the slice that    *)
(* was remembered when the cells were last drawn.                          *)
(*                                                                         *)
(* From one login to the next: the saved recipes of Init may be those of   *)
(* an earlier login, none of whose fetches is outstanding.                 *)
(***************************************************************************)
EXTENDS Integers, Sequences, FiniteSets, SequencesExt

CONSTANTS
  Recipes,
  Cells,        \* the reusable cell objects
  StoredLists,  \* what the fetch of the saved recipes may return
  Mock,         \* the recipe "Your saved recipes will go here!"
  None,         \* nothing shown yet
  Shown,        \* how many recipes the table shows: 3 in the code
  MaxSaved,     \* bound on the saved recipes
  MaxImages     \* bound on the image fetches in flight

ASSUME StoredAssumption == StoredLists \subseteq Seq(Recipes)
ASSUME HomeNames == {Mock, None} \cap Recipes = {}
ASSUME HomeBounds == Shown \in Nat \ {0} /\ MaxSaved \in Nat /\ MaxImages \in Nat

VARIABLES
  savedRecipes,          \* RecipeController.shared.savedRecipes
  recentlySavedRecipes,  \* HomeViewController.recentlySavedRecipes
  sections,              \* the number of sections counted by the last reload
  table,                 \* the cell of each section; none before they are drawn
  cell,                  \* what each cell shows, and whether it takes taps
  images,                \* image fetches in flight
  load,                  \* loadUserData: "queued", "asked" or "done"
  home,                  \* TRUE while the home screen is in front
  trapped,               \* a row number was out of range
  awry                   \* history: since they were last drawn, these cells had an image
                         \* fail, or overtake an older one

vars == <<savedRecipes, recentlySavedRecipes, sections, table, cell, images, load, home,
          trapped, awry>>

\* Mutant: one too many.
Mut_Recent(list) == SubSeq(list, IF Len(list) > Shown THEN Len(list) - Shown ELSE 1, Len(list))

\* suffix(3)
Recent(list) == SubSeq(list, IF Len(list) > Shown THEN Len(list) - Shown + 1 ELSE 1, Len(list))

Init ==
  /\ savedRecipes \in StoredLists \cup {<<>>}
  /\ recentlySavedRecipes = <<>>
  /\ sections = 0 /\ table = <<>>
  /\ cell = [c \in Cells |-> [recipe |-> None, image |-> None, enabled |-> TRUE]]
  /\ images = <<>>
  /\ load = "queued" /\ home = FALSE /\ trapped = FALSE
  /\ awry = {}

\* reloadData: sections are counted, and the drawn cells may be used again.
reloadData(list) == sections' = Len(Recent(list)) /\ table' = <<>>

-----------------------------------------------------------------------------
(* Main thread *)

viewWillAppear ==
  /\ ~home /\ ~trapped
  /\ home' = TRUE
  /\ reloadData(savedRecipes)
  /\ UNCHANGED <<savedRecipes, recentlySavedRecipes, cell, images, load, trapped, awry>>

\* On other screens recipes are saved and deleted.
Away ==
  /\ ~trapped
  /\ \/ home /\ UNCHANGED savedRecipes
     \/ /\ ~home /\ Len(savedRecipes) < MaxSaved
        /\ \E r \in Recipes : savedRecipes' = Append(savedRecipes, r)
     \/ /\ ~home
        /\ \E i \in DOMAIN savedRecipes : savedRecipes' = RemoveAt(savedRecipes, i)
  /\ home' = FALSE
  /\ UNCHANGED <<recentlySavedRecipes, sections, table, cell, images, load, trapped, awry>>

\* The block of loadUserData runs: fetchRecipe empties the list, and asks.
loadUserData ==
  /\ load = "queued" /\ ~trapped
  /\ load' = "asked"
  /\ savedRecipes' = <<>>
  /\ UNCHANGED <<recentlySavedRecipes, sections, table, cell, images, home, trapped, awry>>

Fetched ==
  /\ load = "asked" /\ ~trapped
  /\ load' = "done"
  /\ \/ /\ savedRecipes' \in StoredLists
        /\ reloadData(savedRecipes')
     \/ UNCHANGED <<savedRecipes, sections, table>>
  /\ UNCHANGED <<recentlySavedRecipes, cell, images, home, trapped, awry>>

\* Mutant: the new slice is not remembered.
Mut_remember(list) == IF recentlySavedRecipes = <<>> THEN list ELSE recentlySavedRecipes

remember(list) == list

\* A cell that is given a recipe asks for its image, and keeps what it has
\* until the image comes; taps once switched off stay so.
Drawn(old, r) == [old EXCEPT !.recipe = r]
DrawnMock(old) == [recipe |-> Mock, image |-> Mock, enabled |-> FALSE]

\* Layout: every section counted gets a cell, new or used before.  A section
\* past the end of the slice traps.
cellForRowAt ==
  /\ home /\ ~trapped
  /\ sections > 0 /\ table = <<>>
  /\ \E t \in [1..sections -> Cells] :
       LET recent == Recent(savedRecipes)
           at(c)  == CHOOSE i \in 1..sections : t[i] = c
           isReal == recent # <<>> IN
       /\ IsInjective(t)
       /\ trapped' = (isReal /\ sections > Len(recent))
       /\ ~trapped' =>
            /\ isReal => Len(images) + sections <= MaxImages
            /\ table' = t
            /\ cell' = [c \in Cells |-> IF c \notin Range(t) THEN cell[c]
                                       ELSE IF isReal THEN Drawn(cell[c], recent[at(c)])
                                       ELSE DrawnMock(cell[c])]
            /\ images' = IF isReal
                 THEN images \o [i \in 1..sections |-> [cell |-> t[i], of |-> recent[i]]]
                 ELSE images
            /\ awry' = awry \ Range(t)
            /\ recentlySavedRecipes' =
                 IF isReal THEN remember(recent) ELSE recentlySavedRecipes
       /\ trapped' => UNCHANGED <<table, cell, images, recentlySavedRecipes, awry>>
  /\ UNCHANGED <<savedRecipes, sections, load, home>>

\* What a tap on section i opens.
didSelectRowAt(i) == recentlySavedRecipes[i]

-----------------------------------------------------------------------------
(* Images *)

\* Mutant: a cell that has an image keeps it.
Mut_WithImage(old, r) == IF old.image = None THEN [old EXCEPT !.image = r] ELSE old

\* Whatever the cell shows by now.
WithImage(old, r) == [old EXCEPT !.image = r]

fetchImage(i) ==
  /\ i \in DOMAIN images /\ ~trapped
  /\ LET c == images[i].cell IN
     \/ /\ cell' = [cell EXCEPT ![c] = WithImage(@, images[i].of)]
        /\ awry' = IF \E j \in 1..(i - 1) : images[j].cell = c THEN awry \cup {c} ELSE awry
     \/ awry' = awry \cup {c} /\ UNCHANGED cell
  /\ images' = RemoveAt(images, i)
  /\ UNCHANGED <<savedRecipes, recentlySavedRecipes, sections, table, load, home, trapped>>

Next ==
  \/ viewWillAppear \/ Away \/ loadUserData \/ Fetched \/ cellForRowAt
  \/ \E i \in 1..MaxImages : fetchImage(i)

Spec == Init /\ [][Next]_vars

-----------------------------------------------------------------------------
(* Properties *)

\* The variables hold what their declarations say; no cell is in two sections.
TypeOK ==
  /\ savedRecipes \in Seq(Recipes) /\ recentlySavedRecipes \in Seq(Recipes)
  /\ sections \in 0..Shown
  /\ table \in Seq(Cells) /\ IsInjective(table) /\ Len(table) \in {0, sections}
  /\ \A c \in Cells : /\ cell[c].recipe \in Recipes \cup {Mock, None}
                      /\ cell[c].image \in Recipes \cup {Mock, None}
                      /\ cell[c].enabled \in BOOLEAN
  /\ \A i \in DOMAIN images : images[i] \in [cell : Cells, of : Recipes]
  /\ load \in {"queued", "asked", "done"} /\ home \in BOOLEAN /\ trapped \in BOOLEAN
  /\ awry \subseteq Cells

\* A tap opens the recipe its cell shows, though the saved recipes have changed
\* since the cells were drawn, or were emptied before they could be.  Drawing a
\* section never reads past the slice: a list that shrinks between the count and
\* the drawing shrinks to nothing, for which there is the mock recipe.
TapOpensWhatIsShown ==
  /\ ~trapped
  /\ \A i \in DOMAIN table :
       cell[table[i]].enabled => /\ i \in DOMAIN recentlySavedRecipes
                                 /\ didSelectRowAt(i) = cell[table[i]].recipe

\* Once no image of its is under way, a cell that shows a saved recipe has that
\* recipe's image, reused or not, unless one failed or overtook an older one.
ImagesMatch ==
  \A c \in Range(table) \ awry :
    /\ cell[c].recipe \in Recipes
    /\ \A i \in DOMAIN images : images[i].cell # c
    => cell[c].image = cell[c].recipe
=============================================================================
