---------------------------- MODULE RecipeSearch ----------------------------
(***************************************************************************)
(* Searching recipes: RecipeController.recipes, one list for the whole     *)
(* app, and the search screens that show it.  The book tab and the plan    *)
(* tab may each have a search screen open, one of them in front.           *)
(*                                                                         *)
(* A search is answered on the session's queue, which assigns the list     *)
(* there and then; a block queued for the main thread assigns it again and *)
(* reloads the table of the screen that searched.  Between the two, and    *)
(* on the other screen for good, rows and list differ, while every cell    *)
(* and every tap reads the list by row number.                             *)
(*                                                                         *)
(* The unsynchronised assignment is a step of its own: a reader sees the   *)
(* list before or after it.                                                *)
(***************************************************************************)
EXTENDS Integers, Sequences, FiniteSets, SequencesExt

CONSTANTS
  Recipes,     \* recipes the service knows
  Terms,       \* search terms
  Hits,        \* term -> the recipes the service answers with
  RandomHits,  \* sets of recipes it may answer with for the random recipe
  Screens,     \* tabs that may have a search screen open
  None,        \* no screen, no recipe, no term
  Unbound,     \* a row no cell has been drawn for
  MaxCalls     \* bound on the searches not yet shown

ASSUME HitsAssumption == Hits \in [Terms -> Seq(Recipes)] /\ RandomHits \subseteq SUBSET Recipes
ASSUME SearchNames == None \notin Recipes \cup Terms \cup Screens /\ Unbound \notin Recipes
ASSUME SearchBounds == MaxCalls \in Nat

VARIABLES
  recipes,       \* RecipeController.recipes
  open,          \* tabs with a search screen
  front,         \* the tab on screen if it is one of these
  rows,          \* per open search screen, the recipe each of its rows shows
  detail,        \* per open search screen, the recipe pushed on top of it
  asked,         \* searches not answered
  mainQueue,     \* blocks queued for the main thread by answers
  randomRecipe,  \* HomeViewController.randomRecipe
  randomAsked,   \* the home screen's own search is not answered
  crash,         \* why the process last crashed
  lastTerm,      \* history: what each screen searched last, None if it failed or was overtaken
  foreign        \* history: the list was assigned for another since its reload

screenVars == <<open, front, detail, lastTerm>>
homeVars == <<randomRecipe, randomAsked>>
vars == <<recipes, screenVars, rows, asked, mainQueue, homeVars, crash, foreign>>

\* reloadData: as many rows as the list has now, drawn later.
Reloaded(list) == [i \in DOMAIN list |-> Unbound]

\* Mutant: a closed screen is not forgotten.
Mut_Orphaned(calls, s) == calls

\* A closed screen goes on waiting for its answers, unseen.
Orphaned(calls, s) ==
  [i \in DOMAIN calls |-> IF calls[i].screen = s THEN [calls[i] EXCEPT !.screen = None]
                                                 ELSE calls[i]]

Assigned(list, s) ==
  /\ recipes' = list
  /\ foreign' = [t \in Screens |-> foreign[t] \/ t # s]

Init ==
  /\ recipes = <<>>
  /\ open = {} /\ front = None
  /\ rows = [s \in Screens |-> <<>>]
  /\ detail = [s \in Screens |-> None]
  /\ asked = <<>> /\ mainQueue = <<>>
  /\ randomRecipe = None /\ randomAsked = TRUE
  /\ crash = "none"
  /\ lastTerm = [s \in Screens |-> None]
  /\ foreign = [s \in Screens |-> FALSE]

\* What a process holds is gone with it.
Cleared ==
  /\ recipes' = <<>>
  /\ open' = {} /\ front' = None
  /\ rows' = [s \in Screens |-> <<>>]
  /\ detail' = [s \in Screens |-> None]
  /\ asked' = <<>> /\ mainQueue' = <<>>
  /\ randomRecipe' = None
  /\ lastTerm' = [s \in Screens |-> None]
  /\ foreign' = [s \in Screens |-> FALSE]

Relaunch == Cleared /\ randomAsked' = TRUE /\ crash' = "none"

\* The process is gone until the next launch.
Crashed(cause) == Cleared /\ randomAsked' = FALSE /\ crash' = cause

-----------------------------------------------------------------------------
(* The home screen's random recipe *)

\* The list is not involved.  randomElement()! traps when there are no hits.
RandomAnswered ==
  /\ randomAsked
  /\ \/ {} \in RandomHits /\ Crashed("noHits")
     \/ /\ \E r \in UNION RandomHits : randomRecipe' = r
        /\ randomAsked' = FALSE
        /\ UNCHANGED <<recipes, screenVars, rows, asked, mainQueue, crash, foreign>>

RandomFails ==
  /\ randomAsked
  /\ randomAsked' = FALSE
  /\ UNCHANGED <<recipes, screenVars, rows, asked, mainQueue, randomRecipe, crash, foreign>>

-----------------------------------------------------------------------------
(* The search screens *)

\* A new screen's table starts on the list some other search left.
OpenSearch(s) ==
  /\ crash = "none" /\ s \notin open
  /\ open' = open \cup {s} /\ front' = s
  /\ rows' = [rows EXCEPT ![s] = Reloaded(recipes)]
  /\ foreign' = [foreign EXCEPT ![s] = FALSE]
  /\ UNCHANGED <<recipes, detail, asked, mainQueue, homeVars, crash, lastTerm>>

CloseSearch ==
  /\ front # None /\ detail[front] = None
  /\ open' = open \ {front} /\ front' = None
  /\ rows' = [rows EXCEPT ![front] = <<>>]
  /\ lastTerm' = [lastTerm EXCEPT ![front] = None]
  /\ asked' = Orphaned(asked, front)
  /\ mainQueue' = Orphaned(mainQueue, front)
  /\ UNCHANGED <<recipes, detail, homeVars, crash, foreign>>

\* Another tab; coming back to a search screen does not reload it.
SwitchTab ==
  /\ crash = "none"
  /\ front' \in (open \cup {None}) \ {front}
  /\ UNCHANGED <<recipes, open, rows, detail, asked, mainQueue, homeVars, crash,
                 lastTerm, foreign>>

\* Mutant: no reload of the table that searched.
Mut_Reload ==
  /\ mainQueue # <<>>
  /\ Assigned(Head(mainQueue).hits, Head(mainQueue).screen)
  /\ mainQueue' = Tail(mainQueue)
  /\ UNCHANGED <<rows, screenVars, asked, homeVars, crash>>

\* The block an answer queued; blocks run in the order they were queued.
Reload ==
  /\ mainQueue # <<>>
  /\ LET block == Head(mainQueue) IN
     /\ recipes' = block.hits
     /\ foreign' = [t \in Screens |-> t # block.screen]
     /\ rows' = IF block.screen = None THEN rows
                ELSE [rows EXCEPT ![block.screen] = Reloaded(block.hits)]
  /\ mainQueue' = Tail(mainQueue)
  /\ UNCHANGED <<screenVars, asked, homeVars, crash>>

searchBarSearchButtonClicked(t) ==
  /\ front # None /\ detail[front] = None
  /\ Len(asked) + Len(mainQueue) < MaxCalls
  /\ asked' = Append(asked, [term |-> t, screen |-> front])
  /\ lastTerm' = [lastTerm EXCEPT ![front] = t]
  /\ UNCHANGED <<recipes, open, front, rows, detail, mainQueue, homeVars, crash, foreign>>

\* A screen whose earlier search is still out has lost track of its last one.
Overtaken(i) ==
  [s \in Screens |-> IF /\ asked[i].screen = s
                        /\ \E j \in 1..(i - 1) : asked[j].screen = s
                     THEN None ELSE lastTerm[s]]

\* Mutant: one queued reload is thought to be enough.
Mut_fetchRecipe(i) ==
  /\ i \in DOMAIN asked
  /\ LET hits == Hits[asked[i].term] IN
     /\ Assigned(hits, asked[i].screen)
     /\ mainQueue' = IF mainQueue # <<>> THEN mainQueue
                     ELSE <<[hits |-> hits, screen |-> asked[i].screen]>>
  /\ asked' = RemoveAt(asked, i)
  /\ lastTerm' = Overtaken(i)
  /\ UNCHANGED <<open, front, detail, rows, homeVars, crash>>

\* On the session's queue.
fetchRecipe(i) ==
  /\ i \in DOMAIN asked
  /\ LET hits == Hits[asked[i].term] IN
     /\ Assigned(hits, asked[i].screen)
     /\ mainQueue' = Append(mainQueue, [hits |-> hits, screen |-> asked[i].screen])
  /\ asked' = RemoveAt(asked, i)
  /\ lastTerm' = Overtaken(i)
  /\ UNCHANGED <<open, front, detail, rows, homeVars, crash>>

fetchRecipeFails(i) ==
  /\ i \in DOMAIN asked
  /\ asked' = RemoveAt(asked, i)
  /\ lastTerm' = [s \in Screens |-> IF s = asked[i].screen THEN None ELSE lastTerm[s]]
  /\ UNCHANGED <<recipes, open, front, detail, rows, mainQueue, homeVars, crash, foreign>>

\* A cell is drawn for row i of the table in front, from the list as it is.
cellForRowAt(i) ==
  /\ front # None /\ detail[front] = None /\ i \in DOMAIN rows[front]
  /\ \/ i > Len(recipes) /\ Crashed("range")
     \/ /\ i <= Len(recipes)
        /\ rows' = [rows EXCEPT ![front][i] = recipes[i]]
        /\ UNCHANGED <<recipes, screenVars, asked, mainQueue, homeVars, crash, foreign>>

\* Row i is tapped, and the list's i-th recipe pushed.
didSelectRowAt(i) ==
  /\ front # None /\ detail[front] = None
  /\ i \in DOMAIN rows[front] /\ rows[front][i] # Unbound
  /\ \/ i > Len(recipes) /\ Crashed("range")
     \/ /\ i <= Len(recipes)
        /\ detail' = [detail EXCEPT ![front] = recipes[i]]
        /\ UNCHANGED <<recipes, open, front, rows, asked, mainQueue, homeVars, crash,
                       lastTerm, foreign>>

\* Back, or the recipe is added to the book: the table is as it was left.
CloseDetail ==
  /\ front # None /\ detail[front] # None
  /\ detail' = [detail EXCEPT ![front] = None]
  /\ UNCHANGED <<recipes, open, front, rows, asked, mainQueue, homeVars, crash, lastTerm,
                 foreign>>

Next ==
  \/ Relaunch \/ RandomAnswered \/ RandomFails
  \/ (\E s \in Screens : OpenSearch(s)) \/ CloseSearch \/ SwitchTab \/ CloseDetail \/ Reload
  \/ \E t \in Terms : searchBarSearchButtonClicked(t)
  \/ \E i \in 1..MaxCalls : fetchRecipe(i) \/ fetchRecipeFails(i)
  \/ \E t \in Terms : \E i \in DOMAIN Hits[t] : cellForRowAt(i) \/ didSelectRowAt(i)

Spec == Init /\ [][Next]_vars

-----------------------------------------------------------------------------
(* Properties *)

\* The variables hold what their declarations say; a closed screen has no rows,
\* no recipe on top and no block that would reload it.
TypeOK ==
  /\ recipes \in Seq(Recipes)
  /\ open \subseteq Screens /\ front \in open \cup {None}
  /\ \A s \in Screens : /\ rows[s] \in Seq(Recipes \cup {Unbound})
                        /\ detail[s] \in Recipes \cup {None}
                        /\ lastTerm[s] \in Terms \cup {None}
                        /\ s \notin open => rows[s] = <<>> /\ detail[s] = None
  /\ \A i \in DOMAIN asked : asked[i].term \in Terms /\ asked[i].screen \in open \cup {None}
  /\ \A i \in DOMAIN mainQueue : mainQueue[i].screen \in open \cup {None}
  /\ randomRecipe \in Recipes \cup {None} /\ randomAsked \in BOOLEAN
  /\ foreign \in [Screens -> BOOLEAN]
  /\ crash \in {"none", "noHits", "range"}

\* Row by row, the table of s shows the list.
Shows(s, list) ==
  /\ Len(rows[s]) = Len(list)
  /\ \A i \in DOMAIN rows[s] : rows[s][i] \in {list[i], Unbound}

Queued(s) == \E i \in DOMAIN mainQueue : mainQueue[i].screen = s

\* A tap opens the recipe its row shows, and no row number is out of range, as
\* long as no other screen, open or closed since, has been answered and no block of
\* this one waits for the main thread: answers may overtake one another and fail.
RowsShowList == \A s \in open : ~foreign[s] /\ ~Queued(s) => Shows(s, recipes)

\* Once a screen's searches are over it shows the hits of the last one, unless
\* that failed or overtook another of its own, until another screen is answered.
LatestResults ==
  \A s \in open :
    ~foreign[s] /\ ~Queued(s) /\ lastTerm[s] # None
      /\ (\A i \in DOMAIN asked : asked[i].screen # s)
    => Shows(s, Hits[lastTerm[s]])
=============================================================================
