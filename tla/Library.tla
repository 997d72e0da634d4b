------------------------------ MODULE Library -------------------------------
(***************************************************************************)
(* The users' saved recipes and meal plans: the Firestore documents, the   *)
(* lists RecipeController and MealPlanController keep of them, the screens *)
(* that add, delete and combine them, and who is logged in on the device.  *)
(*                                                                         *)
(* Handlers run on the main thread, one action each.  A fetch takes three  *)
(* steps: the request, the answer computed on Firestore's own queue from   *)
(* the documents and the writes queued so far, and the callback on the     *)
(* main thread; the user goes on tapping between them.  A write is in the  *)
(* documents as soon as it is queued, as Firestore's local cache has it.   *)
(*                                                                         *)
(* A login presents new tabs, whose home screen queues a block on the main *)
(* thread; until it runs, the lists are those the logout left.  UIKit      *)
(* takes no taps while it presents the tabs, so the user taps after it.    *)
(* What the home screen shows meanwhile is in HomeTable.                   *)
(*                                                                         *)
(* A fetch asks for the documents of all users and keeps those of whoever  *)
(* is logged in when it is answered.  The fetches of an earlier login may  *)
(* still be under way; those of one collection are answered in order.      *)
(*                                                                         *)
(* Limit: an object is known by what it holds.  The second callback in one *)
(* selection would put objects without ticks in the place of ticked ones,  *)
(* so fetches overlap only if the user waits for them.                     *)
(***************************************************************************)
EXTENDS Integers, Sequences, FiniteSets, SequencesExt

CONSTANTS
  Users,        \* who logs in on the device
  Recipes,      \* recipes the search offers
  Uids,         \* UUIDs of recipe documents
  PlanIds,      \* UUIDs of meal plans and of their documents
  NoUid,        \* the uid of a recipe decoded from the search service
  NoDoc,        \* no meal plan document
  MaxRecipes,   \* bound on the length of savedRecipes
  MaxPlans,     \* bound on the length of mealPlans
  MaxFetches,   \* bound on the fetches of one collection under way
  MaxSignIns,   \* bound on the logins after a logout
  StoreFaults,  \* TRUE: a Firestore call may report an error
  FetchFirst    \* TRUE: the user waits for the fetches before tapping

ASSUME NoUidAssumption == NoUid \notin Uids /\ NoDoc \notin PlanIds
ASSUME LibraryBounds == {MaxRecipes, MaxPlans, MaxSignIns} \subseteq Nat /\ MaxFetches \in Nat \ {0}
ASSUME LibrarySwitches == StoreFaults \in BOOLEAN /\ FetchFirst \in BOOLEAN
ASSUME OverlapsAreWaitedFor == MaxFetches > 1 => FetchFirst

VARIABLES
  user,          \* UserController.shared.currentUser
  loading,       \* TRUE: the block of loadUserData is queued on the main thread
  recipeDocs,    \* recipeContainer: uid -> stored recipe
  planDocs,      \* mealPlanContainer: document id -> stored plan
  savedRecipes,  \* RecipeController.shared.savedRecipes
  isChecked,     \* the flag of each Recipe object of this process
  mealPlans,     \* MealPlanController.shared.mealPlans
  recipeFetches, \* the calls of fetchRecipe under way
  planFetches,   \* the calls of fetchMealPlans under way
  selection,     \* the open SelectMealPlanRecipesViewController, if any
  tab,           \* the table on screen, "other", "login", or "gone" after a crash
  rows,          \* what that table shows
  crash,         \* why the process last crashed
  signIns,       \* bound: logins so far
  stale,         \* history: objects not ticked by the open selection itself
  tapped,        \* history: objects tapped an odd number of times in it
  deleted        \* history: documents of the plans the user has deleted

session == <<user, signIns, loading>>
docVars == <<recipeDocs, planDocs>>
history == <<stale, tapped, deleted>>
vars == <<user, loading, recipeDocs, planDocs, savedRecipes, isChecked, mealPlans, recipeFetches,
          planFetches, selection, tab, rows, crash, signIns, stale, tapped, deleted>>

\* A Recipe object: one per search result, and one per document fetched.  by is
\* a history component, the user who saved it.
Object == [recipe : Recipes, uid : Uids \cup {NoUid}, by : Users]

\* A MealPlan object.  Of its recipes only their text and whether they have a
\* uid matter; doc is a history component, the document the plan is stored in.
Plan == [uid : PlanIds, recipes : Seq([recipe : Recipes, hasUid : BOOLEAN]),
         authorID : Users, doc : PlanIds \cup {NoDoc}]

Asked == [state |-> "asked", answer |-> <<>>]
Answered(docs) == [state |-> "answered", answer |-> docs]

\* Of the recipes on offer only what they are matters, not their order.
NoSelection == [open |-> FALSE, plan |-> NoDoc, checked |-> <<>>, array |-> {}]

\* UUIDs nothing refers to any more.
FreshUids == Uids \ (DOMAIN recipeDocs \cup {o.uid : o \in ToSet(savedRecipes)}
                       \cup UNION {DOMAIN f.answer : f \in ToSet(recipeFetches)})
FreshPlanIds == PlanIds \ (DOMAIN planDocs \cup {p.uid : p \in ToSet(mealPlans)}
                             \cup {p.doc : p \in ToSet(mealPlans)}
                             \cup {selection.plan} \cup deleted
                             \cup UNION {DOMAIN f.answer : f \in ToSet(planFetches)})

Insert(docs, id, doc) == [d \in DOMAIN docs \cup {id} |-> IF d = id THEN doc ELSE docs[d]]
Without(docs, id) == [d \in DOMAIN docs \ {id} |-> docs[d]]

\* The orders a query may return documents in.
Orders(S) == {s \in [1..Cardinality(S) -> S] : IsInjective(s)}

Fetched == recipeFetches = <<>> /\ planFetches = <<>>
\* The tabs are in front, and the block of their home screen has run.
TabsLoaded == tab \notin {"login", "gone"} /\ ~loading
Ready == TabsLoaded /\ (FetchFirst => Fetched)

\* The ids of the documents that belong to whoever is logged in.
Own(docs) == {d \in DOMAIN docs : docs[d].authorID = user}

-----------------------------------------------------------------------------
(* Launch, login, and the fetches of HomeViewController.loadUserData *)

\* What a process holds is gone with it.
Cleared ==
  /\ savedRecipes' = <<>> /\ mealPlans' = <<>>
  /\ isChecked' = [o \in Object |-> FALSE]
  /\ selection' = NoSelection
  /\ rows' = <<>>
  /\ stale' = {} /\ tapped' = {}

Init ==
  /\ user \in Users /\ signIns = 0 /\ loading = TRUE
  /\ recipeDocs = <<>> /\ planDocs = <<>>
  /\ savedRecipes = <<>> /\ mealPlans = <<>>
  /\ isChecked = [o \in Object |-> FALSE]
  /\ recipeFetches = <<>> /\ planFetches = <<>>
  /\ selection = NoSelection
  /\ tab = "other" /\ rows = <<>>
  /\ crash = "none"
  /\ stale = {} /\ tapped = {} /\ deleted = {}

\* The app is launched, again perhaps, and reaches the home screen, or the login
\* screen after a logout.
Relaunch ==
  /\ Cleared
  /\ recipeFetches' = <<>> /\ planFetches' = <<>>
  /\ tab' = IF tab = "login" THEN "login" ELSE "other"
  /\ loading' = (tab # "login")
  /\ crash' = "none"
  /\ UNCHANGED <<user, signIns, recipeDocs, planDocs, deleted>>

\* A handler traps: the process is gone until the next Relaunch.
Crashed(cause) ==
  /\ Cleared
  /\ recipeFetches' = <<>> /\ planFetches' = <<>>
  /\ tab' = "gone" /\ loading' = FALSE
  /\ crash' = cause
  /\ UNCHANGED <<user, signIns, deleted>>

\* The login screen covers the tabs.  The lists and the fetches stay.
logoutButtonTapped ==
  /\ TabsLoaded
  /\ tab' = "login" /\ rows' = <<>>
  /\ selection' = NoSelection /\ stale' = {} /\ tapped' = {}
  /\ UNCHANGED <<session, recipeDocs, planDocs, savedRecipes, isChecked, mealPlans,
                 recipeFetches, planFetches, crash, deleted>>

\* New tabs are presented.  The lists and the fetches are still those that the
\* logout left, behind the tabs now.
SignIn(u) ==
  /\ tab = "login"
  /\ signIns < MaxSignIns
  /\ signIns' = signIns + 1
  /\ user' = u
  /\ tab' = "other"
  /\ loading' = TRUE
  /\ UNCHANGED <<recipeDocs, planDocs, savedRecipes, isChecked, mealPlans, recipeFetches,
                 planFetches, selection, rows, crash, history>>

\* Mutant: the lists stay as they are until the fetches are answered.
Mut_emptied == UNCHANGED <<savedRecipes, mealPlans>>

\* fetchRecipe and fetchMealPlans empty the lists before they ask.
emptied == savedRecipes' = <<>> /\ mealPlans' = <<>>

\* The block runs.
loadUserData ==
  /\ loading
  /\ Len(recipeFetches) < MaxFetches /\ Len(planFetches) < MaxFetches
  /\ loading' = FALSE
  /\ emptied
  /\ recipeFetches' = Append(recipeFetches, Asked)
  /\ planFetches' = Append(planFetches, Asked)
  /\ UNCHANGED <<user, signIns, recipeDocs, planDocs, isChecked, selection, tab, rows, crash,
                 history>>

\* The first call not answered yet is.
FirstAnswered(fetches, docs) ==
  LET i == SelectInSeq(fetches, LAMBDA f : f = Asked)
  IN IF i = 0 THEN fetches ELSE [fetches EXCEPT ![i] = Answered(docs)]

AnswerRecipes ==
  /\ Asked \in ToSet(recipeFetches)
  /\ recipeFetches' = FirstAnswered(recipeFetches, recipeDocs)
  /\ UNCHANGED <<session, recipeDocs, planDocs, savedRecipes, isChecked, mealPlans,
                 planFetches, selection, tab, rows, crash, history>>

AnswerPlans ==
  /\ Asked \in ToSet(planFetches)
  /\ planFetches' = FirstAnswered(planFetches, planDocs)
  /\ UNCHANGED <<session, recipeDocs, planDocs, savedRecipes, isChecked, mealPlans,
                 recipeFetches, selection, tab, rows, crash, history>>

IsAnswered(fetches) == fetches # <<>> /\ Head(fetches) # Asked

\* The saved list becomes the user's documents in the answer, as new objects
\* with the flags they were stored with.  The recipe book is not reloaded.
fetchRecipeCallback ==
  /\ IsAnswered(recipeFetches)
  /\ LET docs == Head(recipeFetches).answer
         object(u) == [recipe |-> docs[u].recipe, uid |-> u, by |-> docs[u].authorID]
         fetched == {object(u) : u \in Own(docs)}
     IN  /\ \E order \in Orders(Own(docs)) :
              savedRecipes' = [i \in DOMAIN order |-> object(order[i])]
         /\ isChecked' = [o \in Object |-> IF o \in fetched THEN docs[o.uid].isChecked
                                                            ELSE isChecked[o]]
         /\ stale' = IF selection.open
                      THEN {o \in stale : o \notin fetched}
                             \cup {o \in fetched : docs[o.uid].isChecked}
                      ELSE stale
  /\ recipeFetches' = Tail(recipeFetches)
  /\ UNCHANGED <<session, recipeDocs, planDocs, mealPlans, planFetches, selection, tab, rows,
                 crash, tapped, deleted>>

\* A plan is decoded with its document's id; its recipes all have uids.
decodedPlan(d, stored) ==
  [uid |-> d, doc |-> d, authorID |-> stored.authorID,
   recipes |-> [k \in DOMAIN stored.recipes |-> [recipe |-> stored.recipes[k], hasUid |-> TRUE]]]

fetchMealPlansCallback ==
  /\ IsAnswered(planFetches)
  /\ LET docs == Head(planFetches).answer
     IN \E order \in Orders(Own(docs)) :
          mealPlans' = [i \in DOMAIN order |-> decodedPlan(order[i], docs[order[i]])]
  /\ planFetches' = Tail(planFetches)
  /\ UNCHANGED <<session, recipeDocs, planDocs, savedRecipes, isChecked, recipeFetches,
                 selection, tab, rows, crash, history>>

\* The query reports an error: the list stays as the request left it.
FetchFails ==
  /\ StoreFaults
  /\ \/ /\ Asked \in ToSet(recipeFetches)
        /\ recipeFetches' = RemoveFirst(recipeFetches, Asked)
        /\ UNCHANGED planFetches
     \/ /\ Asked \in ToSet(planFetches)
        /\ planFetches' = RemoveFirst(planFetches, Asked)
        /\ UNCHANGED recipeFetches
  /\ UNCHANGED <<session, recipeDocs, planDocs, savedRecipes, isChecked, mealPlans, selection,
                 tab, rows, crash, history>>

-----------------------------------------------------------------------------
(* The recipe book *)

\* The document gets a UUID of its own, and the flag the object has by now.
saveRecipe(o) ==
  \/ \E u \in FreshUids :
       recipeDocs' = Insert(recipeDocs, u, [recipe |-> o.recipe, isChecked |-> isChecked[o],
                                            authorID |-> user])
  \/ StoreFaults /\ UNCHANGED recipeDocs

\* The object shown joins the book and keeps uid nil.
addToRecipeBookButtonTapped(r) ==
  /\ tab = "other" /\ Ready
  /\ Len(savedRecipes) < MaxRecipes
  /\ LET o == [recipe |-> r, uid |-> NoUid, by |-> user] IN
     /\ savedRecipes' = Append(savedRecipes, o)
     /\ saveRecipe(o)
  /\ UNCHANGED <<session, planDocs, isChecked, mealPlans, recipeFetches, planFetches, selection,
                 tab, rows, crash, history>>

\* viewWillAppear reloads the table; leaving the tab is a Show of another.
Show(t, shown) ==
  /\ TabsLoaded
  /\ tab' = t /\ rows' = shown
  /\ UNCHANGED <<session, recipeDocs, planDocs, savedRecipes, isChecked, mealPlans,
                 recipeFetches, planFetches, selection, crash, history>>

ShowBook == Ready /\ Show("book", savedRecipes)
\* Mutant: the table is not reloaded when it appears.
Mut_ShowPlans == Ready /\ ~selection.open /\ Show("plans", rows)

ShowPlans == Ready /\ ~selection.open /\ Show("plans", mealPlans)
ShowOther == tab # "other" /\ Show("other", <<>>)

\* Mutant: only the local list forgets it.
Mut_DocDeleted(docs, id) == {docs}

\* document(id).delete() does nothing when there is no such document.
DocDeleted(docs, id) == {Without(docs, id)} \cup (IF StoreFaults THEN {docs} ELSE {})

\* A swipe on row i acts on savedRecipes[i], whatever the row shows.  UIKit
\* then insists on one row fewer than it had, and the trap may come before the
\* deletion leaves Firestore's queue.
DeleteRecipeRow(i) ==
  /\ tab = "book" /\ i \in 1..Len(rows)
  /\ UNCHANGED planDocs
  /\ \/ i > Len(savedRecipes) /\ Crashed("rows") /\ UNCHANGED recipeDocs
     \/ /\ i <= Len(savedRecipes) /\ savedRecipes[i].uid = NoUid
        /\ Crashed("nilUid") /\ UNCHANGED recipeDocs
     \/ /\ i <= Len(savedRecipes) /\ savedRecipes[i].uid # NoUid
        /\ Len(savedRecipes) # Len(rows) /\ Crashed("rows")
        /\ recipeDocs' \in {recipeDocs, Without(recipeDocs, savedRecipes[i].uid)}
     \/ /\ Len(savedRecipes) = Len(rows) /\ savedRecipes[i].uid # NoUid
        /\ recipeDocs' \in DocDeleted(recipeDocs, savedRecipes[i].uid)
        /\ savedRecipes' = RemoveAt(savedRecipes, i)
        /\ rows' = RemoveAt(rows, i)
        /\ UNCHANGED <<session, isChecked, mealPlans, recipeFetches, planFetches, selection, tab,
                       crash, history>>

-----------------------------------------------------------------------------
(* Making a meal plan *)

\* In the list before it has recipes or a document.
newPlan(d) == [uid |-> d, recipes |-> <<>>, authorID |-> user, doc |-> NoDoc]

\* The date screen, once endDate > startDate: the new plan is listed, and the
\* selection opens on all saved recipes.
createMealPlan ==
  /\ tab = "other" /\ Ready /\ ~selection.open
  /\ Len(mealPlans) < MaxPlans
  /\ \E d \in FreshPlanIds :
       /\ mealPlans' = Append(mealPlans, newPlan(d))
       /\ selection' = [open |-> TRUE, plan |-> d, checked |-> <<>>, array |-> ToSet(savedRecipes)]
  /\ stale' = {o \in Object : isChecked[o]}
  /\ tapped' = {}
  /\ UNCHANGED <<session, recipeDocs, planDocs, savedRecipes, isChecked, recipeFetches, planFetches,
                 tab, rows, crash, deleted>>

\* Typing in the search field: the matches among the recipes now saved.
searchBarTextDidChange ==
  /\ tab = "other" /\ selection.open
  /\ \E matches \in SUBSET Recipes :
       selection' = [selection EXCEPT !.array = {o \in ToSet(savedRecipes) : o.recipe \in matches}]
  /\ UNCHANGED <<session, recipeDocs, planDocs, savedRecipes, isChecked, mealPlans, recipeFetches,
                 planFetches, tab, rows, crash, history>>

\* Mutant: the recipe stays in checkedRecipes.
Mut_Unticked(checked, o) == checked

Unticked(checked, o) ==
  RemoveAt(checked, CHOOSE i \in DOMAIN checked :
                      checked[i] = o /\ \A j \in DOMAIN checked : checked[j] = o => i <= j)

\* A tap on the box of o's row.  A ticked object that this selection did not tick is
\* not found in checkedRecipes, and the handler returns.
toggleRecipeChecked(o) ==
  /\ tab = "other" /\ selection.open /\ o \in selection.array
  /\ \/ /\ ~isChecked[o]
        /\ selection' = [selection EXCEPT !.checked = Append(@, o)]
        /\ isChecked' = [isChecked EXCEPT ![o] = TRUE]
     \/ /\ isChecked[o] /\ o \in ToSet(selection.checked)
        /\ selection' = [selection EXCEPT !.checked = Unticked(@, o)]
        /\ isChecked' = [isChecked EXCEPT ![o] = FALSE]
     \/ /\ isChecked[o] /\ o \notin ToSet(selection.checked)
        /\ UNCHANGED <<selection, isChecked>>
  /\ tapped' = IF o \in tapped THEN tapped \ {o} ELSE tapped \cup {o}
  /\ UNCHANGED <<session, recipeDocs, planDocs, savedRecipes, mealPlans, recipeFetches, planFetches,
                 tab, rows, crash, stale, deleted>>

encodedRecipes(checked) == [k \in DOMAIN checked |-> checked[k].recipe]

\* Stored under another fresh UUID, or refused.
saveMealPlan(d, checked) ==
  \/ /\ d # NoDoc
     /\ planDocs' = Insert(planDocs, d, [recipes |-> encodedRecipes(checked), authorID |-> user])
  \/ d = NoDoc /\ StoreFaults /\ UNCHANGED planDocs

Filled(p, d, checked) ==
  [p EXCEPT !.doc = d, !.recipes = [k \in DOMAIN checked |-> [recipe |-> checked[k].recipe,
                                                             hasUid |-> checked[k].uid # NoUid]]]

\* The plan gets the selection and is stored.
saveRecipesButtonTapped ==
  /\ tab = "other" /\ selection.open
  /\ \E d \in FreshPlanIds \cup {NoDoc} :
       /\ saveMealPlan(d, selection.checked)
       /\ mealPlans' = [i \in DOMAIN mealPlans |->
            IF mealPlans[i].uid = selection.plan THEN Filled(mealPlans[i], d, selection.checked)
                                                 ELSE mealPlans[i]]
  /\ selection' = NoSelection /\ stale' = {} /\ tapped' = {}
  /\ UNCHANGED <<session, recipeDocs, savedRecipes, isChecked, recipeFetches, planFetches, tab, rows,
                 crash, deleted>>

\* The user leaves the selection for the list of plans; the plan stays listed.
AbandonSelection ==
  /\ tab = "other" /\ selection.open
  /\ selection' = NoSelection /\ stale' = {} /\ tapped' = {}
  /\ UNCHANGED <<session, recipeDocs, planDocs, savedRecipes, isChecked, mealPlans, recipeFetches,
                 planFetches, tab, rows, crash, deleted>>

-----------------------------------------------------------------------------
(* The list of plans *)

\* A swipe on row i: the document named by the plan's own UUID is deleted.
DeletePlanRow(i) ==
  /\ tab = "plans" /\ i \in 1..Len(rows)
  /\ UNCHANGED recipeDocs
  /\ \/ i > Len(mealPlans) /\ Crashed("rows") /\ UNCHANGED planDocs
     \/ /\ i <= Len(mealPlans) /\ Len(mealPlans) # Len(rows) /\ Crashed("rows")
        /\ planDocs' \in {planDocs, Without(planDocs, mealPlans[i].uid)}
     \/ /\ Len(mealPlans) = Len(rows)
        /\ planDocs' \in DocDeleted(planDocs, mealPlans[i].uid)
        /\ mealPlans' = RemoveAt(mealPlans, i)
        /\ rows' = RemoveAt(rows, i)
        /\ deleted' = deleted \cup ({mealPlans[i].doc} \ {NoDoc})
        /\ UNCHANGED <<session, savedRecipes, isChecked, recipeFetches, planFetches, selection, tab,
                       crash, stale, tapped>>

\* The date picker of a recipe of plan i.  What it writes to, a meal plan
\* document named by a recipe's uid, never exists; without a uid it traps.
DatePickerTraps(i) ==
  /\ tab = "plans" /\ i \in 1..Len(rows) /\ i <= Len(mealPlans)
  /\ \E k \in 1..Len(mealPlans[i].recipes) : ~mealPlans[i].recipes[k].hasUid
  /\ Crashed("nilUid") /\ UNCHANGED docVars

UserStep ==
  \/ \E r \in Recipes : addToRecipeBookButtonTapped(r)
  \/ ShowBook \/ ShowPlans \/ ShowOther
  \/ \E i \in 1..MaxRecipes : DeleteRecipeRow(i)
  \/ \E o \in Object : toggleRecipeChecked(o)
  \/ createMealPlan \/ searchBarTextDidChange \/ saveRecipesButtonTapped \/ AbandonSelection
  \/ \E i \in 1..MaxPlans : DeletePlanRow(i) \/ DatePickerTraps(i)

FetchStep ==
  AnswerRecipes \/ AnswerPlans \/ fetchRecipeCallback \/ fetchMealPlansCallback \/ FetchFails

Next ==
  \/ Relaunch
  \/ logoutButtonTapped
  \/ \E u \in Users : SignIn(u)
  \/ loadUserData
  \/ UserStep
  \/ FetchStep

Spec == Init /\ [][Next]_vars

-----------------------------------------------------------------------------
(* Properties *)

PlanRecipe == [recipe : Recipes, hasUid : BOOLEAN]
RecipeDoc == [recipe : Recipes, isChecked : BOOLEAN, authorID : Users]
PartialFunctions(S, T) == UNION {[D -> T] : D \in SUBSET S}

\* The variables hold what their declarations say.
TypeOK ==
  /\ recipeDocs \in PartialFunctions(Uids, RecipeDoc)
  /\ DOMAIN planDocs \subseteq PlanIds
  /\ \A d \in DOMAIN planDocs : planDocs[d] \in [recipes : Seq(Recipes), authorID : Users]
  /\ savedRecipes \in Seq(Object)
  /\ isChecked \in [Object -> BOOLEAN]
  /\ mealPlans \in Seq(Plan)
  /\ \A f \in ToSet(recipeFetches \o planFetches) : f = Asked \/ f.state = "answered"
  /\ Len(recipeFetches) <= MaxFetches /\ Len(planFetches) <= MaxFetches
  /\ selection.open \in BOOLEAN /\ selection.plan \in PlanIds \cup {NoDoc}
  /\ selection.checked \in Seq(Object) /\ selection.array \subseteq Object
  /\ user \in Users /\ signIns \in 0..MaxSignIns /\ loading \in BOOLEAN
  /\ tab \in {"book", "plans", "other", "login", "gone"}
  /\ rows \in Seq(IF tab = "book" THEN Object ELSE Plan)
  /\ crash \in {"none", "rows", "nilUid"}
  /\ stale \subseteq Object /\ tapped \subseteq Object /\ deleted \subseteq PlanIds

\* What a selection holds, whatever was tapped, searched, added or fetched
\* while it was open: each recipe tapped an odd number of times, once, except
\* those that some earlier selection or a stored flag had left ticked.
SelectionExact ==
  selection.open => /\ ToSet(selection.checked) = tapped \ stale
                    /\ IsInjective(selection.checked)

\* Of ListsAreComplete: a plan's own UUID tells it from every other plan in the
\* list, so the plan found by firstIndex(of:) is the one that was swiped.
PlanUidsDistinct == IsInjective([i \in DOMAIN mealPlans |-> mealPlans[i].uid])

\* If the user waits for the fetches, a table shows what its list holds: a
\* swipe deletes the row it is made on and the row counts always agree.
RowsCurrent ==
  /\ tab = "book" => rows = savedRecipes
  /\ tab = "plans" => rows = mealPlans
  /\ crash # "rows"

\* Once the block of loadUserData has run, the lists hold nothing that another user
\* of the device saved, though they outlive a logout, and an earlier user's fetches
\* are answered late, before the block or after it, or fail.
ListsAreOwn ==
  TabsLoaded =>
    /\ \A o \in ToSet(savedRecipes) : o.by = user
    /\ \A p \in ToSet(mealPlans) : p.authorID = user

\* Of ListsAreComplete: the saved list and the user's stored documents hold the
\* same recipes, each as often.
BookIsComplete ==
  recipeFetches = <<>> /\ TabsLoaded =>
    \A r \in Recipes :
      Cardinality({i \in DOMAIN savedRecipes : savedRecipes[i].recipe = r})
        = Cardinality({u \in Own(recipeDocs) : recipeDocs[u].recipe = r})

\* Of ListsAreComplete: every plan the user has stored and not deleted is in the
\* list with the recipes it is stored with, and what is listed as stored is stored.
PlanListComplete ==
  planFetches = <<>> /\ TabsLoaded =>
    /\ \A d \in Own(planDocs) \ deleted :
         \E p \in ToSet(mealPlans) :
           p.doc = d /\ planDocs[d].recipes = [k \in DOMAIN p.recipes |-> p.recipes[k].recipe]
    /\ \A p \in ToSet(mealPlans) : p.doc \in Own(planDocs) \cup {NoDoc}

\* Once the fetches are answered, the book and the list of plans are what the
\* user has stored, each thing once, though every save and deletion updates the
\* list and the collection by hand, plans go by two UUIDs, and others have stored
\* theirs in the same collections.
ListsAreComplete == PlanUidsDistinct /\ BookIsComplete /\ PlanListComplete
=============================================================================
