---------------------------- MODULE ShoppingList ----------------------------
(***************************************************************************)
(* The shopping list of MyMealPrep: the in-memory list of                  *)
(* ShoppingListController.shared, its JSON copy in the documents           *)
(* directory, and the table of ShoppingListViewController that shows it.   *)
(*                                                                         *)
(* Every handler runs on the main thread, so each is one action.  What     *)
(* interleaves is the user moving between screens, the saves that fail,    *)
(* and the process being ended at any point.                               *)
(*                                                                         *)
(* A table row holds a reference to a ShoppingList object, not an index.   *)
(* An object is identified by its position in listItems; a row whose       *)
(* object has left the list holds 0.  Such a row is still drawn, and taps  *)
(* on it change only its own orphaned object.                              *)
(***************************************************************************)
EXTENDS Integers, Sequences, SequencesExt

CONSTANTS
  Names,        \* item texts: ingredient lines, and what the user may type
  Batches,      \* ingredient lines of one recipe, or of a plan's recipes in order
  MaxItems,     \* bound on the length of the list
  WriteFaults,  \* TRUE: data.write may fail, or leave half a file behind
  OpenFirst     \* TRUE: the user opens the list before adding to it from elsewhere

ASSUME BatchesAssumption == Batches \subseteq Seq(Names)
ASSUME MaxItemsAssumption == MaxItems \in Nat \ {0}
ASSUME SwitchesAssumption == WriteFaults \in BOOLEAN /\ OpenFirst \in BOOLEAN

VARIABLES
  listItems,  \* ShoppingListController.shared.listItems
  cells,      \* per row of the table on screen: the position of cell.item, or 0
  file,       \* MyMealPrep.json
  screen,     \* "list" while a ShoppingListViewController is on top
  opened,     \* some ShoppingListViewController has loaded in this process
  synced      \* history: the last load or save in this process succeeded

vars == <<listItems, cells, file, screen, opened, synced>>

Item == [item : Names, isChecked : BOOLEAN]

\* An absent file and one cut short by a failed write both fail to decode.
Unreadable == [readable |-> FALSE, items |-> <<>>]
Readable(items) == [readable |-> TRUE, items |-> items]

\* Rows after reloadData: row i is bound to listItems[i].
Rebound(n) == [i \in 1..n |-> i]

\* The lines of b, each inserted at index 0 and unchecked.
Prepended(b, items) ==
  [i \in 1..Len(b) |-> [item |-> b[Len(b) + 1 - i], isChecked |-> FALSE]] \o items

-----------------------------------------------------------------------------
(* Saving *)

\* Errors are caught and printed: the caller goes on with the list in memory.
\* The write is not atomic: it may fail before or after truncating the file.
saveToPersistentStorage(items) ==
  \/ file' = Readable(items) /\ synced' = TRUE
  \/ WriteFaults /\ file' \in {file, Unreadable} /\ synced' = FALSE

\* What is on disk after one save per line of b, the last of which failed:
\* the k-th save's file, the file from before, or half a file.
StaleFiles(b, items) ==
  {file, Unreadable} \cup
    {Readable(Prepended(SubSeq(b, 1, k), items)) : k \in 1..Len(b) - 1}

saveEachLine(b, items) ==
  IF b = <<>> THEN UNCHANGED <<file, synced>>
  ELSE \/ file' = Readable(Prepended(b, items)) /\ synced' = TRUE
       \/ WriteFaults /\ file' \in StaleFiles(b, items) /\ synced' = FALSE

-----------------------------------------------------------------------------
(* Launch, navigation and termination *)

Init ==
  /\ listItems = <<>>
  /\ cells = <<>>
  /\ file = Unreadable
  /\ screen = "other"
  /\ opened = FALSE
  /\ synced = FALSE

\* Mutant: what is read is added to the list.
Mut_loadAppends(items) == IF file.readable THEN items \o file.items ELSE items

\* What memory holds after loadFromPersistence: unchanged if decoding fails.
loadFromPersistence(items) == IF file.readable THEN file.items ELSE items

\* viewDidLoad then viewWillAppear of a new controller: the list tab on its
\* first visit after a login, or one pushed from a meal plan.
OpenList ==
  /\ screen = "other"
  /\ listItems' = loadFromPersistence(listItems)
  /\ cells' = Rebound(Len(listItems'))
  /\ screen' = "list"
  /\ opened' = TRUE
  /\ synced' = file.readable
  /\ UNCHANGED file

\* viewWillAppear alone: a controller that exists comes back on top.
ReturnToList ==
  /\ screen = "other" /\ opened
  /\ screen' = "list"
  /\ cells' = Rebound(Len(listItems))
  /\ UNCHANGED <<listItems, file, opened, synced>>

\* The table is not drawn or touched again until viewWillAppear rebinds it.
LeaveList ==
  /\ screen = "list"
  /\ screen' = "other"
  /\ cells' = <<>>
  /\ UNCHANGED <<listItems, file, opened, synced>>

\* The process ends and is launched again; only the file survives.
Relaunched ==
  /\ listItems' = <<>>
  /\ cells' = <<>>
  /\ screen' = "other"
  /\ opened' = FALSE
  /\ synced' = FALSE

Relaunch == Relaunched /\ UNCHANGED file

-----------------------------------------------------------------------------
(* The list screen *)

addListItemButtonTapped(t) ==
  /\ screen = "list" /\ Len(listItems) < MaxItems
  /\ listItems' = Prepended(<<t>>, listItems)
  /\ saveEachLine(<<t>>, listItems)
  /\ cells' = Rebound(Len(listItems'))
  /\ UNCHANGED <<screen, opened>>

\* Mutant: the last namesake.
Mut_firstIndex(j, n) ==
  /\ j \in 1..Len(listItems) /\ listItems[j].item = n
  /\ \A k \in j + 1..Len(listItems) : listItems[k].item # n

\* firstIndex(of:) with the == of ShoppingList, which compares names only.
firstIndex(j, n) ==
  /\ j \in 1..Len(listItems) /\ listItems[j].item = n
  /\ \A k \in 1..j - 1 : listItems[k].item # n

\* Mutant: positions are not moved up.
Mut_Rebase(p, j) == IF p = j THEN 0 ELSE p

\* Where the object that was at position p is once position j is removed.
Rebase(p, j) == IF p = j THEN 0 ELSE IF p > j THEN p - 1 ELSE p

\* Swiping row i removes the first object named like listItems[i] from the
\* list, and row i from the table: the same one only if no namesake is above.
DeleteRow(i) ==
  /\ screen = "list" /\ i \in 1..Len(cells) /\ i <= Len(listItems)
  /\ \E j \in 1..Len(listItems) :
       /\ firstIndex(j, listItems[i].item)
       /\ listItems' = RemoveAt(listItems, j)
       /\ cells' = [r \in 1..Len(cells) - 1 |->
                      Rebase(cells[IF r < i THEN r ELSE r + 1], j)]
  /\ saveToPersistentStorage(listItems')
  /\ UNCHANGED <<screen, opened>>

\* The list with row i's object changed, if that object is still in it.
Changed(i, object) ==
  IF cells[i] = 0 THEN listItems ELSE [listItems EXCEPT ![cells[i]] = object]

\* Mutant: the tick is not saved.
Mut_toggleItemChecked(i) ==
  /\ screen = "list" /\ i \in 1..Len(cells)
  /\ listItems' = Changed(i, [listItems[cells[i]] EXCEPT !.isChecked = ~@])
  /\ UNCHANGED <<cells, file, screen, opened, synced>>

toggleItemChecked(i) ==
  /\ screen = "list" /\ i \in 1..Len(cells)
  /\ listItems' = Changed(i, [listItems[cells[i]] EXCEPT !.isChecked = ~@])
  /\ saveToPersistentStorage(listItems')
  /\ UNCHANGED <<cells, screen, opened>>

\* The check mark of row i's edit button, with t in the text field.  The field
\* was filled with the name up to its first comma, so confirming without
\* typing is the case where t is that prefix.
editItemButtonTapped(i, t) ==
  /\ screen = "list" /\ i \in 1..Len(cells)
  /\ listItems' = Changed(i, [listItems[cells[i]] EXCEPT !.item = t])
  /\ saveToPersistentStorage(listItems')
  /\ UNCHANGED <<cells, screen, opened>>

clearListItems ==
  /\ screen = "list"
  /\ listItems' = <<>>
  /\ saveToPersistentStorage(<<>>)
  /\ cells' = <<>>
  /\ UNCHANGED <<screen, opened>>

\* Mutant: a row gets the item before its own.
Mut_cellForRowAt(i) ==
  /\ screen = "list" /\ i \in 2..Len(cells) /\ i <= Len(listItems)
  /\ cells' = [cells EXCEPT ![i] = i - 1]
  /\ UNCHANGED <<listItems, file, screen, opened, synced>>

\* Row i scrolls out and back in: UIKit asks for its cell again.
cellForRowAt(i) ==
  /\ screen = "list" /\ i \in 1..Len(cells) /\ i <= Len(listItems)
  /\ cells' = [cells EXCEPT ![i] = i]
  /\ UNCHANGED <<listItems, file, screen, opened, synced>>

-----------------------------------------------------------------------------
(* Adding from other screens *)

Fits(b, items) == Len(b) + Len(items) <= MaxItems

\* "Add to shopping list" of a recipe; the list screen is not involved.
addRecipeIngredients(b) ==
  /\ screen = "other"
  /\ OpenFirst => opened
  /\ Fits(b, listItems)
  /\ listItems' = Prepended(b, listItems)
  /\ saveEachLine(b, listItems)
  /\ UNCHANGED <<cells, screen, opened>>

\* The process ends between two of the saves of addRecipeIngredients.
KilledWhileAdding(b) ==
  /\ screen = "other"
  /\ OpenFirst => opened
  /\ Fits(b, listItems)
  /\ \E k \in 1..Len(b) - 1 :
       file' = Readable(Prepended(SubSeq(b, 1, k), listItems))
  /\ Relaunched

\* A plan's "see shopping list" adds the ingredients and pushes a new list
\* controller.  UIKit does not say which comes first.  Here the handler does:
\* the new controller then loads what the last good save left.
SeeListAddThenLoad(b) ==
  /\ screen = "other"
  /\ OpenFirst => opened
  /\ Fits(b, listItems)
  /\ \/ b = <<>> /\ UNCHANGED file
     \/ b # <<>> /\ file' = Readable(Prepended(b, listItems))
     \/ b # <<>> /\ WriteFaults /\ file' \in StaleFiles(b, listItems)
  /\ listItems' = IF file'.readable THEN file'.items ELSE Prepended(b, listItems)
  /\ cells' = Rebound(Len(listItems'))
  /\ screen' = "list"
  /\ opened' = TRUE
  /\ synced' = file'.readable

\* Here the new controller loads first, and its viewWillAppear comes last.
SeeListLoadThenAdd(b) ==
  /\ screen = "other"
  /\ Fits(b, loadFromPersistence(listItems))
  /\ listItems' = Prepended(b, loadFromPersistence(listItems))
  /\ IF b = <<>> THEN UNCHANGED file /\ synced' = file.readable
                 ELSE saveEachLine(b, loadFromPersistence(listItems))
  /\ cells' = Rebound(Len(listItems'))
  /\ screen' = "list"
  /\ opened' = TRUE

Next ==
  \/ OpenList \/ ReturnToList \/ LeaveList \/ Relaunch \/ clearListItems
  \/ \E t \in Names : addListItemButtonTapped(t)
  \/ \E i \in 1..MaxItems :
       \/ DeleteRow(i) \/ toggleItemChecked(i) \/ cellForRowAt(i)
       \/ \E t \in Names : editItemButtonTapped(i, t)
  \/ \E b \in Batches :
       \/ addRecipeIngredients(b) \/ KilledWhileAdding(b)
       \/ SeeListAddThenLoad(b) \/ SeeListLoadThenAdd(b)

Spec == Init /\ [][Next]_vars

-----------------------------------------------------------------------------
(* Properties *)

\* The variables hold what their declarations say; a bound row's position lies
\* in the list, so a tap on it changes an item that exists.
TypeOK ==
  /\ listItems \in Seq(Item) /\ Len(listItems) <= MaxItems
  /\ cells \in Seq(0..Len(listItems))
  /\ file \in [readable : BOOLEAN, items : Seq(Item)]
  /\ Len(file.items) <= MaxItems
  /\ screen \in {"list", "other"}
  /\ opened \in BOOLEAN
  /\ synced \in BOOLEAN

\* Unless its last save or load failed, the app's list is the one on disk:
\* whatever handler ran last, ending the process now loses nothing.
SavedCopyIsCurrent == synced => file.readable /\ file.items = listItems

RowCount == screen = "list" => Len(cells) = Len(listItems)
RowsNeverLead == \A i \in 1..Len(cells) : cells[i] <= i

\* The visible table has one row per item after every handler (UIKit raises an
\* exception in deleteRows(at:) when the counts disagree), and a row never holds an
\* item further down the list than itself, even after deletions that took a
\* namesake instead of the swiped item: the list's removal is the earlier one.
RowsFollowList == RowCount /\ RowsNeverLead

Faithful == screen = "list" /\ cells = Rebound(Len(listItems))
DistinctNames ==
  \A i, j \in 1..Len(listItems) : listItems[i].item = listItems[j].item => i = j

\* Only a deletion among items of the same name can part the rows from the
\* list: with distinct names, a table that shows the list goes on showing it.
OnlyNamesakesMislead ==
  [][Faithful /\ DistinctNames /\ screen' = "list" => Faithful']_vars

\* Items on disk are there until the user deletes, renames, ticks or clears
\* them, all of which happen on the list screen: a step taken on another
\* screen, a relaunch included, keeps every saved item, in order, below what
\* it adds.
SavedItemsSurvive ==
  [][screen = "other" => IsSuffix(file.items, file'.items)]_vars

\* The saved list outlives the process: the refinement of DurableList, whose
\* list is the one in memory, or before it is first loaded the one on disk.
Durable == INSTANCE DurableList WITH list <- IF opened THEN listItems ELSE file.items
KeepsTheList == Durable!Spec
=============================================================================
