------------------------- MODULE ShoppingListProofs -------------------------
(***************************************************************************)
(* Proofs about ShoppingList for every set of names, every set of recipes, *)
(* every bound and every setting of the switches.                          *)
(***************************************************************************)
EXTENDS ShoppingList, SequenceTheorems, TLAPS

-----------------------------------------------------------------------------
(* Facts about the operators the actions are built from *)

\* The empty list fits every bound.
LEMMA EmptyList ==
  /\ Len(<<>>) = 0 /\ Len(<<>>) <= MaxItems
  /\ \A S : <<>> \in Seq(S)
BY MaxItemsAssumption

\* Adding lines yields a list, longer by their number, that is unchanged when
\* there are none (the insert(at: 0) loop of addRecipeIngredients).
LEMMA PrependedProperties ==
  ASSUME NEW b \in Seq(Names), NEW items \in Seq(Item)
  PROVE  /\ Prepended(b, items) \in Seq(Item)
         /\ Len(Prepended(b, items)) = Len(b) + Len(items)
         /\ b = <<>> => Prepended(b, items) = items
<1> DEFINE new == [i \in 1..Len(b) |-> [item |-> b[Len(b) + 1 - i], isChecked |-> FALSE]]
<1>1. \A i \in 1..Len(b) : b[Len(b) + 1 - i] \in Names
  BY LenProperties
<1>2. new \in Seq(Item) /\ Len(new) = Len(b)
  BY <1>1, LenProperties DEF Item
<1>3. b = <<>> => new = <<>>
  BY <1>2
<1> QED
  BY <1>2, <1>3, ConcatProperties, ConcatEmptySeq DEF Prepended

\* The first k lines of a batch are themselves lines.
LEMMA FirstLines ==
  ASSUME NEW b \in Seq(Names), NEW k \in 1..Len(b) - 1
  PROVE  SubSeq(b, 1, k) \in Seq(Names) /\ Len(SubSeq(b, 1, k)) = k
<1>1. \A i \in 1..k : b[i] \in Names
  BY LenProperties
<1> QED
  BY <1>1, SubSeqProperties, LenProperties

\* remove(at:) takes exactly one element out of the list.
LEMMA RemoveAtProperties ==
  ASSUME NEW S, NEW s \in Seq(S), NEW j \in 1..Len(s)
  PROVE  RemoveAt(s, j) \in Seq(S) /\ Len(RemoveAt(s, j)) = Len(s) - 1
<1>0. Len(s) \in Nat /\ j \in Nat /\ j <= Len(s)
  BY LenProperties
<1>a. SubSeq(s, 1, j - 1) \in Seq(S) /\ Len(SubSeq(s, 1, j - 1)) = j - 1
  BY SubSeqProperties, LenProperties
<1>b. SubSeq(s, j + 1, Len(s)) \in Seq(S) /\ Len(SubSeq(s, j + 1, Len(s))) = Len(s) - j
  BY SubSeqProperties, LenProperties
<1>1. PICK front \in Seq(S) : front = SubSeq(s, 1, j - 1) /\ Len(front) = j - 1
  BY <1>a
<1>2. PICK back \in Seq(S) :
        back = SubSeq(s, j + 1, Len(s)) /\ Len(back) = Len(s) - j
  BY <1>b
<1>3. RemoveAt(s, j) = front \o back
  BY <1>1, <1>2 DEF RemoveAt
<1>4. front \o back \in Seq(S) /\ Len(front \o back) = Len(front) + Len(back)
  BY ConcatProperties
<1>5. (j - 1) + (Len(s) - j) = Len(s) - 1
  BY <1>0
<1>6. Len(front) = j - 1 /\ Len(back) = Len(s) - j
  BY <1>1, <1>2
<1> QED
  BY <1>3, <1>4, <1>5, <1>6

\* reloadData binds row i to item i.
LEMMA ReboundProperties ==
  ASSUME NEW n \in Nat
  PROVE  /\ Rebound(n) \in Seq(0..n)
         /\ Len(Rebound(n)) = n
         /\ \A i \in 1..n : Rebound(n)[i] = i
BY DEF Rebound

\* Changing one object leaves the list's length alone.
LEMMA ChangedProperties ==
  ASSUME TypeOK, NEW i \in 1..Len(cells), NEW object,
         cells[i] # 0 => object \in Item
  PROVE  Changed(i, object) \in Seq(Item) /\ Len(Changed(i, object)) = Len(listItems)
<1>1. cells[i] \in 0..Len(listItems)
  BY ElementOfSeq DEF TypeOK
<1>2. CASE cells[i] = 0
  BY <1>2 DEF Changed, TypeOK
<1>3. CASE cells[i] # 0
  BY <1>1, <1>3, ExceptSeq DEF Changed, TypeOK
<1> QED
  BY <1>2, <1>3

-----------------------------------------------------------------------------
(* The inductive invariant *)

IInv == TypeOK /\ SavedCopyIsCurrent /\ RowCount /\ RowsNeverLead

\* What a save or a series of saves leaves on disk is a list of items that
\* fits, and is the list saved if the save was the last to succeed.
LEMMA SaveProperties ==
  ASSUME TypeOK, NEW items \in Seq(Item), Len(items) <= MaxItems,
         saveToPersistentStorage(items)
  PROVE  /\ file' \in [readable : BOOLEAN, items : Seq(Item)]
         /\ Len(file'.items) <= MaxItems
         /\ synced' \in BOOLEAN
         /\ synced' => file'.readable /\ file'.items = items
<1>1. Len(<<>>) <= MaxItems /\ <<>> \in Seq(Item)
  BY MaxItemsAssumption
<1>2. CASE file' = Readable(items) /\ synced' = TRUE
  BY <1>2 DEF Readable
<1>3. CASE file' = file /\ synced' = FALSE
  BY <1>3 DEF TypeOK
<1>4. CASE file' = Unreadable /\ synced' = FALSE
  BY <1>1, <1>4 DEF Unreadable
<1> QED
  BY <1>2, <1>3, <1>4 DEF saveToPersistentStorage

\* What a run of saves that broke off leaves on disk is such a list too.
LEMMA StaleFilesProperties ==
  ASSUME TypeOK, NEW b \in Seq(Names), NEW items \in Seq(Item),
         Fits(b, items), NEW f \in StaleFiles(b, items)
  PROVE  f \in [readable : BOOLEAN, items : Seq(Item)] /\ Len(f.items) <= MaxItems
<1>1. CASE f = file
  BY <1>1 DEF TypeOK
<1>2. CASE f = Unreadable
  BY <1>2, MaxItemsAssumption DEF Unreadable
<1>3. CASE \E k \in 1..Len(b) - 1 : f = Readable(Prepended(SubSeq(b, 1, k), items))
  <2>1. PICK k \in 1..Len(b) - 1 : f = Readable(Prepended(SubSeq(b, 1, k), items))
    BY <1>3
  <2>2. SubSeq(b, 1, k) \in Seq(Names) /\ Len(SubSeq(b, 1, k)) = k
    BY FirstLines
  <2>3. /\ Prepended(SubSeq(b, 1, k), items) \in Seq(Item)
        /\ Len(Prepended(SubSeq(b, 1, k), items)) = k + Len(items)
    BY <2>2, PrependedProperties
  <2>4. Len(b) \in Nat /\ Len(items) \in Nat
    OBVIOUS
  <2>5. k + Len(items) <= MaxItems
    BY <2>4, MaxItemsAssumption DEF Fits
  <2> QED
    BY <2>1, <2>3, <2>5 DEF Readable
<1> QED
  BY <1>1, <1>2, <1>3 DEF StaleFiles

\* The loop of addRecipeIngredients saves like one save of its result.
LEMMA SaveEachLineProperties ==
  ASSUME TypeOK, NEW b \in Seq(Names), NEW items \in Seq(Item),
         Fits(b, items), saveEachLine(b, items)
  PROVE  /\ file' \in [readable : BOOLEAN, items : Seq(Item)]
         /\ Len(file'.items) <= MaxItems
         /\ synced' \in BOOLEAN
         /\ b # <<>> /\ synced' => file'.readable /\ file'.items = Prepended(b, items)
         /\ b = <<>> => UNCHANGED <<file, synced>>
<1>1. CASE b = <<>>
  BY <1>1 DEF saveEachLine, TypeOK
<1>2. CASE b # <<>> /\ file' = Readable(Prepended(b, items)) /\ synced' = TRUE
  <2>1. /\ Prepended(b, items) \in Seq(Item)
        /\ Len(Prepended(b, items)) <= MaxItems
    BY PrependedProperties DEF Fits
  <2> QED
    BY <1>2, <2>1 DEF Readable
<1>3. CASE b # <<>> /\ file' \in StaleFiles(b, items) /\ synced' = FALSE
  BY <1>3, StaleFilesProperties
<1> QED
  BY <1>1, <1>2, <1>3 DEF saveEachLine

\* After reloadData on the list screen the table part of the invariant holds.
LEMMA ReloadedTable ==
  ASSUME listItems' \in Seq(Item), cells' = Rebound(Len(listItems'))
  PROVE  cells' \in Seq(0..Len(listItems')) /\ RowCount' /\ RowsNeverLead'
<1>1. Len(listItems') \in Nat
  OBVIOUS
<1> DEFINE n == Len(listItems')
<1>2. /\ Rebound(n) \in Seq(0..n)
      /\ Len(Rebound(n)) = n
      /\ \A i \in 1..n : Rebound(n)[i] = i
  BY <1>1, ReboundProperties
<1>3. Len(cells') = n /\ \A i \in 1..n : cells'[i] = i
  BY <1>2
<1>4. RowCount'
  BY <1>3 DEF RowCount
<1>5. RowsNeverLead'
  <2> SUFFICES ASSUME NEW i \in 1..n PROVE cells'[i] <= i
    BY <1>3 DEF RowsNeverLead
  <2> QED
    BY <1>1, <1>3
<1> QED
  BY <1>2, <1>4, <1>5

\* With the table gone, as on every other screen, it holds too.
LEMMA NoTable ==
  ASSUME listItems' \in Seq(Item), cells' = <<>>, screen' = "other"
  PROVE  cells' \in Seq(0..Len(listItems')) /\ RowCount' /\ RowsNeverLead'
BY EmptyList DEF RowCount, RowsNeverLead

\* An object edited in place leaves the table as it is.
LEMMA SameTable ==
  ASSUME IInv, listItems' \in Seq(Item), Len(listItems') = Len(listItems),
         UNCHANGED <<cells, screen>>
  PROVE  cells' \in Seq(0..Len(listItems')) /\ RowCount' /\ RowsNeverLead'
BY DEF IInv, TypeOK, RowCount, RowsNeverLead

\* The state before the first launch satisfies the invariant.
LEMMA InitIInv == Init => IInv
<1> SUFFICES ASSUME Init PROVE IInv
  OBVIOUS
<1>1. TypeOK
  BY EmptyList, MaxItemsAssumption DEF Init, TypeOK, Unreadable
<1>2. SavedCopyIsCurrent /\ RowCount /\ RowsNeverLead
  BY EmptyList DEF Init, SavedCopyIsCurrent, RowCount, RowsNeverLead
<1> QED
  BY <1>1, <1>2 DEF IInv

\* One lemma per handler: the invariant survives it.
LEMMA OpenListIInv == IInv /\ OpenList => IInv'
<1> SUFFICES ASSUME IInv, OpenList PROVE IInv'
  OBVIOUS
<1>1. listItems' \in Seq(Item) /\ Len(listItems') <= MaxItems
  BY DEF IInv, TypeOK, OpenList, loadFromPersistence
<1>2. cells' \in Seq(0..Len(listItems')) /\ RowCount' /\ RowsNeverLead'
  BY <1>1, ReloadedTable DEF OpenList
<1>3. synced' \in BOOLEAN /\ SavedCopyIsCurrent'
  BY DEF IInv, TypeOK, OpenList, loadFromPersistence, SavedCopyIsCurrent
<1> QED
  BY <1>1, <1>2, <1>3 DEF IInv, TypeOK, OpenList

\* Leaving the list screen, returning to it and a relaunch keep the invariant.
LEMMA NavigationIInv == IInv /\ (ReturnToList \/ LeaveList \/ Relaunch) => IInv'
<1> SUFFICES ASSUME IInv, ReturnToList \/ LeaveList \/ Relaunch PROVE IInv'
  OBVIOUS
<1>1. CASE ReturnToList
  <2>1. cells' \in Seq(0..Len(listItems')) /\ RowCount' /\ RowsNeverLead'
    BY <1>1, ReloadedTable DEF ReturnToList, IInv, TypeOK
  <2> QED
    BY <1>1, <2>1 DEF ReturnToList, IInv, TypeOK, SavedCopyIsCurrent
<1>2. CASE LeaveList
  <2>1. cells' \in Seq(0..Len(listItems')) /\ RowCount' /\ RowsNeverLead'
    BY <1>2, NoTable DEF LeaveList, IInv, TypeOK
  <2> QED
    BY <1>2, <2>1 DEF LeaveList, IInv, TypeOK, SavedCopyIsCurrent
<1>3. CASE Relaunch
  <2>1. cells' \in Seq(0..Len(listItems')) /\ RowCount' /\ RowsNeverLead'
    BY <1>3, NoTable DEF Relaunch, Relaunched
  <2> QED
    BY <1>3, <2>1, EmptyList
       DEF Relaunch, Relaunched, IInv, TypeOK, SavedCopyIsCurrent
<1> QED
  BY <1>1, <1>2, <1>3

\* Adding an item and reloading the table keeps the invariant.
LEMMA AddListItemIInv ==
  ASSUME NEW t \in Names
  PROVE  IInv /\ addListItemButtonTapped(t) => IInv'
<1> SUFFICES ASSUME IInv, addListItemButtonTapped(t) PROVE IInv'
  OBVIOUS
<1>1. <<t>> \in Seq(Names) /\ Len(<<t>>) = 1 /\ <<t>> # <<>>
  OBVIOUS
<1>2. Len(listItems) \in Nat /\ listItems \in Seq(Item)
  BY DEF IInv, TypeOK
<1>3. Fits(<<t>>, listItems)
  BY <1>1, <1>2, MaxItemsAssumption DEF Fits, addListItemButtonTapped
<1>4. listItems' \in Seq(Item) /\ Len(listItems') <= MaxItems
  BY <1>1, <1>2, <1>3, PrependedProperties DEF Fits, addListItemButtonTapped
<1>5. /\ file' \in [readable : BOOLEAN, items : Seq(Item)]
      /\ Len(file'.items) <= MaxItems /\ synced' \in BOOLEAN /\ SavedCopyIsCurrent'
  BY <1>1, <1>2, <1>3, SaveEachLineProperties
     DEF IInv, addListItemButtonTapped, SavedCopyIsCurrent
<1>6. cells' \in Seq(0..Len(listItems')) /\ RowCount' /\ RowsNeverLead'
  BY <1>4, ReloadedTable DEF addListItemButtonTapped
<1> QED
  BY <1>4, <1>5, <1>6 DEF IInv, TypeOK, addListItemButtonTapped

\* The swiped row's first namesake is that item or one above it.
LEMMA FirstIndexAbove ==
  ASSUME NEW i \in 1..Len(listItems), NEW j \in 1..Len(listItems),
         firstIndex(j, listItems[i].item), Len(listItems) \in Nat
  PROVE  j <= i
<1>1. CASE i < j
  <2>1. i \in 1..j - 1
    BY <1>1
  <2> QED
    BY <2>1 DEF firstIndex
<1> QED
  BY <1>1

\* A swipe keeps the invariant, also when it removes a namesake above.
LEMMA DeleteRowIInv ==
  ASSUME NEW i \in 1..MaxItems
  PROVE  IInv /\ DeleteRow(i) => IInv'
<1> SUFFICES ASSUME IInv, DeleteRow(i) PROVE IInv'
  OBVIOUS
<1> DEFINE n == Len(listItems)
<1>1. /\ screen = "list" /\ Len(cells) = n /\ n \in Nat /\ n <= MaxItems
      /\ i \in 1..n /\ i \in Nat /\ n >= 1
  BY MaxItemsAssumption DEF IInv, TypeOK, RowCount, DeleteRow
<1>2. PICK j \in 1..n :
        /\ firstIndex(j, listItems[i].item)
        /\ listItems' = RemoveAt(listItems, j)
        /\ cells' = [r \in 1..n - 1 |-> Rebase(cells[IF r < i THEN r ELSE r + 1], j)]
  BY <1>1 DEF DeleteRow
<1>3. j <= i /\ j \in Nat
  BY <1>1, <1>2, FirstIndexAbove
<1>4. listItems' \in Seq(Item) /\ Len(listItems') = n - 1
  BY <1>2, RemoveAtProperties DEF IInv, TypeOK
<1>5. Len(listItems') <= MaxItems
  BY <1>1, <1>4, MaxItemsAssumption
<1>6. \A r \in 1..n : cells[r] \in 0..n /\ cells[r] <= r
  BY <1>1, ElementOfSeq DEF IInv, TypeOK, RowsNeverLead
<1>7. \A r \in 1..n - 1 :
        LET p == cells[IF r < i THEN r ELSE r + 1]
        IN  Rebase(p, j) \in 0..n - 1 /\ Rebase(p, j) <= r
  <2> TAKE r \in 1..n - 1
  <2>1. CASE r < i
    <3>1. cells[r] \in 0..n /\ cells[r] <= r
      BY <1>1, <1>6
    <3> QED
      BY <1>1, <1>3, <2>1, <3>1 DEF Rebase
  <2>2. CASE ~(r < i)
    <3>1. cells[r + 1] \in 0..n /\ cells[r + 1] <= r + 1
      BY <1>1, <1>6
    <3> QED
      BY <1>1, <1>3, <2>2, <3>1 DEF Rebase
  <2> QED
    BY <2>1, <2>2
<1>8. cells' \in Seq(0..n - 1) /\ Len(cells') = n - 1
  <2> DEFINE row(r) == Rebase(cells[IF r < i THEN r ELSE r + 1], j)
  <2>1. cells' = [r \in 1..n - 1 |-> row(r)] /\ n - 1 \in Nat
    BY <1>1, <1>2
  <2>2. \A r \in 1..n - 1 : row(r) \in 0..n - 1
    BY <1>7
  <2> HIDE DEF row, n
  <2>3. cells' \in [1..n - 1 -> 0..n - 1]
    BY <2>1, <2>2
  <2> QED
    BY <2>1, <2>3
<1>9. RowCount' /\ RowsNeverLead'
  <2>1. RowCount'
    BY <1>4, <1>8 DEF RowCount
  <2>2. RowsNeverLead'
    BY <1>2, <1>7, <1>8 DEF RowsNeverLead
  <2> QED
    BY <2>1, <2>2
<1>10. saveToPersistentStorage(listItems') /\ UNCHANGED <<screen, opened>>
  BY DEF DeleteRow
<1>11. /\ file' \in [readable : BOOLEAN, items : Seq(Item)]
       /\ Len(file'.items) <= MaxItems /\ synced' \in BOOLEAN /\ SavedCopyIsCurrent'
  BY <1>4, <1>5, <1>10, SaveProperties DEF IInv, SavedCopyIsCurrent
<1> QED
  BY <1>4, <1>5, <1>8, <1>9, <1>10, <1>11 DEF IInv, TypeOK

\* What every handler that edits one object in place and saves does.
LEMMA EditInPlaceIInv ==
  ASSUME IInv, NEW i \in 1..Len(cells), NEW object,
         cells[i] # 0 => object \in Item,
         listItems' = Changed(i, object), saveToPersistentStorage(listItems'),
         UNCHANGED <<cells, screen, opened>>
  PROVE  IInv'
<1>1. listItems' \in Seq(Item) /\ Len(listItems') = Len(listItems)
  BY ChangedProperties DEF IInv
<1>2. Len(listItems') <= MaxItems
  BY <1>1 DEF IInv, TypeOK
<1>3. cells' \in Seq(0..Len(listItems')) /\ RowCount' /\ RowsNeverLead'
  BY <1>1, SameTable
<1>4. /\ file' \in [readable : BOOLEAN, items : Seq(Item)]
      /\ Len(file'.items) <= MaxItems /\ synced' \in BOOLEAN /\ SavedCopyIsCurrent'
  BY <1>1, <1>2, SaveProperties DEF IInv, SavedCopyIsCurrent
<1> QED
  BY <1>1, <1>2, <1>3, <1>4 DEF IInv, TypeOK

\* A tick keeps the invariant.
LEMMA ToggleIInv ==
  ASSUME NEW i \in 1..MaxItems
  PROVE  IInv /\ toggleItemChecked(i) => IInv'
<1> SUFFICES ASSUME IInv, toggleItemChecked(i) PROVE IInv'
  OBVIOUS
<1>1. i \in 1..Len(cells) /\ cells[i] \in 0..Len(listItems)
  BY ElementOfSeq DEF IInv, TypeOK, toggleItemChecked
<1>2. cells[i] # 0 => [listItems[cells[i]] EXCEPT !.isChecked = ~@] \in Item
  <2> SUFFICES ASSUME cells[i] # 0
               PROVE  [listItems[cells[i]] EXCEPT !.isChecked = ~@] \in Item
    OBVIOUS
  <2>1. listItems[cells[i]] \in Item
    BY <1>1, ElementOfSeq DEF IInv, TypeOK
  <2> QED
    BY <2>1 DEF Item
<1> QED
  BY <1>1, <1>2, EditInPlaceIInv DEF toggleItemChecked

\* A rename keeps the invariant.
LEMMA EditItemIInv ==
  ASSUME NEW i \in 1..MaxItems, NEW t \in Names
  PROVE  IInv /\ editItemButtonTapped(i, t) => IInv'
<1> SUFFICES ASSUME IInv, editItemButtonTapped(i, t) PROVE IInv'
  OBVIOUS
<1>1. i \in 1..Len(cells) /\ cells[i] \in 0..Len(listItems)
  BY ElementOfSeq DEF IInv, TypeOK, editItemButtonTapped
<1>2. cells[i] # 0 => [listItems[cells[i]] EXCEPT !.item = t] \in Item
  <2> SUFFICES ASSUME cells[i] # 0
               PROVE  [listItems[cells[i]] EXCEPT !.item = t] \in Item
    OBVIOUS
  <2>1. listItems[cells[i]] \in Item
    BY <1>1, ElementOfSeq DEF IInv, TypeOK
  <2> QED
    BY <2>1 DEF Item
<1> QED
  BY <1>1, <1>2, EditInPlaceIInv DEF editItemButtonTapped

\* Clearing the list keeps the invariant.
LEMMA ClearIInv == IInv /\ clearListItems => IInv'
<1> SUFFICES ASSUME IInv, clearListItems PROVE IInv'
  OBVIOUS
<1>1. listItems' = <<>> /\ cells' = <<>> /\ UNCHANGED <<screen, opened>>
  BY DEF clearListItems
<1>2. /\ file' \in [readable : BOOLEAN, items : Seq(Item)]
      /\ Len(file'.items) <= MaxItems /\ synced' \in BOOLEAN /\ SavedCopyIsCurrent'
  BY <1>1, EmptyList, SaveProperties DEF IInv, clearListItems, SavedCopyIsCurrent
<1>3. RowCount' /\ RowsNeverLead'
  BY <1>1, EmptyList DEF RowCount, RowsNeverLead
<1> QED
  BY <1>1, <1>2, <1>3, EmptyList DEF IInv, TypeOK

\* Binding a row again keeps the invariant.
LEMMA CellForRowIInv ==
  ASSUME NEW i \in 1..MaxItems
  PROVE  IInv /\ cellForRowAt(i) => IInv'
<1> SUFFICES ASSUME IInv, cellForRowAt(i) PROVE IInv'
  OBVIOUS
<1>1. /\ cells \in Seq(0..Len(listItems)) /\ i \in 1..Len(cells)
      /\ i \in 0..Len(listItems) /\ Len(listItems) \in Nat
  BY DEF IInv, TypeOK, cellForRowAt
<1>2. /\ cells' \in Seq(0..Len(listItems)) /\ Len(cells') = Len(cells)
      /\ \A r \in 1..Len(cells) : cells'[r] = IF r = i THEN i ELSE cells[r]
  BY <1>1, ExceptSeq DEF cellForRowAt
<1>3. RowCount' /\ RowsNeverLead'
  BY <1>1, <1>2 DEF IInv, RowCount, RowsNeverLead, cellForRowAt
<1> QED
  BY <1>2, <1>3 DEF IInv, TypeOK, SavedCopyIsCurrent, cellForRowAt

\* What every handler that adds lines to the list of this process does.
LEMMA AddLinesSaved ==
  ASSUME IInv, NEW b \in Batches, NEW items \in Seq(Item), Fits(b, items),
         listItems' = Prepended(b, items)
  PROVE  /\ b \in Seq(Names)
         /\ listItems' \in Seq(Item) /\ Len(listItems') <= MaxItems
         /\ b = <<>> => listItems' = items
BY BatchesAssumption, PrependedProperties DEF Fits

\* Adding a recipe's ingredients from another screen keeps the invariant.
LEMMA AddRecipeIInv ==
  ASSUME NEW b \in Batches
  PROVE  IInv /\ addRecipeIngredients(b) => IInv'
<1> SUFFICES ASSUME IInv, addRecipeIngredients(b) PROVE IInv'
  OBVIOUS
<1>1. /\ screen = "other" /\ UNCHANGED <<cells, screen, opened>>
      /\ listItems \in Seq(Item) /\ Fits(b, listItems)
      /\ listItems' = Prepended(b, listItems) /\ saveEachLine(b, listItems)
  BY DEF IInv, TypeOK, addRecipeIngredients
<1>2. /\ b \in Seq(Names) /\ listItems' \in Seq(Item) /\ Len(listItems') <= MaxItems
      /\ b = <<>> => listItems' = listItems
      /\ Len(listItems') = Len(b) + Len(listItems)
  BY <1>1, AddLinesSaved, PrependedProperties
<1>3. /\ file' \in [readable : BOOLEAN, items : Seq(Item)]
      /\ Len(file'.items) <= MaxItems /\ synced' \in BOOLEAN
      /\ b # <<>> /\ synced' => file'.readable /\ file'.items = listItems'
      /\ b = <<>> => UNCHANGED <<file, synced>>
  BY <1>1, <1>2, SaveEachLineProperties DEF IInv
<1>4. SavedCopyIsCurrent'
  BY <1>2, <1>3 DEF IInv, SavedCopyIsCurrent
<1>5. cells' \in Seq(0..Len(listItems'))
  <2>1. Len(listItems) \in Nat /\ Len(listItems') \in Nat /\ Len(b) \in Nat
    BY <1>1, <1>2
  <2>2. 0..Len(listItems) \subseteq 0..Len(listItems')
    BY <1>2, <2>1
  <2>3. cells' \in Seq(0..Len(listItems))
    BY <1>1 DEF IInv, TypeOK
  <2> QED
    BY <2>2, <2>3, SeqMonotonic
<1>6. RowCount' /\ RowsNeverLead'
  BY <1>1 DEF IInv, RowCount, RowsNeverLead
<1> QED
  BY <1>1, <1>2, <1>3, <1>4, <1>5, <1>6 DEF IInv, TypeOK

\* The process ending between two saves keeps the invariant.
LEMMA KilledIInv ==
  ASSUME NEW b \in Batches
  PROVE  IInv /\ KilledWhileAdding(b) => IInv'
<1> SUFFICES ASSUME IInv, KilledWhileAdding(b) PROVE IInv'
  OBVIOUS
<1>1. b \in Seq(Names) /\ listItems \in Seq(Item) /\ Fits(b, listItems) /\ Relaunched
  BY BatchesAssumption DEF IInv, TypeOK, KilledWhileAdding
<1>2. file' \in StaleFiles(b, listItems)
  BY DEF KilledWhileAdding, StaleFiles
<1>3. file' \in [readable : BOOLEAN, items : Seq(Item)] /\ Len(file'.items) <= MaxItems
  BY <1>1, <1>2, StaleFilesProperties DEF IInv
<1>4. cells' \in Seq(0..Len(listItems')) /\ RowCount' /\ RowsNeverLead'
  BY <1>1, EmptyList, NoTable DEF Relaunched
<1> QED
  BY <1>1, <1>3, <1>4, EmptyList DEF Relaunched, IInv, TypeOK, SavedCopyIsCurrent

\* A plan's button keeps the invariant if the handler precedes the segue.
LEMMA AddThenLoadIInv ==
  ASSUME NEW b \in Batches
  PROVE  IInv /\ SeeListAddThenLoad(b) => IInv'
<1> SUFFICES ASSUME IInv, SeeListAddThenLoad(b) PROVE IInv'
  OBVIOUS
<1> DEFINE added == Prepended(b, listItems)
<1>1. /\ b \in Seq(Names) /\ listItems \in Seq(Item) /\ Fits(b, listItems)
      /\ added \in Seq(Item) /\ Len(added) <= MaxItems
  BY BatchesAssumption, PrependedProperties DEF IInv, TypeOK, SeeListAddThenLoad, Fits
<1>2. file' \in [readable : BOOLEAN, items : Seq(Item)] /\ Len(file'.items) <= MaxItems
  <2>1. CASE file' = file
    BY <2>1 DEF IInv, TypeOK
  <2>2. CASE file' = Readable(added)
    BY <1>1, <2>2 DEF Readable
  <2>3. CASE file' \in StaleFiles(b, listItems)
    BY <1>1, <2>3, StaleFilesProperties DEF IInv
  <2> QED
    BY <2>1, <2>2, <2>3 DEF SeeListAddThenLoad
<1>3. /\ listItems' = IF file'.readable THEN file'.items ELSE added
      /\ cells' = Rebound(Len(listItems')) /\ screen' = "list"
      /\ opened' = TRUE /\ synced' = file'.readable
  BY DEF SeeListAddThenLoad
<1>4. listItems' \in Seq(Item) /\ Len(listItems') <= MaxItems
  BY <1>1, <1>2, <1>3
<1>5. synced' \in BOOLEAN /\ SavedCopyIsCurrent'
  BY <1>2, <1>3 DEF SavedCopyIsCurrent
<1>6. cells' \in Seq(0..Len(listItems')) /\ RowCount' /\ RowsNeverLead'
  BY <1>3, <1>4, ReloadedTable
<1> QED
  BY <1>2, <1>3, <1>4, <1>5, <1>6 DEF IInv, TypeOK

\* A plan's button keeps the invariant if the segue precedes the handler.
LEMMA LoadThenAddIInv ==
  ASSUME NEW b \in Batches
  PROVE  IInv /\ SeeListLoadThenAdd(b) => IInv'
<1> SUFFICES ASSUME IInv, SeeListLoadThenAdd(b) PROVE IInv'
  OBVIOUS
<1> DEFINE loaded == loadFromPersistence(listItems)
<1>1. loaded \in Seq(Item) /\ Fits(b, loaded)
  BY DEF IInv, TypeOK, loadFromPersistence, SeeListLoadThenAdd
<1>2. /\ listItems' = Prepended(b, loaded) /\ cells' = Rebound(Len(listItems'))
      /\ screen' = "list" /\ opened' = TRUE
  BY DEF SeeListLoadThenAdd
<1>3. /\ b \in Seq(Names) /\ listItems' \in Seq(Item) /\ Len(listItems') <= MaxItems
      /\ b = <<>> => listItems' = loaded
  BY <1>1, <1>2, AddLinesSaved
<1>4. /\ file' \in [readable : BOOLEAN, items : Seq(Item)] /\ Len(file'.items) <= MaxItems
      /\ synced' \in BOOLEAN /\ SavedCopyIsCurrent'
  <2>1. CASE b = <<>>
    <3>1. UNCHANGED file /\ synced' = file.readable
      BY <2>1 DEF SeeListLoadThenAdd
    <3> QED
      BY <1>3, <2>1, <3>1 DEF IInv, TypeOK, SavedCopyIsCurrent, loadFromPersistence
  <2>2. CASE b # <<>>
    <3>1. saveEachLine(b, loaded)
      BY <2>2 DEF SeeListLoadThenAdd
    <3>2. /\ file' \in [readable : BOOLEAN, items : Seq(Item)]
          /\ Len(file'.items) <= MaxItems /\ synced' \in BOOLEAN
          /\ synced' => file'.readable /\ file'.items = Prepended(b, loaded)
      BY <1>1, <1>3, <2>2, <3>1, SaveEachLineProperties DEF IInv
    <3> QED
      BY <1>2, <3>2 DEF SavedCopyIsCurrent
  <2> QED
    BY <2>1, <2>2
<1>5. cells' \in Seq(0..Len(listItems')) /\ RowCount' /\ RowsNeverLead'
  BY <1>2, <1>3, ReloadedTable
<1> QED
  BY <1>2, <1>3, <1>4, <1>5 DEF IInv, TypeOK

\* So no step of the app breaks the invariant.
LEMMA NextIInv == IInv /\ [Next]_vars => IInv'
<1> SUFFICES ASSUME IInv, [Next]_vars PROVE IInv'
  OBVIOUS
<1>1. CASE OpenList
  BY <1>1, OpenListIInv
<1>2. CASE ReturnToList \/ LeaveList \/ Relaunch
  BY <1>2, NavigationIInv
<1>3. CASE clearListItems
  BY <1>3, ClearIInv
<1>4. CASE \E t \in Names : addListItemButtonTapped(t)
  BY <1>4, AddListItemIInv
<1>5. ASSUME NEW i \in 1..MaxItems,
             \/ DeleteRow(i) \/ toggleItemChecked(i) \/ cellForRowAt(i)
             \/ \E t \in Names : editItemButtonTapped(i, t)
      PROVE  IInv'
  BY <1>5, DeleteRowIInv, ToggleIInv, CellForRowIInv, EditItemIInv
<1>6. ASSUME NEW b \in Batches,
             \/ addRecipeIngredients(b) \/ KilledWhileAdding(b)
             \/ SeeListAddThenLoad(b) \/ SeeListLoadThenAdd(b)
      PROVE  IInv'
  BY <1>6, AddRecipeIInv, KilledIInv, AddThenLoadIInv, LoadThenAddIInv
<1>7. CASE UNCHANGED vars
  BY <1>7 DEF vars, IInv, TypeOK, SavedCopyIsCurrent, RowCount, RowsNeverLead
<1> QED
  BY <1>1, <1>2, <1>3, <1>4, <1>5, <1>6, <1>7 DEF Next

-----------------------------------------------------------------------------
(* The results *)

\* The invariant the properties below are read off.
LEMMA Invariance == Spec => []IInv
<1>1. Init => IInv
  BY InitIInv
<1>2. IInv /\ [Next]_vars => IInv'
  BY NextIInv
<1> QED
  BY <1>1, <1>2, PTL DEF Spec

\* The lists hold items and a row's position lies in the list, so no tap on a
\* row reaches an item that does not exist.
THEOREM TypeCorrect == Spec => []TypeOK
BY Invariance, PTL DEF IInv

\* Whatever handler ran last, and whatever saves failed before, the file holds
\* the app's list unless the last save or load itself failed.
THEOREM SavedCopy == Spec => []SavedCopyIsCurrent
BY Invariance, PTL DEF IInv

\* The table has one row per item after every handler, so deleteRows(at:) is
\* always consistent with numberOfRowsInSection, namesakes or not; and no row
\* holds an item further down than itself.
THEOREM TableMatchesList == Spec => []RowsFollowList
BY Invariance, PTL DEF IInv, RowsFollowList

-----------------------------------------------------------------------------
(* Rows mislead among namesakes only *)

\* A swipe among distinct names takes the swiped item out of list and table.
LEMMA DeleteRowFaithful ==
  ASSUME IInv, Faithful, DistinctNames, NEW i \in 1..MaxItems, DeleteRow(i)
  PROVE  cells' = Rebound(Len(listItems'))
<1> DEFINE n == Len(listItems)
<1>1. n \in Nat /\ i \in 1..n /\ Len(cells) = n /\ cells = Rebound(n)
  BY ReboundProperties DEF IInv, TypeOK, RowCount, Faithful, DeleteRow
<1>2. PICK j \in 1..n :
        /\ firstIndex(j, listItems[i].item)
        /\ listItems' = RemoveAt(listItems, j)
        /\ cells' = [r \in 1..n - 1 |-> Rebase(cells[IF r < i THEN r ELSE r + 1], j)]
  BY <1>1 DEF DeleteRow
<1>3. j = i
  BY <1>1, <1>2 DEF firstIndex, DistinctNames
<1>4. Len(listItems') = n - 1
  BY <1>2, RemoveAtProperties DEF IInv, TypeOK
<1>5. \A r \in 1..n - 1 : Rebase(cells[IF r < i THEN r ELSE r + 1], j) = r
  <2> TAKE r \in 1..n - 1
  <2>1. \A k \in 1..n : cells[k] = k
    BY <1>1, ReboundProperties
  <2>2. cells[IF r < i THEN r ELSE r + 1] = IF r < i THEN r ELSE r + 1
    BY <1>1, <2>1
  <2> QED
    BY <1>1, <1>3, <2>2 DEF Rebase
<1>6. cells' = [r \in 1..n - 1 |-> r]
  BY <1>2, <1>5
<1> QED
  BY <1>4, <1>6 DEF Rebound

\* Every other handler leaves a row at its item or binds it to its item again.
LEMMA NextFaithful ==
  ASSUME IInv, Faithful, DistinctNames, [Next]_vars, screen' = "list"
  PROVE  Faithful'
<1>0. /\ screen = "list" /\ cells = Rebound(Len(listItems)) /\ Len(listItems) \in Nat
      /\ listItems \in Seq(Item) /\ cells \in Seq(0..Len(listItems))
  BY DEF IInv, TypeOK, Faithful
<1>1. CASE OpenList \/ ReturnToList \/ LeaveList \/ Relaunch
  BY <1>0, <1>1 DEF OpenList, ReturnToList, LeaveList, Relaunch, Relaunched
<1>2. CASE clearListItems
  BY <1>0, <1>2, EmptyList DEF clearListItems, Rebound, Faithful
<1>3. CASE \E t \in Names : addListItemButtonTapped(t)
  BY <1>3 DEF addListItemButtonTapped, Faithful
<1>4. ASSUME NEW i \in 1..MaxItems, DeleteRow(i)
      PROVE  Faithful'
  BY <1>4, DeleteRowFaithful DEF Faithful
<1>5. ASSUME NEW i \in 1..MaxItems,
             toggleItemChecked(i) \/ \E t \in Names : editItemButtonTapped(i, t)
      PROVE  Faithful'
  <2>1. PICK object : listItems' = Changed(i, object) /\ i \in 1..Len(cells) /\ UNCHANGED cells
    BY <1>5 DEF toggleItemChecked, editItemButtonTapped
  <2>2. Len(listItems') = Len(listItems)
    <3>1. cells[i] \in 0..Len(listItems)
      BY <1>0, <2>1, ElementOfSeq
    <3>2. CASE cells[i] = 0
      BY <2>1, <3>2 DEF Changed
    <3>3. CASE cells[i] # 0
      BY <1>0, <2>1, <3>1, <3>3 DEF Changed
    <3> QED
      BY <3>2, <3>3
  <2> QED
    BY <1>0, <2>1, <2>2 DEF Faithful
<1>6. ASSUME NEW i \in 1..MaxItems, cellForRowAt(i)
      PROVE  Faithful'
  <2>1. cells' = [cells EXCEPT ![i] = i] /\ UNCHANGED listItems /\ i \in 1..Len(listItems)
    BY <1>0, <1>6, ReboundProperties DEF cellForRowAt
  <2> QED
    BY <1>0, <2>1 DEF Faithful, Rebound
<1>7. ASSUME NEW b \in Batches,
             \/ addRecipeIngredients(b) \/ KilledWhileAdding(b)
             \/ SeeListAddThenLoad(b) \/ SeeListLoadThenAdd(b)
      PROVE  Faithful'
  BY <1>0, <1>7 DEF addRecipeIngredients, KilledWhileAdding, SeeListAddThenLoad, SeeListLoadThenAdd
<1>8. CASE UNCHANGED vars
  BY <1>8 DEF vars, Faithful
<1> QED
  BY <1>1, <1>2, <1>3, <1>4, <1>5, <1>6, <1>7, <1>8 DEF Next

\* With distinct names a table that shows the list goes on showing it.
THEOREM NamesakesOnly == Spec => OnlyNamesakesMislead
<1> DEFINE Keeps == Faithful /\ DistinctNames /\ screen' = "list" => Faithful'
<1>1. IInv /\ [Next]_vars => [Keeps]_vars
  BY NextFaithful
<1> QED
  BY <1>1, Invariance, PTL DEF Spec, OnlyNamesakesMislead

-----------------------------------------------------------------------------
(* One list that outlives the process *)

\* While saves succeed and the list is opened before anything is added to it,
\* the list on disk is the one in memory, or memory holds none yet.
OneCopy ==
  /\ screen = "list" => opened
  /\ opened => file.items = listItems
  /\ ~opened => listItems = <<>>
  /\ ~file.readable => file.items = <<>>

\* The list of DurableList.
TheList == IF opened THEN listItems ELSE file.items

\* What is saved is on disk.
LEMMA SaveSucceeds ==
  ASSUME ~WriteFaults, NEW items, saveToPersistentStorage(items)
  PROVE  file'.items = items /\ file'.readable
BY DEF saveToPersistentStorage, Readable

\* Lines added and saved are lines added.
LEMMA AddsLines ==
  ASSUME IInv, NEW b \in Seq(Names), b # <<>>, Fits(b, TheList),
         TheList' = Prepended(b, TheList)
  PROVE  Durable!Next
<1>1. Len(b) \in 1..MaxItems - Len(TheList)
  BY EmptySeq, MaxItemsAssumption DEF Fits, IInv, TypeOK, TheList
<1>2. PICK new : new = [k \in 1..Len(b) |-> [item |-> b[Len(b) + 1 - k], isChecked |-> FALSE]]
  OBVIOUS
<1>3. new \in [1..Len(b) -> [item : Names, isChecked : {FALSE}]]
  <2>1. \A k \in 1..Len(b) : b[Len(b) + 1 - k] \in Names
    BY LenProperties
  <2> QED
    BY <1>2, <2>1
<1>4. TheList' = new \o TheList
  BY <1>2 DEF Prepended
<1> QED
  BY <1>1, <1>3, <1>4 DEF Durable!Next, Durable!Add, TheList

\* A run of saves, all of which succeed, leaves one list, with the lines added.
LEMMA SavesLines ==
  ASSUME IInv, OneCopy, ~WriteFaults, NEW b \in Batches, NEW items,
         items = TheList, Fits(b, items), listItems' = Prepended(b, items), opened',
         b = <<>> => UNCHANGED file,
         b # <<>> => file' = Readable(Prepended(b, items))
  PROVE  OneCopy' /\ (Durable!Next \/ UNCHANGED TheList)
<1>1. b \in Seq(Names) /\ items \in Seq(Item)
  BY BatchesAssumption DEF IInv, TypeOK, TheList
<1>2. CASE b = <<>>
  <2>1. listItems' = items /\ file'.items = items /\ UNCHANGED file
    BY <1>1, <1>2, PrependedProperties DEF OneCopy, TheList
  <2> QED
    BY <2>1 DEF OneCopy, TheList
<1>3. CASE b # <<>>
  <2>1. /\ file'.items = listItems' /\ file'.readable /\ TheList' = Prepended(b, TheList)
    BY <1>3 DEF Readable, TheList
  <2> QED
    BY <1>1, <1>3, <2>1, AddsLines DEF OneCopy
<1> QED
  BY <1>2, <1>3

\* Opening the list, leaving it and a relaunch change nothing of it.
LEMMA NavigationKeepsList ==
  ASSUME IInv, OneCopy, OpenList \/ ReturnToList \/ LeaveList \/ Relaunch
  PROVE  OneCopy' /\ UNCHANGED TheList
BY DEF IInv, TypeOK, OneCopy, TheList, OpenList, ReturnToList, LeaveList, Relaunch, Relaunched,
       loadFromPersistence

\* A swipe removes the topmost entry of that name.
LEMMA DeleteRowDeletes ==
  ASSUME IInv, OneCopy, ~WriteFaults, NEW i \in 1..MaxItems, DeleteRow(i)
  PROVE  OneCopy' /\ Durable!Next
<1>1. i \in 1..Len(listItems) /\ opened /\ Len(listItems) \in Nat
  BY DEF DeleteRow, IInv, TypeOK, RowCount, OneCopy
<1>2. PICK j \in 1..Len(listItems) :
        firstIndex(j, listItems[i].item) /\ listItems' = RemoveAt(listItems, j)
  BY DEF DeleteRow
<1>3. j \in 1..i
  BY <1>1, <1>2, FirstIndexAbove
<1>4. /\ file'.items = listItems' /\ file'.readable /\ UNCHANGED opened
  BY SaveSucceeds DEF DeleteRow
<1>5. Durable!Delete(i)
  <2>1. /\ listItems[j].item = listItems[i].item
        /\ \A k \in 1..j - 1 : listItems[k].item # listItems[i].item
    BY <1>2 DEF firstIndex
  <2>2. TheList = listItems /\ TheList' = RemoveAt(listItems, j)
    BY <1>1, <1>2, <1>4 DEF TheList
  <2>3. /\ TheList[j].item = TheList[i].item
        /\ \A k \in 1..j - 1 : TheList[k].item # TheList[i].item
        /\ TheList' = Durable!RemoveAt(TheList, j)
    BY <2>1, <2>2 DEF RemoveAt, Durable!RemoveAt
  <2> QED
    BY <1>3, <2>3 DEF Durable!Delete, TheList
<1>6. OneCopy'
  BY <1>1, <1>4 DEF OneCopy
<1> QED
  BY <1>1, <1>5, <1>6 DEF Durable!Next

\* An object changed in place is on disk too, or in no list any more.
LEMMA EditInPlaceSaved ==
  ASSUME IInv, OneCopy, ~WriteFaults, screen = "list", NEW i \in 1..Len(cells), NEW object,
         listItems' = Changed(i, object), saveToPersistentStorage(listItems'), UNCHANGED opened
  PROVE  /\ OneCopy' /\ opened /\ TheList = listItems /\ TheList' = listItems'
         /\ cells[i] \in 0..Len(listItems)
         /\ cells[i] = 0 => UNCHANGED TheList
         /\ cells[i] # 0 => /\ cells[i] \in 1..Len(listItems)
                            /\ listItems' = [listItems EXCEPT ![cells[i]] = object]
<1>1. opened /\ opened'
  BY DEF OneCopy
<1>2. file'.items = listItems' /\ file'.readable
  BY SaveSucceeds
<1>3. cells[i] \in 0..Len(listItems) /\ Len(listItems) \in Nat
  BY ElementOfSeq DEF IInv, TypeOK
<1>4. OneCopy'
  BY <1>1, <1>2 DEF OneCopy
<1> QED
  BY <1>1, <1>3, <1>4 DEF TheList, Changed

LEMMA ToggleTicks ==
  ASSUME IInv, OneCopy, ~WriteFaults, NEW i \in 1..MaxItems, toggleItemChecked(i)
  PROVE  OneCopy' /\ (Durable!Next \/ UNCHANGED TheList)
<1> DEFINE p == cells[i]
           object == [listItems[p] EXCEPT !.isChecked = ~@]
<1>1. /\ OneCopy' /\ opened /\ UNCHANGED opened
      /\ p = 0 => UNCHANGED TheList
      /\ p # 0 => p \in 1..Len(listItems) /\ listItems' = [listItems EXCEPT ![p] = object]
  BY EditInPlaceSaved DEF toggleItemChecked
<1>2. CASE p # 0
  <2>1. Durable!Tick(p)
    BY <1>1, <1>2 DEF Durable!Tick
  <2> QED
    BY <1>1, <1>2, <2>1 DEF Durable!Next
<1> QED
  BY <1>1, <1>2

LEMMA EditItemRenames ==
  ASSUME IInv, OneCopy, ~WriteFaults, NEW i \in 1..MaxItems, NEW t \in Names,
         editItemButtonTapped(i, t)
  PROVE  OneCopy' /\ (Durable!Next \/ UNCHANGED TheList)
<1> DEFINE p == cells[i]
           object == [listItems[p] EXCEPT !.item = t]
<1>1. /\ OneCopy' /\ opened /\ UNCHANGED opened
      /\ p = 0 => UNCHANGED TheList
      /\ p # 0 => p \in 1..Len(listItems) /\ listItems' = [listItems EXCEPT ![p] = object]
  BY EditInPlaceSaved DEF editItemButtonTapped
<1>2. CASE p # 0
  <2>1. Durable!Rename(p)
    BY <1>1, <1>2 DEF Durable!Rename
  <2> QED
    BY <1>1, <1>2, <2>1 DEF Durable!Next
<1> QED
  BY <1>1, <1>2

LEMMA AddListItemAdds ==
  ASSUME IInv, OneCopy, ~WriteFaults, NEW t \in Names, addListItemButtonTapped(t)
  PROVE  OneCopy' /\ Durable!Next
<1>1. <<t>> \in Seq(Names) /\ <<t>> # <<>> /\ Len(<<t>>) = 1
  OBVIOUS
<1>2. opened /\ opened' /\ TheList = listItems /\ TheList' = listItems'
  BY DEF addListItemButtonTapped, OneCopy, TheList
<1>3. /\ Fits(<<t>>, TheList) /\ TheList' = Prepended(<<t>>, TheList)
  BY <1>1, <1>2, MaxItemsAssumption DEF addListItemButtonTapped, Fits, IInv, TypeOK
<1>4. file' = Readable(listItems')
  BY <1>1 DEF addListItemButtonTapped, saveEachLine
<1>5. OneCopy'
  BY <1>2, <1>4 DEF OneCopy, Readable
<1> QED
  BY <1>1, <1>3, <1>5, AddsLines

\* Adding from another screen, with the list pushed before, after or not at all.
LEMMA AddingAdds ==
  ASSUME IInv, OneCopy, ~WriteFaults, OpenFirst, NEW b \in Batches,
         addRecipeIngredients(b) \/ SeeListAddThenLoad(b) \/ SeeListLoadThenAdd(b)
  PROVE  OneCopy' /\ (Durable!Next \/ UNCHANGED TheList)
<1>1. CASE addRecipeIngredients(b)
  BY <1>1, SavesLines DEF addRecipeIngredients, saveEachLine, OneCopy, TheList
<1>2. CASE SeeListAddThenLoad(b)
  <2>1. /\ opened /\ opened' /\ Fits(b, listItems) /\ TheList = listItems
        /\ b = <<>> => UNCHANGED file
        /\ b # <<>> => file' = Readable(Prepended(b, listItems))
    BY <1>2 DEF SeeListAddThenLoad, TheList
  <2>2. b \in Seq(Names) /\ listItems \in Seq(Item)
    BY BatchesAssumption DEF IInv, TypeOK
  <2>3. listItems' = Prepended(b, listItems)
    <3>1. CASE b = <<>>
      BY <1>2, <2>1, <2>2, <3>1, PrependedProperties DEF SeeListAddThenLoad, OneCopy
    <3>2. CASE b # <<>>
      BY <1>2, <2>1, <3>2 DEF SeeListAddThenLoad, Readable
    <3> QED
      BY <3>1, <3>2
  <2> QED
    BY <2>1, <2>3, SavesLines
<1>3. CASE SeeListLoadThenAdd(b)
  <2>1. loadFromPersistence(listItems) = TheList
    BY DEF loadFromPersistence, OneCopy, TheList
  <2> QED
    BY <1>3, <2>1, SavesLines DEF SeeListLoadThenAdd, saveEachLine
<1> QED
  BY <1>1, <1>2, <1>3

\* A process that ends in the middle of it has added the first few lines.
LEMMA KilledAdds ==
  ASSUME IInv, OneCopy, OpenFirst, NEW b \in Batches, KilledWhileAdding(b)
  PROVE  OneCopy' /\ Durable!Next
<1>1. PICK k \in 1..Len(b) - 1 : file' = Readable(Prepended(SubSeq(b, 1, k), listItems))
  BY DEF KilledWhileAdding
<1>2. PICK c : c = SubSeq(b, 1, k)
  OBVIOUS
<1>3. b \in Seq(Names) /\ Len(b) \in Nat /\ c \in Seq(Names) /\ Len(c) = k /\ c # <<>>
  BY <1>2, BatchesAssumption, FirstLines, LenProperties, EmptySeq
<1>4. opened /\ ~opened' /\ listItems' = <<>> /\ screen' = "other" /\ Fits(b, listItems)
  BY DEF KilledWhileAdding, Relaunched
<1>5. Fits(c, TheList) /\ TheList' = Prepended(c, TheList)
  BY <1>1, <1>2, <1>3, <1>4, MaxItemsAssumption DEF Fits, TheList, Readable, IInv, TypeOK
<1>6. OneCopy'
  BY <1>1, <1>4 DEF OneCopy, Readable
<1> QED
  BY <1>3, <1>5, <1>6, AddsLines

LEMMA ClearClears ==
  ASSUME IInv, OneCopy, ~WriteFaults, clearListItems
  PROVE  OneCopy' /\ Durable!Next
<1>1. opened /\ opened' /\ listItems' = <<>> /\ file'.items = listItems' /\ file'.readable
  BY SaveSucceeds DEF clearListItems, OneCopy
<1>2. OneCopy'
  BY <1>1 DEF OneCopy
<1> QED
  BY <1>1, <1>2 DEF Durable!Next, Durable!Clear

LEMMA NextKeepsList ==
  ASSUME IInv, OneCopy, ~WriteFaults, OpenFirst, [Next]_vars
  PROVE  OneCopy' /\ (Durable!Next \/ UNCHANGED TheList)
<1>1. CASE OpenList \/ ReturnToList \/ LeaveList \/ Relaunch
  BY <1>1, NavigationKeepsList
<1>2. CASE clearListItems
  BY <1>2, ClearClears
<1>3. CASE \E t \in Names : addListItemButtonTapped(t)
  BY <1>3, AddListItemAdds
<1>4. ASSUME NEW i \in 1..MaxItems, cellForRowAt(i)
      PROVE  OneCopy' /\ UNCHANGED TheList
  BY <1>4 DEF cellForRowAt, OneCopy, TheList
<1>5. ASSUME NEW i \in 1..MaxItems,
             DeleteRow(i) \/ toggleItemChecked(i) \/ \E t \in Names : editItemButtonTapped(i, t)
      PROVE  OneCopy' /\ (Durable!Next \/ UNCHANGED TheList)
  BY <1>5, DeleteRowDeletes, ToggleTicks, EditItemRenames
<1>6. ASSUME NEW b \in Batches,
             \/ addRecipeIngredients(b) \/ KilledWhileAdding(b)
             \/ SeeListAddThenLoad(b) \/ SeeListLoadThenAdd(b)
      PROVE  OneCopy' /\ (Durable!Next \/ UNCHANGED TheList)
  BY <1>6, AddingAdds, KilledAdds
<1>7. CASE UNCHANGED vars
  BY <1>7 DEF vars, OneCopy, TheList
<1> QED
  BY <1>1, <1>2, <1>3, <1>4, <1>5, <1>6, <1>7 DEF Next

\* While saves succeed and the user opens the list before adding to it from
\* elsewhere, the app keeps one list: handlers, reloads, relaunches and additions
\* cut short are all steps of DurableList.
THEOREM OneList == ~WriteFaults /\ OpenFirst => (Spec => KeepsTheList)
<1> SUFFICES ASSUME ~WriteFaults, OpenFirst PROVE Spec => KeepsTheList
  OBVIOUS
<1>1. Init => OneCopy /\ Durable!Init
  BY DEF Init, OneCopy, Unreadable, Durable!Init
<1>2. IInv /\ OneCopy /\ [Next]_vars => OneCopy'
  BY NextKeepsList
<1>3. IInv /\ OneCopy /\ [Next]_vars => [Durable!Next]_(IF opened THEN listItems ELSE file.items)
  BY NextKeepsList DEF TheList
<1> QED
  BY <1>1, <1>2, <1>3, Invariance, PTL DEF Spec, KeepsTheList, Durable!Spec
=============================================================================
