--------------------------- MODULE HomeTableProofs ---------------------------
(***************************************************************************)
(* Proofs about HomeTable for every set of recipes and of cells, whatever  *)
(* the store returns, and for every number of rows.                        *)
(***************************************************************************)
EXTENDS HomeTable, SequenceTheorems, TLAPS

-----------------------------------------------------------------------------
(* Facts about sequences *)

\* RemoveAt takes element j out, and those behind it move up.
LEMMA RemoveAtProperties ==
  ASSUME NEW S, NEW s \in Seq(S), NEW j \in 1..Len(s)
  PROVE  /\ RemoveAt(s, j) \in Seq(S)
         /\ Len(s) \in Nat /\ Len(RemoveAt(s, j)) = Len(s) - 1
         /\ \A i \in 1..(Len(s) - 1) : RemoveAt(s, j)[i] = IF i < j THEN s[i] ELSE s[i + 1]
<1> DEFINE front == SubSeq(s, 1, j - 1)
           back == SubSeq(s, j + 1, Len(s))
<1>0. Len(s) \in Nat /\ j \in Nat /\ 1 <= j /\ j <= Len(s)
  BY LenProperties
<1>1. /\ front \in Seq(S) /\ Len(front) = j - 1
      /\ \A i \in 1..(j - 1) : front[i] = s[i]
  <2>1. \A i \in 1..(j - 1) : s[i] \in S
    BY <1>0, ElementOfSeq
  <2>2. /\ front \in Seq(S) /\ Len(front) = IF 1 <= j - 1 THEN j - 1 - 1 + 1 ELSE 0
        /\ \A i \in 1..(j - 1 - 1 + 1) : front[i] = s[1 + i - 1]
    BY <1>0, <2>1, SubSeqProperties
  <2> HIDE DEF front
  <2> QED
    BY <1>0, <2>2
<1>2. /\ back \in Seq(S) /\ Len(back) = Len(s) - j
      /\ \A i \in 1..(Len(s) - j) : back[i] = s[j + i]
  <2>1. \A i \in (j + 1)..Len(s) : s[i] \in S
    BY <1>0, ElementOfSeq
  <2>2. /\ back \in Seq(S) /\ Len(back) = IF j + 1 <= Len(s) THEN Len(s) - (j + 1) + 1 ELSE 0
        /\ \A i \in 1..(Len(s) - (j + 1) + 1) : back[i] = s[(j + 1) + i - 1]
    BY <1>0, <2>1, SubSeqProperties
  <2> HIDE DEF back
  <2> QED
    BY <1>0, <2>2
<1>3. RemoveAt(s, j) = front \o back
  BY DEF RemoveAt
<1> HIDE DEF front, back
<1>4. /\ front \o back \in Seq(S) /\ Len(front \o back) = Len(front) + Len(back)
      /\ \A i \in 1..(Len(front) + Len(back)) :
           (front \o back)[i] = IF i <= Len(front) THEN front[i] ELSE back[i - Len(front)]
  BY <1>1, <1>2, ConcatProperties
<1>5. \A i \in 1..(Len(s) - 1) : RemoveAt(s, j)[i] = IF i < j THEN s[i] ELSE s[i + 1]
  <2> TAKE i \in 1..(Len(s) - 1)
  <2>1. i \in 1..(Len(front) + Len(back))
    BY <1>0, <1>1, <1>2
  <2>2. CASE i < j
    <3>1. i \in 1..(j - 1) /\ i <= Len(front)
      BY <1>0, <1>1, <2>2
    <3> QED
      BY <1>1, <1>3, <1>4, <2>1, <2>2, <3>1
  <2>3. CASE ~(i < j)
    <3>1. /\ ~(i <= Len(front)) /\ i - Len(front) \in 1..(Len(s) - j)
          /\ j + (i - Len(front)) = i + 1
      BY <1>0, <1>1, <2>3
    <3> QED
      BY <1>2, <1>3, <1>4, <2>1, <2>3, <3>1
  <2> QED
    BY <2>2, <2>3
<1> QED
  BY <1>0, <1>1, <1>2, <1>3, <1>4, <1>5

\* The slice of the last few is a list, with as many as there are of them.
LEMMA RecentProperties ==
  ASSUME NEW list \in Seq(Recipes)
  PROVE  /\ Recent(list) \in Seq(Recipes)
         /\ Len(Recent(list)) \in 0..Shown
         /\ Recent(list) = <<>> <=> list = <<>>
<1> DEFINE m == IF Len(list) > Shown THEN Len(list) - Shown + 1 ELSE 1
           n == Len(list)
<1>1. n \in Nat /\ Shown \in Nat /\ 1 <= Shown
  BY HomeBounds, LenProperties
<1>2. m \in Int /\ 1 <= m /\ (n = 0 => m = 1) /\ (n # 0 => m <= n) /\ n - m + 1 <= Shown
  BY <1>1
<1> HIDE DEF m
<1>3. \A i \in m..n : list[i] \in Recipes
  BY <1>1, <1>2, ElementOfSeq
<1>4. /\ SubSeq(list, m, n) \in Seq(Recipes)
      /\ Len(SubSeq(list, m, n)) = IF m <= n THEN n - m + 1 ELSE 0
  BY <1>1, <1>2, <1>3, SubSeqProperties
<1>5. Recent(list) = SubSeq(list, m, n)
  BY DEF Recent, m
<1>6. (list = <<>> <=> n = 0) /\ (Recent(list) = <<>> <=> Len(Recent(list)) = 0)
  BY <1>4, <1>5, EmptySeq
<1> HIDE DEF n
<1> QED
  BY <1>1, <1>2, <1>4, <1>5, <1>6

-----------------------------------------------------------------------------
(* The inductive invariant *)

Cell == [recipe : Recipes \cup {Mock, None}, image : Recipes \cup {Mock, None}, enabled : BOOLEAN]
Image == [cell : Cells, of : Recipes]

\* What TypeOK says, with the cells and the images as wholes.
Typed ==
  /\ savedRecipes \in Seq(Recipes) /\ recentlySavedRecipes \in Seq(Recipes)
  /\ sections \in 0..Shown
  /\ table \in Seq(Cells) /\ IsInjective(table) /\ Len(table) \in {0, sections}
  /\ cell \in [Cells -> Cell] /\ images \in Seq(Image)
  /\ load \in {"queued", "asked", "done"} /\ home \in BOOLEAN /\ trapped \in BOOLEAN
  /\ awry \subseteq Cells

\* On screen, the count is that of the slice or the list was emptied since.
CountFits ==
  /\ ~trapped
  /\ home => savedRecipes = <<>> \/ sections = Len(Recent(savedRecipes))

\* A cell that takes taps shows the recipe that its section of the slice has.
CellsShowSlice ==
  \A i \in 1..Len(table) :
    cell[table[i]].enabled => /\ i \in 1..Len(recentlySavedRecipes)
                              /\ recentlySavedRecipes[i] = cell[table[i]].recipe

\* The image that cell c is going to have is of recipe r: the last under way for
\* it is, or there is none and it is there.
Expects(c, r) ==
  /\ \A i \in 1..Len(images) :
       /\ images[i].cell = c
       /\ \A j \in 1..Len(images) : i < j => images[j].cell # c
       => images[i].of = r
  /\ (\A i \in 1..Len(images) : images[i].cell # c) => cell[c].image = r

\* Each cell of the table is going to have the image of its recipe.
ImagesExpected ==
  \A k \in 1..Len(table) :
    LET c == table[k]
    IN c \notin awry /\ cell[c].recipe \in Recipes => Expects(c, cell[c].recipe)

IInv == Typed /\ CountFits /\ CellsShowSlice /\ ImagesExpected

\* An empty table shows nothing wrong.
LEMMA EmptyTable ==
  ASSUME Typed, table' = <<>>
  PROVE  /\ table' \in Seq(Cells) /\ IsInjective(table') /\ Len(table') = 0
         /\ CellsShowSlice' /\ ImagesExpected'
<1>1. <<>> \in Seq(Cells) /\ Len(<<>>) = 0 /\ DOMAIN <<>> = {}
  BY EmptySeq, LenProperties
<1>2. IsInjective(table')
  BY <1>1 DEF IsInjective
<1> QED
  BY <1>1, <1>2 DEF CellsShowSlice, ImagesExpected

\* The count of a reload is that of the slice.
LEMMA ReloadCounts ==
  ASSUME NEW list \in Seq(Recipes), reloadData(list)
  PROVE  sections' \in 0..Shown /\ sections' = Len(Recent(list)) /\ table' = <<>>
BY RecentProperties DEF reloadData

-----------------------------------------------------------------------------
(* The steps *)

\* The initial states satisfy the invariant, whatever an earlier login left.
LEMMA InitIInv == Init => IInv
<1> SUFFICES ASSUME Init PROVE IInv
  OBVIOUS
<1>1. /\ <<>> \in Seq(Recipes) /\ <<>> \in Seq(Cells) /\ <<>> \in Seq(Image)
      /\ Len(<<>>) = 0 /\ DOMAIN <<>> = {}
  BY EmptySeq, LenProperties
<1>2. savedRecipes \in Seq(Recipes)
  BY <1>1, StoredAssumption DEF Init
<1>3. cell \in [Cells -> Cell]
  BY DEF Init, Cell
<1>4. IsInjective(table)
  BY <1>1 DEF Init, IsInjective
<1>5. Typed
  <2>1. sections \in 0..Shown /\ Len(table) \in {0, sections}
    BY <1>1, HomeBounds DEF Init
  <2>2. awry \subseteq Cells /\ table \in Seq(Cells) /\ images \in Seq(Image)
    BY <1>1 DEF Init
  <2> QED
    BY <1>1, <1>2, <1>3, <1>4, <2>1, <2>2 DEF Init, Typed
<1>6. CountFits
  BY DEF Init, CountFits
<1>7. CellsShowSlice /\ ImagesExpected
  BY <1>1 DEF Init, CellsShowSlice, ImagesExpected
<1> QED
  BY <1>5, <1>6, <1>7 DEF IInv

\* Coming to the screen counts anew.
LEMMA viewWillAppearStep == IInv /\ viewWillAppear => IInv'
<1> SUFFICES ASSUME IInv, viewWillAppear PROVE IInv'
  OBVIOUS
<1>1. /\ Typed /\ CountFits /\ reloadData(savedRecipes) /\ home' = TRUE
      /\ UNCHANGED <<savedRecipes, recentlySavedRecipes, cell, images, load, trapped, awry>>
  BY DEF IInv, viewWillAppear
<1>2. sections' \in 0..Shown /\ sections' = Len(Recent(savedRecipes)) /\ table' = <<>>
  BY <1>1, ReloadCounts DEF Typed
<1>3. /\ table' \in Seq(Cells) /\ IsInjective(table') /\ Len(table') = 0
      /\ CellsShowSlice' /\ ImagesExpected'
  BY <1>1, <1>2, EmptyTable
<1>4. Typed'
  BY <1>1, <1>2, <1>3 DEF Typed
<1>5. CountFits'
  BY <1>1, <1>2 DEF CountFits
<1> QED
  BY <1>3, <1>4, <1>5 DEF IInv

\* Whatever becomes of the saved recipes elsewhere, the screen is not in front.
LEMMA AwayStep == IInv /\ Away => IInv'
<1> SUFFICES ASSUME IInv, Away PROVE IInv'
  OBVIOUS
<1>1. /\ Typed /\ CountFits /\ home' = FALSE
      /\ UNCHANGED <<recentlySavedRecipes, sections, table, cell, images, load, trapped, awry>>
  BY DEF IInv, Away
<1>2. savedRecipes' \in Seq(Recipes)
  <2>1. ASSUME NEW r \in Recipes PROVE Append(savedRecipes, r) \in Seq(Recipes)
    BY <1>1, AppendProperties DEF Typed
  <2>2. ASSUME NEW i \in DOMAIN savedRecipes PROVE RemoveAt(savedRecipes, i) \in Seq(Recipes)
    <3>1. savedRecipes \in Seq(Recipes) /\ i \in 1..Len(savedRecipes)
      BY <1>1, LenProperties DEF Typed
    <3> QED
      BY <3>1, RemoveAtProperties
  <2> QED
    BY <1>1, <2>1, <2>2 DEF Away, Typed
<1>3. Typed'
  BY <1>1, <1>2 DEF Typed
<1>4. CountFits'
  BY <1>1 DEF CountFits
<1>5. CellsShowSlice' /\ ImagesExpected'
  BY <1>1 DEF IInv, CellsShowSlice, ImagesExpected, Expects
<1> QED
  BY <1>3, <1>4, <1>5 DEF IInv

\* The list is emptied, and the count is not.
LEMMA loadUserDataStep == IInv /\ loadUserData => IInv'
<1> SUFFICES ASSUME IInv, loadUserData PROVE IInv'
  OBVIOUS
<1>1. /\ Typed /\ CountFits /\ savedRecipes' = <<>> /\ load' = "asked"
      /\ UNCHANGED <<recentlySavedRecipes, sections, table, cell, images, home, trapped, awry>>
  BY DEF IInv, loadUserData
<1>2. <<>> \in Seq(Recipes)
  BY EmptySeq
<1>3. Typed'
  BY <1>1, <1>2 DEF Typed
<1>4. CountFits'
  BY <1>1 DEF CountFits
<1>5. CellsShowSlice' /\ ImagesExpected'
  BY <1>1 DEF IInv, CellsShowSlice, ImagesExpected, Expects
<1> QED
  BY <1>3, <1>4, <1>5 DEF IInv

\* The saved recipes arrive and are counted, or do not and nothing changes.
LEMMA FetchedStep == IInv /\ Fetched => IInv'
<1> SUFFICES ASSUME IInv, Fetched PROVE IInv'
  OBVIOUS
<1>1. /\ Typed /\ CountFits /\ load' = "done"
      /\ UNCHANGED <<recentlySavedRecipes, cell, images, home, trapped, awry>>
  BY DEF IInv, Fetched
<1>2. CASE savedRecipes' \in StoredLists /\ reloadData(savedRecipes')
  <2>1. savedRecipes' \in Seq(Recipes)
    BY <1>2, StoredAssumption
  <2>2. sections' \in 0..Shown /\ sections' = Len(Recent(savedRecipes')) /\ table' = <<>>
    BY <1>2, <2>1, ReloadCounts
  <2>3. /\ table' \in Seq(Cells) /\ IsInjective(table') /\ Len(table') = 0
        /\ CellsShowSlice' /\ ImagesExpected'
    BY <1>1, <2>2, EmptyTable
  <2>4. Typed'
    BY <1>1, <2>1, <2>2, <2>3 DEF Typed
  <2>5. CountFits'
    BY <1>1, <2>2 DEF CountFits
  <2> QED
    BY <2>3, <2>4, <2>5 DEF IInv
<1>3. CASE UNCHANGED <<savedRecipes, sections, table>>
  <2>1. Typed'
    BY <1>1, <1>3 DEF Typed
  <2>2. CountFits'
    BY <1>1, <1>3 DEF CountFits
  <2>3. CellsShowSlice' /\ ImagesExpected'
    BY <1>1, <1>3 DEF IInv, CellsShowSlice, ImagesExpected, Expects
  <2> QED
    BY <2>1, <2>2, <2>3 DEF IInv
<1> QED
  BY <1>2, <1>3 DEF Fetched

\* Drawing never reads past the slice, and gives each cell its recipe.
LEMMA cellForRowAtStep == IInv /\ cellForRowAt => IInv'
<1> SUFFICES ASSUME IInv, cellForRowAt PROVE IInv'
  OBVIOUS
<1> DEFINE recent == Recent(savedRecipes)
           isReal == recent # <<>>
           n == Len(images)
<1>1. /\ Typed /\ CountFits /\ home /\ UNCHANGED <<savedRecipes, sections, load, home>>
      /\ sections \in Nat /\ n \in Nat
  BY HomeBounds, LenProperties DEF IInv, cellForRowAt, Typed
<1>2. /\ recent \in Seq(Recipes)
      /\ isReal => sections = Len(recent)
  BY <1>1, RecentProperties DEF Typed, CountFits
<1>3. \A i \in 1..sections : isReal => recent[i] \in Recipes
  BY <1>2, ElementOfSeq
<1>4. PICK t \in [1..sections -> Cells] :
        LET at(c) == CHOOSE i \in 1..sections : t[i] = c
        IN /\ IsInjective(t)
           /\ trapped' = (isReal /\ sections > Len(recent))
           /\ ~trapped' =>
                /\ table' = t
                /\ cell' = [c \in Cells |-> IF c \notin Range(t) THEN cell[c]
                                           ELSE IF isReal THEN Drawn(cell[c], recent[at(c)])
                                           ELSE DrawnMock(cell[c])]
                /\ images' = IF isReal
                     THEN images \o [i \in 1..sections |-> [cell |-> t[i], of |-> recent[i]]]
                     ELSE images
                /\ awry' = awry \ Range(t)
                /\ recentlySavedRecipes' = IF isReal THEN recent ELSE recentlySavedRecipes
  BY DEF cellForRowAt, remember
<1> DEFINE at(c) == CHOOSE i \in 1..sections : t[i] = c
           new == [i \in 1..sections |-> [cell |-> t[i], of |-> recent[i]]]
<1>5. trapped' = FALSE
  <2>1. ~(isReal /\ sections > Len(recent))
    BY <1>1, <1>2
  <2>2. trapped' = (isReal /\ sections > Len(recent))
    BY <1>4
  <2> QED
    BY Zenon, <2>1, <2>2
<1>6. /\ t \in Seq(Cells) /\ Len(t) = sections /\ DOMAIN t = 1..sections
      /\ \A i, j \in 1..sections : t[i] = t[j] => i = j
  BY <1>1, <1>4 DEF IsInjective
<1>7. \A i \in 1..sections : t[i] \in Cells /\ t[i] \in Range(t) /\ at(t[i]) = i
  <2> TAKE i \in 1..sections
  <2>1. at(t[i]) \in 1..sections /\ t[at(t[i])] = t[i]
    OBVIOUS
  <2> HIDE DEF at
  <2> QED
    BY <1>6, <2>1 DEF Range
<1>8. \A c \in Range(t) : \E i \in 1..sections : c = t[i]
  BY <1>6 DEF Range
<1>9. /\ table' = t
      /\ cell' = [c \in Cells |-> IF c \notin Range(t) THEN cell[c]
                                 ELSE IF isReal THEN Drawn(cell[c], recent[at(c)])
                                 ELSE DrawnMock(cell[c])]
      /\ images' = IF isReal THEN images \o new ELSE images
      /\ awry' = awry \ Range(t)
      /\ recentlySavedRecipes' = IF isReal THEN recent ELSE recentlySavedRecipes
  BY <1>4, <1>5
<1> HIDE DEF at, recent
<1>10. CountFits'
  BY <1>1, <1>5 DEF CountFits
<1>11. \A c \in Cells : cell[c] \in Cell
  BY <1>1 DEF Typed
<1>12. \A c \in Cells : c \notin Range(t) => cell'[c] = cell[c]
  BY <1>9
<1>13. CASE isReal
  <2>1. \A c \in Range(t) : at(c) \in 1..sections /\ recent[at(c)] \in Recipes
    BY <1>3, <1>7, <1>8, <1>13
  <2>2. \A i \in 1..sections : /\ cell'[t[i]] = Drawn(cell[t[i]], recent[i])
                               /\ cell'[t[i]].recipe = recent[i]
    <3> TAKE i \in 1..sections
    <3>1. cell'[t[i]] = Drawn(cell[t[i]], recent[i])
      BY <1>7, <1>9, <1>13
    <3> QED
      BY <1>7, <1>11, <3>1 DEF Drawn, Cell
  <2>3. \A c \in Cells : cell'[c] \in Cell
    <3> TAKE c \in Cells
    <3>1. CASE c \notin Range(t)
      BY <1>11, <1>12, <3>1
    <3>2. CASE c \in Range(t)
      <4>1. cell'[c] = Drawn(cell[c], recent[at(c)])
        BY <1>9, <1>13, <3>2
      <4> QED
        BY <1>11, <2>1, <3>2, <4>1 DEF Drawn, Cell
    <3> QED
      BY <3>1, <3>2
  <2>4. cell' \in [Cells -> Cell]
    <3>1. DOMAIN cell' = Cells /\ cell' = [c \in Cells |-> cell'[c]]
      BY <1>9
    <3> QED
      BY <2>3, <3>1
  <2>5. /\ new \in Seq(Image) /\ Len(new) = sections
        /\ \A i \in 1..sections : new[i] = [cell |-> t[i], of |-> recent[i]]
    <3>1. \A i \in 1..sections : [cell |-> t[i], of |-> recent[i]] \in Image
      BY <1>3, <1>7, <1>13 DEF Image
    <3> QED
      BY <1>1, <3>1
  <2> HIDE DEF new
  <2>6. /\ images' \in Seq(Image) /\ Len(images') = n + sections
        /\ \A i \in 1..(n + sections) :
             images'[i] = IF i <= n THEN images[i] ELSE new[i - n]
    <3>1. images \in Seq(Image) /\ images' = images \o new
      BY <1>1, <1>9, <1>13 DEF Typed
    <3>2. /\ images \o new \in Seq(Image) /\ Len(images \o new) = Len(images) + Len(new)
          /\ \A i \in 1..(Len(images) + Len(new)) :
               (images \o new)[i] = IF i <= Len(images) THEN images[i] ELSE new[i - Len(images)]
      BY <2>5, <3>1, ConcatProperties
    <3> QED
      BY <2>5, <3>1, <3>2
  <2> HIDE DEF n
  <2>7. Typed'
    BY <1>1, <1>2, <1>4, <1>5, <1>6, <1>9, <1>13, <2>4, <2>6 DEF Typed
  <2>8. CellsShowSlice'
    BY <1>2, <1>6, <1>9, <1>13, <2>2 DEF CellsShowSlice
  <2>9. ASSUME NEW k \in 1..sections
        PROVE  Expects(t[k], recent[k])'
    <3>1. n + k \in 1..(n + sections) /\ ~(n + k <= n) /\ n + k - n = k
      BY <1>1
    <3>2. images'[n + k].cell = t[k] /\ images'[n + k].of = recent[k]
      <4>1. images'[n + k] = new[k]
        <5>1. PICK p \in 1..(n + sections) : p = n + k /\ ~(p <= n) /\ p - n = k
          BY <1>1
        <5>2. images'[p] = new[p - n]
          BY <2>6, <5>1
        <5> QED
          BY <5>1, <5>2
      <4>2. new[k] = [cell |-> t[k], of |-> recent[k]]
        BY <2>5
      <4> QED
        BY <4>1, <4>2
    <3>3. ASSUME NEW i \in 1..(n + sections), images'[i].cell = t[k],
                 \A j \in 1..(n + sections) : i < j => images'[j].cell # t[k]
          PROVE  images'[i].of = recent[k]
      <4>1. ~(i < n + k)
        BY <3>1, <3>2, <3>3
      <4>2. ~(i <= n) /\ i - n \in 1..sections
        BY <1>1, <4>1
      <4>3. images'[i].cell = t[i - n]
        BY <2>5, <2>6, <4>2
      <4>4. i - n = k
        BY <1>6, <3>3, <4>2, <4>3
      <4> QED
        BY <2>5, <2>6, <4>2, <4>4
    <3>4. \E i \in 1..(n + sections) : images'[i].cell = t[k]
      BY <3>1, <3>2
    <3>5. recent' = recent
      BY <1>1 DEF recent
    <3>6. /\ \A i \in 1..Len(images') :
               /\ images'[i].cell = t[k]
               /\ \A j \in 1..Len(images') : i < j => images'[j].cell # t[k]
               => images'[i].of = recent[k]
          /\ (\A i \in 1..Len(images') : images'[i].cell # t[k]) => cell'[t[k]].image = recent[k]
      BY <2>6, <3>3, <3>4
    <3> QED
      BY <3>5, <3>6 DEF Expects
  <2>10. ImagesExpected'
    <3>1. recent' = recent
      BY <1>1 DEF recent
    <3>2. \A k \in 1..sections : Expects(t[k], cell[t[k]].recipe)'
      BY <2>2, <2>9, <3>1 DEF Expects
    <3> QED
      BY <1>6, <1>9, <3>2 DEF ImagesExpected
  <2> QED
    BY <1>10, <2>7, <2>8, <2>10 DEF IInv
<1>14. CASE ~isReal
  <2>1. \A c \in Range(t) \cap Cells :
          /\ cell'[c] = [recipe |-> Mock, image |-> Mock, enabled |-> FALSE]
          /\ cell'[c] \in Cell /\ ~cell'[c].enabled /\ cell'[c].recipe \notin Recipes
    BY <1>9, <1>14, HomeNames DEF DrawnMock, Cell
  <2>2. cell' \in [Cells -> Cell]
    <3>1. DOMAIN cell' = Cells /\ cell' = [c \in Cells |-> cell'[c]]
      BY <1>9
    <3>2. \A c \in Cells : cell'[c] \in Cell
      BY <1>11, <1>12, <2>1
    <3> QED
      BY <3>1, <3>2
  <2>3. Typed'
    BY <1>1, <1>4, <1>5, <1>6, <1>9, <1>14, <2>2 DEF Typed
  <2>4. CellsShowSlice'
    BY <1>6, <1>7, <1>9, <2>1 DEF CellsShowSlice
  <2>5. ImagesExpected'
    BY <1>6, <1>7, <1>9, <2>1 DEF ImagesExpected
  <2> QED
    BY <1>10, <2>3, <2>4, <2>5 DEF IInv
<1> QED
  BY <1>13, <1>14

\* An image comes, or does not, for whatever its cell shows by now.
LEMMA fetchImageStep ==
  ASSUME IInv, NEW i \in 1..MaxImages, fetchImage(i)
  PROVE  IInv'
<1> DEFINE n == Len(images)
           c == images[i].cell
           r == images[i].of
<1>1. /\ Typed /\ CountFits /\ images \in Seq(Image) /\ n \in Nat /\ i \in 1..n
      /\ UNCHANGED <<savedRecipes, recentlySavedRecipes, sections, table, load, home, trapped>>
  BY LenProperties DEF IInv, Typed, fetchImage
<1>2. images[i] \in Image /\ c \in Cells /\ r \in Recipes
  <2>1. images[i] \in Image
    BY <1>1, ElementOfSeq
  <2> QED
    BY <2>1 DEF Image
<1>3. images' = RemoveAt(images, i)
  BY DEF fetchImage
<1>4. /\ images' \in Seq(Image) /\ Len(images') = n - 1
      /\ \A j \in 1..(n - 1) : images'[j] = IF j < i THEN images[j] ELSE images[j + 1]
  BY <1>1, <1>3, RemoveAtProperties
<1>5. \/ /\ cell' = [cell EXCEPT ![c] = [@ EXCEPT !.image = r]]
         /\ awry' = IF \E j \in 1..(i - 1) : images[j].cell = c THEN awry \cup {c} ELSE awry
      \/ awry' = awry \cup {c} /\ cell' = cell
  BY DEF fetchImage, WithImage
<1> HIDE DEF n, c, r
<1>6. \A k \in 1..n : k # i => \E l \in 1..(n - 1) : images'[l] = images[k]
  <2> SUFFICES ASSUME NEW k \in 1..n, k # i
               PROVE  \E l \in 1..(n - 1) : images'[l] = images[k]
    OBVIOUS
  <2>1. CASE k < i
    <3>1. k \in 1..(n - 1)
      BY <1>1, <2>1
    <3> QED
      BY <1>4, <2>1, <3>1
  <2>2. CASE ~(k < i)
    <3>1. k - 1 \in 1..(n - 1) /\ ~(k - 1 < i) /\ (k - 1) + 1 = k
      BY <1>1, <2>2
    <3> QED
      BY <1>4, <3>1
  <2> QED
    BY <2>1, <2>2
<1>7. ASSUME NEW l \in 1..(n - 1)
      PROVE  \E k \in 1..n : /\ k # i /\ images'[l] = images[k]
                             /\ \A m \in 1..n : k < m /\ m # i =>
                                  \E j \in 1..(n - 1) : l < j /\ images'[j] = images[m]
  <2> DEFINE k == IF l < i THEN l ELSE l + 1
  <2>1. k \in 1..n /\ k # i /\ l <= k
    BY <1>1
  <2>2. images'[l] = images[k]
    BY <1>4
  <2>3. ASSUME NEW m \in 1..n, k < m, m # i
        PROVE  \E j \in 1..(n - 1) : l < j /\ images'[j] = images[m]
    <3>1. CASE m < i
      <4>1. m \in 1..(n - 1) /\ l < m
        BY <1>1, <2>3, <3>1
      <4> QED
        BY <1>4, <3>1, <4>1
    <3>2. CASE ~(m < i)
      <4>1. m - 1 \in 1..(n - 1) /\ ~(m - 1 < i) /\ (m - 1) + 1 = m /\ l < m - 1
        BY <1>1, <2>3, <3>2
      <4> QED
        BY <1>4, <4>1
    <3> QED
      BY <3>1, <3>2
  <2> HIDE DEF k
  <2> QED
    BY <2>1, <2>2, <2>3
<1>8. /\ cell' \in [Cells -> Cell] /\ awry' \subseteq Cells /\ awry \subseteq awry'
      /\ \A d \in Cells : /\ cell'[d].recipe = cell[d].recipe /\ cell'[d].enabled = cell[d].enabled
                          /\ d # c => cell'[d] = cell[d]
  <2>1. /\ cell \in [Cells -> Cell] /\ awry \subseteq Cells /\ cell[c] \in Cell
        /\ \A d \in Cells : cell[d] \in Cell
    BY <1>1, <1>2 DEF Typed
  <2>2. CASE cell' = cell
    BY <1>2, <1>5, <2>1, <2>2
  <2>3. CASE cell' = [cell EXCEPT ![c] = [@ EXCEPT !.image = r]]
    <3> DEFINE x == [cell[c] EXCEPT !.image = r]
    <3>1. x \in Cell /\ x.recipe = cell[c].recipe /\ x.enabled = cell[c].enabled
      BY <1>2, <2>1 DEF Cell
    <3>2. cell' = [cell EXCEPT ![c] = x]
      BY <2>3
    <3> HIDE DEF x
    <3>3. /\ cell' \in [Cells -> Cell] /\ cell'[c] = x
          /\ \A d \in Cells : d # c => cell'[d] = cell[d]
      BY <1>2, <2>1, <3>1, <3>2
    <3>4. awry' \subseteq Cells /\ awry \subseteq awry'
      BY <1>2, <1>5, <2>1
    <3> QED
      BY <3>1, <3>3, <3>4
  <2> QED
    BY <1>5, <2>2, <2>3
<1>9. Typed'
  BY <1>1, <1>4, <1>8 DEF Typed
<1>10. CountFits'
  BY <1>1 DEF CountFits
<1>11. \A k \in 1..Len(table) : table[k] \in Cells
  BY <1>1, ElementOfSeq DEF Typed
<1>12. CellsShowSlice'
  BY <1>1, <1>8, <1>11 DEF IInv, CellsShowSlice
<1>13. ASSUME NEW d \in Cells, NEW q, Expects(d, q), d \notin awry'
       PROVE  Expects(d, q)'
  <2>0. /\ \A k \in 1..n :
             images[k].cell = d /\ (\A j \in 1..n : k < j => images[j].cell # d) => images[k].of = q
        /\ (\A k \in 1..n : images[k].cell # d) => cell[d].image = q
    BY <1>13 DEF Expects, n
  <2>1. d = c => /\ \A j \in 1..(i - 1) : images[j].cell # c
                 /\ cell' = [cell EXCEPT ![c] = [@ EXCEPT !.image = r]]
    BY <1>5, <1>13
  <2>2. ASSUME NEW l \in 1..(n - 1), images'[l].cell = d,
               \A j \in 1..(n - 1) : l < j => images'[j].cell # d
        PROVE  images'[l].of = q
    <3>1. PICK k \in 1..n : /\ k # i /\ images'[l] = images[k]
                            /\ \A m \in 1..n : k < m /\ m # i =>
                                 \E j \in 1..(n - 1) : l < j /\ images'[j] = images[m]
      BY <1>7
    <3>2. \A m \in 1..n : k < m /\ m # i => images[m].cell # d
      BY <2>2, <3>1
    <3>3. k < i => images[i].cell # d
      <4> SUFFICES ASSUME k < i, d = c PROVE FALSE
        BY DEF c
      <4>1. k \in 1..(i - 1) /\ images[k].cell = c
        BY <1>1, <2>2, <3>1
      <4> QED
        BY <2>1, <4>1
    <3>4. \A m \in 1..n : k < m => images[m].cell # d
      BY <3>2, <3>3
    <3> QED
      BY <2>0, <2>2, <3>1, <3>4
  <2>3. ASSUME \A l \in 1..(n - 1) : images'[l].cell # d
        PROVE  cell'[d].image = q
    <3>1. \A k \in 1..n : k # i => images[k].cell # d
      BY <1>6, <2>3
    <3>2. CASE d # c
      <4>1. images[i].cell # d
        BY <3>2 DEF c
      <4> QED
        BY <1>8, <2>0, <3>1, <3>2, <4>1
    <3>3. CASE d = c
      <4>1. images[i].cell = d /\ \A j \in 1..n : i < j => images[j].cell # d
        BY <1>1, <3>1, <3>3 DEF c
      <4>2. r = q
        BY <1>1, <2>0, <4>1 DEF r
      <4>3. cell \in [Cells -> Cell] /\ cell[c] \in Cell
        BY <1>1, <1>2 DEF Typed
      <4>4. cell'[c] = [cell[c] EXCEPT !.image = r]
        BY <1>2, <2>1, <3>3, <4>3
      <4>5. cell'[c].image = r
        BY <4>3, <4>4 DEF Cell
      <4> QED
        BY <3>3, <4>2, <4>5
    <3> QED
      BY <3>2, <3>3
  <2> QED
    BY <1>4, <2>2, <2>3 DEF Expects
<1>14. ImagesExpected'
  <2> SUFFICES ASSUME NEW k \in 1..Len(table), table[k] \notin awry', cell'[table[k]].recipe \in Recipes
               PROVE  Expects(table[k], cell[table[k]].recipe)'
    BY <1>1 DEF ImagesExpected
  <2>1. /\ table[k] \in Cells /\ cell'[table[k]].recipe = cell[table[k]].recipe
        /\ table[k] \notin awry
    BY <1>8, <1>11
  <2>2. Expects(table[k], cell[table[k]].recipe)
    BY <2>1 DEF IInv, ImagesExpected
  <2>3. Expects(table[k], cell[table[k]].recipe) => Expects(table[k], cell'[table[k]].recipe)
    BY <2>1
  <2> QED
    BY <1>1, <1>13, <2>1, <2>2
<1> QED
  BY <1>9, <1>10, <1>12, <1>14 DEF IInv

\* Every step keeps the invariant.
LEMMA NextIInv == IInv /\ [Next]_vars => IInv'
<1> SUFFICES ASSUME IInv, [Next]_vars PROVE IInv'
  OBVIOUS
<1>1. CASE UNCHANGED vars
  BY <1>1 DEF vars, IInv, Typed, CountFits, CellsShowSlice, ImagesExpected, Expects
<1>2. CASE Next
  BY <1>2, viewWillAppearStep, AwayStep, loadUserDataStep, FetchedStep, cellForRowAtStep,
     fetchImageStep DEF Next
<1> QED
  BY <1>1, <1>2

\* The invariant holds throughout.
LEMMA Invariance == Spec => []IInv
BY InitIInv, NextIInv, PTL DEF Spec

-----------------------------------------------------------------------------
(* What follows from it *)

\* The variables hold what their declarations say, and no cell is in two sections.
THEOREM TypeCorrect == Spec => []TypeOK
<1>1. IInv => TypeOK
  <2> SUFFICES ASSUME IInv PROVE TypeOK
    OBVIOUS
  <2>1. \A c \in Cells : cell[c] \in Cell
    BY DEF IInv, Typed
  <2>2. \A i \in DOMAIN images : images[i] \in [cell : Cells, of : Recipes]
    BY LenProperties, ElementOfSeq DEF IInv, Typed, Image
  <2>3. \A c \in Cells : /\ cell[c].recipe \in Recipes \cup {Mock, None}
                         /\ cell[c].image \in Recipes \cup {Mock, None}
                         /\ cell[c].enabled \in BOOLEAN
    BY <2>1 DEF Cell
  <2> QED
    BY <2>2, <2>3 DEF IInv, Typed, TypeOK
<1> QED
  BY <1>1, Invariance, PTL

\* A tap opens the recipe that its cell shows, and no row number is out of range.
THEOREM TapsOpenWhatIsShown == Spec => []TapOpensWhatIsShown
<1>1. IInv => TapOpensWhatIsShown
  <2> SUFFICES ASSUME IInv PROVE TapOpensWhatIsShown
    OBVIOUS
  <2>1. /\ DOMAIN table = 1..Len(table)
        /\ DOMAIN recentlySavedRecipes = 1..Len(recentlySavedRecipes)
    BY LenProperties DEF IInv, Typed
  <2> QED
    BY <2>1 DEF IInv, CountFits, CellsShowSlice, TapOpensWhatIsShown, didSelectRowAt
<1> QED
  BY <1>1, Invariance, PTL

\* Once no image of its is under way, a cell has the image of the recipe it shows.
THEOREM ImagesAreRight == Spec => []ImagesMatch
<1>1. IInv => ImagesMatch
  <2> SUFFICES ASSUME IInv, NEW c \in Range(table) \ awry, cell[c].recipe \in Recipes,
                      \A i \in DOMAIN images : images[i].cell # c
               PROVE  cell[c].image = cell[c].recipe
    BY DEF ImagesMatch
  <2>1. DOMAIN table = 1..Len(table) /\ DOMAIN images = 1..Len(images)
    BY LenProperties DEF IInv, Typed
  <2>2. PICK k \in 1..Len(table) : c = table[k]
    BY <2>1 DEF Range
  <2>3. Expects(c, cell[c].recipe)
    BY <2>2 DEF IInv, ImagesExpected
  <2> QED
    BY <2>1, <2>3 DEF Expects
<1> QED
  BY <1>1, Invariance, PTL
=============================================================================
