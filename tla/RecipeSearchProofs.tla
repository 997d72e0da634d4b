------------------------- MODULE RecipeSearchProofs -------------------------
(***************************************************************************)
(* Proofs about RecipeSearch for every service, every set of terms and of  *)
(* screens, and every number of searches under way.                        *)
(***************************************************************************)
EXTENDS RecipeSearch, SequenceTheorems, TLAPS

-----------------------------------------------------------------------------
(* Facts about sequences *)

\* RemoveAt takes element j out, and those behind it move up.
LEMMA RemoveAtProperties ==
  ASSUME NEW S, NEW s \in Seq(S), NEW j \in 1..Len(s)
  PROVE  /\ RemoveAt(s, j) \in Seq(S)
         /\ Len(s) \in Nat /\ Len(RemoveAt(s, j)) = Len(s) - 1
         /\ \A i \in 1..(Len(s) - 1) : RemoveAt(s, j)[i] = IF i < j THEN s[i] ELSE s[i + 1]
<1> DEFINE before == SubSeq(s, 1, j - 1)
           after == SubSeq(s, j + 1, Len(s))
<1>0. Len(s) \in Nat /\ j \in Nat /\ 1 <= j /\ j <= Len(s)
  BY LenProperties
<1>1. /\ before \in Seq(S) /\ Len(before) = j - 1
      /\ \A i \in 1..(j - 1) : before[i] = s[i]
  <2>1. \A i \in 1..(j - 1) : s[i] \in S
    BY <1>0, ElementOfSeq
  <2>2. /\ before \in Seq(S) /\ Len(before) = IF 1 <= j - 1 THEN j - 1 - 1 + 1 ELSE 0
        /\ \A i \in 1..(j - 1 - 1 + 1) : before[i] = s[1 + i - 1]
    BY <1>0, <2>1, SubSeqProperties
  <2> HIDE DEF before
  <2> QED
    BY <1>0, <2>2
<1>2. /\ after \in Seq(S) /\ Len(after) = Len(s) - j
      /\ \A i \in 1..(Len(s) - j) : after[i] = s[j + i]
  <2>1. \A i \in (j + 1)..Len(s) : s[i] \in S
    BY <1>0, ElementOfSeq
  <2>2. /\ after \in Seq(S) /\ Len(after) = IF j + 1 <= Len(s) THEN Len(s) - (j + 1) + 1 ELSE 0
        /\ \A i \in 1..(Len(s) - (j + 1) + 1) : after[i] = s[(j + 1) + i - 1]
    BY <1>0, <2>1, SubSeqProperties
  <2> HIDE DEF after
  <2> QED
    BY <1>0, <2>2
<1>3. RemoveAt(s, j) = before \o after
  BY DEF RemoveAt
<1> HIDE DEF before, after
<1>4. /\ before \o after \in Seq(S) /\ Len(before \o after) = Len(before) + Len(after)
      /\ \A i \in 1..(Len(before) + Len(after)) :
           (before \o after)[i] = IF i <= Len(before) THEN before[i] ELSE after[i - Len(before)]
  BY <1>1, <1>2, ConcatProperties
<1>5. \A i \in 1..(Len(s) - 1) : RemoveAt(s, j)[i] = IF i < j THEN s[i] ELSE s[i + 1]
  <2> TAKE i \in 1..(Len(s) - 1)
  <2>1. i \in 1..(Len(before) + Len(after))
    BY <1>0, <1>1, <1>2
  <2>2. CASE i < j
    <3>1. i \in 1..(j - 1) /\ i <= Len(before)
      BY <1>0, <1>1, <2>2
    <3> QED
      BY <1>1, <1>3, <1>4, <2>1, <2>2, <3>1
  <2>3. CASE ~(i < j)
    <3>1. /\ ~(i <= Len(before)) /\ i - Len(before) \in 1..(Len(s) - j)
          /\ j + (i - Len(before)) = i + 1
      BY <1>0, <1>1, <2>3
    <3> QED
      BY <1>2, <1>3, <1>4, <2>1, <2>3, <3>1
  <2> QED
    BY <2>2, <2>3
<1> QED
  BY <1>0, <1>1, <1>2, <1>3, <1>4, <1>5

\* What RemoveAt leaves is what was there but for one, in its order.
LEMMA RemoveAtOrder ==
  ASSUME NEW S, NEW s \in Seq(S), NEW j \in 1..Len(s)
  PROVE  LET n == Len(s)
             t == RemoveAt(s, j)
         IN /\ \A k \in 1..n : k # j => \E l \in 1..(n - 1) : t[l] = s[k]
            /\ \A l \in 1..(n - 1) : \E k \in 1..n :
                 /\ k # j /\ t[l] = s[k]
                 /\ \A m \in 1..n : k < m /\ m # j => \E p \in 1..(n - 1) : l < p /\ t[p] = s[m]
<1> DEFINE n == Len(s)
           t == RemoveAt(s, j)
<1>1. /\ n \in Nat /\ j \in 1..n
      /\ \A l \in 1..(n - 1) : t[l] = IF l < j THEN s[l] ELSE s[l + 1]
  BY RemoveAtProperties
<1> HIDE DEF n, t
<1>2. \A k \in 1..n : k # j => \E l \in 1..(n - 1) : t[l] = s[k]
  <2> SUFFICES ASSUME NEW k \in 1..n, k # j PROVE \E l \in 1..(n - 1) : t[l] = s[k]
    OBVIOUS
  <2>1. CASE k < j
    <3>1. k \in 1..(n - 1)
      BY <1>1, <2>1
    <3> QED
      BY <1>1, <2>1, <3>1
  <2>2. CASE ~(k < j)
    <3>1. k - 1 \in 1..(n - 1) /\ ~(k - 1 < j) /\ (k - 1) + 1 = k
      BY <1>1, <2>2
    <3> QED
      BY <1>1, <3>1
  <2> QED
    BY <2>1, <2>2
<1>3. ASSUME NEW l \in 1..(n - 1)
      PROVE  \E k \in 1..n :
               /\ k # j /\ t[l] = s[k]
               /\ \A m \in 1..n : k < m /\ m # j => \E p \in 1..(n - 1) : l < p /\ t[p] = s[m]
  <2> DEFINE k == IF l < j THEN l ELSE l + 1
  <2>1. k \in 1..n /\ k # j /\ l <= k
    BY <1>1
  <2>2. t[l] = s[k]
    BY <1>1
  <2>3. ASSUME NEW m \in 1..n, k < m, m # j
        PROVE  \E p \in 1..(n - 1) : l < p /\ t[p] = s[m]
    <3>1. CASE m < j
      <4>1. m \in 1..(n - 1) /\ l < m
        BY <1>1, <2>3, <3>1
      <4> QED
        BY <1>1, <3>1, <4>1
    <3>2. CASE ~(m < j)
      <4>1. m - 1 \in 1..(n - 1) /\ ~(m - 1 < j) /\ (m - 1) + 1 = m /\ l < m - 1
        BY <1>1, <2>3, <3>2
      <4> QED
        BY <1>1, <4>1
    <3> QED
      BY <3>1, <3>2
  <2> HIDE DEF k
  <2> QED
    BY <2>1, <2>2, <2>3
<1> QED
  BY <1>2, <1>3 DEF n, t

\* A call or a block that is shown nowhere.
Unseen(x) == [x EXCEPT !.screen = None]

\* Forgetting a screen changes no other screen's calls or blocks, nor their order.
LEMMA OrphanedProperties ==
  ASSUME NEW S, NEW calls \in Seq(S), NEW s,
         \A x \in S : Unseen(x) \in S /\ Unseen(x).screen = None
  PROVE  /\ Orphaned(calls, s) \in Seq(S) /\ Len(Orphaned(calls, s)) = Len(calls)
         /\ Len(calls) \in Nat
         /\ \A i \in 1..Len(calls) :
              IF calls[i].screen = s THEN Orphaned(calls, s)[i].screen = None
                                     ELSE Orphaned(calls, s)[i] = calls[i]
<1> DEFINE o(i) == IF calls[i].screen = s THEN Unseen(calls[i]) ELSE calls[i]
<1>1. Len(calls) \in Nat /\ DOMAIN calls = 1..Len(calls)
  BY LenProperties
<1>2. \A i \in 1..Len(calls) : calls[i] \in S
  BY ElementOfSeq
<1>3. \A i \in 1..Len(calls) : o(i) \in S
  BY <1>2
<1>4. Orphaned(calls, s) = [i \in 1..Len(calls) |-> o(i)]
  BY <1>1 DEF Orphaned, Unseen
<1>5. \A i \in 1..Len(calls) : calls[i].screen = s => o(i).screen = None
  BY <1>2
<1>6. \A i \in 1..Len(calls) : calls[i].screen # s => o(i) = calls[i]
  OBVIOUS
<1> HIDE DEF o
<1> QED
  BY <1>1, <1>3, <1>4, <1>5, <1>6

\* A table that is loaded again has a row per recipe, none of them drawn.
LEMMA ReloadedProperties ==
  ASSUME NEW list \in Seq(Recipes)
  PROVE  /\ Reloaded(list) \in Seq(Recipes \cup {Unbound}) /\ Len(Reloaded(list)) = Len(list)
         /\ \A i \in 1..Len(list) : Reloaded(list)[i] = Unbound
BY LenProperties DEF Reloaded

-----------------------------------------------------------------------------
(* The inductive invariant *)

Call == [term : Terms, screen : Screens \cup {None}]
Block == [hits : Seq(Recipes), screen : Screens \cup {None}]

\* What TypeOK says, with every variable as a whole.
Typed ==
  /\ recipes \in Seq(Recipes)
  /\ open \subseteq Screens /\ front \in open \cup {None}
  /\ rows \in [Screens -> Seq(Recipes \cup {Unbound})]
  /\ detail \in [Screens -> Recipes \cup {None}]
  /\ lastTerm \in [Screens -> Terms \cup {None}]
  /\ foreign \in [Screens -> BOOLEAN]
  /\ asked \in Seq(Call) /\ mainQueue \in Seq(Block)
  /\ randomRecipe \in Recipes \cup {None} /\ randomAsked \in BOOLEAN
  /\ crash \in {"none", "noHits", "range"}

\* Nothing is left of a closed screen but answers that nobody shows.
Closed ==
  /\ \A s \in Screens \ open : rows[s] = <<>> /\ detail[s] = None /\ lastTerm[s] = None
  /\ \A i \in 1..Len(asked) : asked[i].screen \in open \cup {None}
  /\ \A i \in 1..Len(mainQueue) : mainQueue[i].screen \in open \cup {None}

Pending(s) == \E i \in 1..Len(asked) : asked[i].screen = s
Waits(s) == \E i \in 1..Len(mainQueue) : mainQueue[i].screen = s

\* The rows of s show the list unless another screen was answered, or its block waits.
RowsShow(s) == ~foreign[s] /\ ~Waits(s) => Shows(s, recipes)

\* The last search of s under way is for its last term.
LastSearch(s) ==
  \A i \in 1..Len(asked) :
    /\ asked[i].screen = s
    /\ \A j \in 1..Len(asked) : i < j => asked[j].screen # s
    => asked[i].term = lastTerm[s]

\* The last block of s that waits has the hits of its last term.
LastBlock(s) ==
  \A i \in 1..Len(mainQueue) :
    /\ mainQueue[i].screen = s
    /\ \A j \in 1..Len(mainQueue) : i < j => mainQueue[j].screen # s
    => mainQueue[i].hits = Hits[lastTerm[s]]

\* The hits of the last term of s are on their way: asked for, in a block, or the list.
Latest(s) ==
  lastTerm[s] # None =>
    /\ LastSearch(s)
    /\ ~Pending(s) => /\ LastBlock(s)
                      /\ ~Waits(s) /\ ~foreign[s] => recipes = Hits[lastTerm[s]]

IInv == Typed /\ Closed /\ \A s \in open : RowsShow(s) /\ Latest(s)

-----------------------------------------------------------------------------
(* The steps *)

\* A new process has nothing to be out of order.
LEMMA ClearedKeeps ==
  ASSUME Cleared, randomAsked' \in BOOLEAN, crash' \in {"none", "noHits", "range"}
  PROVE  IInv'
<1>1. /\ <<>> \in Seq(Recipes) /\ <<>> \in Seq(Recipes \cup {Unbound})
      /\ <<>> \in Seq(Call) /\ <<>> \in Seq(Block) /\ Len(<<>>) = 0
  BY EmptySeq
<1>2. Typed'
  BY <1>1 DEF Cleared, Typed
<1>3. Closed'
  BY <1>1 DEF Cleared, Closed
<1>4. open' = {}
  BY DEF Cleared
<1> QED
  BY <1>2, <1>3, <1>4 DEF IInv

\* The initial state satisfies the invariant.
LEMMA InitIInv == Init => IInv
<1> SUFFICES ASSUME Init PROVE IInv
  OBVIOUS
<1>1. /\ <<>> \in Seq(Recipes) /\ <<>> \in Seq(Recipes \cup {Unbound})
      /\ <<>> \in Seq(Call) /\ <<>> \in Seq(Block) /\ Len(<<>>) = 0
  BY EmptySeq
<1>2. Typed
  BY <1>1 DEF Init, Typed
<1>3. Closed
  BY <1>1 DEF Init, Closed
<1>4. open = {}
  BY DEF Init
<1> QED
  BY <1>2, <1>3, <1>4 DEF IInv

\* What is so of a screen stays so when its rows, the list and its searches do.
LEMMA SameScreens ==
  ASSUME IInv, UNCHANGED <<recipes, open, rows, asked, mainQueue, lastTerm, foreign>>,
         front' \in open \cup {None}, detail' \in [Screens -> Recipes \cup {None}],
         \A s \in Screens \ open : detail'[s] = None,
         randomRecipe' \in Recipes \cup {None}, randomAsked' \in BOOLEAN,
         crash' \in {"none", "noHits", "range"}
  PROVE  IInv'
<1>1. Typed'
  BY DEF IInv, Typed
<1>2. Closed'
  BY DEF IInv, Closed
<1>3. ASSUME NEW s \in open PROVE RowsShow(s)' /\ Latest(s)'
  BY DEF IInv, RowsShow, Shows, Waits, Latest, LastSearch, LastBlock, Pending
<1> QED
  BY <1>1, <1>2, <1>3 DEF IInv

\* The random recipe comes, or traps for want of hits.
LEMMA RandomAnsweredStep == IInv /\ RandomAnswered => IInv'
<1> SUFFICES ASSUME IInv, RandomAnswered PROVE IInv'
  OBVIOUS
<1>1. CASE Crashed("noHits")
  BY <1>1, ClearedKeeps DEF Crashed
<1>2. CASE /\ \E r \in UNION RandomHits : randomRecipe' = r
           /\ randomAsked' = FALSE
           /\ UNCHANGED <<recipes, screenVars, rows, asked, mainQueue, crash, foreign>>
  BY <1>2, SameScreens, HitsAssumption DEF screenVars, IInv, Typed, Closed
<1> QED
  BY <1>1, <1>2 DEF RandomAnswered

\* It does not come.
LEMMA RandomFailsStep == IInv /\ RandomFails => IInv'
BY SameScreens DEF RandomFails, screenVars, IInv, Typed, Closed

\* A new table starts on the list as it is.
LEMMA OpenSearchStep ==
  ASSUME IInv, NEW s \in Screens, OpenSearch(s)
  PROVE  IInv'
<1>1. /\ Typed /\ Closed /\ s \notin open /\ open' = open \cup {s} /\ front' = s
      /\ rows' = [rows EXCEPT ![s] = Reloaded(recipes)]
      /\ foreign' = [foreign EXCEPT ![s] = FALSE]
      /\ UNCHANGED <<recipes, detail, asked, mainQueue, randomRecipe, randomAsked, crash, lastTerm>>
  BY DEF IInv, OpenSearch, homeVars
<1>2. /\ Reloaded(recipes) \in Seq(Recipes \cup {Unbound}) /\ Len(Reloaded(recipes)) = Len(recipes)
      /\ \A i \in 1..Len(recipes) : Reloaded(recipes)[i] = Unbound
  BY <1>1, ReloadedProperties DEF Typed
<1>3. /\ rows' \in [Screens -> Seq(Recipes \cup {Unbound})] /\ rows'[s] = Reloaded(recipes)
      /\ \A t \in Screens : t # s => rows'[t] = rows[t] /\ foreign'[t] = foreign[t]
  BY <1>1, <1>2 DEF Typed
<1>4. Typed'
  BY <1>1, <1>3 DEF Typed
<1>5. Closed'
  BY <1>1, <1>3 DEF Closed
<1>6. RowsShow(s)' /\ Latest(s)'
  <2>1. DOMAIN Reloaded(recipes) = 1..Len(recipes)
    BY <1>2, LenProperties
  <2>2. Shows(s, recipes)'
    BY <1>1, <1>2, <1>3, <2>1 DEF Shows
  <2>3. lastTerm'[s] = None
    BY <1>1 DEF Closed
  <2> QED
    BY <2>2, <2>3 DEF RowsShow, Latest
<1>7. ASSUME NEW t \in open PROVE RowsShow(t)' /\ Latest(t)'
  <2>1. t \in Screens /\ t # s /\ RowsShow(t) /\ Latest(t)
    BY <1>1 DEF IInv, Typed
  <2>2. rows'[t] = rows[t] /\ foreign'[t] = foreign[t]
    BY <1>3, <2>1
  <2> QED
    BY <1>1, <2>1, <2>2 DEF RowsShow, Shows, Waits, Latest, LastSearch, LastBlock, Pending
<1> QED
  BY <1>1, <1>4, <1>5, <1>6, <1>7 DEF IInv

\* What orphaning does to the calls and the blocks.
LEMMA OrphanedCalls ==
  ASSUME Typed, NEW s \in Screens
  PROVE  /\ Orphaned(asked, s) \in Seq(Call) /\ Len(Orphaned(asked, s)) = Len(asked)
         /\ Orphaned(mainQueue, s) \in Seq(Block) /\ Len(Orphaned(mainQueue, s)) = Len(mainQueue)
         /\ \A i \in 1..Len(asked) :
              IF asked[i].screen = s THEN Orphaned(asked, s)[i].screen = None
                                     ELSE Orphaned(asked, s)[i] = asked[i]
         /\ \A i \in 1..Len(mainQueue) :
              IF mainQueue[i].screen = s THEN Orphaned(mainQueue, s)[i].screen = None
                                         ELSE Orphaned(mainQueue, s)[i] = mainQueue[i]
<1>1. \A x \in Call : Unseen(x) \in Call /\ Unseen(x).screen = None
  BY DEF Call, Unseen
<1>2. \A x \in Block : Unseen(x) \in Block /\ Unseen(x).screen = None
  BY DEF Block, Unseen
<1>3. asked \in Seq(Call) /\ mainQueue \in Seq(Block)
  BY DEF Typed
<1>4. /\ Orphaned(asked, s) \in Seq(Call) /\ Len(Orphaned(asked, s)) = Len(asked)
      /\ \A i \in 1..Len(asked) :
           IF asked[i].screen = s THEN Orphaned(asked, s)[i].screen = None
                                  ELSE Orphaned(asked, s)[i] = asked[i]
  BY <1>1, <1>3, OrphanedProperties
<1>5. /\ Orphaned(mainQueue, s) \in Seq(Block) /\ Len(Orphaned(mainQueue, s)) = Len(mainQueue)
      /\ \A i \in 1..Len(mainQueue) :
           IF mainQueue[i].screen = s THEN Orphaned(mainQueue, s)[i].screen = None
                                      ELSE Orphaned(mainQueue, s)[i] = mainQueue[i]
  BY <1>2, <1>3, OrphanedProperties
<1> QED
  BY <1>4, <1>5

\* A closed screen takes its rows along and leaves its answers to nobody.
LEMMA CloseSearchStep == IInv /\ CloseSearch => IInv'
<1> SUFFICES ASSUME IInv, CloseSearch PROVE IInv'
  OBVIOUS
<1>1. /\ Typed /\ Closed /\ front \in open /\ front \in Screens /\ front # None /\ detail[front] = None
      /\ open' = open \ {front} /\ front' = None
      /\ rows' = [rows EXCEPT ![front] = <<>>]
      /\ lastTerm' = [lastTerm EXCEPT ![front] = None]
      /\ asked' = Orphaned(asked, front) /\ mainQueue' = Orphaned(mainQueue, front)
      /\ UNCHANGED <<recipes, detail, randomRecipe, randomAsked, crash, foreign>>
  BY DEF IInv, CloseSearch, homeVars, Typed
<1>2. /\ asked' \in Seq(Call) /\ Len(asked') = Len(asked)
      /\ mainQueue' \in Seq(Block) /\ Len(mainQueue') = Len(mainQueue)
      /\ \A i \in 1..Len(asked) :
           IF asked[i].screen = front THEN asked'[i].screen = None ELSE asked'[i] = asked[i]
      /\ \A i \in 1..Len(mainQueue) :
           IF mainQueue[i].screen = front THEN mainQueue'[i].screen = None
                                          ELSE mainQueue'[i] = mainQueue[i]
  BY <1>1, OrphanedCalls
<1>3. <<>> \in Seq(Recipes \cup {Unbound})
  BY EmptySeq
<1>4. /\ rows' \in [Screens -> Seq(Recipes \cup {Unbound})] /\ rows'[front] = <<>>
      /\ lastTerm' \in [Screens -> Terms \cup {None}] /\ lastTerm'[front] = None
      /\ \A t \in Screens : t # front => rows'[t] = rows[t] /\ lastTerm'[t] = lastTerm[t]
  BY <1>1, <1>3 DEF Typed
<1>5. Typed'
  BY <1>1, <1>2, <1>4 DEF Typed
<1>6. Closed'
  BY <1>1, <1>2, <1>4 DEF Closed
<1>7. ASSUME NEW t \in open, t # front PROVE RowsShow(t)' /\ Latest(t)'
  <2>1. /\ t \in Screens /\ t # None /\ RowsShow(t) /\ Latest(t)
        /\ rows'[t] = rows[t] /\ lastTerm'[t] = lastTerm[t]
    BY <1>1, <1>4, <1>7, SearchNames DEF IInv, Typed
  <2>2. /\ \A i \in 1..Len(asked) : /\ asked'[i].screen = t <=> asked[i].screen = t
                                    /\ asked[i].screen = t => asked'[i] = asked[i]
        /\ \A i \in 1..Len(mainQueue) : /\ mainQueue'[i].screen = t <=> mainQueue[i].screen = t
                                        /\ mainQueue[i].screen = t => mainQueue'[i] = mainQueue[i]
    BY <1>2, <1>7, <2>1
  <2>3. (Waits(t)' <=> Waits(t)) /\ (Pending(t)' <=> Pending(t))
    BY <1>2, <2>2 DEF Waits, Pending
  <2>4. RowsShow(t)'
    BY <1>1, <2>1, <2>3 DEF RowsShow, Shows
  <2>5. LastSearch(t) => LastSearch(t)'
    BY <1>2, <2>1, <2>2 DEF LastSearch
  <2>6. LastBlock(t) => LastBlock(t)'
    BY <1>2, <2>1, <2>2 DEF LastBlock
  <2>7. Latest(t)'
    BY <1>1, <2>1, <2>3, <2>5, <2>6 DEF Latest
  <2> QED
    BY <2>4, <2>7
<1> QED
  BY <1>1, <1>5, <1>6, <1>7 DEF IInv

\* Another tab.
LEMMA SwitchTabStep == IInv /\ SwitchTab => IInv'
BY SameScreens DEF SwitchTab, homeVars, IInv, Typed, Closed

\* Back from a recipe.
LEMMA CloseDetailStep == IInv /\ CloseDetail => IInv'
<1> SUFFICES ASSUME IInv, CloseDetail PROVE IInv'
  OBVIOUS
<1>1. detail' \in [Screens -> Recipes \cup {None}] /\ \A s \in Screens \ open : detail'[s] = None
  BY DEF CloseDetail, IInv, Typed, Closed
<1> QED
  BY <1>1, SameScreens DEF CloseDetail, homeVars, IInv, Typed

\* A search is the last of its screen, and there is no block yet.
LEMMA searchBarSearchButtonClickedStep ==
  ASSUME IInv, NEW t \in Terms, searchBarSearchButtonClicked(t)
  PROVE  IInv'
<1> DEFINE call == [term |-> t, screen |-> front]
           n == Len(asked)
<1>1. /\ Typed /\ Closed /\ front \in open /\ front \in Screens /\ n \in Nat
      /\ asked' = Append(asked, call) /\ lastTerm' = [lastTerm EXCEPT ![front] = t]
      /\ UNCHANGED <<recipes, open, front, rows, detail, mainQueue, randomRecipe, randomAsked, crash, foreign>>
  BY LenProperties DEF IInv, searchBarSearchButtonClicked, homeVars, Typed
<1>2. /\ asked' \in Seq(Call) /\ Len(asked') = n + 1
      /\ \A i \in 1..n : asked'[i] = asked[i]
      /\ asked'[n + 1] = call
  <2>1. asked \in Seq(Call) /\ call \in Call
    BY <1>1 DEF Typed, Call
  <2> QED
    BY <1>1, <2>1, AppendProperties
<1> HIDE DEF n
<1>3. /\ lastTerm' \in [Screens -> Terms \cup {None}] /\ lastTerm'[front] = t
      /\ \A s \in Screens : s # front => lastTerm'[s] = lastTerm[s]
  BY <1>1 DEF Typed
<1>4. Typed'
  BY <1>1, <1>2, <1>3 DEF Typed
<1>5. \A i \in 1..(n + 1) : i = n + 1 \/ i \in 1..n
  BY <1>1
<1>6. Closed'
  BY <1>1, <1>2, <1>3, <1>5 DEF Closed, Typed
<1>7. ASSUME NEW s \in open PROVE RowsShow(s)' /\ Latest(s)'
  <2>1. s \in Screens /\ RowsShow(s) /\ Latest(s)
    BY <1>1 DEF IInv, Typed
  <2>2. RowsShow(s)'
    BY <1>1, <2>1 DEF RowsShow, Shows, Waits
  <2>3. CASE s = front
    <3>1. asked'[n + 1].screen = s /\ asked'[n + 1].term = lastTerm'[s] /\ n + 1 \in 1..(n + 1)
      BY <1>1, <1>2, <1>3, <2>3
    <3>2. Pending(s)'
      BY <1>2, <3>1 DEF Pending
    <3>3. \A i \in 1..n : i < n + 1
      BY <1>1
    <3>4. LastSearch(s)'
      BY <1>2, <1>5, <3>1, <3>3 DEF LastSearch
    <3> QED
      BY <2>2, <3>2, <3>4 DEF Latest
  <2>4. CASE s # front
    <3>1. asked'[n + 1].screen # s /\ lastTerm'[s] = lastTerm[s]
      BY <1>2, <1>3, <2>1, <2>4
    <3>2. \A i \in 1..n : i \in 1..(n + 1)
      BY <1>1
    <3>3. Pending(s)' <=> Pending(s)
      BY <1>2, <1>5, <3>1, <3>2 DEF Pending, n
    <3>4. LastSearch(s) => LastSearch(s)'
      BY <1>2, <1>5, <3>1, <3>2 DEF LastSearch, n
    <3>5. LastBlock(s) => LastBlock(s)'
      BY <1>1, <3>1 DEF LastBlock
    <3>6. Waits(s)' <=> Waits(s)
      BY <1>1 DEF Waits
    <3> QED
      BY <1>1, <2>1, <2>2, <3>1, <3>3, <3>4, <3>5, <3>6 DEF Latest
  <2> QED
    BY <2>3, <2>4
<1> QED
  BY <1>1, <1>4, <1>6, <1>7 DEF IInv

\* A block gives the list and the table of its screen the hits it brings.
LEMMA ReloadStep == IInv /\ Reload => IInv'
<1> SUFFICES ASSUME IInv, Reload PROVE IInv'
  OBVIOUS
<1> DEFINE block == Head(mainQueue)
           n == Len(mainQueue)
           q == block.screen
           list == block.hits
<1>1. /\ Typed /\ Closed /\ mainQueue \in Seq(Block) /\ mainQueue # <<>> /\ n \in Nat /\ 1 <= n
      /\ recipes' = list /\ foreign' = [t \in Screens |-> t # q]
      /\ rows' = IF q = None THEN rows ELSE [rows EXCEPT ![q] = Reloaded(list)]
      /\ mainQueue' = Tail(mainQueue)
      /\ UNCHANGED <<open, front, detail, lastTerm, asked, randomRecipe, randomAsked, crash>>
  BY EmptySeq DEF IInv, Reload, screenVars, homeVars, Typed
<1>2. /\ block = mainQueue[1] /\ 1 \in 1..n /\ block \in Block
  <2>1. block = mainQueue[1] /\ 1 \in 1..n
    BY <1>1
  <2> QED
    BY <1>1, <2>1, ElementOfSeq
<1>3. list \in Seq(Recipes) /\ q \in open \cup {None} /\ open \subseteq Screens /\ None \notin Screens
  BY <1>1, <1>2, SearchNames DEF Block, Closed, Typed
<1>4. /\ mainQueue' \in Seq(Block) /\ Len(mainQueue') = n - 1
      /\ \A i \in 1..(n - 1) : mainQueue'[i] = mainQueue[i + 1]
  <2>1. /\ Tail(mainQueue) \in Seq(Block) /\ Len(Tail(mainQueue)) = Len(mainQueue) - 1
        /\ \A i \in 1..Len(Tail(mainQueue)) : Tail(mainQueue)[i] = mainQueue[i + 1]
    BY <1>1, HeadTailProperties
  <2> QED
    BY <1>1, <2>1
<1> HIDE DEF n, block, q, list
<1>5. /\ Reloaded(list) \in Seq(Recipes \cup {Unbound}) /\ Len(Reloaded(list)) = Len(list)
      /\ \A i \in 1..Len(list) : Reloaded(list)[i] = Unbound
  BY <1>3, ReloadedProperties
<1>6. /\ rows' \in [Screens -> Seq(Recipes \cup {Unbound})]
      /\ q # None => rows'[q] = Reloaded(list)
      /\ \A s \in Screens : s # q => rows'[s] = rows[s]
  BY <1>1, <1>3, <1>5 DEF Typed
<1>7. Typed'
  BY <1>1, <1>3, <1>4, <1>6 DEF Typed
<1>8. \A i \in 1..(n - 1) : i + 1 \in 1..n
  BY <1>1
<1>9. Closed'
  BY <1>1, <1>3, <1>4, <1>6, <1>8 DEF Closed, n
<1>10. ASSUME NEW s \in open PROVE RowsShow(s)' /\ Latest(s)'
  <2>1. s \in Screens /\ s # None /\ RowsShow(s) /\ Latest(s)
    BY <1>1, <1>3 DEF IInv
  <2>2. foreign'[s] <=> s # q
    BY <1>1, <2>1
  <2>3. RowsShow(s)'
    <3> SUFFICES ASSUME s = q PROVE Shows(s, recipes)'
      BY <2>2 DEF RowsShow
    <3>1. rows'[s] = Reloaded(list) /\ recipes' = list
      BY <1>1, <1>6, <2>1
    <3>2. DOMAIN Reloaded(list) = 1..Len(list)
      BY <1>5, LenProperties
    <3> QED
      BY <1>5, <3>1, <3>2 DEF Shows
  <2>4. LastSearch(s)' <=> LastSearch(s)
    BY <1>1 DEF LastSearch
  <2>5. Pending(s)' <=> Pending(s)
    BY <1>1 DEF Pending
  <2>6. LastBlock(s) => LastBlock(s)'
    <3> SUFFICES ASSUME LastBlock(s), NEW i \in 1..(n - 1), mainQueue'[i].screen = s,
                        \A j \in 1..(n - 1) : i < j => mainQueue'[j].screen # s
                 PROVE  mainQueue'[i].hits = Hits[lastTerm[s]]
      BY <1>1, <1>4 DEF LastBlock
    <3>1. i + 1 \in 1..n /\ mainQueue'[i] = mainQueue[i + 1]
      BY <1>4, <1>8
    <3>2. \A j \in 1..n : i + 1 < j => mainQueue[j].screen # s
      <4> TAKE j \in 1..n
      <4> HAVE i + 1 < j
      <4>1. PICK k \in 1..(n - 1) : k + 1 = j /\ i < k
        <5>1. j - 1 \in 1..(n - 1) /\ (j - 1) + 1 = j /\ i < j - 1
          BY <1>1
        <5> QED
          BY <5>1
      <4> QED
        BY <1>4, <4>1
    <3> QED
      BY <3>1, <3>2 DEF LastBlock, n
  <2>7. ASSUME LastBlock(s), ~Waits(s)', s = q PROVE recipes' = Hits[lastTerm[s]]
    <3>1. mainQueue[1].screen = s /\ mainQueue[1].hits = list
      BY <1>2, <2>7 DEF q, list
    <3>2. \A j \in 1..n : 1 < j => mainQueue[j].screen # s
      <4> TAKE j \in 1..n
      <4> HAVE 1 < j
      <4>1. PICK k \in 1..(n - 1) : k + 1 = j
        <5>1. j - 1 \in 1..(n - 1) /\ (j - 1) + 1 = j
          BY <1>1
        <5> QED
          BY <5>1
      <4> QED
        BY <1>4, <2>7, <4>1 DEF Waits
    <3>3. mainQueue[1].hits = Hits[lastTerm[s]]
      BY <1>2, <2>7, <3>1, <3>2 DEF LastBlock, n
    <3> QED
      BY <1>1, <3>1, <3>3
  <2>8. Latest(s)'
    BY <1>1, <2>1, <2>2, <2>4, <2>5, <2>6, <2>7 DEF Latest
  <2> QED
    BY <2>3, <2>8
<1> QED
  BY <1>1, <1>7, <1>9, <1>10 DEF IInv

\* The searches that are left when one is over: those of the other screens are as
\* they were, and so are those of its own unless there was an earlier one.
LEMMA SearchesLeft ==
  ASSUME Typed, Closed, NEW i \in 1..Len(asked), asked' = RemoveAt(asked, i), UNCHANGED open
  PROVE  /\ asked[i] \in Call /\ asked[i].screen \in open \cup {None} /\ asked' \in Seq(Call)
         /\ \A j \in 1..Len(asked') : asked'[j].screen \in open' \cup {None}
         /\ \A s \in Screens : asked[i].screen # s =>
              /\ Pending(s)' <=> Pending(s)
              /\ LastSearch(s) /\ lastTerm'[s] = lastTerm[s] => LastSearch(s)'
         /\ \A s \in Screens :
              asked[i].screen = s /\ (\A j \in 1..(i - 1) : asked[j].screen # s) =>
                /\ LastSearch(s) /\ lastTerm'[s] = lastTerm[s] => LastSearch(s)'
                /\ ~Pending(s)' /\ LastSearch(s) => asked[i].term = lastTerm[s]
<1> DEFINE n == Len(asked)
<1>1. n \in Nat /\ asked \in Seq(Call) /\ i \in 1..n
  BY LenProperties DEF Typed
<1>2. asked' \in Seq(Call) /\ Len(asked') = n - 1
  BY <1>1, RemoveAtProperties
<1>3. /\ \A k \in 1..n : k # i => \E l \in 1..(n - 1) : asked'[l] = asked[k]
      /\ \A l \in 1..(n - 1) : \E k \in 1..n :
           /\ k # i /\ asked'[l] = asked[k]
           /\ \A m \in 1..n : k < m /\ m # i => \E p \in 1..(n - 1) : l < p /\ asked'[p] = asked[m]
  <2>1. \A k \in 1..Len(asked) :
          k # i => \E l \in 1..(Len(asked) - 1) : RemoveAt(asked, i)[l] = asked[k]
    BY <1>1, RemoveAtOrder
  <2>2. \A l \in 1..(Len(asked) - 1) : \E k \in 1..Len(asked) :
          /\ k # i /\ RemoveAt(asked, i)[l] = asked[k]
          /\ \A m \in 1..Len(asked) :
               k < m /\ m # i => \E p \in 1..(Len(asked) - 1) : l < p /\ RemoveAt(asked, i)[p] = asked[m]
    BY <1>1, RemoveAtOrder
  <2> QED
    BY <2>1, <2>2
<1> HIDE DEF n
<1>4. /\ asked[i] \in Call /\ asked[i].screen \in open \cup {None}
      /\ \A j \in 1..Len(asked') : asked'[j].screen \in open' \cup {None}
  <2>1. asked[i] \in Call
    BY <1>1, ElementOfSeq DEF n
  <2>2. \A k \in 1..n : asked[k].screen \in open \cup {None}
    BY DEF Closed, n
  <2>3. \A j \in 1..(n - 1) : asked'[j].screen \in open'  \cup {None}
    BY <1>3, <2>2
  <2> QED
    BY <1>1, <1>2, <2>1, <2>2, <2>3
<1>5. ASSUME NEW s \in Screens, asked[i].screen # s
      PROVE  Pending(s)' <=> Pending(s)
  <2>1. ASSUME NEW k \in 1..n, asked[k].screen = s
        PROVE  \E l \in 1..(n - 1) : asked'[l].screen = s
    <3>1. k # i
      BY <1>5, <2>1
    <3> QED
      BY <1>3, <2>1, <3>1
  <2>2. ASSUME NEW l \in 1..(n - 1), asked'[l].screen = s
        PROVE  \E k \in 1..n : asked[k].screen = s
    BY <1>3, <2>2
  <2> QED
    BY <1>2, <2>1, <2>2 DEF Pending, n
<1>6. ASSUME NEW s \in Screens, LastSearch(s), lastTerm'[s] = lastTerm[s],
             asked[i].screen = s => \A j \in 1..(i - 1) : asked[j].screen # s
      PROVE  LastSearch(s)'
  <2> SUFFICES ASSUME NEW l \in 1..(n - 1), asked'[l].screen = s,
                      \A j \in 1..(n - 1) : l < j => asked'[j].screen # s
               PROVE  asked'[l].term = lastTerm[s]
    BY <1>2, <1>6 DEF LastSearch
  <2>1. PICK k \in 1..n : /\ k # i /\ asked'[l] = asked[k]
                          /\ \A m \in 1..n : k < m /\ m # i =>
                               \E p \in 1..(n - 1) : l < p /\ asked'[p] = asked[m]
    BY <1>3
  <2>2. \A m \in 1..n : k < m /\ m # i => asked[m].screen # s
    BY <2>1
  <2>3. k < i => asked[i].screen # s
    <3> SUFFICES ASSUME k < i, asked[i].screen = s PROVE FALSE
      OBVIOUS
    <3>1. k \in 1..(i - 1) /\ asked[k].screen = s
      BY <1>1, <2>1
    <3> QED
      BY <1>6, <3>1
  <2>4. \A m \in 1..n : k < m => asked[m].screen # s
    BY <2>2, <2>3
  <2> QED
    BY <1>6, <2>1, <2>4 DEF LastSearch, n
<1>7. ASSUME NEW s \in Screens, asked[i].screen = s, LastSearch(s), ~Pending(s)'
      PROVE  asked[i].term = lastTerm[s]
  <2>1. \A k \in 1..n : k # i => asked[k].screen # s
    BY <1>2, <1>3, <1>7 DEF Pending
  <2> QED
    BY <1>1, <1>7, <2>1 DEF LastSearch, n
<1> QED
  BY <1>2, <1>4, <1>5, <1>6, <1>7

\* An answer assigns the list, and queues a block that is the last of its screen.
LEMMA fetchRecipeStep ==
  ASSUME IInv, NEW i \in 1..MaxCalls, fetchRecipe(i)
  PROVE  IInv'
<1> DEFINE n == Len(mainQueue)
           q == asked[i].screen
           hits == Hits[asked[i].term]
           block == [hits |-> hits, screen |-> q]
<1>1. /\ Typed /\ Closed /\ open \subseteq Screens /\ None \notin Screens /\ n \in Nat
      /\ i \in 1..Len(asked) /\ asked' = RemoveAt(asked, i)
      /\ recipes' = hits /\ foreign' = [t \in Screens |-> foreign[t] \/ t # q]
      /\ mainQueue' = Append(mainQueue, block) /\ lastTerm' = Overtaken(i)
      /\ UNCHANGED <<open, front, detail, rows, randomRecipe, randomAsked, crash>>
  BY LenProperties, SearchNames DEF IInv, fetchRecipe, Assigned, homeVars, Typed
<1>2. /\ asked[i] \in Call /\ asked[i].screen \in open \cup {None} /\ asked' \in Seq(Call)
      /\ \A j \in 1..Len(asked') : asked'[j].screen \in open' \cup {None}
      /\ \A s \in Screens : asked[i].screen # s =>
           /\ Pending(s)' <=> Pending(s)
           /\ LastSearch(s) /\ lastTerm'[s] = lastTerm[s] => LastSearch(s)'
      /\ \A s \in Screens :
           asked[i].screen = s /\ (\A j \in 1..(i - 1) : asked[j].screen # s) =>
             /\ LastSearch(s) /\ lastTerm'[s] = lastTerm[s] => LastSearch(s)'
             /\ ~Pending(s)' /\ LastSearch(s) => asked[i].term = lastTerm[s]
  BY <1>1, SearchesLeft
<1>3. block \in Block /\ hits \in Seq(Recipes) /\ q \in Screens \cup {None}
  <2>1. hits \in Seq(Recipes)
    BY <1>2, HitsAssumption DEF Call
  <2> HIDE DEF hits
  <2> QED
    BY <1>1, <1>2, <2>1 DEF Block
<1>4. /\ mainQueue' \in Seq(Block) /\ Len(mainQueue') = n + 1
      /\ \A k \in 1..n : mainQueue'[k] = mainQueue[k]
      /\ mainQueue'[n + 1] = block
  BY <1>1, <1>3, AppendProperties DEF Typed
<1>5. block.screen = q /\ block.hits = hits
  OBVIOUS
<1> HIDE DEF n, block, hits
<1>6. \A s \in Screens : /\ lastTerm'[s] = IF q = s /\ \E j \in 1..(i - 1) : asked[j].screen = s
                                          THEN None ELSE lastTerm[s]
                         /\ foreign'[s] = (foreign[s] \/ s # q)
  BY <1>1 DEF Overtaken
<1>7. lastTerm' \in [Screens -> Terms \cup {None}] /\ foreign' \in [Screens -> BOOLEAN]
  BY <1>1 DEF Typed, Overtaken
<1>8. Typed'
  BY <1>1, <1>2, <1>3, <1>4, <1>7 DEF Typed
<1>9. \A k \in 1..(n + 1) : k = n + 1 \/ k \in 1..n
  BY <1>1
<1>10. Closed'
  <2>1. \A s \in Screens \ open : rows'[s] = <<>> /\ detail'[s] = None /\ lastTerm'[s] = None
    BY <1>1, <1>6 DEF Closed
  <2>2. \A k \in 1..(n + 1) : mainQueue'[k].screen \in open' \cup {None}
    BY <1>1, <1>2, <1>4, <1>5, <1>9 DEF Closed, n
  <2> QED
    BY <1>1, <1>2, <1>4, <2>1, <2>2 DEF Closed
<1>11. \A k \in 1..n : k \in 1..(n + 1) /\ k < n + 1
  BY <1>1
<1>12. ASSUME NEW s \in open PROVE RowsShow(s)' /\ Latest(s)'
  <2>1. s \in Screens /\ RowsShow(s) /\ Latest(s)
    BY <1>1 DEF IInv
  <2>2. CASE s # q
    <3>1. foreign'[s] /\ lastTerm'[s] = lastTerm[s]
      BY <1>6, <2>1, <2>2
    <3>2. mainQueue'[n + 1].screen # s
      BY <1>4, <1>5, <2>2
    <3>3. LastBlock(s) => LastBlock(s)'
      BY <1>4, <1>9, <1>11, <3>1, <3>2 DEF LastBlock, n
    <3>4. (Pending(s)' <=> Pending(s)) /\ (LastSearch(s) => LastSearch(s)')
      BY <1>2, <2>1, <2>2, <3>1
    <3> QED
      BY <2>1, <3>1, <3>3, <3>4 DEF RowsShow, Latest
  <2>3. CASE s = q
    <3>1. mainQueue'[n + 1].screen = s /\ n + 1 \in 1..(n + 1)
      BY <1>1, <1>4, <1>5, <2>3
    <3>2. Waits(s)'
      BY <1>4, <3>1 DEF Waits
    <3>3. CASE \E j \in 1..(i - 1) : asked[j].screen = s
      <4>1. lastTerm'[s] = None
        BY <1>6, <2>1, <2>3, <3>3
      <4> QED
        BY <3>2, <4>1 DEF RowsShow, Latest
    <3>4. CASE \A j \in 1..(i - 1) : asked[j].screen # s
      <4>1. lastTerm'[s] = lastTerm[s]
        BY <1>6, <2>1, <3>4
      <4>2. /\ LastSearch(s) => LastSearch(s)'
            /\ ~Pending(s)' /\ LastSearch(s) => asked[i].term = lastTerm[s]
        BY <1>2, <2>1, <2>3, <3>4, <4>1
      <4>3. ASSUME asked[i].term = lastTerm[s] PROVE LastBlock(s)'
        <5>1. mainQueue'[n + 1].hits = Hits[lastTerm'[s]]
          BY <1>4, <1>5, <4>1, <4>3 DEF hits
        <5> QED
          BY <1>4, <1>9, <1>11, <3>1, <5>1 DEF LastBlock
      <4> QED
        BY <2>1, <3>2, <4>1, <4>2, <4>3 DEF RowsShow, Latest
    <3> QED
      BY <3>3, <3>4
  <2> QED
    BY <2>2, <2>3
<1> QED
  BY <1>1, <1>8, <1>10, <1>12 DEF IInv

\* A search that fails leaves its screen without a last term.
LEMMA fetchRecipeFailsStep ==
  ASSUME IInv, NEW i \in 1..MaxCalls, fetchRecipeFails(i)
  PROVE  IInv'
<1>1. /\ Typed /\ Closed /\ open \subseteq Screens
      /\ i \in 1..Len(asked) /\ asked' = RemoveAt(asked, i)
      /\ lastTerm' = [s \in Screens |-> IF s = asked[i].screen THEN None ELSE lastTerm[s]]
      /\ UNCHANGED <<recipes, open, front, detail, rows, mainQueue, randomRecipe, randomAsked,
                     crash, foreign>>
  BY LenProperties DEF IInv, fetchRecipeFails, homeVars, Typed
<1>2. /\ asked' \in Seq(Call)
      /\ \A j \in 1..Len(asked') : asked'[j].screen \in open' \cup {None}
      /\ \A s \in Screens : asked[i].screen # s =>
           /\ Pending(s)' <=> Pending(s)
           /\ LastSearch(s) /\ lastTerm'[s] = lastTerm[s] => LastSearch(s)'
  BY <1>1, SearchesLeft
<1>3. Typed'
  <2>1. lastTerm' \in [Screens -> Terms \cup {None}]
    BY <1>1 DEF Typed
  <2> QED
    BY <1>1, <1>2, <2>1 DEF Typed
<1>4. Closed'
  BY <1>1, <1>2 DEF Closed
<1>5. ASSUME NEW s \in open PROVE RowsShow(s)' /\ Latest(s)'
  <2>1. s \in Screens /\ RowsShow(s) /\ Latest(s)
    BY <1>1 DEF IInv
  <2>2. RowsShow(s)'
    BY <1>1, <2>1 DEF RowsShow, Shows, Waits
  <2>3. CASE s = asked[i].screen
    <3>1. lastTerm'[s] = None
      BY <1>1, <2>1, <2>3
    <3> QED
      BY <2>2, <3>1 DEF Latest
  <2>4. CASE s # asked[i].screen
    <3>1. lastTerm'[s] = lastTerm[s]
      BY <1>1, <2>1, <2>4
    <3>2. (Pending(s)' <=> Pending(s)) /\ (LastSearch(s) => LastSearch(s)')
      BY <1>2, <2>1, <2>4, <3>1
    <3>3. (LastBlock(s) => LastBlock(s)') /\ (Waits(s)' <=> Waits(s))
      BY <1>1, <3>1 DEF LastBlock, Waits
    <3> QED
      BY <1>1, <2>1, <2>2, <3>1, <3>2, <3>3 DEF Latest
  <2> QED
    BY <2>3, <2>4
<1> QED
  BY <1>1, <1>3, <1>4, <1>5 DEF IInv

\* A cell is drawn from the list as it is, or its row is out of range.
LEMMA cellForRowAtStep ==
  ASSUME IInv, NEW i \in Nat, cellForRowAt(i)
  PROVE  IInv'
<1>1. CASE Crashed("range")
  BY <1>1, ClearedKeeps DEF Crashed
<1>2. CASE i <= Len(recipes) /\ rows' = [rows EXCEPT ![front][i] = recipes[i]]
           /\ UNCHANGED <<recipes, screenVars, asked, mainQueue, homeVars, crash, foreign>>
  <2> DEFINE new == [rows[front] EXCEPT ![i] = recipes[i]]
  <2>1. /\ Typed /\ Closed /\ front \in open /\ open \subseteq Screens
        /\ rows[front] \in Seq(Recipes \cup {Unbound}) /\ i \in DOMAIN rows[front]
        /\ recipes \in Seq(Recipes)
        /\ rows' = [rows EXCEPT ![front] = new]
        /\ UNCHANGED <<recipes, open, front, detail, lastTerm, asked, mainQueue, randomRecipe,
                       randomAsked, crash, foreign>>
    BY <1>2 DEF cellForRowAt, IInv, Typed, screenVars, homeVars
  <2>2. i \in 1..Len(rows[front]) /\ DOMAIN rows[front] = 1..Len(rows[front])
    BY <2>1, LenProperties
  <2>3. recipes[i] \in Recipes \cup {Unbound}
    <3>1. i \in 1..Len(recipes)
      BY <1>2, <2>1, <2>2, LenProperties
    <3> QED
      BY <2>1, <3>1, ElementOfSeq
  <2>4. /\ new \in Seq(Recipes \cup {Unbound}) /\ Len(new) = Len(rows[front])
        /\ \A j \in 1..Len(rows[front]) : new[j] = IF j = i THEN recipes[i] ELSE rows[front][j]
    BY <2>1, <2>2, <2>3, ExceptSeq
  <2>5. DOMAIN new = 1..Len(rows[front])
    BY <2>2
  <2> HIDE DEF new
  <2>6. /\ rows' \in [Screens -> Seq(Recipes \cup {Unbound})] /\ rows'[front] = new
        /\ \A s \in Screens : s # front => rows'[s] = rows[s]
    BY <2>1, <2>4 DEF Typed
  <2>7. Typed'
    BY <2>1, <2>6 DEF Typed
  <2>8. Closed'
    BY <2>1, <2>6 DEF Closed
  <2>9. ASSUME NEW s \in open PROVE RowsShow(s)' /\ Latest(s)'
    <3>1. s \in Screens /\ RowsShow(s) /\ Latest(s)
      BY <2>1 DEF IInv
    <3>2. Shows(s, recipes) => Shows(s, recipes)'
      <4>1. CASE s = front
        BY <2>1, <2>2, <2>4, <2>5, <2>6, <4>1 DEF Shows
      <4>2. CASE s # front
        BY <2>1, <2>6, <3>1, <4>2 DEF Shows
      <4> QED
        BY <4>1, <4>2
    <3>3. Waits(s)' <=> Waits(s)
      BY <2>1 DEF Waits
    <3>4. RowsShow(s)'
      BY <2>1, <3>1, <3>2, <3>3 DEF RowsShow
    <3>5. Latest(s)'
      BY <2>1, <3>1 DEF Latest, LastSearch, LastBlock, Pending, Waits
    <3> QED
      BY <3>4, <3>5
  <2> QED
    BY <2>1, <2>7, <2>8, <2>9 DEF IInv
<1> QED
  BY <1>1, <1>2 DEF cellForRowAt

\* The recipe of a row is pushed, or the row is out of range.
LEMMA didSelectRowAtStep ==
  ASSUME IInv, NEW i \in Nat, didSelectRowAt(i)
  PROVE  IInv'
<1>1. CASE Crashed("range")
  BY <1>1, ClearedKeeps DEF Crashed
<1>2. CASE /\ i <= Len(recipes)
           /\ detail' = [detail EXCEPT ![front] = recipes[i]]
           /\ UNCHANGED <<recipes, open, front, rows, asked, mainQueue, homeVars, crash,
                          lastTerm, foreign>>
  <2>1. /\ Typed /\ Closed /\ front \in open /\ open \subseteq Screens /\ recipes \in Seq(Recipes)
        /\ rows[front] \in Seq(Recipes \cup {Unbound}) /\ i \in DOMAIN rows[front]
    BY <1>2 DEF didSelectRowAt, IInv, Typed
  <2>2. recipes[i] \in Recipes
    <3>1. i \in 1..Len(rows[front])
      BY <2>1, LenProperties
    <3>2. i \in 1..Len(recipes)
      BY <1>2, <2>1, <3>1, LenProperties
    <3> QED
      BY <2>1, <3>2, ElementOfSeq
  <2>3. detail' \in [Screens -> Recipes \cup {None}] /\ \A s \in Screens \ open : detail'[s] = None
    BY <1>2, <2>1, <2>2 DEF Typed, Closed
  <2> QED
    BY <1>2, <2>1, <2>3, SameScreens DEF homeVars, Typed
<1> QED
  BY <1>1, <1>2 DEF didSelectRowAt

\* Every step keeps the invariant.
LEMMA NextIInv == IInv /\ [Next]_vars => IInv'
<1> SUFFICES ASSUME IInv, [Next]_vars PROVE IInv'
  OBVIOUS
<1>1. CASE UNCHANGED vars
  BY <1>1, SameScreens DEF vars, screenVars, homeVars, IInv, Typed, Closed
<1>2. CASE Relaunch
  BY <1>2, ClearedKeeps DEF Relaunch
<1>3. ASSUME NEW t \in Terms, NEW i \in DOMAIN Hits[t] PROVE i \in Nat
  BY HitsAssumption, LenProperties
<1>4. CASE Next
  BY <1>2, <1>3, <1>4, RandomAnsweredStep, RandomFailsStep, OpenSearchStep, CloseSearchStep,
     SwitchTabStep, CloseDetailStep, ReloadStep, searchBarSearchButtonClickedStep,
     fetchRecipeStep, fetchRecipeFailsStep, cellForRowAtStep, didSelectRowAtStep DEF Next
<1> QED
  BY <1>1, <1>4

\* The invariant holds throughout.
LEMMA Invariance == Spec => []IInv
BY InitIInv, NextIInv, PTL DEF Spec

-----------------------------------------------------------------------------
(* What follows from it *)

\* The variables hold what their declarations say, and nothing is left of a closed screen.
THEOREM TypeCorrect == Spec => []TypeOK
<1>1. IInv => TypeOK
  <2> SUFFICES ASSUME IInv PROVE TypeOK
    OBVIOUS
  <2>1. /\ \A i \in DOMAIN asked : asked[i] \in Call /\ asked[i].screen \in open \cup {None}
        /\ \A i \in DOMAIN mainQueue : mainQueue[i].screen \in open \cup {None}
    <3>1. DOMAIN asked = 1..Len(asked) /\ DOMAIN mainQueue = 1..Len(mainQueue)
      BY LenProperties DEF IInv, Typed
    <3> QED
      BY <3>1, ElementOfSeq DEF IInv, Typed, Closed
  <2>2. \A i \in DOMAIN asked : asked[i].term \in Terms
    BY <2>1 DEF Call
  <2>3. \A s \in Screens : /\ rows[s] \in Seq(Recipes \cup {Unbound})
                           /\ detail[s] \in Recipes \cup {None}
                           /\ lastTerm[s] \in Terms \cup {None}
                           /\ s \notin open => rows[s] = <<>> /\ detail[s] = None
    BY DEF IInv, Typed, Closed
  <2> QED
    BY <2>1, <2>2, <2>3 DEF IInv, Typed, TypeOK
<1> QED
  BY <1>1, Invariance, PTL

\* Waiting for the main thread, as the properties put it.
LEMMA QueuedIsWaiting ==
  ASSUME Typed, NEW s
  PROVE  Queued(s) <=> Waits(s)
BY LenProperties DEF Typed, Queued, Waits

\* A tap opens the recipe its row shows, as long as no other screen was answered.
THEOREM RowsAreTheList == Spec => []RowsShowList
<1>1. IInv => RowsShowList
  BY QueuedIsWaiting DEF IInv, RowsShowList, RowsShow
<1> QED
  BY <1>1, Invariance, PTL

\* Once its searches are over, a screen shows the hits of the last one.
THEOREM LatestAreShown == Spec => []LatestResults
<1>1. IInv => LatestResults
  <2> SUFFICES ASSUME IInv, NEW s \in open, ~foreign[s], ~Queued(s), lastTerm[s] # None,
                      \A i \in DOMAIN asked : asked[i].screen # s
               PROVE  Shows(s, Hits[lastTerm[s]])
    BY DEF LatestResults
  <2>1. ~Waits(s)
    BY QueuedIsWaiting DEF IInv
  <2>2. ~Pending(s)
    BY LenProperties DEF IInv, Typed, Pending
  <2> QED
    BY <2>1, <2>2 DEF IInv, RowsShow, Latest
<1> QED
  BY <1>1, Invariance, PTL
=============================================================================
