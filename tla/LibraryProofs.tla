---------------------------- MODULE LibraryProofs ----------------------------
(***************************************************************************)
(* Proofs about Library for any users, recipes and identities and any      *)
(* bounds on lists, fetches and logins.                                    *)
(***************************************************************************)
EXTENDS Library, SequenceTheorems, FiniteSetTheorems, TLAPS

-----------------------------------------------------------------------------
(* The inductive invariant *)

PlanDoc == [recipes : Seq(Recipes), authorID : Users]
Stores(Ids, Docs) == {docs \in PartialFunctions(Ids, Docs) : IsFiniteSet(DOMAIN docs)}
RecipeStore == Stores(Uids, RecipeDoc)
PlanStore == Stores(PlanIds, PlanDoc)
Fetch(Store) == {Asked} \cup [state : {"answered"}, answer : Store]
Fetches(Store) == Seq(Fetch(Store))

Typed ==
  /\ recipeDocs \in RecipeStore /\ planDocs \in PlanStore
  /\ savedRecipes \in Seq(Object) /\ mealPlans \in Seq(Plan)
  /\ isChecked \in [Object -> BOOLEAN]
  /\ recipeFetches \in Fetches(RecipeStore) /\ Len(recipeFetches) <= MaxFetches
  /\ planFetches \in Fetches(PlanStore) /\ Len(planFetches) <= MaxFetches
  /\ selection \in [open : BOOLEAN, plan : PlanIds \cup {NoDoc}, checked : Seq(Object),
                    array : SUBSET Object]
  /\ user \in Users /\ signIns \in 0..MaxSignIns /\ loading \in BOOLEAN
  /\ tab \in {"book", "plans", "other", "login", "gone"}
  /\ rows \in Seq(IF tab = "book" THEN Object ELSE Plan)
  /\ crash \in {"none", "rows", "nilUid"}
  /\ stale \subseteq Object /\ tapped \subseteq Object /\ deleted \subseteq PlanIds

\* A selection is a screen behind the login.
Behind == selection.open => tab \notin {"login", "gone"}

\* Nothing was tapped yet when the block of loadUserData runs.
Loading == loading => tab = "other" /\ ~selection.open

\* While it is open, a recipe is ticked by it or was before.
Ticks == selection.open => \A o \in Object : isChecked[o] <=> o \in ToSet(selection.checked) \/ o \in stale

\* What is listed before the fetch is answered was saved since, and has no uid:
\* no fetched object takes the place of one that is ticked.
Local ==
  ~FetchFirst /\ recipeFetches # <<>> =>
    /\ \A o \in ToSet(savedRecipes) : o.uid = NoUid
    /\ selection.open => \A o \in selection.array \cup ToSet(selection.checked) \cup tapped : o.uid = NoUid

\* The user waits for the fetches.
Waits ==
  FetchFirst /\ ~Fetched => tab \notin {"book", "plans"} /\ ~selection.open

Current == FetchFirst => RowsCurrent

IInv ==
  /\ Typed /\ Behind /\ Loading /\ Ticks /\ SelectionExact
  /\ Local /\ Waits /\ Current /\ ListsAreOwn

-----------------------------------------------------------------------------
(* Sequences *)

\* RemoveAt takes element j out, and those behind it move up.
LEMMA RemoveAtProperties ==
  ASSUME NEW S, NEW s \in Seq(S), NEW j \in 1..Len(s)
  PROVE  /\ RemoveAt(s, j) \in Seq(S)
         /\ Len(s) \in Nat /\ Len(RemoveAt(s, j)) = Len(s) - 1
         /\ \A i \in 1..(Len(s) - 1) : RemoveAt(s, j)[i] = IF i < j THEN s[i] ELSE s[i + 1]
<1> DEFINE front == SubSeq(s, 1, j - 1)
           back == SubSeq(s, j + 1, Len(s))
<1>0. Len(s) \in Nat /\ j \in Nat /\ 1 <= j /\ j <= Len(s)
  BY LenProperties
<1>1. /\ front \in Seq(S) /\ Len(front) = j - 1
      /\ \A i \in 1..(j - 1) : front[i] = s[i]
  <2>1. \A i \in 1..(j - 1) : s[i] \in S
    BY <1>0, ElementOfSeq
  <2>2. /\ front \in Seq(S) /\ Len(front) = IF 1 <= j - 1 THEN j - 1 - 1 + 1 ELSE 0
        /\ \A i \in 1..(j - 1 - 1 + 1) : front[i] = s[1 + i - 1]
    BY <1>0, <2>1, SubSeqProperties
  <2> HIDE DEF front
  <2> QED
    BY <1>0, <2>2
<1>2. /\ back \in Seq(S) /\ Len(back) = Len(s) - j
      /\ \A i \in 1..(Len(s) - j) : back[i] = s[j + i]
  <2>1. \A i \in (j + 1)..Len(s) : s[i] \in S
    BY <1>0, ElementOfSeq
  <2>2. /\ back \in Seq(S) /\ Len(back) = IF j + 1 <= Len(s) THEN Len(s) - (j + 1) + 1 ELSE 0
        /\ \A i \in 1..(Len(s) - (j + 1) + 1) : back[i] = s[(j + 1) + i - 1]
    BY <1>0, <2>1, SubSeqProperties
  <2> HIDE DEF back
  <2> QED
    BY <1>0, <2>2
<1>3. RemoveAt(s, j) = front \o back
  BY DEF RemoveAt
<1> HIDE DEF front, back
<1>4. /\ front \o back \in Seq(S) /\ Len(front \o back) = Len(front) + Len(back)
      /\ \A i \in 1..(Len(front) + Len(back)) :
           (front \o back)[i] = IF i <= Len(front) THEN front[i] ELSE back[i - Len(front)]
  BY <1>1, <1>2, ConcatProperties
<1>5. \A i \in 1..(Len(s) - 1) : RemoveAt(s, j)[i] = IF i < j THEN s[i] ELSE s[i + 1]
  <2> TAKE i \in 1..(Len(s) - 1)
  <2>1. i \in 1..(Len(front) + Len(back))
    BY <1>0, <1>1, <1>2
  <2>0. (front \o back)[i] = IF i <= Len(front) THEN front[i] ELSE back[i - Len(front)]
    BY <1>4, <2>1
  <2>2. CASE i < j
    <3>1. i \in 1..(j - 1) /\ i <= Len(front)
      BY <1>0, <1>1, <2>2
    <3> QED
      BY <1>1, <1>3, <2>0, <2>2, <3>1
  <2>3. CASE ~(i < j)
    <3>1. /\ ~(i <= Len(front)) /\ i - Len(front) \in 1..(Len(s) - j)
          /\ j + (i - Len(front)) = i + 1
      BY <1>0, <1>1, <2>3
    <3>2. RemoveAt(s, j)[i] = back[i - Len(front)]
      BY <1>3, <2>0, <3>1
    <3>3. back[i - Len(front)] = s[j + (i - Len(front))]
      <4>1. PICK t \in 1..(Len(s) - j) : t = i - Len(front)
        BY <3>1
      <4>2. \A m \in 1..(Len(s) - j) : back[m] = s[j + m]
        BY <1>2
      <4>3. back[t] = s[j + t]
        BY <4>2
      <4> QED
        BY <4>1, <4>3
    <3> QED
      BY <2>3, <3>1, <3>2, <3>3
  <2> QED
    BY <2>2, <2>3
<1>6. RemoveAt(s, j) \in Seq(S) /\ Len(RemoveAt(s, j)) = Len(s) - 1
  <2>1. Len(front) + Len(back) = Len(s) - 1
    BY <1>0, <1>1, <1>2
  <2> QED
    BY <1>3, <1>4, <2>1
<1> QED
  BY <1>0, <1>5, <1>6

\* What is left of a sequence without repetitions when element j is taken out.
LEMMA RemovedFrom ==
  ASSUME NEW S, NEW s \in Seq(S), NEW j \in DOMAIN s
  PROVE  /\ RemoveAt(s, j) \in Seq(S) /\ ToSet(RemoveAt(s, j)) \subseteq ToSet(s)
         /\ Len(RemoveAt(s, j)) = Len(s) - 1
         /\ IsInjective(s) => /\ ToSet(RemoveAt(s, j)) = ToSet(s) \ {s[j]}
                              /\ IsInjective(RemoveAt(s, j))
<1> DEFINE r == RemoveAt(s, j)
<1>1. Len(s) \in Nat /\ DOMAIN s = 1..Len(s) /\ j \in 1..Len(s)
  BY LenProperties
<1>2. /\ r \in Seq(S) /\ Len(r) = Len(s) - 1
      /\ \A i \in 1..(Len(s) - 1) : r[i] = IF i < j THEN s[i] ELSE s[i + 1]
  <2>1. /\ RemoveAt(s, j) \in Seq(S) /\ Len(RemoveAt(s, j)) = Len(s) - 1
        /\ \A i \in 1..(Len(s) - 1) : RemoveAt(s, j)[i] = IF i < j THEN s[i] ELSE s[i + 1]
    BY <1>1, RemoveAtProperties, Zenon
  <2> QED
    BY <2>1, Zenon
<1>3. DOMAIN r = 1..(Len(s) - 1)
  <2>1. DOMAIN r = 1..Len(r)
    BY <1>2, LenProperties
  <2> QED
    BY <1>2, <2>1
<1> HIDE DEF r
<1> DEFINE place(i) == IF i < j THEN i ELSE i + 1
<1>4. ASSUME NEW i \in DOMAIN r PROVE place(i) \in DOMAIN s \ {j} /\ r[i] = s[place(i)]
  BY <1>1, <1>2, <1>3
<1>5. ASSUME NEW i \in DOMAIN r, NEW k \in DOMAIN r, place(i) = place(k) PROVE i = k
  BY <1>1, <1>3, <1>5
<1>6. ASSUME NEW k \in DOMAIN s \ {j} PROVE \E i \in DOMAIN r : k = place(i)
  <2>1. CASE k < j
    BY <1>1, <1>3, <2>1
  <2>2. CASE ~(k < j)
    <3>1. k - 1 \in DOMAIN r /\ place(k - 1) = k
      BY <1>1, <1>3, <2>2
    <3> QED
      BY <3>1
  <2> QED
    BY <2>1, <2>2
<1> HIDE DEF place
<1>7. ToSet(r) \subseteq ToSet(s)
  BY <1>4 DEF ToSet
<1>8. ASSUME IsInjective(s) PROVE ToSet(r) = ToSet(s) \ {s[j]}
  <2>1. ASSUME NEW x \in ToSet(r) PROVE x \in ToSet(s) \ {s[j]}
    <3>1. PICK i \in DOMAIN r : x = r[i]
      BY <2>1 DEF ToSet
    <3> QED
      BY <1>1, <1>4, <1>8, <3>1 DEF ToSet, IsInjective
  <2>2. ASSUME NEW x \in ToSet(s) \ {s[j]} PROVE x \in ToSet(r)
    <3>1. PICK k \in DOMAIN s : x = s[k] /\ k # j
      BY <2>2 DEF ToSet
    <3>2. PICK i \in DOMAIN r : k = place(i)
      BY <1>6, <3>1
    <3> QED
      BY <1>4, <3>1, <3>2 DEF ToSet
  <2> QED
    BY <2>1, <2>2
<1>9. ASSUME IsInjective(s) PROVE IsInjective(r)
  <2> SUFFICES ASSUME NEW i \in DOMAIN r, NEW k \in DOMAIN r, r[i] = r[k] PROVE i = k
    BY DEF IsInjective
  <2>1. place(i) = place(k)
    BY <1>4, <1>9 DEF IsInjective
  <2> QED
    BY <1>5, <2>1
<1> QED
  BY <1>2, <1>7, <1>8, <1>9 DEF r

\* A new element at the end.
LEMMA AppendedTo ==
  ASSUME NEW S, NEW s \in Seq(S), NEW e \in S
  PROVE  /\ Append(s, e) \in Seq(S) /\ ToSet(Append(s, e)) = ToSet(s) \cup {e}
         /\ Len(Append(s, e)) = Len(s) + 1 /\ Append(s, e) # <<>>
         /\ IsInjective(s) /\ e \notin ToSet(s) => IsInjective(Append(s, e))
<1> DEFINE r == Append(s, e)
           n == Len(s)
<1>1. n \in Nat /\ DOMAIN s = 1..n
  BY LenProperties
<1>2. r \in Seq(S) /\ Len(r) = n + 1 /\ r[n + 1] = e /\ \A i \in 1..n : r[i] = s[i]
  BY AppendProperties
<1>3. DOMAIN r = 1..(n + 1)
  BY <1>2, LenProperties
<1> HIDE DEF r, n
<1>4. DOMAIN r = DOMAIN s \cup {n + 1} /\ n + 1 \notin DOMAIN s
  BY <1>1, <1>3
<1>5. ToSet(r) = ToSet(s) \cup {e}
  BY <1>1, <1>2, <1>4 DEF ToSet
<1>6. IsInjective(s) /\ e \notin ToSet(s) => IsInjective(r)
  BY <1>1, <1>2, <1>4 DEF ToSet, IsInjective
<1>7. r # <<>>
  BY <1>1, <1>2, EmptySeq
<1> QED
  BY <1>2, <1>5, <1>6, <1>7 DEF r, n

\* Elements, and the sequence without any.
LEMMA InSequence ==
  ASSUME NEW S
  PROVE  /\ <<>> \in Seq(S) /\ ToSet(<<>>) = {} /\ IsInjective(<<>>) /\ Len(<<>>) = 0
         /\ \A s \in Seq(S) : /\ Len(s) \in Nat /\ DOMAIN s = 1..Len(s) /\ ToSet(s) \subseteq S
                              /\ Len(s) = 0 <=> s = <<>>
<1>1. <<>> \in Seq(S) /\ DOMAIN <<>> = {} /\ Len(<<>>) = 0
  BY EmptySeq
<1>2. ASSUME NEW s \in Seq(S)
      PROVE  /\ Len(s) \in Nat /\ DOMAIN s = 1..Len(s) /\ ToSet(s) \subseteq S
             /\ Len(s) = 0 <=> s = <<>>
  <2>1. Len(s) \in Nat /\ DOMAIN s = 1..Len(s)
    BY LenProperties
  <2>2. \A i \in DOMAIN s : s[i] \in S
    BY <2>1, ElementOfSeq
  <2>3. ToSet(s) \subseteq S
    BY <2>2 DEF ToSet
  <2>4. Len(s) = 0 <=> s = <<>>
    BY EmptySeq
  <2> QED
    BY <2>1, <2>3, <2>4
<1> QED
  BY <1>1, <1>2 DEF ToSet, IsInjective

\* A sequence is a function from the numbers up to its length.
LEMMA IsSequence ==
  ASSUME NEW S, NEW n \in Nat, NEW f \in [1..n -> S]
  PROVE  f \in Seq(S) /\ Len(f) = n
<1>1. f \in Seq(S)
  BY SeqDef
<1>2. DOMAIN f = 1..n /\ DOMAIN f = 1..Len(f) /\ Len(f) \in Nat
  BY <1>1, LenProperties
<1> QED
  BY <1>1, <1>2

\* A set of numbers has a smallest one.
LEMMA Smallest ==
  ASSUME NEW I \in SUBSET Nat, I # {}
  PROVE  \E i \in I : \A j \in I : i <= j
<1>1. I \subseteq Nat /\ I # {}
  OBVIOUS
<1>2. PICK i \in I : \A j \in I : ~ (<<j, i>> \in OpToRel(<, Nat))
  BY <1>1, NatLessThanWellFounded, WFMin
<1>3. ASSUME NEW j \in I, j < i PROVE FALSE
  <2>1. i \in Nat /\ j \in Nat /\ j < i
    BY <1>3
  <2>2. <<j, i>> \in OpToRel(<, Nat)
    BY <2>1 DEF OpToRel
  <2> QED
    BY <1>2, <2>2
<1>4. \A j \in I : i <= j
  BY <1>3
<1> QED
  BY <1>4

\* The first element equal to o is taken out of a sequence that has it.
LEMMA UntickedIs ==
  ASSUME NEW S, NEW s \in Seq(S), NEW o \in ToSet(s)
  PROVE  /\ Unticked(s, o) \in Seq(S)
         /\ IsInjective(s) => ToSet(Unticked(s, o)) = ToSet(s) \ {o} /\ IsInjective(Unticked(s, o))
<1> DEFINE P(i) == s[i] = o /\ \A j \in DOMAIN s : s[j] = o => i <= j
           I == {i \in DOMAIN s : s[i] = o}
<1>1. I \subseteq Nat /\ I # {}
  BY InSequence DEF ToSet
<1>2. PICK i \in I : \A j \in I : i <= j
  <2> HIDE DEF I
  <2> QED
    BY <1>1, Smallest
<1>4. \E k \in DOMAIN s : P(k)
  BY <1>2
<1> DEFINE c == CHOOSE k \in DOMAIN s : P(k)
<1>5. c \in DOMAIN s /\ P(c)
  BY <1>4
<1>6. Unticked(s, o) = RemoveAt(s, c)
  BY DEF Unticked
<1> HIDE DEF c
<1> QED
  BY <1>5, <1>6, RemovedFrom

-----------------------------------------------------------------------------
(* Documents *)

LEMMA StoreForm ==
  ASSUME NEW Ids, NEW Docs, NEW docs
  PROVE  docs \in Stores(Ids, Docs) <=>
           docs \in [DOMAIN docs -> Docs] /\ DOMAIN docs \subseteq Ids /\ IsFiniteSet(DOMAIN docs)
BY DEF Stores, PartialFunctions

\* Writing and deleting a document.
LEMMA Written ==
  ASSUME NEW Ids, NEW Docs, NEW docs \in Stores(Ids, Docs), NEW id
  PROVE  /\ \A doc \in Docs : id \in Ids => Insert(docs, id, doc) \in Stores(Ids, Docs)
         /\ Without(docs, id) \in Stores(Ids, Docs)
<1>1. docs \in [DOMAIN docs -> Docs] /\ DOMAIN docs \subseteq Ids /\ IsFiniteSet(DOMAIN docs)
  BY StoreForm
<1>2. IsFiniteSet(DOMAIN docs \cup {id}) /\ IsFiniteSet(DOMAIN docs \ {id})
  BY <1>1, FS_AddElement, FS_RemoveElement
<1>3. ASSUME NEW doc \in Docs, id \in Ids PROVE Insert(docs, id, doc) \in Stores(Ids, Docs)
  <2>1. PICK f : f = Insert(docs, id, doc)
    OBVIOUS
  <2>2. f \in [DOMAIN docs \cup {id} -> Docs]
    BY <1>1, <2>1 DEF Insert
  <2> QED
    BY <1>1, <1>2, <1>3, <2>1, <2>2, StoreForm
<1>4. Without(docs, id) \in Stores(Ids, Docs)
  <2>1. PICK f : f = Without(docs, id)
    OBVIOUS
  <2>2. f \in [DOMAIN docs \ {id} -> Docs]
    BY <1>1, <2>1 DEF Without
  <2> QED
    BY <1>1, <1>2, <2>1, <2>2, StoreForm
<1> QED
  BY <1>3, <1>4

\* A query's answer, in whatever order, has each of the user's documents once.
LEMMA Ordered ==
  ASSUME NEW Ids, NEW Docs, NEW docs \in Stores(Ids, Docs), NEW order \in Orders(Own(docs))
  PROVE  \E n \in Nat :
           /\ DOMAIN order = 1..n
           /\ \A i \in 1..n : /\ order[i] \in DOMAIN docs /\ order[i] \in Ids
                              /\ docs[order[i]] \in Docs /\ docs[order[i]].authorID = user
<1>1. docs \in [DOMAIN docs -> Docs] /\ DOMAIN docs \subseteq Ids /\ IsFiniteSet(DOMAIN docs)
  BY StoreForm
<1>2. Own(docs) \subseteq DOMAIN docs
  BY DEF Own
<1>3. Cardinality(Own(docs)) \in Nat
  BY <1>1, <1>2, FS_Subset, FS_CardinalityType
<1>4. order \in [1..Cardinality(Own(docs)) -> Own(docs)]
  BY DEF Orders
<1> QED
  BY <1>1, <1>3, <1>4 DEF Own

\* A fetch that was asked for, and one that is answered.
LEMMA FetchTypes ==
  ASSUME NEW Ids, NEW Docs
  PROVE  /\ <<>> \in Stores(Ids, Docs)
         /\ Asked \in Fetch(Stores(Ids, Docs))
         /\ \A f \in Fetch(Stores(Ids, Docs)) : f.answer \in Stores(Ids, Docs)
         /\ \A docs \in Stores(Ids, Docs) : Answered(docs) \in Fetch(Stores(Ids, Docs))
         /\ <<>> \in Fetches(Stores(Ids, Docs))
<1>1. <<>> \in Stores(Ids, Docs)
  <2>1. PICK d : d = <<>>
    OBVIOUS
  <2>2. DOMAIN d = {} /\ d \in [{} -> Docs]
    BY <2>1, EmptySeq
  <2>3. IsFiniteSet(DOMAIN d)
    BY <2>2, FS_EmptySet
  <2>4. d \in Stores(Ids, Docs)
    BY <2>2, <2>3, StoreForm
  <2> QED
    BY <2>1, <2>4
<1>2. /\ Asked \in Fetch(Stores(Ids, Docs))
      /\ \A f \in Fetch(Stores(Ids, Docs)) : f.answer \in Stores(Ids, Docs)
  BY <1>1 DEF Asked, Fetch
<1>3. \A docs \in Stores(Ids, Docs) : Answered(docs) \in Fetch(Stores(Ids, Docs))
  BY DEF Answered, Fetch
<1>4. Fetches(Stores(Ids, Docs)) = Seq(Fetch(Stores(Ids, Docs)))
  BY DEF Fetches, Fetch
<1>5. <<>> \in Seq(Fetch(Stores(Ids, Docs)))
  <2> HIDE DEF Fetch, Asked
  <2> QED
    BY <1>2
<1> QED
  BY <1>1, <1>2, <1>3, <1>4, <1>5

\* The answer to the first fetch not answered yet leaves as many fetches.
LEMMA FirstAnsweredKeeps ==
  ASSUME NEW Ids, NEW Docs, NEW docs \in Stores(Ids, Docs),
         NEW fetches \in Fetches(Stores(Ids, Docs))
  PROVE  /\ FirstAnswered(fetches, docs) \in Fetches(Stores(Ids, Docs))
         /\ Len(FirstAnswered(fetches, docs)) = Len(fetches)
         /\ FirstAnswered(fetches, docs) = <<>> <=> fetches = <<>>
<1> DEFINE F == Fetch(Stores(Ids, Docs))
<1>1. PICK i : FirstAnswered(fetches, docs) = IF i = 0 THEN fetches ELSE [fetches EXCEPT ![i] = Answered(docs)]
  BY DEF FirstAnswered
<1>2. fetches \in Seq(F) /\ Answered(docs) \in F /\ Fetches(Stores(Ids, Docs)) = Seq(F)
  BY FetchTypes DEF Fetches, Fetch
<1> HIDE DEF F
<1>3. PICK g : g = [fetches EXCEPT ![i] = Answered(docs)]
  OBVIOUS
<1>4. Len(fetches) \in Nat /\ DOMAIN fetches = 1..Len(fetches) /\ (Len(fetches) = 0 <=> fetches = <<>>)
  BY <1>2, InSequence
<1>5. fetches \in [1..Len(fetches) -> F]
  <2>1. \A j \in 1..Len(fetches) : fetches[j] \in F
    BY <1>2, ElementOfSeq
  <2>2. fetches = [j \in DOMAIN fetches |-> fetches[j]]
    BY <1>2
  <2> QED
    BY <1>4, <2>1, <2>2
<1>6. g \in [1..Len(fetches) -> F]
  BY <1>2, <1>3, <1>5
<1>7. g \in Seq(F) /\ Len(g) = Len(fetches)
  BY <1>4, <1>6, IsSequence
<1>8. g = <<>> <=> fetches = <<>>
  BY <1>4, <1>7, InSequence
<1> QED
  BY <1>1, <1>2, <1>3, <1>7, <1>8

\* The first fetch is over.
LEMMA TailKeeps ==
  ASSUME NEW S, NEW s \in Seq(S), s # <<>>
  PROVE  /\ Tail(s) \in Seq(S) /\ Len(Tail(s)) <= Len(s)
         /\ Len(s) <= 1 => Tail(s) = <<>>
         /\ Head(s) \in S
<1>1. Tail(s) \in Seq(S) /\ Len(Tail(s)) = Len(s) - 1 /\ Len(s) \in Nat /\ Head(s) \in S /\ Len(s) # 0
  BY HeadTailProperties, InSequence
<1>2. Len(s) <= 1 => Len(Tail(s)) = 0
  BY <1>1
<1> QED
  BY <1>1, <1>2, InSequence

-----------------------------------------------------------------------------
(* Processes and logins *)

LEMMA ClearedKeeps ==
  ASSUME Cleared, user' \in Users, signIns' \in 0..MaxSignIns,
         recipeDocs' \in RecipeStore, planDocs' \in PlanStore,
         recipeFetches' \in Fetches(RecipeStore), Len(recipeFetches') <= MaxFetches,
         planFetches' \in Fetches(PlanStore), Len(planFetches') <= MaxFetches,
         tab' \in {"other", "login", "gone"}, crash' \in {"none", "rows", "nilUid"},
         FetchFirst => crash' # "rows", deleted' \subseteq PlanIds,
         loading' \in BOOLEAN, loading' => tab' = "other"
  PROVE  IInv'
<1>1. /\ savedRecipes' = <<>> /\ mealPlans' = <<>> /\ rows' = <<>>
      /\ isChecked' = [o \in Object |-> FALSE]
      /\ selection' = NoSelection /\ stale' = {} /\ tapped' = {}
  BY DEF Cleared
<1>2. /\ selection'.open = FALSE
      /\ selection' \in [open : BOOLEAN, plan : PlanIds \cup {NoDoc}, checked : Seq(Object),
                         array : SUBSET Object]
  BY <1>1, InSequence DEF NoSelection
<1>3. /\ <<>> \in Seq(Object) /\ <<>> \in Seq(Plan) /\ ToSet(<<>>) = {}
  BY InSequence
<1>4. Typed'
  BY <1>1, <1>2, <1>3 DEF Typed
<1>5. Behind' /\ Loading' /\ Ticks' /\ SelectionExact'
  BY <1>2 DEF Behind, Loading, Ticks, SelectionExact
<1>6. Local' /\ Waits' /\ Current' /\ ListsAreOwn'
  BY <1>1, <1>2, <1>3 DEF Local, Waits, Current, RowsCurrent, ListsAreOwn, TabsLoaded
<1> QED
  BY <1>4, <1>5, <1>6 DEF IInv

LEMMA RelaunchKeeps ==
  ASSUME IInv, Relaunch
  PROVE  IInv'
<1>1. /\ Cleared /\ UNCHANGED <<user, signIns, recipeDocs, planDocs, deleted>>
      /\ recipeFetches' = <<>> /\ planFetches' = <<>>
      /\ tab' = IF tab = "login" THEN "login" ELSE "other"
      /\ loading' = (tab # "login") /\ crash' = "none"
  BY DEF Relaunch
<1>2. tab' \in {"other", "login"} /\ loading' \in BOOLEAN /\ (loading' => tab' = "other")
  BY <1>1
<1>3. MaxFetches \in Nat /\ Len(<<>>) = 0
  BY LibraryBounds, EmptySeq
<1>4. /\ recipeFetches' \in Fetches(RecipeStore) /\ Len(recipeFetches') <= MaxFetches
      /\ planFetches' \in Fetches(PlanStore) /\ Len(planFetches') <= MaxFetches
  BY <1>1, <1>3, FetchTypes DEF RecipeStore, PlanStore
<1>5. Typed
  BY DEF IInv
<1> QED
  BY <1>1, <1>2, <1>4, <1>5, ClearedKeeps DEF Typed

\* A trap leaves the documents, or one fewer.
LEMMA CrashedKeeps ==
  ASSUME IInv, NEW cause \in {"rows", "nilUid"}, Crashed(cause), FetchFirst => cause # "rows",
         recipeDocs' \in RecipeStore, planDocs' \in PlanStore
  PROVE  IInv'
<1>1. /\ Cleared /\ UNCHANGED <<user, signIns, deleted>>
      /\ recipeFetches' = <<>> /\ planFetches' = <<>> /\ tab' = "gone" /\ crash' = cause
      /\ loading' = FALSE
  BY DEF Crashed
<1>2. MaxFetches \in Nat /\ Len(<<>>) = 0
  BY LibraryBounds, EmptySeq
<1>3. /\ recipeFetches' \in Fetches(RecipeStore) /\ Len(recipeFetches') <= MaxFetches
      /\ planFetches' \in Fetches(PlanStore) /\ Len(planFetches') <= MaxFetches
  BY <1>1, <1>2, FetchTypes DEF RecipeStore, PlanStore
<1>4. Typed
  BY DEF IInv
<1> QED
  BY <1>1, <1>3, <1>4, ClearedKeeps DEF Typed

LEMMA LogoutKeeps ==
  ASSUME IInv, logoutButtonTapped
  PROVE  IInv'
<1>1. /\ tab' = "login" /\ rows' = <<>> /\ selection' = NoSelection /\ stale' = {} /\ tapped' = {}
      /\ UNCHANGED <<user, signIns, loading, recipeDocs, planDocs, savedRecipes, isChecked, mealPlans,
                     recipeFetches, planFetches, crash, deleted>>
      /\ ~loading
  BY DEF logoutButtonTapped, TabsLoaded, session
<1>2. Typed /\ Local /\ Current
  BY DEF IInv
<1>3. /\ selection'.open = FALSE
      /\ selection' \in [open : BOOLEAN, plan : PlanIds \cup {NoDoc}, checked : Seq(Object),
                         array : SUBSET Object]
  BY <1>1, InSequence DEF NoSelection
<1>4. <<>> \in Seq(Plan)
  BY InSequence
<1>5. Typed'
  BY <1>1, <1>2, <1>3, <1>4 DEF Typed
<1>6. Behind' /\ Loading' /\ Ticks' /\ SelectionExact' /\ Local' /\ Waits' /\ Current' /\ ListsAreOwn'
  BY <1>1, <1>2, <1>3
     DEF Behind, Loading, Ticks, SelectionExact, Local, Waits, Current, RowsCurrent,
         ListsAreOwn, TabsLoaded
<1> QED
  BY <1>5, <1>6 DEF IInv

\* One more fetch.
LEMMA Asking ==
  ASSUME NEW Ids, NEW Docs, NEW fetches \in Fetches(Stores(Ids, Docs)), Len(fetches) < MaxFetches
  PROVE  /\ Append(fetches, Asked) \in Fetches(Stores(Ids, Docs))
         /\ Len(Append(fetches, Asked)) <= MaxFetches
<1> DEFINE F == Fetch(Stores(Ids, Docs))
<1>1. fetches \in Seq(F) /\ Asked \in F /\ Fetches(Stores(Ids, Docs)) = Seq(F)
  BY FetchTypes DEF Fetches, Fetch
<1> HIDE DEF F
<1>2. Append(fetches, Asked) \in Seq(F) /\ Len(Append(fetches, Asked)) = Len(fetches) + 1
  BY <1>1, AppendedTo
<1>3. Len(fetches) \in Nat /\ MaxFetches \in Nat
  BY <1>1, LibraryBounds, InSequence
<1> QED
  BY <1>1, <1>2, <1>3

LEMMA SignInKeeps ==
  ASSUME IInv, NEW u \in Users, SignIn(u)
  PROVE  IInv'
<1>1. /\ tab = "login" /\ signIns < MaxSignIns /\ signIns' = signIns + 1
      /\ user' = u /\ tab' = "other" /\ loading' = TRUE
      /\ UNCHANGED <<recipeDocs, planDocs, savedRecipes, isChecked, mealPlans, recipeFetches,
                     planFetches, selection, rows, crash, stale, tapped, deleted>>
  BY DEF SignIn, history
<1>2. Typed /\ Behind /\ Local /\ Current
  BY DEF IInv
<1>3. signIns' \in 0..MaxSignIns
  BY <1>1, <1>2, LibraryBounds DEF Typed
<1>4. ~selection.open
  BY <1>1, <1>2 DEF Behind
<1>5. Typed'
  BY <1>1, <1>2, <1>3 DEF Typed
<1>6. Behind' /\ Loading' /\ Ticks' /\ SelectionExact' /\ Local' /\ Waits' /\ Current' /\ ListsAreOwn'
  BY <1>1, <1>2, <1>4
     DEF Behind, Loading, Ticks, SelectionExact, Local, Waits, Current, RowsCurrent,
         ListsAreOwn, TabsLoaded
<1> QED
  BY <1>5, <1>6 DEF IInv

LEMMA LoadKeeps ==
  ASSUME IInv, loadUserData
  PROVE  IInv'
<1>1. /\ loading /\ Len(recipeFetches) < MaxFetches /\ Len(planFetches) < MaxFetches
      /\ loading' = FALSE /\ savedRecipes' = <<>> /\ mealPlans' = <<>>
      /\ recipeFetches' = Append(recipeFetches, Asked) /\ planFetches' = Append(planFetches, Asked)
      /\ UNCHANGED <<user, signIns, recipeDocs, planDocs, isChecked, selection, tab, rows, crash,
                     stale, tapped, deleted>>
  BY DEF loadUserData, emptied, history
<1>2. Typed /\ Loading /\ Current
  BY DEF IInv
<1>3. /\ recipeFetches' \in Fetches(RecipeStore) /\ Len(recipeFetches') <= MaxFetches
      /\ planFetches' \in Fetches(PlanStore) /\ Len(planFetches') <= MaxFetches
  BY <1>1, <1>2, Asking DEF Typed, RecipeStore, PlanStore
<1>4. tab = "other" /\ ~selection.open
  BY <1>1, <1>2 DEF Loading
<1>5. /\ <<>> \in Seq(Object) /\ <<>> \in Seq(Plan) /\ ToSet(<<>>) = {}
  BY InSequence
<1>6. Typed'
  BY <1>1, <1>2, <1>3, <1>5 DEF Typed
<1>7. Behind' /\ Loading' /\ Ticks' /\ SelectionExact' /\ Local' /\ Waits' /\ Current' /\ ListsAreOwn'
  BY <1>1, <1>2, <1>4, <1>5
     DEF Behind, Loading, Ticks, SelectionExact, Local, Waits, Current, RowsCurrent, ListsAreOwn
<1> QED
  BY <1>6, <1>7 DEF IInv

\* RemoveFirst takes some element out.
LEMMA RemoveFirstIs ==
  ASSUME NEW S, NEW s \in Seq(S), NEW e \in ToSet(s)
  PROVE  \E i \in DOMAIN s : RemoveFirst(s, e) = RemoveAt(s, i)
<1> DEFINE I == {i \in 1..Len(s) : s[i] = e}
<1>1. Len(s) \in Nat /\ DOMAIN s = 1..Len(s)
  BY LenProperties
<1>2. I \in SUBSET Nat /\ I # {}
  BY <1>1 DEF ToSet
<1>3. SelectInSeq(s, LAMBDA v : v = e) = IF I # {} THEN Min(I) ELSE 0
  BY DEF SelectInSeq
<1>4. Min(I) \in I
  <2> HIDE DEF I
  <2>1. \E i \in I : \A j \in I : i <= j
    BY <1>2, Smallest
  <2> QED
    BY <2>1 DEF Min
<1>5. RemoveFirst(s, e) = IF \E i \in 1..Len(s): s[i] = e
    THEN RemoveAt(s, SelectInSeq(s, LAMBDA v: v = e))
    ELSE s
  BY DEF RemoveFirst
<1>6. RemoveFirst(s, e) = RemoveAt(s, Min(I))
  BY <1>1, <1>2, <1>3, <1>5
<1> QED
  BY <1>1, <1>4, <1>6

-----------------------------------------------------------------------------
(* Fetches *)

LEMMA AnswerRecipesKeeps ==
  ASSUME IInv, AnswerRecipes
  PROVE  IInv'
<1>1. /\ recipeFetches' = FirstAnswered(recipeFetches, recipeDocs)
      /\ UNCHANGED <<user, signIns, loading, recipeDocs, planDocs, savedRecipes, isChecked, mealPlans,
                     planFetches, selection, tab, rows, crash, stale, tapped, deleted>>
  BY DEF AnswerRecipes, session, history
<1>2. Typed
  BY DEF IInv
<1>3. /\ recipeFetches' \in Fetches(RecipeStore) /\ Len(recipeFetches') <= MaxFetches
      /\ recipeFetches' = <<>> <=> recipeFetches = <<>>
  BY <1>1, <1>2, FirstAnsweredKeeps DEF Typed, RecipeStore
<1>4. Typed'
  BY <1>1, <1>2, <1>3 DEF Typed
<1>5. Behind' /\ Loading' /\ Ticks' /\ SelectionExact' /\ Local' /\ Waits' /\ Current' /\ ListsAreOwn'
  BY <1>1, <1>3
     DEF IInv, Behind, Loading, Ticks, SelectionExact, Local, Waits, Fetched, Current, RowsCurrent,
         ListsAreOwn, TabsLoaded
<1> QED
  BY <1>4, <1>5 DEF IInv

LEMMA AnswerPlansKeeps ==
  ASSUME IInv, AnswerPlans
  PROVE  IInv'
<1>1. /\ planFetches' = FirstAnswered(planFetches, planDocs)
      /\ UNCHANGED <<user, signIns, loading, recipeDocs, planDocs, savedRecipes, isChecked, mealPlans,
                     recipeFetches, selection, tab, rows, crash, stale, tapped, deleted>>
  BY DEF AnswerPlans, session, history
<1>2. Typed
  BY DEF IInv
<1>3. /\ planFetches' \in Fetches(PlanStore) /\ Len(planFetches') <= MaxFetches
      /\ planFetches' = <<>> <=> planFetches = <<>>
  BY <1>1, <1>2, FirstAnsweredKeeps DEF Typed, PlanStore
<1>4. Typed'
  BY <1>1, <1>2, <1>3 DEF Typed
<1>5. Behind' /\ Loading' /\ Ticks' /\ SelectionExact' /\ Local' /\ Waits' /\ Current' /\ ListsAreOwn'
  BY <1>1, <1>3
     DEF IInv, Behind, Loading, Ticks, SelectionExact, Local, Waits, Fetched, Current, RowsCurrent,
         ListsAreOwn, TabsLoaded
<1> QED
  BY <1>4, <1>5 DEF IInv

\* What the callback makes of an answer: the user's recipes, as objects with uids.
LEMMA RecipesFetched ==
  ASSUME NEW docs \in RecipeStore, NEW order \in Orders(Own(docs)), user \in Users, NEW list,
         list = [i \in DOMAIN order |->
                   [recipe |-> docs[order[i]].recipe, uid |-> order[i], by |-> docs[order[i]].authorID]]
  PROVE  list \in Seq(Object) /\ \A o \in ToSet(list) : o.by = user
<1>1. PICK n \in Nat :
        /\ DOMAIN order = 1..n
        /\ \A i \in 1..n : /\ order[i] \in DOMAIN docs /\ order[i] \in Uids
                           /\ docs[order[i]] \in RecipeDoc /\ docs[order[i]].authorID = user
  BY Ordered DEF RecipeStore
<1>2. ASSUME NEW i \in 1..n PROVE list[i] \in Object /\ list[i].by = user
  <2>1. list[i] = [recipe |-> docs[order[i]].recipe, uid |-> order[i], by |-> docs[order[i]].authorID]
    BY <1>1
  <2>2. docs[order[i]].recipe \in Recipes
    BY <1>1 DEF RecipeDoc
  <2> QED
    BY <1>1, <2>1, <2>2 DEF Object
<1>3. list \in [1..n -> Object] /\ DOMAIN list = 1..n
  BY <1>1, <1>2
<1> QED
  BY <1>2, <1>3, IsSequence DEF ToSet

LEMMA RecipeCallbackKeeps ==
  ASSUME IInv, fetchRecipeCallback
  PROVE  IInv'
<1> DEFINE docs == Head(recipeFetches).answer
           object(u) == [recipe |-> docs[u].recipe, uid |-> u, by |-> docs[u].authorID]
           fetched == {object(u) : u \in Own(docs)}
<1>1. /\ recipeFetches # <<>> /\ recipeFetches' = Tail(recipeFetches)
      /\ UNCHANGED <<user, signIns, loading, recipeDocs, planDocs, mealPlans, planFetches, selection, tab, rows,
                     crash, tapped, deleted>>
      /\ \E order \in Orders(Own(docs)) : savedRecipes' = [i \in DOMAIN order |-> object(order[i])]
      /\ isChecked' = [o \in Object |-> IF o \in fetched THEN docs[o.uid].isChecked ELSE isChecked[o]]
      /\ stale' = IF selection.open
                    THEN {o \in stale : o \notin fetched} \cup {o \in fetched : docs[o.uid].isChecked}
                    ELSE stale
  BY DEF fetchRecipeCallback, IsAnswered, session
<1>2. Typed
  BY DEF IInv
<1>3. /\ docs \in RecipeStore
      /\ recipeFetches' \in Fetches(RecipeStore) /\ Len(recipeFetches') <= MaxFetches
      /\ ~FetchFirst => recipeFetches' = <<>>
  <2>1. recipeFetches \in Seq(Fetch(RecipeStore)) /\ Len(recipeFetches) <= MaxFetches
    BY <1>2 DEF Typed, Fetches, Fetch
  <2>2. /\ Tail(recipeFetches) \in Seq(Fetch(RecipeStore)) /\ Len(Tail(recipeFetches)) <= Len(recipeFetches)
        /\ Len(recipeFetches) <= 1 => Tail(recipeFetches) = <<>>
        /\ Head(recipeFetches) \in Fetch(RecipeStore)
    BY <1>1, <2>1, TailKeeps
  <2>3. /\ Len(recipeFetches) \in Nat /\ Len(Tail(recipeFetches)) \in Nat /\ MaxFetches \in Nat
        /\ ~FetchFirst => MaxFetches <= 1
    BY <2>1, <2>2, InSequence, LibraryBounds, OverlapsAreWaitedFor
  <2>4. docs \in RecipeStore
    BY <2>2, FetchTypes DEF RecipeStore
  <2> HIDE DEF docs
  <2> QED
    BY <1>1, <2>1, <2>2, <2>3, <2>4 DEF Fetches, Fetch
<1>4. PICK order \in Orders(Own(docs)) : savedRecipes' = [i \in DOMAIN order |-> object(order[i])]
  BY <1>1
<1>5. savedRecipes' \in Seq(Object) /\ \A o \in ToSet(savedRecipes') : o.by = user
  <2> HIDE DEF docs
  <2> QED
    BY <1>2, <1>3, <1>4, RecipesFetched DEF Typed
<1> HIDE DEF docs
<1>6. ASSUME NEW o \in fetched
      PROVE  o \in Object /\ o.uid # NoUid /\ docs[o.uid].isChecked \in BOOLEAN
  <2>1. PICK u \in Own(docs) : o = object(u)
    BY <1>6
  <2>2. docs[u] \in RecipeDoc /\ u \in Uids /\ docs[u].authorID = user
    BY <1>3, <2>1, StoreForm DEF RecipeStore, Own
  <2>3. docs[u].recipe \in Recipes /\ docs[u].isChecked \in BOOLEAN
    BY <2>2 DEF RecipeDoc
  <2> QED
    BY <1>2, <2>1, <2>2, <2>3, NoUidAssumption DEF Object, Typed
<1> HIDE DEF fetched
<1>7. Typed'
  <2>1. isChecked' \in [Object -> BOOLEAN]
    BY <1>1, <1>2, <1>6 DEF Typed
  <2>2. stale' \subseteq Object
    BY <1>1, <1>2, <1>6 DEF Typed
  <2> QED
    BY <1>1, <1>2, <1>3, <1>5, <2>1, <2>2 DEF Typed
<1>8. ListsAreOwn'
  BY <1>1, <1>5 DEF IInv, ListsAreOwn, TabsLoaded
<1>9. CASE FetchFirst
  <2>1. tab \notin {"book", "plans"} /\ ~selection.open
    BY <1>1, <1>9 DEF IInv, Waits, Fetched
  <2> QED
    BY <1>1, <1>7, <1>8, <1>9, <2>1
       DEF IInv, Behind, Loading, Ticks, SelectionExact, Local, Waits, Current, RowsCurrent
<1>10. CASE ~FetchFirst
  <2>1. Behind' /\ Loading' /\ Local' /\ Waits' /\ Current'
    BY <1>1, <1>3, <1>10 DEF IInv, Behind, Loading, Local, Waits, Current
  <2>2. ASSUME selection.open
        PROVE  Ticks' /\ SelectionExact'
    <3>1. \A o \in fetched : o \notin ToSet(selection.checked) /\ o \notin tapped
      BY <1>1, <1>6, <1>10, <2>2 DEF IInv, Local
    <3>2. stale' = {o \in stale : o \notin fetched} \cup {o \in fetched : docs[o.uid].isChecked}
      BY <1>1, <2>2
    <3>3. ToSet(selection.checked) = tapped \ stale /\ IsInjective(selection.checked)
      BY <2>2 DEF IInv, SelectionExact
    <3>4. tapped \ stale' = tapped \ stale
      BY <3>1, <3>2
    <3>5. SelectionExact'
      BY <1>1, <3>3, <3>4 DEF SelectionExact
    <3>6. ASSUME NEW o \in Object
          PROVE  isChecked'[o] <=> o \in ToSet(selection.checked) \/ o \in stale'
      <4>1. CASE o \in fetched
        <5>1. isChecked'[o] = docs[o.uid].isChecked
          BY <1>1, <4>1
        <5>2. o \in stale' <=> docs[o.uid].isChecked
          BY <3>2, <4>1
        <5> QED
          BY <3>1, <4>1, <5>1, <5>2
      <4>2. CASE o \notin fetched
        <5>1. isChecked'[o] = isChecked[o]
          BY <1>1, <4>2
        <5>2. o \in stale' <=> o \in stale
          BY <3>2, <4>2
        <5>3. isChecked[o] <=> o \in ToSet(selection.checked) \/ o \in stale
          BY <2>2 DEF IInv, Ticks
        <5> QED
          BY <5>1, <5>2, <5>3
      <4> QED
        BY <4>1, <4>2
    <3>7. Ticks'
      BY <1>1, <3>6 DEF Ticks
    <3> QED
      BY <3>5, <3>7
  <2>3. ~selection.open => Ticks' /\ SelectionExact'
    BY <1>1 DEF Ticks, SelectionExact
  <2> QED
    BY <1>7, <1>8, <2>1, <2>2, <2>3 DEF IInv
<1> QED
  BY <1>9, <1>10

\* What the callback makes of an answer: the user's plans.
LEMMA PlansFetched ==
  ASSUME NEW docs \in PlanStore, NEW order \in Orders(Own(docs)), user \in Users, NEW list,
         list = [i \in DOMAIN order |-> decodedPlan(order[i], docs[order[i]])]
  PROVE  list \in Seq(Plan) /\ \A p \in ToSet(list) : p.authorID = user
<1>1. PICK n \in Nat :
        /\ DOMAIN order = 1..n
        /\ \A i \in 1..n : /\ order[i] \in DOMAIN docs /\ order[i] \in PlanIds
                           /\ docs[order[i]] \in PlanDoc /\ docs[order[i]].authorID = user
  BY Ordered DEF PlanStore
<1>2. ASSUME NEW d \in PlanIds, NEW stored \in PlanDoc
      PROVE  decodedPlan(d, stored) \in Plan /\ decodedPlan(d, stored).authorID = stored.authorID
  <2> DEFINE list2 == [k \in DOMAIN stored.recipes |-> [recipe |-> stored.recipes[k], hasUid |-> TRUE]]
  <2>1. stored.recipes \in Seq(Recipes) /\ stored.authorID \in Users
    BY DEF PlanDoc
  <2>2. Len(stored.recipes) \in Nat /\ DOMAIN stored.recipes = 1..Len(stored.recipes)
    BY <2>1, InSequence
  <2>3. \A k \in 1..Len(stored.recipes) : stored.recipes[k] \in Recipes
    BY <2>1, ElementOfSeq
  <2>4. list2 \in [1..Len(stored.recipes) -> [recipe : Recipes, hasUid : BOOLEAN]]
    BY <2>2, <2>3
  <2>5. list2 \in Seq([recipe : Recipes, hasUid : BOOLEAN])
    <3> HIDE DEF list2
    <3> QED
      BY <2>2, <2>4, IsSequence
  <2>6. decodedPlan(d, stored) = [uid |-> d, doc |-> d, authorID |-> stored.authorID, recipes |-> list2]
    BY DEF decodedPlan
  <2> HIDE DEF list2
  <2> QED
    BY <2>1, <2>5, <2>6 DEF Plan
<1>3. ASSUME NEW i \in 1..n PROVE list[i] \in Plan /\ list[i].authorID = user
  <2>1. list[i] = decodedPlan(order[i], docs[order[i]])
    BY <1>1
  <2> QED
    BY <1>1, <1>2, <2>1
<1>4. list \in [1..n -> Plan] /\ DOMAIN list = 1..n
  BY <1>1, <1>3
<1> QED
  BY <1>3, <1>4, IsSequence DEF ToSet

LEMMA PlanCallbackKeeps ==
  ASSUME IInv, fetchMealPlansCallback
  PROVE  IInv'
<1> DEFINE docs == Head(planFetches).answer
<1>1. /\ planFetches # <<>> /\ planFetches' = Tail(planFetches)
      /\ UNCHANGED <<user, signIns, loading, recipeDocs, planDocs, savedRecipes, isChecked, recipeFetches,
                     selection, tab, rows, crash, stale, tapped, deleted>>
      /\ \E order \in Orders(Own(docs)) :
           mealPlans' = [i \in DOMAIN order |-> decodedPlan(order[i], docs[order[i]])]
  BY DEF fetchMealPlansCallback, IsAnswered, session, history
<1>2. Typed
  BY DEF IInv
<1>3. /\ docs \in PlanStore
      /\ planFetches' \in Fetches(PlanStore) /\ Len(planFetches') <= MaxFetches
  <2>1. planFetches \in Seq(Fetch(PlanStore)) /\ Len(planFetches) <= MaxFetches
    BY <1>2 DEF Typed, Fetches, Fetch
  <2>2. /\ Tail(planFetches) \in Seq(Fetch(PlanStore)) /\ Len(Tail(planFetches)) <= Len(planFetches)
        /\ Head(planFetches) \in Fetch(PlanStore)
    BY <1>1, <2>1, TailKeeps
  <2>3. /\ Len(planFetches) \in Nat /\ Len(Tail(planFetches)) \in Nat /\ MaxFetches \in Nat
    BY <2>1, <2>2, InSequence, LibraryBounds
  <2>4. docs \in PlanStore
    BY <2>2, FetchTypes DEF PlanStore
  <2> HIDE DEF docs
  <2> QED
    BY <1>1, <2>1, <2>2, <2>3, <2>4 DEF Fetches, Fetch
<1>4. PICK order \in Orders(Own(docs)) :
        mealPlans' = [i \in DOMAIN order |-> decodedPlan(order[i], docs[order[i]])]
  BY <1>1
<1> HIDE DEF docs
<1>5. mealPlans' \in Seq(Plan) /\ \A p \in ToSet(mealPlans') : p.authorID = user
  BY <1>2, <1>3, <1>4, PlansFetched DEF Typed
<1>6. Typed'
  BY <1>1, <1>2, <1>3, <1>5 DEF Typed
<1>7. ListsAreOwn'
  BY <1>1, <1>5 DEF IInv, ListsAreOwn, TabsLoaded
<1>8. FetchFirst => tab \notin {"book", "plans"} /\ ~selection.open
  BY <1>1 DEF IInv, Waits, Fetched
<1>9. Behind' /\ Loading' /\ Ticks' /\ SelectionExact' /\ Local' /\ Waits' /\ Current'
  BY <1>1, <1>8
     DEF IInv, Behind, Loading, Ticks, SelectionExact, Local, Waits, Fetched, Current, RowsCurrent
<1> QED
  BY <1>6, <1>7, <1>9 DEF IInv

\* A fetch less, by an error.
LEMMA Unasking ==
  ASSUME NEW Ids, NEW Docs, NEW fetches \in Fetches(Stores(Ids, Docs)), Asked \in ToSet(fetches),
         Len(fetches) <= MaxFetches
  PROVE  /\ RemoveFirst(fetches, Asked) \in Fetches(Stores(Ids, Docs))
         /\ Len(RemoveFirst(fetches, Asked)) <= MaxFetches /\ fetches # <<>>
<1> DEFINE F == Fetch(Stores(Ids, Docs))
<1>1. fetches \in Seq(F) /\ Fetches(Stores(Ids, Docs)) = Seq(F)
  BY DEF Fetches, Fetch
<1> HIDE DEF F
<1>2. PICK i \in DOMAIN fetches : RemoveFirst(fetches, Asked) = RemoveAt(fetches, i)
  BY <1>1, RemoveFirstIs
<1>3. RemoveAt(fetches, i) \in Seq(F) /\ Len(RemoveAt(fetches, i)) = Len(fetches) - 1
  BY <1>1, RemovedFrom
<1>4. Len(fetches) \in Nat /\ MaxFetches \in Nat
  BY <1>1, LibraryBounds, InSequence
<1>5. fetches # <<>>
  BY InSequence
<1> QED
  BY <1>1, <1>2, <1>3, <1>4, <1>5

LEMMA FetchFailsKeeps ==
  ASSUME IInv, FetchFails
  PROVE  IInv'
<1>1. /\ \/ /\ Asked \in ToSet(recipeFetches)
            /\ recipeFetches' = RemoveFirst(recipeFetches, Asked) /\ UNCHANGED planFetches
         \/ /\ Asked \in ToSet(planFetches)
            /\ planFetches' = RemoveFirst(planFetches, Asked) /\ UNCHANGED recipeFetches
      /\ UNCHANGED <<user, signIns, loading, recipeDocs, planDocs, savedRecipes, isChecked, mealPlans, selection,
                     tab, rows, crash, stale, tapped, deleted>>
  BY DEF FetchFails, session, history
<1>2. Typed
  BY DEF IInv
<1>3. /\ recipeFetches' \in Fetches(RecipeStore) /\ Len(recipeFetches') <= MaxFetches
      /\ planFetches' \in Fetches(PlanStore) /\ Len(planFetches') <= MaxFetches
      /\ recipeFetches' # <<>> => recipeFetches # <<>>
      /\ ~Fetched
  BY <1>1, <1>2, Unasking DEF Typed, RecipeStore, PlanStore, Fetched
<1>4. Typed'
  BY <1>1, <1>2, <1>3 DEF Typed
<1>5. Behind' /\ Loading' /\ Ticks' /\ SelectionExact' /\ Local' /\ Waits' /\ Current' /\ ListsAreOwn'
  BY <1>1, <1>3
     DEF IInv, Behind, Loading, Ticks, SelectionExact, Local, Waits, Current, RowsCurrent,
         ListsAreOwn, TabsLoaded
<1> QED
  BY <1>4, <1>5 DEF IInv

-----------------------------------------------------------------------------
(* The recipe book *)

LEMMA AddToBookKeeps ==
  ASSUME IInv, NEW r \in Recipes, addToRecipeBookButtonTapped(r)
  PROVE  IInv'
<1> DEFINE o == [recipe |-> r, uid |-> NoUid, by |-> user]
<1>1. /\ tab = "other" /\ savedRecipes' = Append(savedRecipes, o) /\ saveRecipe(o)
      /\ UNCHANGED <<user, signIns, loading, planDocs, isChecked, mealPlans, recipeFetches, planFetches,
                     selection, tab, rows, crash, stale, tapped, deleted>>
  BY DEF addToRecipeBookButtonTapped, session, history
<1>2. Typed
  BY DEF IInv
<1>3. o \in Object /\ o.uid = NoUid /\ o.by = user
  BY <1>2 DEF Typed, Object
<1>4. recipeDocs' \in RecipeStore
  <2>1. CASE UNCHANGED recipeDocs
    BY <1>2, <2>1 DEF Typed
  <2>2. ASSUME NEW u \in FreshUids,
               recipeDocs' = Insert(recipeDocs, u, [recipe |-> o.recipe, isChecked |-> isChecked[o],
                                                    authorID |-> user])
        PROVE  recipeDocs' \in RecipeStore
    <3>1. PICK doc : doc = [recipe |-> o.recipe, isChecked |-> isChecked[o], authorID |-> user]
      OBVIOUS
    <3>2. isChecked[o] \in BOOLEAN
      BY <1>2, <1>3 DEF Typed
    <3>3. doc \in RecipeDoc
      BY <1>2, <3>1, <3>2 DEF Typed, RecipeDoc
    <3>4. u \in Uids
      BY DEF FreshUids
    <3> QED
      BY <1>2, <2>2, <3>1, <3>3, <3>4, Written DEF Typed, RecipeStore
  <2> QED
    BY <1>1, <2>1, <2>2 DEF saveRecipe
<1> HIDE DEF o
<1>5. savedRecipes' \in Seq(Object) /\ ToSet(savedRecipes') = ToSet(savedRecipes) \cup {o}
  BY <1>1, <1>2, <1>3, AppendedTo DEF Typed
<1>6. Typed'
  BY <1>1, <1>2, <1>4, <1>5 DEF Typed
<1>7. Behind' /\ Loading' /\ Ticks' /\ SelectionExact' /\ Local' /\ Waits' /\ Current' /\ ListsAreOwn'
  BY <1>1, <1>3, <1>5
     DEF IInv, Behind, Loading, Ticks, SelectionExact, Local, Waits, Fetched, Current, RowsCurrent,
         ListsAreOwn, TabsLoaded
<1> QED
  BY <1>6, <1>7 DEF IInv

LEMMA ShowKeeps ==
  ASSUME IInv, NEW t, NEW shown, Show(t, shown),
         \/ t = "book" /\ shown = savedRecipes /\ Ready
         \/ t = "plans" /\ shown = mealPlans /\ Ready /\ ~selection.open
         \/ t = "other" /\ shown = <<>>
  PROVE  IInv'
<1>1. /\ tab' = t /\ rows' = shown /\ tab \notin {"login", "gone"} /\ ~loading
      /\ UNCHANGED <<user, signIns, loading, recipeDocs, planDocs, savedRecipes, isChecked, mealPlans,
                     recipeFetches, planFetches, selection, crash, stale, tapped, deleted>>
  BY DEF Show, TabsLoaded, session, history
<1>2. Typed
  BY DEF IInv
<1>3. <<>> \in Seq(Plan)
  BY InSequence
<1>4. /\ tab' \in {"book", "plans", "other"}
      /\ tab' = "book" => rows' = savedRecipes
      /\ tab' = "plans" => rows' = mealPlans
      /\ rows' \in Seq(IF tab' = "book" THEN Object ELSE Plan)
      /\ FetchFirst /\ tab' # "other" => Fetched
  BY <1>1, <1>2, <1>3 DEF Typed, Ready
<1>5. Typed'
  BY <1>1, <1>2, <1>4 DEF Typed
<1>6. Behind' /\ Loading' /\ Ticks' /\ SelectionExact' /\ Local' /\ Waits' /\ Current' /\ ListsAreOwn'
  BY <1>1, <1>4
     DEF IInv, Behind, Loading, Ticks, SelectionExact, Local, Waits, Fetched, Current, RowsCurrent,
         ListsAreOwn, TabsLoaded
<1> QED
  BY <1>5, <1>6 DEF IInv

LEMMA DeleteRecipeKeeps ==
  ASSUME IInv, NEW i \in 1..MaxRecipes, DeleteRecipeRow(i)
  PROVE  IInv'
<1>1. Typed
  BY DEF IInv
<1>2. /\ tab = "book" /\ i \in 1..Len(rows) /\ planDocs' = planDocs
      /\ savedRecipes \in Seq(Object) /\ rows \in Seq(Object)
  BY <1>1 DEF DeleteRecipeRow, Typed
<1>3. /\ Len(savedRecipes) \in Nat /\ DOMAIN savedRecipes = 1..Len(savedRecipes)
      /\ Len(rows) \in Nat /\ DOMAIN rows = 1..Len(rows)
      /\ FetchFirst => rows = savedRecipes
  BY <1>2, InSequence DEF IInv, Current, RowsCurrent
<1>4. \A u : Without(recipeDocs, u) \in RecipeStore
  BY <1>1, Written DEF Typed, RecipeStore
<1>5. CASE Len(savedRecipes) = Len(rows) /\ savedRecipes[i].uid # NoUid
           /\ recipeDocs' \in DocDeleted(recipeDocs, savedRecipes[i].uid)
           /\ savedRecipes' = RemoveAt(savedRecipes, i) /\ rows' = RemoveAt(rows, i)
           /\ UNCHANGED <<session, isChecked, mealPlans, recipeFetches, planFetches, selection, tab,
                          crash, history>>
  <2>1. UNCHANGED <<user, signIns, loading, planDocs, isChecked, mealPlans, recipeFetches, planFetches, selection,
                    tab, crash, stale, tapped, deleted>>
    BY <1>2, <1>5 DEF session, history
  <2>2. recipeDocs' \in RecipeStore
    BY <1>1, <1>4, <1>5 DEF DocDeleted, Typed
  <2>3. /\ savedRecipes' \in Seq(Object) /\ ToSet(savedRecipes') \subseteq ToSet(savedRecipes)
        /\ rows' \in Seq(Object)
    <3>1. i \in DOMAIN savedRecipes /\ i \in DOMAIN rows
      BY <1>2, <1>3, <1>5
    <3> QED
      BY <1>2, <1>5, <3>1, RemovedFrom
  <2>4. FetchFirst => rows' = savedRecipes'
    BY <1>3, <1>5
  <2>5. Typed'
    BY <1>1, <1>2, <2>1, <2>2, <2>3 DEF Typed
  <2>6. Behind' /\ Loading' /\ Ticks' /\ SelectionExact' /\ Local' /\ Waits' /\ Current' /\ ListsAreOwn'
    BY <1>2, <2>1, <2>3, <2>4
       DEF IInv, Behind, Loading, Ticks, SelectionExact, Local, Waits, Fetched, Current, RowsCurrent,
           ListsAreOwn, TabsLoaded
  <2> QED
    BY <2>5, <2>6 DEF IInv
<1>6. CASE \E cause \in {"rows", "nilUid"} :
             /\ Crashed(cause) /\ (FetchFirst => cause # "rows")
             /\ \/ recipeDocs' = recipeDocs
                \/ \E u : recipeDocs' = Without(recipeDocs, u)
  <2>1. recipeDocs' \in RecipeStore /\ planDocs' \in PlanStore
    BY <1>1, <1>2, <1>4, <1>6 DEF Typed
  <2> QED
    BY <1>6, <2>1, CrashedKeeps
<1>7. FetchFirst => i <= Len(savedRecipes) /\ Len(savedRecipes) = Len(rows)
  BY <1>2, <1>3
<1> QED
  BY <1>5, <1>6, <1>7 DEF DeleteRecipeRow

-----------------------------------------------------------------------------
(* Making a meal plan *)

LEMMA CreateKeeps ==
  ASSUME IInv, createMealPlan
  PROVE  IInv'
<1>1. PICK d \in FreshPlanIds :
        /\ mealPlans' = Append(mealPlans, newPlan(d))
        /\ selection' = [open |-> TRUE, plan |-> d, checked |-> <<>>, array |-> ToSet(savedRecipes)]
  BY DEF createMealPlan
<1>2. /\ tab = "other" /\ ~loading /\ (FetchFirst => Fetched)
      /\ stale' = {o \in Object : isChecked[o]} /\ tapped' = {}
      /\ UNCHANGED <<user, signIns, loading, recipeDocs, planDocs, savedRecipes, isChecked, recipeFetches,
                     planFetches, tab, rows, crash, deleted>>
  BY DEF createMealPlan, Ready, TabsLoaded, session
<1>3. Typed
  BY DEF IInv
<1>4. ToSet(savedRecipes) \subseteq Object /\ <<>> \in Seq(Object) /\ ToSet(<<>>) = {} /\ IsInjective(<<>>)
  BY <1>3, InSequence DEF Typed
<1>5. d \in PlanIds
  BY DEF FreshPlanIds
<1>6. /\ selection' \in [open : BOOLEAN, plan : PlanIds \cup {NoDoc}, checked : Seq(Object),
                         array : SUBSET Object]
      /\ selection'.open = TRUE /\ selection'.checked = <<>> /\ selection'.array = ToSet(savedRecipes)
  BY <1>1, <1>4, <1>5
<1>7. newPlan(d) \in Plan /\ newPlan(d).authorID = user
  BY <1>3, <1>5, InSequence DEF newPlan, Plan, Typed
<1>8. mealPlans' \in Seq(Plan) /\ ToSet(mealPlans') = ToSet(mealPlans) \cup {newPlan(d)}
  BY <1>1, <1>3, <1>7, AppendedTo DEF Typed
<1>9. Typed'
  BY <1>2, <1>3, <1>6, <1>8 DEF Typed
<1>10. Behind' /\ Loading' /\ Waits' /\ Current'
  BY <1>2, <1>6 DEF IInv, Behind, Loading, Waits, Fetched, Current, RowsCurrent
<1>11. Ticks'
  <2>1. ASSUME NEW o \in Object PROVE isChecked[o] <=> o \in stale'
    BY <1>2
  <2> QED
    BY <1>2, <1>4, <1>6, <2>1 DEF Ticks
<1>12. SelectionExact'
  BY <1>2, <1>4, <1>6 DEF SelectionExact
<1>13. Local'
  BY <1>2, <1>4, <1>6 DEF IInv, Local
<1>14. ListsAreOwn'
  BY <1>2, <1>7, <1>8 DEF IInv, ListsAreOwn, TabsLoaded
<1> QED
  BY <1>9, <1>10, <1>11, <1>12, <1>13, <1>14 DEF IInv

LEMMA SearchKeeps ==
  ASSUME IInv, searchBarTextDidChange
  PROVE  IInv'
<1>1. PICK matches \in SUBSET Recipes :
        selection' = [selection EXCEPT !.array = {o \in ToSet(savedRecipes) : o.recipe \in matches}]
  BY DEF searchBarTextDidChange
<1>2. UNCHANGED <<user, signIns, loading, recipeDocs, planDocs, savedRecipes, isChecked, mealPlans, recipeFetches,
                  planFetches, tab, rows, crash, stale, tapped, deleted>>
  BY DEF searchBarTextDidChange, session, history
<1>3. Typed
  BY DEF IInv
<1>4. ToSet(savedRecipes) \subseteq Object
  BY <1>3, InSequence DEF Typed
<1>5. /\ selection' \in [open : BOOLEAN, plan : PlanIds \cup {NoDoc}, checked : Seq(Object),
                         array : SUBSET Object]
      /\ selection'.open = selection.open /\ selection'.checked = selection.checked
      /\ selection'.array \subseteq ToSet(savedRecipes)
  BY <1>1, <1>3, <1>4 DEF Typed
<1>6. Typed'
  BY <1>2, <1>3, <1>5 DEF Typed
<1>7. Behind' /\ Loading' /\ Ticks' /\ SelectionExact' /\ Local' /\ Waits' /\ Current' /\ ListsAreOwn'
  BY <1>2, <1>5
     DEF IInv, Behind, Loading, Ticks, SelectionExact, Local, Waits, Fetched, Current, RowsCurrent,
         ListsAreOwn, TabsLoaded
<1> QED
  BY <1>6, <1>7 DEF IInv

LEMMA ToggleKeeps ==
  ASSUME IInv, NEW o \in Object, toggleRecipeChecked(o)
  PROVE  IInv'
<1>1. /\ tab = "other" /\ selection.open /\ o \in selection.array
      /\ tapped' = IF o \in tapped THEN tapped \ {o} ELSE tapped \cup {o}
      /\ UNCHANGED <<user, signIns, loading, recipeDocs, planDocs, savedRecipes, mealPlans, recipeFetches,
                     planFetches, tab, rows, crash, stale, deleted>>
  BY DEF toggleRecipeChecked, session
<1>2. Typed
  BY DEF IInv
<1>3. /\ ToSet(selection.checked) = tapped \ stale /\ IsInjective(selection.checked)
      /\ \A p \in Object : isChecked[p] <=> p \in ToSet(selection.checked) \/ p \in stale
  BY <1>1 DEF IInv, SelectionExact, Ticks
<1>4. selection.checked \in Seq(Object) /\ isChecked \in [Object -> BOOLEAN]
  BY <1>2 DEF Typed
<1>5. PICK new \in Seq(Object), tick \in BOOLEAN :
        /\ selection' = [selection EXCEPT !.checked = new] /\ isChecked' = [isChecked EXCEPT ![o] = tick]
        /\ ToSet(new) = tapped' \ stale /\ IsInjective(new)
        /\ tick <=> o \in ToSet(new) \/ o \in stale
        /\ \A p \in Object \ {o} : p \in ToSet(new) <=> p \in ToSet(selection.checked)
  <2>1. CASE /\ ~isChecked[o]
             /\ selection' = [selection EXCEPT !.checked = Append(@, o)]
             /\ isChecked' = [isChecked EXCEPT ![o] = TRUE]
    <3>1. PICK new : new = Append(selection.checked, o)
      OBVIOUS
    <3>2. o \notin ToSet(selection.checked) /\ o \notin stale
      BY <1>3, <2>1
    <3>3. new \in Seq(Object) /\ ToSet(new) = ToSet(selection.checked) \cup {o} /\ IsInjective(new)
      BY <1>3, <1>4, <3>1, <3>2, AppendedTo
    <3>4. ToSet(new) = tapped' \ stale
      BY <1>1, <1>3, <3>2, <3>3
    <3>5. selection' = [selection EXCEPT !.checked = new]
      BY <2>1, <3>1
    <3> QED
      BY <2>1, <3>3, <3>4, <3>5
  <2>2. CASE /\ isChecked[o] /\ o \in ToSet(selection.checked)
             /\ selection' = [selection EXCEPT !.checked = Unticked(@, o)]
             /\ isChecked' = [isChecked EXCEPT ![o] = FALSE]
    <3>1. PICK new : new = Unticked(selection.checked, o)
      OBVIOUS
    <3>2. new \in Seq(Object) /\ ToSet(new) = ToSet(selection.checked) \ {o} /\ IsInjective(new)
      BY <1>3, <1>4, <2>2, <3>1, UntickedIs
    <3>3. ToSet(new) = tapped' \ stale /\ o \notin stale
      BY <1>1, <1>3, <2>2, <3>2
    <3>4. selection' = [selection EXCEPT !.checked = new]
      BY <2>2, <3>1
    <3> QED
      BY <2>2, <3>2, <3>3, <3>4
  <2>3. CASE isChecked[o] /\ o \notin ToSet(selection.checked) /\ UNCHANGED <<selection, isChecked>>
    <3>1. o \in stale
      BY <1>3, <2>3
    <3>2. tapped' \ stale = tapped \ stale
      BY <1>1, <3>1
    <3>3. isChecked' = [isChecked EXCEPT ![o] = TRUE]
      BY <1>4, <2>3
    <3>4. selection' = [selection EXCEPT !.checked = selection.checked]
      BY <1>2, <2>3 DEF Typed
    <3> QED
      BY <1>3, <1>4, <3>1, <3>2, <3>3, <3>4
  <2> QED
    BY <2>1, <2>2, <2>3 DEF toggleRecipeChecked
<1>6. /\ selection' \in [open : BOOLEAN, plan : PlanIds \cup {NoDoc}, checked : Seq(Object),
                         array : SUBSET Object]
      /\ selection'.open = TRUE /\ selection'.checked = new /\ selection'.array = selection.array
  BY <1>1, <1>2, <1>5 DEF Typed
<1>7. isChecked' \in [Object -> BOOLEAN] /\ tapped' \subseteq Object
  BY <1>1, <1>2, <1>4, <1>5 DEF Typed
<1>8. Typed'
  BY <1>1, <1>2, <1>6, <1>7 DEF Typed
<1>9. Ticks'
  <2> SUFFICES ASSUME NEW p \in Object PROVE isChecked'[p] <=> p \in ToSet(new) \/ p \in stale
    BY <1>1, <1>6 DEF Ticks
  <2>1. CASE p = o
    <3>1. isChecked'[p] = tick
      BY <1>4, <1>5, <2>1
    <3> QED
      BY <1>5, <2>1, <3>1
  <2>2. CASE p # o
    <3>1. isChecked'[p] = isChecked[p]
      BY <1>4, <1>5, <2>2
    <3> QED
      BY <1>3, <1>5, <2>2, <3>1
  <2> QED
    BY <2>1, <2>2
<1>10. SelectionExact'
  BY <1>1, <1>5, <1>6 DEF SelectionExact
<1>11. Local'
  <2> SUFFICES ASSUME ~FetchFirst, recipeFetches # <<>>
               PROVE  \A p \in selection.array \cup ToSet(new) \cup tapped' : p.uid = NoUid
    BY <1>1, <1>6 DEF IInv, Local
  <2>1. \A p \in selection.array \cup ToSet(selection.checked) \cup tapped : p.uid = NoUid
    BY <1>1 DEF IInv, Local
  <2>2. tapped' \subseteq tapped \cup {o} /\ ToSet(new) \subseteq tapped'
    BY <1>1, <1>5
  <2> QED
    BY <1>1, <2>1, <2>2
<1>12. Behind' /\ Loading' /\ Waits' /\ Current' /\ ListsAreOwn'
  BY <1>1, <1>6 DEF IInv, Behind, Loading, Waits, Fetched, Current, RowsCurrent,
                    ListsAreOwn, TabsLoaded
<1> QED
  BY <1>8, <1>9, <1>10, <1>11, <1>12 DEF IInv

\* The selection is closed.
LEMMA SelectionClosed ==
  ASSUME selection' = NoSelection
  PROVE  /\ selection'.open = FALSE
         /\ selection' \in [open : BOOLEAN, plan : PlanIds \cup {NoDoc}, checked : Seq(Object),
                            array : SUBSET Object]
BY InSequence DEF NoSelection

\* What is stored of a selection: the recipe of each object.
LEMMA SelectionStored ==
  ASSUME NEW checked \in Seq(Object)
  PROVE  encodedRecipes(checked) \in Seq(Recipes)
<1>1. Len(checked) \in Nat /\ DOMAIN checked = 1..Len(checked)
  BY InSequence
<1>2. \A k \in 1..Len(checked) : checked[k] \in Object
  BY ElementOfSeq
<1>3. PICK f : f = encodedRecipes(checked)
  OBVIOUS
<1>4. f \in [1..Len(checked) -> Recipes]
  BY <1>1, <1>2, <1>3 DEF encodedRecipes, Object
<1> QED
  BY <1>1, <1>3, <1>4, IsSequence

\* A plan that gets recipes is still a plan of its user.
LEMMA PlanFilled ==
  ASSUME NEW p \in Plan, NEW d \in PlanIds \cup {NoDoc}, NEW checked \in Seq(Object)
  PROVE  Filled(p, d, checked) \in Plan /\ Filled(p, d, checked).authorID = p.authorID
<1> DEFINE PlanRecipes == [recipe : Recipes, hasUid : BOOLEAN]
           list == [k \in DOMAIN checked |-> [recipe |-> checked[k].recipe, hasUid |-> checked[k].uid # NoUid]]
<1>1. /\ Len(checked) \in Nat /\ DOMAIN checked = 1..Len(checked)
      /\ \A k \in 1..Len(checked) : checked[k].recipe \in Recipes
  <2>1. Len(checked) \in Nat /\ DOMAIN checked = 1..Len(checked)
    BY InSequence
  <2>2. \A k \in 1..Len(checked) : checked[k] \in Object
    BY ElementOfSeq
  <2> QED
    BY <2>1, <2>2 DEF Object
<1>2. list \in Seq(PlanRecipes)
  <2>1. list \in [1..Len(checked) -> PlanRecipes]
    BY <1>1
  <2> HIDE DEF list, PlanRecipes
  <2> QED
    BY <1>1, <2>1, IsSequence
<1>3. Filled(p, d, checked) = [p EXCEPT !.doc = d, !.recipes = list]
  BY DEF Filled
<1> HIDE DEF list
<1> QED
  BY <1>2, <1>3 DEF Plan

LEMMA SavePlanKeeps ==
  ASSUME IInv, saveRecipesButtonTapped
  PROVE  IInv'
<1>1. PICK checked : checked = selection.checked
  OBVIOUS
<1>2. /\ selection' = NoSelection /\ stale' = {} /\ tapped' = {}
      /\ UNCHANGED <<user, signIns, loading, recipeDocs, savedRecipes, isChecked, recipeFetches, planFetches,
                     tab, rows, crash, deleted>>
  BY DEF saveRecipesButtonTapped, session
<1>3. PICK d \in FreshPlanIds \cup {NoDoc} :
        /\ saveMealPlan(d, checked)
        /\ mealPlans' = [i \in DOMAIN mealPlans |->
             IF mealPlans[i].uid = selection.plan THEN Filled(mealPlans[i], d, checked) ELSE mealPlans[i]]
  BY <1>1 DEF saveRecipesButtonTapped
<1>4. Typed
  BY DEF IInv
<1>5. d \in PlanIds \cup {NoDoc} /\ checked \in Seq(Object)
  BY <1>1, <1>4 DEF FreshPlanIds, Typed
<1>6. planDocs' \in PlanStore
  <2>1. CASE UNCHANGED planDocs
    BY <1>4, <2>1 DEF Typed
  <2>2. CASE /\ d # NoDoc
             /\ planDocs' = Insert(planDocs, d, [recipes |-> encodedRecipes(checked), authorID |-> user])
    <3>1. PICK doc : doc = [recipes |-> encodedRecipes(checked), authorID |-> user]
      OBVIOUS
    <3>2. encodedRecipes(checked) \in Seq(Recipes) /\ user \in Users
      BY <1>4, <1>5, SelectionStored DEF Typed
    <3>3. doc \in PlanDoc
      BY <3>1, <3>2 DEF PlanDoc
    <3> QED
      BY <1>4, <1>5, <2>2, <3>1, <3>3, Written DEF Typed, PlanStore
  <2> QED
    BY <1>3, <2>1, <2>2 DEF saveMealPlan
<1>7. mealPlans' \in Seq(Plan) /\ \A p \in ToSet(mealPlans') : \E q \in ToSet(mealPlans) : p.authorID = q.authorID
  <2>1. /\ mealPlans \in Seq(Plan) /\ Len(mealPlans) \in Nat /\ DOMAIN mealPlans = 1..Len(mealPlans)
        /\ \A i \in 1..Len(mealPlans) : mealPlans[i] \in Plan
    BY <1>4, InSequence, ElementOfSeq DEF Typed
  <2>2. ASSUME NEW i \in 1..Len(mealPlans)
        PROVE  mealPlans'[i] \in Plan /\ mealPlans'[i].authorID = mealPlans[i].authorID
    <3>1. mealPlans'[i] \in {mealPlans[i], Filled(mealPlans[i], d, checked)}
      BY <1>3, <2>1
    <3>2. /\ Filled(mealPlans[i], d, checked) \in Plan
          /\ Filled(mealPlans[i], d, checked).authorID = mealPlans[i].authorID
      BY <1>5, <2>1, PlanFilled
    <3> QED
      BY <2>1, <3>1, <3>2
  <2>3. mealPlans' \in [1..Len(mealPlans) -> Plan] /\ DOMAIN mealPlans' = 1..Len(mealPlans)
    <3>1. DOMAIN mealPlans' = 1..Len(mealPlans) /\ mealPlans' = [i \in DOMAIN mealPlans' |-> mealPlans'[i]]
      BY <1>3, <2>1
    <3> QED
      BY <2>2, <3>1
  <2>4. mealPlans' \in Seq(Plan)
    BY <2>1, <2>3, IsSequence
  <2> QED
    BY <2>1, <2>2, <2>3, <2>4 DEF ToSet
<1>8. Typed'
  BY <1>2, <1>4, <1>6, <1>7, SelectionClosed DEF Typed
<1>9. ListsAreOwn'
  BY <1>2, <1>7 DEF IInv, ListsAreOwn, TabsLoaded
<1>10. Behind' /\ Loading' /\ Ticks' /\ SelectionExact' /\ Local' /\ Waits' /\ Current'
  <2>1. tab' = "other"
    BY <1>2 DEF saveRecipesButtonTapped
  <2> QED
    BY <1>2, <2>1, SelectionClosed
       DEF IInv, Behind, Loading, Ticks, SelectionExact, Local, Waits, Fetched, Current, RowsCurrent
<1> QED
  BY <1>8, <1>9, <1>10 DEF IInv

LEMMA AbandonKeeps ==
  ASSUME IInv, AbandonSelection
  PROVE  IInv'
<1>1. /\ selection' = NoSelection /\ stale' = {} /\ tapped' = {}
      /\ UNCHANGED <<user, signIns, loading, recipeDocs, planDocs, savedRecipes, isChecked, mealPlans,
                     recipeFetches, planFetches, tab, rows, crash, deleted>>
  BY DEF AbandonSelection, session
<1>2. Typed'
  BY <1>1, SelectionClosed DEF IInv, Typed
<1>3. Behind' /\ Loading' /\ Ticks' /\ SelectionExact' /\ Local' /\ Waits' /\ Current' /\ ListsAreOwn'
  BY <1>1, SelectionClosed
     DEF IInv, Behind, Loading, Ticks, SelectionExact, Local, Waits, Fetched, Current, RowsCurrent,
         ListsAreOwn, TabsLoaded
<1> QED
  BY <1>2, <1>3 DEF IInv

-----------------------------------------------------------------------------
(* The list of plans *)

LEMMA DeletePlanKeeps ==
  ASSUME IInv, NEW i \in 1..MaxPlans, DeletePlanRow(i)
  PROVE  IInv'
<1>1. Typed
  BY DEF IInv
<1>2. /\ tab = "plans" /\ i \in 1..Len(rows) /\ recipeDocs' = recipeDocs
      /\ mealPlans \in Seq(Plan) /\ rows \in Seq(Plan)
  BY <1>1 DEF DeletePlanRow, Typed
<1>3. /\ Len(mealPlans) \in Nat /\ DOMAIN mealPlans = 1..Len(mealPlans)
      /\ Len(rows) \in Nat /\ DOMAIN rows = 1..Len(rows)
      /\ FetchFirst => rows = mealPlans
  BY <1>2, InSequence DEF IInv, Current, RowsCurrent
<1>4. \A u : Without(planDocs, u) \in PlanStore
  BY <1>1, Written DEF Typed, PlanStore
<1>5. CASE /\ Len(mealPlans) = Len(rows)
           /\ planDocs' \in DocDeleted(planDocs, mealPlans[i].uid)
           /\ mealPlans' = RemoveAt(mealPlans, i) /\ rows' = RemoveAt(rows, i)
           /\ deleted' = deleted \cup ({mealPlans[i].doc} \ {NoDoc})
           /\ UNCHANGED <<session, savedRecipes, isChecked, recipeFetches, planFetches, selection, tab,
                          crash, stale, tapped>>
  <2>1. UNCHANGED <<user, signIns, loading, recipeDocs, savedRecipes, isChecked, recipeFetches, planFetches,
                    selection, tab, crash, stale, tapped>>
    BY <1>2, <1>5 DEF session
  <2>2. planDocs' \in PlanStore
    BY <1>1, <1>4, <1>5 DEF DocDeleted, Typed
  <2>3. i \in DOMAIN mealPlans /\ i \in DOMAIN rows /\ mealPlans[i] \in Plan
    <3>1. i \in 1..Len(mealPlans)
      BY <1>2, <1>3, <1>5
    <3> QED
      BY <1>2, <1>3, <3>1, ElementOfSeq
  <2>4. /\ mealPlans' \in Seq(Plan) /\ ToSet(mealPlans') \subseteq ToSet(mealPlans)
        /\ rows' \in Seq(Plan)
    BY <1>2, <1>5, <2>3, RemovedFrom
  <2>5. FetchFirst => rows' = mealPlans'
    BY <1>3, <1>5
  <2>6. deleted' \subseteq PlanIds
    BY <1>1, <1>5, <2>3 DEF Typed, Plan
  <2>7. Typed'
    BY <1>1, <1>2, <2>1, <2>2, <2>4, <2>6 DEF Typed
  <2>8. Behind' /\ Loading' /\ Ticks' /\ SelectionExact' /\ Local' /\ Waits' /\ Current' /\ ListsAreOwn'
    BY <1>2, <2>1, <2>4, <2>5
       DEF IInv, Behind, Loading, Ticks, SelectionExact, Local, Waits, Fetched, Current, RowsCurrent,
           ListsAreOwn, TabsLoaded
  <2> QED
    BY <2>7, <2>8 DEF IInv
<1>6. CASE /\ Crashed("rows") /\ ~FetchFirst
           /\ \/ planDocs' = planDocs
              \/ \E u : planDocs' = Without(planDocs, u)
  <2>1. recipeDocs' \in RecipeStore /\ planDocs' \in PlanStore
    BY <1>1, <1>2, <1>4, <1>6 DEF Typed
  <2> QED
    BY <1>6, <2>1, CrashedKeeps
<1>7. FetchFirst => i <= Len(mealPlans) /\ Len(mealPlans) = Len(rows)
  BY <1>2, <1>3
<1> QED
  BY <1>5, <1>6, <1>7 DEF DeletePlanRow

LEMMA DateKeeps ==
  ASSUME IInv, NEW i, DatePickerTraps(i)
  PROVE  IInv'
<1>1. Crashed("nilUid") /\ UNCHANGED <<recipeDocs, planDocs>>
  BY DEF DatePickerTraps, docVars
<1>2. recipeDocs' \in RecipeStore /\ planDocs' \in PlanStore
  BY <1>1 DEF IInv, Typed
<1> QED
  BY <1>1, <1>2, CrashedKeeps

-----------------------------------------------------------------------------
(* Invariance *)

LEMMA InitHolds == Init => IInv
<1> SUFFICES ASSUME Init PROVE IInv
  OBVIOUS
<1>1. /\ user \in Users /\ signIns = 0 /\ loading = TRUE
      /\ recipeDocs = <<>> /\ planDocs = <<>>
      /\ savedRecipes = <<>> /\ mealPlans = <<>> /\ isChecked = [o \in Object |-> FALSE]
      /\ recipeFetches = <<>> /\ planFetches = <<>>
      /\ selection = NoSelection /\ tab = "other" /\ rows = <<>> /\ crash = "none"
      /\ stale = {} /\ tapped = {} /\ deleted = {}
  BY DEF Init
<1>2. /\ recipeDocs \in RecipeStore /\ planDocs \in PlanStore
      /\ recipeFetches \in Fetches(RecipeStore) /\ Len(recipeFetches) = 0
      /\ planFetches \in Fetches(PlanStore) /\ Len(planFetches) = 0
  BY <1>1, FetchTypes, EmptySeq DEF RecipeStore, PlanStore
<1>3. 0 <= MaxFetches /\ 0 \in 0..MaxSignIns
  BY LibraryBounds
<1>4. <<>> \in Seq(Object) /\ <<>> \in Seq(Plan) /\ ToSet(<<>>) = {}
  BY InSequence
<1>5. /\ selection.open = FALSE
      /\ selection \in [open : BOOLEAN, plan : PlanIds \cup {NoDoc}, checked : Seq(Object),
                        array : SUBSET Object]
  BY <1>1, <1>4 DEF NoSelection
<1>6. Typed
  <2>1. Len(recipeFetches) <= MaxFetches /\ Len(planFetches) <= MaxFetches
    BY <1>2, <1>3
  <2>2. isChecked \in [Object -> BOOLEAN] /\ rows \in Seq(IF tab = "book" THEN Object ELSE Plan)
    BY <1>1, <1>4
  <2> QED
    BY <1>1, <1>2, <1>3, <1>4, <1>5, <2>1, <2>2 DEF Typed
<1>7. Behind /\ Loading /\ Ticks /\ SelectionExact /\ Local /\ Waits /\ Current /\ ListsAreOwn
  BY <1>1, <1>4, <1>5 DEF Behind, Loading, Ticks, SelectionExact, Local, Waits, Current, RowsCurrent,
                          ListsAreOwn, TabsLoaded
<1> QED
  BY <1>6, <1>7 DEF IInv

LEMMA StepKeeps == IInv /\ [Next]_vars => IInv'
<1> SUFFICES ASSUME IInv, [Next]_vars PROVE IInv'
  OBVIOUS
<1>1. CASE Relaunch
  BY <1>1, RelaunchKeeps
<1>2. CASE logoutButtonTapped
  BY <1>2, LogoutKeeps
<1>3. CASE \E u \in Users : SignIn(u)
  BY <1>3, SignInKeeps
<1>4. CASE loadUserData
  BY <1>4, LoadKeeps
<1>5. CASE FetchStep
  BY <1>5, AnswerRecipesKeeps, AnswerPlansKeeps, RecipeCallbackKeeps, PlanCallbackKeeps, FetchFailsKeeps
     DEF FetchStep
<1>6. CASE UserStep
  <2>1. CASE \E r \in Recipes : addToRecipeBookButtonTapped(r)
    BY <2>1, AddToBookKeeps
  <2>2. CASE ShowBook
    BY <2>2, ShowKeeps DEF ShowBook
  <2>3. CASE ShowPlans
    BY <2>3, ShowKeeps DEF ShowPlans
  <2>4. CASE ShowOther
    BY <2>4, ShowKeeps DEF ShowOther
  <2>5. CASE \E i \in 1..MaxRecipes : DeleteRecipeRow(i)
    BY <2>5, DeleteRecipeKeeps
  <2>6. CASE \E o \in Object : toggleRecipeChecked(o)
    BY <2>6, ToggleKeeps
  <2>7. CASE createMealPlan \/ searchBarTextDidChange \/ saveRecipesButtonTapped \/ AbandonSelection
    BY <2>7, CreateKeeps, SearchKeeps, SavePlanKeeps, AbandonKeeps
  <2>8. CASE \E i \in 1..MaxPlans : DeletePlanRow(i) \/ DatePickerTraps(i)
    BY <2>8, DeletePlanKeeps, DateKeeps
  <2> QED
    BY <1>6, <2>1, <2>2, <2>3, <2>4, <2>5, <2>6, <2>7, <2>8 DEF UserStep
<1>7. CASE UNCHANGED vars
  <2>1. Typed'
    BY <1>7 DEF vars, IInv, Typed
  <2>2. Behind' /\ Loading' /\ Ticks' /\ SelectionExact' /\ Local' /\ Waits' /\ Current' /\ ListsAreOwn'
    BY <1>7
       DEF vars, IInv, Behind, Loading, Ticks, SelectionExact, Local, Waits, Fetched, Current, RowsCurrent,
           ListsAreOwn, TabsLoaded
  <2> QED
    BY <2>1, <2>2 DEF IInv
<1> QED
  BY <1>1, <1>2, <1>3, <1>4, <1>5, <1>6, <1>7 DEF Next

LEMMA Invariance == Spec => []IInv
BY InitHolds, StepKeeps, PTL DEF Spec

-----------------------------------------------------------------------------
(* What the invariant says *)

\* The documents, the lists, the fetches and the screens keep their types,
\* whoever logs in and however often the process ends.
THEOREM TypeCorrect == Spec => []TypeOK
<1>1. IInv => TypeOK
  <2> SUFFICES ASSUME IInv PROVE TypeOK
    OBVIOUS
  <2>1. Typed
    BY DEF IInv
  <2>2. /\ recipeDocs \in PartialFunctions(Uids, RecipeDoc)
        /\ planDocs \in [DOMAIN planDocs -> PlanDoc] /\ DOMAIN planDocs \subseteq PlanIds
    BY <2>1, StoreForm DEF Typed, RecipeStore, PlanStore, Stores
  <2>3. \A d \in DOMAIN planDocs : planDocs[d] \in [recipes : Seq(Recipes), authorID : Users]
    BY <2>2 DEF PlanDoc
  <2>4. \A f \in ToSet(recipeFetches \o planFetches) : f = Asked \/ f.state = "answered"
    <3> DEFINE F == Fetch(RecipeStore) \cup Fetch(PlanStore)
    <3>1. recipeFetches \in Seq(F) /\ planFetches \in Seq(F)
      <4>1. recipeFetches \in Seq(Fetch(RecipeStore)) /\ planFetches \in Seq(Fetch(PlanStore))
        BY <2>1 DEF Typed, Fetches
      <4> HIDE DEF F
      <4>2. Fetch(RecipeStore) \subseteq F /\ Fetch(PlanStore) \subseteq F
        BY DEF F
      <4> QED
        BY <4>1, <4>2, SeqMonotonic
    <3>2. \A f \in F : f = Asked \/ f.state = "answered"
      BY DEF Fetch
    <3> HIDE DEF F
    <3>3. recipeFetches \o planFetches \in Seq(F)
      BY <3>1, ConcatProperties
    <3> QED
      BY <3>2, <3>3, InSequence
  <2> QED
    BY <2>1, <2>2, <2>3, <2>4 DEF TypeOK, Typed
<1> QED
  BY <1>1, Invariance, PTL

\* A selection holds what was tapped an odd number of times, each once, but for
\* what was ticked before it, whatever is searched, saved, or fetched meanwhile.
THEOREM SelectionsAreExact == Spec => []SelectionExact
<1>1. IInv => SelectionExact
  BY DEF IInv
<1> QED
  BY <1>1, Invariance, PTL

\* Users who wait for the fetches never swipe a row other than the one they see,
\* and UIKit's count of the rows is always right.
THEOREM RowsAreCurrent == FetchFirst => (Spec => []RowsCurrent)
<1> SUFFICES ASSUME FetchFirst PROVE Spec => []RowsCurrent
  OBVIOUS
<1>1. IInv => RowsCurrent
  BY DEF IInv, Current
<1> QED
  BY <1>1, Invariance, PTL

\* Once the block of loadUserData has run, the lists hold nothing of who used the
\* device before, though the lists and the fetches outlive a logout.
THEOREM OwnLists == Spec => []ListsAreOwn
<1>1. IInv => ListsAreOwn
  BY DEF IInv
<1> QED
  BY <1>1, Invariance, PTL

-----------------------------------------------------------------------------
(* What is listed and what is stored *)

\* ids are the user's documents, in the order of the recipes listed for them.
Listed(ids) ==
  /\ ids \in Seq(Uids) /\ IsInjective(ids) /\ ToSet(ids) = Own(recipeDocs)
  /\ Len(ids) = Len(savedRecipes)
  /\ \A i \in 1..Len(ids) : /\ recipeDocs[ids[i]].recipe = savedRecipes[i].recipe
                            /\ savedRecipes[i].uid \in {NoUid, ids[i]}

\* An answer not called back yet is still what is stored.
Recent(fetches, docs) == \A f \in ToSet(fetches) : f # Asked => f.answer = docs

BookListed == recipeFetches = <<>> /\ TabsLoaded => \E ids : Listed(ids)

\* A plan's own UUID is not the document of another plan.
PlansListed ==
  planFetches = <<>> /\ TabsLoaded =>
    /\ PlanListComplete
    /\ \A p, q \in ToSet(mealPlans) : p.uid = q.doc => p = q

\* The plan a selection is open for is listed, and not stored yet.
Selecting ==
  /\ selection.open => \E p \in ToSet(mealPlans) : p.uid = selection.plan /\ p.doc = NoDoc
  /\ tab = "plans" => ~selection.open

LInv ==
  /\ Recent(recipeFetches, recipeDocs) /\ Recent(planFetches, planDocs)
  /\ BookListed /\ PlanUidsDistinct /\ PlansListed /\ Selecting

\* A query's answer has each of the user's documents, once.
LEMMA Onto ==
  ASSUME NEW Ids, NEW Docs, NEW docs \in Stores(Ids, Docs), NEW order \in Orders(Own(docs))
  PROVE  order \in Seq(Ids) /\ IsInjective(order) /\ ToSet(order) = Own(docs)
<1> DEFINE n == Cardinality(Own(docs))
<1>1. IsFiniteSet(Own(docs)) /\ Own(docs) \subseteq Ids
  <2>1. IsFiniteSet(DOMAIN docs) /\ DOMAIN docs \subseteq Ids
    BY StoreForm
  <2>2. Own(docs) \subseteq DOMAIN docs
    BY DEF Own
  <2> QED
    BY <2>1, <2>2, FS_Subset
<1>2. n \in Nat
  BY <1>1, FS_CardinalityType
<1>3. order \in [1..n -> Own(docs)] /\ IsInjective(order)
  BY DEF Orders
<1> DEFINE T == Own(docs)
<1> HIDE DEF n, T
<1>4. \A t \in T : \E i \in 1..n : order[i] = t
  <2>1. order \in Injection(1..n, T)
    BY <1>3 DEF Injection, T
  <2>2. IsFiniteSet(T) /\ Cardinality(T) = n /\ Cardinality(1..n) = n
    <3>1. 1 \in Int /\ n \in Int
      BY <1>2
    <3>2. Cardinality(1..n) = IF 1 > n THEN 0 ELSE n - 1 + 1
      BY <3>1, FS_Interval
    <3> QED
      BY <1>1, <1>2, <3>2 DEF n, T
  <2>3. order \in Surjection(1..n, T)
    BY <2>1, <2>2, FS_Injection
  <2> QED
    BY <2>3 DEF Surjection
<1>5. order \in Seq(Ids)
  <2>1. order \in [1..n -> Ids]
    BY <1>1, <1>3
  <2> QED
    BY <1>2, <2>1, IsSequence
<1>6. ToSet(order) = T
  BY <1>3, <1>4 DEF ToSet, T
<1> QED
  BY <1>3, <1>5, <1>6 DEF T

\* Asking, answering and calling back leave the other answers as they are.
LEMMA StillRecent ==
  ASSUME NEW Ids, NEW Docs, NEW docs, NEW fetches \in Fetches(Stores(Ids, Docs)), Recent(fetches, docs)
  PROVE  /\ Recent(Append(fetches, Asked), docs) /\ Append(fetches, Asked) # <<>>
         /\ Recent(FirstAnswered(fetches, docs), docs)
         /\ fetches # <<>> => Recent(Tail(fetches), docs)
         /\ IsAnswered(fetches) => Head(fetches).answer = docs
<1> DEFINE F == Fetch(Stores(Ids, Docs))
<1>1. fetches \in Seq(F) /\ Asked \in F
  BY FetchTypes DEF Fetches, Fetch
<1> HIDE DEF F
<1>2. Len(fetches) \in Nat /\ DOMAIN fetches = 1..Len(fetches)
  BY <1>1, InSequence
<1>3. Recent(Append(fetches, Asked), docs) /\ Append(fetches, Asked) # <<>>
  <2>1. ToSet(Append(fetches, Asked)) = ToSet(fetches) \cup {Asked} /\ Append(fetches, Asked) # <<>>
    BY <1>1, AppendedTo
  <2> QED
    BY <2>1 DEF Recent
<1>4. Recent(FirstAnswered(fetches, docs), docs)
  <2>1. PICK i : FirstAnswered(fetches, docs) = IF i = 0 THEN fetches ELSE [fetches EXCEPT ![i] = Answered(docs)]
    BY DEF FirstAnswered
  <2>2. Answered(docs).answer = docs
    BY DEF Answered
  <2>3. PICK g : g = [fetches EXCEPT ![i] = Answered(docs)]
    OBVIOUS
  <2>4. \A f \in ToSet(g) : f \in ToSet(fetches) \/ f = Answered(docs)
    BY <2>3 DEF ToSet
  <2>5. Recent(g, docs)
    BY <2>2, <2>4 DEF Recent
  <2> QED
    BY <2>1, <2>3, <2>5
<1>5. ASSUME fetches # <<>> PROVE Recent(Tail(fetches), docs) /\ Head(fetches) \in ToSet(fetches)
  <2>1. /\ Tail(fetches) \in Seq(F) /\ Len(Tail(fetches)) = Len(fetches) - 1 /\ Head(fetches) = fetches[1]
        /\ \A i \in 1..Len(Tail(fetches)) : Tail(fetches)[i] = fetches[i + 1]
    BY <1>1, <1>5, HeadTailProperties
  <2>2. DOMAIN Tail(fetches) = 1..Len(Tail(fetches)) /\ Len(fetches) # 0
    BY <1>1, <1>5, <2>1, InSequence
  <2>3. 1 \in DOMAIN fetches /\ \A i \in 1..Len(Tail(fetches)) : i + 1 \in DOMAIN fetches
    BY <1>2, <2>1, <2>2
  <2>4. ToSet(Tail(fetches)) \subseteq ToSet(fetches) /\ Head(fetches) \in ToSet(fetches)
    BY <2>1, <2>2, <2>3 DEF ToSet
  <2> QED
    BY <2>4 DEF Recent
<1>6. IsAnswered(fetches) => Head(fetches).answer = docs
  BY <1>5 DEF IsAnswered, Recent
<1> QED
  BY <1>3, <1>4, <1>5, <1>6

-----------------------------------------------------------------------------
(* The book and its documents *)

\* What a new document, or one document fewer, changes of the user's documents.
LEMMA OwnChanged ==
  ASSUME NEW docs, NEW id
  PROVE  /\ \A doc : id \notin DOMAIN docs /\ doc.authorID = user =>
              /\ Own(Insert(docs, id, doc)) = Own(docs) \cup {id}
              /\ \A d \in DOMAIN docs : Insert(docs, id, doc)[d] = docs[d]
              /\ Insert(docs, id, doc)[id] = doc
         /\ Own(Without(docs, id)) = Own(docs) \ {id}
         /\ \A d \in DOMAIN docs \ {id} : Without(docs, id)[d] = docs[d]
<1>1. ASSUME NEW doc, id \notin DOMAIN docs, doc.authorID = user
      PROVE  /\ Own(Insert(docs, id, doc)) = Own(docs) \cup {id}
             /\ \A d \in DOMAIN docs : Insert(docs, id, doc)[d] = docs[d]
             /\ Insert(docs, id, doc)[id] = doc
  <2>1. PICK new : new = Insert(docs, id, doc)
    OBVIOUS
  <2>2. /\ DOMAIN new = DOMAIN docs \cup {id} /\ new[id] = doc
        /\ \A d \in DOMAIN docs : new[d] = docs[d]
    BY <1>1, <2>1 DEF Insert
  <2> QED
    BY <1>1, <2>1, <2>2 DEF Own
<1>2. /\ Own(Without(docs, id)) = Own(docs) \ {id}
      /\ \A d \in DOMAIN docs \ {id} : Without(docs, id)[d] = docs[d]
  BY DEF Own, Without
<1> QED
  BY <1>1, <1>2

LEMMA OwnKept ==
  ASSUME user' = user, NEW docs
  PROVE  /\ recipeDocs' = docs => Own(recipeDocs)' = Own(docs)
         /\ planDocs' = docs => Own(planDocs)' = Own(docs)
BY DEF Own

\* The documents listed, element by element.
LEMMA ListedIs ==
  ASSUME Typed, NEW ids, Listed(ids)
  PROVE  /\ ids \in Seq(Uids) /\ savedRecipes \in Seq(Object)
         /\ Len(ids) = Len(savedRecipes) /\ Len(ids) \in Nat
         /\ DOMAIN ids = 1..Len(ids) /\ DOMAIN savedRecipes = 1..Len(ids)
         /\ \A i \in 1..Len(ids) : ids[i] \in Own(recipeDocs) /\ ids[i] \in DOMAIN recipeDocs
<1>1. /\ ids \in Seq(Uids) /\ savedRecipes \in Seq(Object)
      /\ Len(ids) = Len(savedRecipes) /\ ToSet(ids) = Own(recipeDocs)
  BY DEF Typed, Listed
<1>2. Len(ids) \in Nat /\ DOMAIN ids = 1..Len(ids) /\ DOMAIN savedRecipes = 1..Len(ids)
  BY <1>1, InSequence
<1>3. Own(recipeDocs) \subseteq DOMAIN recipeDocs
  BY DEF Own
<1> QED
  BY <1>1, <1>2, <1>3 DEF ToSet

\* A recipe is saved.
LEMMA ListedMore ==
  ASSUME Typed, NEW ids, Listed(ids), user' = user, NEW o \in Object, o.uid = NoUid,
         NEW u \in Uids, u \notin DOMAIN recipeDocs, NEW doc, doc.authorID = user, doc.recipe = o.recipe,
         recipeDocs' = Insert(recipeDocs, u, doc), savedRecipes' = Append(savedRecipes, o)
  PROVE  Listed(Append(ids, u))'
<1>1. PICK more : more = Append(ids, u)
  OBVIOUS
<1>2. PICK n \in Nat : n = Len(ids)
  BY ListedIs
<1>3. /\ ids \in Seq(Uids) /\ savedRecipes \in Seq(Object) /\ Len(savedRecipes) = n
      /\ \A i \in 1..n : ids[i] \in Own(recipeDocs) /\ ids[i] \in DOMAIN recipeDocs
      /\ IsInjective(ids) /\ ToSet(ids) = Own(recipeDocs)
      /\ \A i \in 1..n : /\ recipeDocs[ids[i]].recipe = savedRecipes[i].recipe
                         /\ savedRecipes[i].uid \in {NoUid, ids[i]}
  BY <1>2, ListedIs DEF Listed
<1>4. /\ Own(recipeDocs)' = Own(recipeDocs) \cup {u} /\ recipeDocs'[u] = doc
      /\ \A d \in DOMAIN recipeDocs : recipeDocs'[d] = recipeDocs[d]
  <2>1. PICK docs : docs = recipeDocs'
    OBVIOUS
  <2>2. /\ Own(docs) = Own(recipeDocs) \cup {u} /\ docs[u] = doc
        /\ \A d \in DOMAIN recipeDocs : docs[d] = recipeDocs[d]
    BY <2>1, OwnChanged
  <2>3. Own(recipeDocs)' = Own(docs)
    BY <2>1, OwnKept
  <2> QED
    BY <2>1, <2>2, <2>3
<1>5. u \notin ToSet(ids)
  BY <1>3 DEF Own
<1>6. /\ more \in Seq(Uids) /\ ToSet(more) = ToSet(ids) \cup {u} /\ IsInjective(more) /\ Len(more) = n + 1
  BY <1>1, <1>2, <1>3, <1>5, AppendedTo
<1>7. Len(savedRecipes') = n + 1 /\ savedRecipes'[n + 1] = o /\ \A i \in 1..n : savedRecipes'[i] = savedRecipes[i]
  BY <1>3, AppendProperties
<1>8. more[n + 1] = u /\ \A i \in 1..n : more[i] = ids[i]
  BY <1>1, <1>2, <1>3, AppendProperties
<1>9. ASSUME NEW i \in 1..(n + 1)
      PROVE  /\ recipeDocs'[more[i]].recipe = savedRecipes'[i].recipe
             /\ savedRecipes'[i].uid \in {NoUid, more[i]}
  <2>1. CASE i = n + 1
    BY <1>4, <1>7, <1>8, <2>1
  <2>2. CASE i \in 1..n
    <3>1. savedRecipes'[i] = savedRecipes[i] /\ more[i] = ids[i] /\ recipeDocs'[ids[i]] = recipeDocs[ids[i]]
      BY <1>3, <1>4, <1>7, <1>8, <2>2
    <3> QED
      BY <1>3, <2>2, <3>1
  <2>3. i = n + 1 \/ i \in 1..n
    <3> HIDE DEF Own
    <3> QED
      OBVIOUS
  <2> QED
    BY <2>1, <2>2, <2>3
<1>10. Listed(more)'
  BY <1>3, <1>4, <1>6, <1>7, <1>9 DEF Listed
<1> QED
  BY <1>1, <1>10

\* A row that has a uid is deleted, and the document of that uid.
LEMMA ListedLess ==
  ASSUME Typed, NEW ids, Listed(ids), user' = user, NEW i \in DOMAIN savedRecipes, savedRecipes[i].uid # NoUid,
         recipeDocs' = Without(recipeDocs, savedRecipes[i].uid), savedRecipes' = RemoveAt(savedRecipes, i)
  PROVE  Listed(RemoveAt(ids, i))'
<1>1. PICK less : less = RemoveAt(ids, i)
  OBVIOUS
<1>2. PICK n \in Nat : n = Len(ids)
  BY ListedIs
<1>3. /\ ids \in Seq(Uids) /\ savedRecipes \in Seq(Object) /\ Len(savedRecipes) = n
      /\ DOMAIN ids = 1..n /\ i \in 1..n
      /\ \A k \in 1..n : ids[k] \in Own(recipeDocs) /\ ids[k] \in DOMAIN recipeDocs
      /\ IsInjective(ids) /\ ToSet(ids) = Own(recipeDocs)
      /\ \A k \in 1..n : /\ recipeDocs[ids[k]].recipe = savedRecipes[k].recipe
                         /\ savedRecipes[k].uid \in {NoUid, ids[k]}
  BY <1>2, ListedIs DEF Listed
<1>4. PICK u : u = ids[i] /\ u = savedRecipes[i].uid
  BY <1>3
<1>5. /\ Own(recipeDocs)' = Own(recipeDocs) \ {u}
      /\ \A d \in DOMAIN recipeDocs \ {u} : recipeDocs'[d] = recipeDocs[d]
  <2>1. PICK docs : docs = recipeDocs'
    OBVIOUS
  <2>2. Own(docs) = Own(recipeDocs) \ {u} /\ \A d \in DOMAIN recipeDocs \ {u} : docs[d] = recipeDocs[d]
    BY <1>4, <2>1, OwnChanged
  <2>3. Own(recipeDocs)' = Own(docs)
    BY <2>1, OwnKept
  <2> QED
    BY <2>1, <2>2, <2>3
<1>6. less \in Seq(Uids) /\ ToSet(less) = ToSet(ids) \ {u} /\ IsInjective(less) /\ Len(less) = n - 1
  BY <1>1, <1>2, <1>3, <1>4, RemovedFrom
<1>7. /\ Len(savedRecipes') = n - 1
      /\ \A k \in 1..(n - 1) : savedRecipes'[k] = IF k < i THEN savedRecipes[k] ELSE savedRecipes[k + 1]
  BY <1>3, RemoveAtProperties
<1>8. \A k \in 1..(n - 1) : less[k] = IF k < i THEN ids[k] ELSE ids[k + 1]
  <2>1. \A k \in 1..(Len(ids) - 1) : RemoveAt(ids, i)[k] = IF k < i THEN ids[k] ELSE ids[k + 1]
    <3>1. i \in 1..Len(ids)
      BY <1>2, <1>3
    <3> QED
      BY <1>3, <3>1, RemoveAtProperties
  <2> QED
    BY <1>1, <1>2, <2>1
<1>9. ASSUME NEW k \in 1..(n - 1)
      PROVE  recipeDocs'[less[k]].recipe = savedRecipes'[k].recipe /\ savedRecipes'[k].uid \in {NoUid, less[k]}
  <2>1. PICK m \in 1..n : m = IF k < i THEN k ELSE k + 1
    BY <1>3
  <2>2. m # i
    BY <1>3, <2>1
  <2>3. savedRecipes'[k] = savedRecipes[m] /\ less[k] = ids[m]
    BY <1>7, <1>8, <2>1
  <2>4. ids[m] # u
    BY <1>3, <1>4, <2>2 DEF IsInjective
  <2>5. recipeDocs'[ids[m]] = recipeDocs[ids[m]]
    BY <1>3, <1>5, <2>4
  <2> QED
    BY <1>3, <2>3, <2>5
<1>10. Listed(less)'
  BY <1>3, <1>5, <1>6, <1>7, <1>9 DEF Listed
<1> QED
  BY <1>1, <1>10

\* The callback lists the user's documents.
LEMMA ListedAnew ==
  ASSUME Typed, user' = user, recipeDocs' = recipeDocs, NEW order \in Orders(Own(recipeDocs)),
         savedRecipes' = [i \in DOMAIN order |->
           [recipe |-> recipeDocs[order[i]].recipe, uid |-> order[i], by |-> recipeDocs[order[i]].authorID]]
  PROVE  Listed(order)'
<1>1. order \in Seq(Uids) /\ IsInjective(order) /\ ToSet(order) = Own(recipeDocs)
  BY Onto DEF Typed, RecipeStore
<1>2. Own(recipeDocs)' = Own(recipeDocs)
  BY OwnKept
<1>3. savedRecipes' \in Seq(Object)
  BY RecipesFetched DEF Typed
<1>4. /\ Len(order) \in Nat /\ DOMAIN order = 1..Len(order)
      /\ Len(savedRecipes') \in Nat /\ DOMAIN savedRecipes' = 1..Len(savedRecipes')
  BY <1>1, <1>3, InSequence
<1>5. DOMAIN savedRecipes' = DOMAIN order
  OBVIOUS
<1>6. Len(savedRecipes') = Len(order)
  BY <1>4, <1>5
<1>7. ASSUME NEW i \in 1..Len(order)
      PROVE  recipeDocs'[order[i]].recipe = savedRecipes'[i].recipe /\ savedRecipes'[i].uid \in {NoUid, order[i]}
  BY <1>4
<1> QED
  BY <1>1, <1>2, <1>6, <1>7 DEF Listed

\* Each recipe is listed as often as it is stored.
LEMMA ListedIsComplete ==
  ASSUME Typed, NEW ids, Listed(ids), NEW r
  PROVE  Cardinality({i \in DOMAIN savedRecipes : savedRecipes[i].recipe = r})
           = Cardinality({u \in Own(recipeDocs) : recipeDocs[u].recipe = r})
<1> DEFINE A == {i \in DOMAIN savedRecipes : savedRecipes[i].recipe = r}
           B == {u \in Own(recipeDocs) : recipeDocs[u].recipe = r}
           f == [i \in A |-> ids[i]]
<1>1. PICK n \in Nat : n = Len(ids)
  BY ListedIs
<1>2. /\ DOMAIN ids = 1..n /\ DOMAIN savedRecipes = 1..n
      /\ IsInjective(ids) /\ ToSet(ids) = Own(recipeDocs)
      /\ \A k \in 1..n : recipeDocs[ids[k]].recipe = savedRecipes[k].recipe /\ ids[k] \in Own(recipeDocs)
  BY <1>1, ListedIs DEF Listed
<1>3. \A i \in A : i \in 1..n /\ ids[i] \in B
  BY <1>2
<1>4. f \in [A -> B] /\ IsInjective(f)
  BY <1>2, <1>3 DEF IsInjective
<1>5. \A u \in B : \E i \in A : f[i] = u
  <2> TAKE u \in B
  <2>1. PICK i \in 1..n : ids[i] = u
    BY <1>2 DEF ToSet
  <2> QED
    BY <1>2, <2>1
<1>6. IsFiniteSet(A)
  <2>1. IsFiniteSet(1..n)
    BY FS_Interval
  <2>2. A \subseteq 1..n
    BY <1>2
  <2> QED
    BY <2>1, <2>2, FS_Subset
<1> HIDE DEF A, B, f
<1>7. f \in Bijection(A, B)
  BY <1>4, <1>5 DEF Bijection, Injection, Surjection
<1>8. ExistsBijection(A, B)
  BY <1>7 DEF ExistsBijection
<1>9. Cardinality(B) = Cardinality(A)
  BY <1>6, <1>8, FS_Bijection
<1> QED
  BY <1>9 DEF A, B

-----------------------------------------------------------------------------
(* The list of plans and its documents *)

Carries(p, stored) == stored.recipes = [k \in DOMAIN p.recipes |-> p.recipes[k].recipe]

\* The stored plans that are not deleted are among those listed, and those
\* listed are stored, or not yet.
StoredListed(listed, docs, own, gone) ==
  /\ \A d \in own \ gone : \E p \in listed : p.doc = d /\ Carries(p, docs[d])
  /\ \A p \in listed : p.doc \in own \cup {NoDoc}
  /\ \A p, q \in listed : p.uid = q.doc => p = q

LEMMA PlansListedIs ==
  PlansListed <=>
    (planFetches = <<>> /\ TabsLoaded => StoredListed(ToSet(mealPlans), planDocs, Own(planDocs), deleted))
BY DEF PlansListed, PlanListComplete, TabsLoaded, StoredListed, Carries

\* No two elements have the same uid.
OneEach(plans) == IsInjective(plans) /\ \A p, q \in ToSet(plans) : p.uid = q.uid => p = q

LEMMA OneEachIs == PlanUidsDistinct <=> OneEach(mealPlans)
BY DEF PlanUidsDistinct, OneEach, IsInjective, ToSet

\* The same after a step.
LEMMA NextPlansListed ==
  /\ PlanUidsDistinct' <=> OneEach(mealPlans')
  /\ PlansListed' <=> (planFetches' = <<>> /\ TabsLoaded' =>
                       StoredListed(ToSet(mealPlans'), planDocs', Own(planDocs)', deleted'))
<1>1. PlanUidsDistinct' <=> OneEach(mealPlans')
  BY DEF PlanUidsDistinct, OneEach, IsInjective, ToSet
<1>2. PlansListed' <=> (planFetches' = <<>> /\ TabsLoaded' =>
                         StoredListed(ToSet(mealPlans'), planDocs', Own(planDocs)', deleted'))
  BY DEF PlansListed, PlanListComplete, TabsLoaded, StoredListed, Carries
<1> QED
  BY <1>1, <1>2

\* A plan is listed, under an id that is no other plan's and no document's.
LEMMA ListedPlan ==
  ASSUME NEW plans \in Seq(Plan), OneEach(plans), NEW p \in Plan, p.doc = NoDoc,
         \A q \in ToSet(plans) : q.uid # p.uid /\ q.doc # p.uid
  PROVE  /\ OneEach(Append(plans, p))
         /\ \A docs, own, gone : StoredListed(ToSet(plans), docs, own, gone)
                                   => StoredListed(ToSet(Append(plans, p)), docs, own, gone)
<1>1. PICK more : more = Append(plans, p)
  OBVIOUS
<1>2. p \notin ToSet(plans)
  OBVIOUS
<1>3. ToSet(more) = ToSet(plans) \cup {p} /\ IsInjective(more)
  BY <1>1, <1>2, AppendedTo DEF OneEach
<1>4. OneEach(more)
  BY <1>3 DEF OneEach
<1>5. \A q \in ToSet(plans) \cup {p} : q.uid \in PlanIds
  <2>1. ToSet(plans) \subseteq Plan
    BY InSequence
  <2> QED
    BY <2>1 DEF Plan
<1>6. ASSUME NEW docs, NEW own, NEW gone, StoredListed(ToSet(plans), docs, own, gone)
      PROVE  StoredListed(ToSet(more), docs, own, gone)
  <2>1. \A d \in own \ gone : \E q \in ToSet(more) : q.doc = d /\ Carries(q, docs[d])
    BY <1>3, <1>6 DEF StoredListed
  <2>2. \A q \in ToSet(more) : q.doc \in own \cup {NoDoc}
    BY <1>3, <1>6 DEF StoredListed
  <2>3. \A q, r \in ToSet(more) : q.uid = r.doc => q = r
    BY <1>3, <1>5, <1>6, NoUidAssumption DEF StoredListed
  <2> QED
    BY <2>1, <2>2, <2>3 DEF StoredListed
<1> QED
  BY <1>1, <1>4, <1>6

\* A row is deleted with the document of its plan's own UUID, if there is one.
LEMMA UnlistedPlan ==
  ASSUME NEW plans \in Seq(Plan), OneEach(plans), NEW i \in DOMAIN plans,
         NEW docs, NEW own \in SUBSET (PlanIds \cap DOMAIN docs), NEW gone,
         StoredListed(ToSet(plans), docs, own, gone)
  PROVE  StoredListed(ToSet(RemoveAt(plans, i)), Without(docs, plans[i].uid), own \ {plans[i].uid},
                      gone \cup ({plans[i].doc} \ {NoDoc}))
<1>1. PICK p : p = plans[i]
  OBVIOUS
<1>2. PICK less : less = RemoveAt(plans, i)
  OBVIOUS
<1>3. ToSet(less) = ToSet(plans) \ {p} /\ p \in ToSet(plans)
  <2>1. p \in ToSet(plans)
    BY <1>1 DEF ToSet
  <2>2. IsInjective(plans)
    BY DEF OneEach
  <2> QED
    BY <1>1, <1>2, <2>1, <2>2, RemovedFrom
<1> DEFINE docs2 == Without(docs, p.uid)
           own2 == own \ {p.uid}
           gone2 == gone \cup ({p.doc} \ {NoDoc})
<1>4. /\ \A d \in own \ gone : \E q \in ToSet(plans) : q.doc = d /\ Carries(q, docs[d])
      /\ \A q \in ToSet(plans) : q.doc \in own \cup {NoDoc}
      /\ \A q, r \in ToSet(plans) : q.uid = r.doc => q = r
  BY DEF StoredListed
<1>5. ASSUME NEW d \in own2 \ gone2
      PROVE  \E q \in ToSet(less) : q.doc = d /\ Carries(q, docs2[d])
  <2>1. d \in own \ gone /\ d # p.uid /\ d # p.doc
    BY NoUidAssumption
  <2>2. PICK q \in ToSet(plans) : q.doc = d /\ Carries(q, docs[d])
    BY <1>4, <2>1
  <2>3. docs2[d] = docs[d]
    BY <2>1 DEF Without
  <2> QED
    BY <1>3, <2>1, <2>2, <2>3
<1>6. \A q \in ToSet(less) : q.doc \in own2 \cup {NoDoc}
  BY <1>3, <1>4
<1>7. \A q, r \in ToSet(less) : q.uid = r.doc => q = r
  BY <1>3, <1>4
<1>8. StoredListed(ToSet(less), docs2, own2, gone2)
  <2> HIDE DEF docs2, own2, gone2
  <2> QED
    BY <1>5, <1>6, <1>7 DEF StoredListed
<1> QED
  BY <1>1, <1>2, <1>8

WithFilled(plans, uid, d, checked) ==
  [i \in DOMAIN plans |-> IF plans[i].uid = uid THEN Filled(plans[i], d, checked) ELSE plans[i]]
WithStored(docs, d, checked, author) ==
  Insert(docs, d, [recipes |-> encodedRecipes(checked), authorID |-> author])

\* The plan with the given uid is stored, under an id that is new.
LEMMA FilledPlan ==
  ASSUME NEW plans \in Seq(Plan), OneEach(plans), NEW uid \in PlanIds, NEW checked \in Seq(Object),
         NEW d \in PlanIds, \A q \in ToSet(plans) : q.uid # d /\ q.doc # d,
         \E p \in ToSet(plans) : p.uid = uid /\ p.doc = NoDoc,
         NEW list, list = WithFilled(plans, uid, d, checked),
         NEW docs, NEW own \in SUBSET (PlanIds \cap DOMAIN docs), d \notin DOMAIN docs, NEW gone,
         StoredListed(ToSet(plans), docs, own, gone), NEW author,
         NEW new, new = WithStored(docs, d, checked, author)
  PROVE  OneEach(list) /\ StoredListed(ToSet(list), new, own \cup {d}, gone)
<1>1. /\ Len(plans) \in Nat /\ DOMAIN plans = 1..Len(plans) /\ \A i \in DOMAIN plans : plans[i] \in Plan
  BY InSequence, ElementOfSeq
<1>2. PICK j \in DOMAIN plans : plans[j].uid = uid /\ plans[j].doc = NoDoc
  BY DEF ToSet
<1>3. PICK f : f = Filled(plans[j], d, checked)
  OBVIOUS
<1>4. f.uid = uid /\ f.doc = d /\ Carries(f, [recipes |-> encodedRecipes(checked), authorID |-> author])
  <2> DEFINE recipes == [k \in DOMAIN checked |-> [recipe |-> checked[k].recipe, hasUid |-> checked[k].uid # NoUid]]
  <2>1. f = [plans[j] EXCEPT !.doc = d, !.recipes = recipes]
    BY <1>3 DEF Filled
  <2>2. [k \in DOMAIN recipes |-> recipes[k].recipe] = encodedRecipes(checked)
    BY DEF encodedRecipes
  <2> HIDE DEF recipes
  <2>3. f.uid = plans[j].uid /\ f.doc = d /\ f.recipes = recipes
    BY <1>1, <2>1 DEF Plan
  <2> QED
    BY <1>2, <2>2, <2>3 DEF Carries
<1>5. \A i \in DOMAIN plans : plans[i].uid = uid => i = j
  BY <1>1, <1>2 DEF OneEach, ToSet, IsInjective
<1>6. DOMAIN list = DOMAIN plans /\ list[j] = f /\ \A i \in DOMAIN plans \ {j} : list[i] = plans[i]
  <2>1. DOMAIN list = DOMAIN plans /\ list[j] = f
    BY <1>2, <1>3 DEF WithFilled
  <2>2. \A i \in DOMAIN plans \ {j} : list[i] = plans[i]
    BY <1>5 DEF WithFilled
  <2> QED
    BY <2>1, <2>2
<1>7. ToSet(list) = (ToSet(plans) \ {plans[j]}) \cup {f}
  <2>1. \A i \in DOMAIN plans \ {j} : plans[i] # plans[j]
    BY DEF OneEach, IsInjective
  <2> QED
    BY <1>6, <2>1 DEF ToSet
<1>8. \A q \in ToSet(plans) \ {plans[j]} : q \in Plan /\ q.uid # uid /\ q.uid \in PlanIds /\ q.uid # d /\ q.doc # d
  <2>1. \A q \in ToSet(plans) \ {plans[j]} : q.uid # uid
    BY <1>2 DEF OneEach, ToSet
  <2>2. ToSet(plans) \subseteq Plan
    BY InSequence
  <2> QED
    BY <2>1, <2>2 DEF Plan
<1>9. OneEach(list)
  <2>1. IsInjective(list)
    <3>1. f \notin ToSet(plans)
      BY <1>4
    <3>2. \A i \in DOMAIN plans : plans[i] \in ToSet(plans)
      BY DEF ToSet
    <3> QED
      BY <1>6, <3>1, <3>2 DEF IsInjective, OneEach
  <2>2. \A p, q \in ToSet(list) : p.uid = q.uid => p = q
    BY <1>4, <1>7, <1>8 DEF OneEach
  <2> QED
    BY <2>1, <2>2 DEF OneEach
<1>10. /\ new[d] = [recipes |-> encodedRecipes(checked), authorID |-> author]
       /\ \A e \in DOMAIN docs : new[e] = docs[e]
  BY DEF WithStored, Insert
<1>11. ASSUME NEW e \in (own \cup {d}) \ gone
       PROVE  \E p \in ToSet(list) : p.doc = e /\ Carries(p, new[e])
  <2>1. CASE e = d
    BY <1>4, <1>7, <1>10, <2>1
  <2>2. CASE e \in own
    <3>1. PICK p \in ToSet(plans) : p.doc = e /\ Carries(p, docs[e])
      BY <1>11, <2>2 DEF StoredListed
    <3>2. p # plans[j] /\ new[e] = docs[e]
      BY <1>2, <1>10, <2>2, <3>1, NoUidAssumption
    <3> QED
      BY <1>7, <3>1, <3>2
  <2> QED
    BY <2>1, <2>2
<1>12. \A p \in ToSet(list) : p.doc \in (own \cup {d}) \cup {NoDoc}
  BY <1>4, <1>7 DEF StoredListed
<1>13. \A p, q \in ToSet(list) : p.uid = q.doc => p = q
  <2>1. \A p, q \in ToSet(plans) : p.uid = q.doc => p = q
    BY DEF StoredListed
  <2>2. \A q \in ToSet(plans) \ {plans[j]} : uid # q.doc
    <3>1. plans[j] \in ToSet(plans)
      BY DEF ToSet
    <3> QED
      BY <1>2, <2>1, <3>1
  <2>3. uid # d
    BY <1>2 DEF ToSet
  <2> QED
    BY <1>4, <1>7, <1>8, <2>1, <2>2, <2>3
<1> QED
  BY <1>9, <1>11, <1>12, <1>13 DEF StoredListed

\* The callback lists the user's plans.
LEMMA FetchedPlans ==
  ASSUME NEW docs \in PlanStore, NEW order \in Orders(Own(docs)), NEW list, NEW gone,
         list = [i \in DOMAIN order |-> decodedPlan(order[i], docs[order[i]])]
  PROVE  OneEach(list) /\ StoredListed(ToSet(list), docs, Own(docs), gone)
<1>1. order \in Seq(PlanIds) /\ IsInjective(order) /\ ToSet(order) = Own(docs)
  BY Onto DEF PlanStore
<1>2. ASSUME NEW d \in Own(docs)
      PROVE  /\ decodedPlan(d, docs[d]).uid = d /\ decodedPlan(d, docs[d]).doc = d
             /\ Carries(decodedPlan(d, docs[d]), docs[d])
  <2> DEFINE stored == docs[d]
             recipes == [k \in DOMAIN stored.recipes |-> [recipe |-> stored.recipes[k], hasUid |-> TRUE]]
  <2>1. stored.recipes \in Seq(Recipes)
    <3>1. docs \in [DOMAIN docs -> PlanDoc]
      BY StoreForm DEF PlanStore
    <3>2. d \in DOMAIN docs
      BY DEF Own
    <3> QED
      BY <3>1, <3>2 DEF PlanDoc
  <2>2. stored.recipes = [k \in DOMAIN stored.recipes |-> stored.recipes[k]]
    <3> HIDE DEF stored
    <3> QED
      BY <2>1
  <2>3. [k \in DOMAIN recipes |-> recipes[k].recipe] = stored.recipes
    <3> HIDE DEF stored
    <3> QED
      BY <2>2
  <2>4. decodedPlan(d, stored) = [uid |-> d, doc |-> d, authorID |-> stored.authorID, recipes |-> recipes]
    BY DEF decodedPlan
  <2> HIDE DEF recipes, stored
  <2>5. Carries(decodedPlan(d, stored), stored)
    BY <2>3, <2>4 DEF Carries
  <2>6. decodedPlan(d, stored).uid = d /\ decodedPlan(d, stored).doc = d
    BY <2>4
  <2> QED
    BY <2>5, <2>6 DEF stored
<1>3. /\ DOMAIN list = DOMAIN order
      /\ \A i \in DOMAIN order : /\ list[i].uid = order[i] /\ list[i].doc = order[i]
                                 /\ Carries(list[i], docs[order[i]]) /\ order[i] \in Own(docs)
  <2>1. \A i \in DOMAIN order : order[i] \in Own(docs)
    BY <1>1 DEF ToSet
  <2> QED
    BY <1>2, <2>1
<1>4. OneEach(list)
  BY <1>1, <1>3 DEF OneEach, IsInjective, ToSet
<1>5. \A d \in Own(docs) : \E p \in ToSet(list) : p.doc = d /\ Carries(p, docs[d])
  BY <1>1, <1>3 DEF ToSet
<1>6. \A p, q \in ToSet(list) : p.uid = q.doc => p = q
  BY <1>1, <1>3 DEF ToSet, IsInjective
<1>7. \A p \in ToSet(list) : p.doc \in Own(docs)
  BY <1>3 DEF ToSet
<1> QED
  BY <1>4, <1>5, <1>6, <1>7 DEF StoredListed

-----------------------------------------------------------------------------
(* What each step does to the lists *)

\* No fetch under way.
LEMMA Idle == (\A docs : Recent(<<>>, docs)) /\ OneEach(<<>>)
BY InSequence DEF Recent, OneEach

LEMMA BookKept ==
  ASSUME BookListed, UNCHANGED <<user, recipeDocs, savedRecipes>>,
         recipeFetches' = <<>> /\ TabsLoaded' => recipeFetches = <<>> /\ TabsLoaded
  PROVE  BookListed'
<1> SUFFICES ASSUME recipeFetches' = <<>>, TabsLoaded' PROVE \E ids : Listed(ids)'
  BY DEF BookListed
<1>1. PICK ids : Listed(ids)
  BY DEF BookListed
<1>2. Listed(ids)'
  BY <1>1 DEF Listed, Own
<1> QED
  BY <1>2

LEMMA PlansKept ==
  ASSUME PlansListed, PlanUidsDistinct, UNCHANGED <<user, planDocs, mealPlans, deleted>>,
         planFetches' = <<>> /\ TabsLoaded' => planFetches = <<>> /\ TabsLoaded
  PROVE  PlansListed' /\ PlanUidsDistinct'
<1>1. PlanUidsDistinct'
  BY DEF PlanUidsDistinct
<1>2. PlansListed'
  <2> SUFFICES ASSUME planFetches' = <<>>, TabsLoaded'
               PROVE  StoredListed(ToSet(mealPlans'), planDocs', Own(planDocs)', deleted')
    BY NextPlansListed
  <2>1. StoredListed(ToSet(mealPlans), planDocs, Own(planDocs), deleted)
    BY PlansListedIs
  <2>2. Own(planDocs)' = Own(planDocs)
    BY OwnKept
  <2> QED
    BY <2>1, <2>2
<1> QED
  BY <1>1, <1>2

\* Nothing is listed, and a fetch is under way or the tabs are not shown.
LEMMA Emptied ==
  ASSUME mealPlans' = <<>>, ~selection'.open, tab' # "plans",
         recipeFetches' = <<>> => ~TabsLoaded', planFetches' = <<>> => ~TabsLoaded',
         Recent(recipeFetches, recipeDocs)', Recent(planFetches, planDocs)'
  PROVE  LInv'
<1>1. PlanUidsDistinct'
  BY Idle, NextPlansListed
<1>2. BookListed' /\ PlansListed' /\ Selecting'
  BY DEF BookListed, PlansListed, Selecting
<1> QED
  BY <1>1, <1>2 DEF LInv

LEMMA RelaunchLists ==
  ASSUME Relaunch
  PROVE  LInv'
<1>1. /\ mealPlans' = <<>> /\ selection' = NoSelection
      /\ recipeFetches' = <<>> /\ planFetches' = <<>>
      /\ tab' = IF tab = "login" THEN "login" ELSE "other"
      /\ loading' = (tab # "login")
  BY DEF Relaunch, Cleared
<1>2. ~selection'.open
  BY <1>1 DEF NoSelection
<1>3. ~TabsLoaded' /\ Recent(recipeFetches, recipeDocs)' /\ Recent(planFetches, planDocs)' /\ tab' # "plans"
  BY <1>1, Idle DEF TabsLoaded
<1> QED
  BY <1>1, <1>2, <1>3, Emptied

LEMMA CrashLists ==
  ASSUME NEW cause, Crashed(cause)
  PROVE  LInv'
<1>1. /\ mealPlans' = <<>> /\ selection' = NoSelection
      /\ recipeFetches' = <<>> /\ planFetches' = <<>> /\ tab' = "gone"
  BY DEF Crashed, Cleared
<1>2. ~selection'.open
  BY <1>1 DEF NoSelection
<1>3. ~TabsLoaded' /\ Recent(recipeFetches, recipeDocs)' /\ Recent(planFetches, planDocs)' /\ tab' # "plans"
  BY <1>1, Idle DEF TabsLoaded
<1> QED
  BY <1>1, <1>2, <1>3, Emptied

\* The lists are the last user's still, and the block is queued.
LEMMA SignInLists ==
  ASSUME IInv, LInv, NEW u \in Users, SignIn(u)
  PROVE  LInv'
<1>1. /\ tab = "login" /\ tab' = "other" /\ loading' = TRUE
      /\ UNCHANGED <<recipeDocs, planDocs, mealPlans, recipeFetches, planFetches, selection>>
  BY DEF SignIn
<1>2. ~selection.open
  BY <1>1 DEF IInv, Behind
<1>3. PlanUidsDistinct'
  BY <1>1 DEF LInv, PlanUidsDistinct
<1>4. ~TabsLoaded'
  BY <1>1 DEF TabsLoaded
<1>5. BookListed' /\ PlansListed' /\ Selecting'
  BY <1>1, <1>2, <1>4 DEF BookListed, PlansListed, Selecting
<1>6. Recent(recipeFetches, recipeDocs)' /\ Recent(planFetches, planDocs)'
  BY <1>1 DEF LInv
<1> QED
  BY <1>3, <1>5, <1>6 DEF LInv

LEMMA LoadLists ==
  ASSUME IInv, LInv, loadUserData
  PROVE  LInv'
<1>1. /\ loading /\ mealPlans' = <<>>
      /\ recipeFetches' = Append(recipeFetches, Asked) /\ planFetches' = Append(planFetches, Asked)
      /\ UNCHANGED <<recipeDocs, planDocs, selection, tab>>
  BY DEF loadUserData, emptied
<1>2. tab = "other" /\ ~selection.open
  BY <1>1 DEF IInv, Loading
<1>3. Recent(Append(recipeFetches, Asked), recipeDocs) /\ Append(recipeFetches, Asked) # <<>>
  BY StillRecent DEF IInv, Typed, LInv, RecipeStore
<1>4. Recent(Append(planFetches, Asked), planDocs) /\ Append(planFetches, Asked) # <<>>
  BY StillRecent DEF IInv, Typed, LInv, PlanStore
<1>5. /\ Recent(recipeFetches, recipeDocs)' /\ Recent(planFetches, planDocs)'
      /\ recipeFetches' # <<>> /\ planFetches' # <<>>
  BY <1>1, <1>3, <1>4
<1> QED
  BY <1>1, <1>2, <1>5, Emptied

\* The steps that change neither lists nor documents.
LEMMA QuietLists ==
  ASSUME LInv, UNCHANGED <<user, recipeDocs, planDocs, savedRecipes, mealPlans, deleted>>,
         Recent(recipeFetches', recipeDocs), Recent(planFetches', planDocs),
         recipeFetches' = <<>> => recipeFetches = <<>>, planFetches' = <<>> => planFetches = <<>>,
         TabsLoaded' => TabsLoaded, selection'.open => selection.open /\ selection'.plan = selection.plan,
         tab' = "plans" => ~selection'.open
  PROVE  LInv'
<1>1. BookListed' /\ PlansListed' /\ PlanUidsDistinct'
  BY BookKept, PlansKept DEF LInv
<1>2. Selecting'
  BY DEF LInv, Selecting
<1>3. Recent(recipeFetches, recipeDocs)' /\ Recent(planFetches, planDocs)'
  OBVIOUS
<1> QED
  BY <1>1, <1>2, <1>3 DEF LInv

LEMMA LogoutLists ==
  ASSUME IInv, LInv, logoutButtonTapped
  PROVE  LInv'
<1>1. /\ tab' = "login" /\ selection' = NoSelection
      /\ UNCHANGED <<user, recipeDocs, planDocs, savedRecipes, mealPlans, recipeFetches, planFetches, deleted>>
  BY DEF logoutButtonTapped, session
<1>2. ~selection'.open /\ (TabsLoaded' => TabsLoaded)
  BY <1>1 DEF NoSelection, TabsLoaded
<1>3. Recent(recipeFetches', recipeDocs) /\ Recent(planFetches', planDocs)
  BY <1>1 DEF LInv
<1> QED
  BY <1>1, <1>2, <1>3, QuietLists

LEMMA AnswerRecipesLists ==
  ASSUME IInv, LInv, AnswerRecipes
  PROVE  LInv'
<1>1. /\ recipeFetches' = FirstAnswered(recipeFetches, recipeDocs)
      /\ UNCHANGED <<user, loading, recipeDocs, planDocs, savedRecipes, mealPlans, planFetches,
                     selection, tab, deleted>>
  BY DEF AnswerRecipes, session, history
<1>2. recipeFetches' = <<>> <=> recipeFetches = <<>>
  BY <1>1, FirstAnsweredKeeps DEF IInv, Typed, RecipeStore
<1>3. Recent(FirstAnswered(recipeFetches, recipeDocs), recipeDocs)
  BY StillRecent DEF IInv, Typed, LInv, RecipeStore
<1>4. Recent(recipeFetches', recipeDocs) /\ Recent(planFetches', planDocs)
  BY <1>1, <1>3 DEF LInv
<1>5. TabsLoaded' = TabsLoaded /\ (tab' = "plans" => ~selection'.open)
  BY <1>1 DEF TabsLoaded, LInv, Selecting
<1> QED
  BY <1>1, <1>2, <1>4, <1>5, QuietLists

LEMMA AnswerPlansLists ==
  ASSUME IInv, LInv, AnswerPlans
  PROVE  LInv'
<1>1. /\ planFetches' = FirstAnswered(planFetches, planDocs)
      /\ UNCHANGED <<user, loading, recipeDocs, planDocs, savedRecipes, mealPlans, recipeFetches,
                     selection, tab, deleted>>
  BY DEF AnswerPlans, session, history
<1>2. planFetches' = <<>> <=> planFetches = <<>>
  BY <1>1, FirstAnsweredKeeps DEF IInv, Typed, PlanStore
<1>3. Recent(FirstAnswered(planFetches, planDocs), planDocs)
  BY StillRecent DEF IInv, Typed, LInv, PlanStore
<1>4. Recent(recipeFetches', recipeDocs) /\ Recent(planFetches', planDocs)
  BY <1>1, <1>3 DEF LInv
<1>5. TabsLoaded' = TabsLoaded /\ (tab' = "plans" => ~selection'.open)
  BY <1>1 DEF TabsLoaded, LInv, Selecting
<1> QED
  BY <1>1, <1>2, <1>4, <1>5, QuietLists

\* The answer is what is stored, so the callback lists just that.
LEMMA RecipeCallbackLists ==
  ASSUME IInv, LInv, fetchRecipeCallback
  PROVE  LInv'
<1> DEFINE docs == Head(recipeFetches).answer
<1>1. /\ IsAnswered(recipeFetches) /\ recipeFetches' = Tail(recipeFetches)
      /\ UNCHANGED <<user, loading, recipeDocs, planDocs, mealPlans, planFetches, selection, tab,
                     deleted>>
      /\ \E order \in Orders(Own(docs)) :
           savedRecipes' = [i \in DOMAIN order |->
             [recipe |-> docs[order[i]].recipe, uid |-> order[i], by |-> docs[order[i]].authorID]]
  BY DEF fetchRecipeCallback, session
<1>2. docs = recipeDocs /\ Recent(Tail(recipeFetches), recipeDocs)
  <2>1. recipeFetches \in Fetches(RecipeStore) /\ Recent(recipeFetches, recipeDocs) /\ recipeFetches # <<>>
    BY <1>1 DEF IInv, Typed, LInv, IsAnswered
  <2> QED
    BY <1>1, <2>1, StillRecent DEF RecipeStore
<1> HIDE DEF docs
<1>3. PICK order \in Orders(Own(recipeDocs)) :
        savedRecipes' = [i \in DOMAIN order |->
          [recipe |-> recipeDocs[order[i]].recipe, uid |-> order[i], by |-> recipeDocs[order[i]].authorID]]
  BY <1>1, <1>2
<1>4. Listed(order)'
  BY <1>1, <1>3, ListedAnew DEF IInv
<1>5. BookListed'
  BY <1>4 DEF BookListed
<1>6. Recent(recipeFetches, recipeDocs)' /\ Recent(planFetches, planDocs)'
  BY <1>1, <1>2 DEF LInv
<1>7. PlansListed' /\ PlanUidsDistinct'
  BY <1>1, PlansKept DEF LInv, TabsLoaded
<1>8. Selecting'
  BY <1>1 DEF LInv, Selecting
<1> QED
  BY <1>5, <1>6, <1>7, <1>8 DEF LInv

LEMMA PlanCallbackLists ==
  ASSUME IInv, LInv, FetchFirst, fetchMealPlansCallback
  PROVE  LInv'
<1> DEFINE docs == Head(planFetches).answer
<1>1. /\ IsAnswered(planFetches) /\ planFetches' = Tail(planFetches)
      /\ UNCHANGED <<user, loading, recipeDocs, planDocs, savedRecipes, recipeFetches, selection, tab,
                     deleted>>
      /\ \E order \in Orders(Own(docs)) :
           mealPlans' = [i \in DOMAIN order |-> decodedPlan(order[i], docs[order[i]])]
  BY DEF fetchMealPlansCallback, session, history
<1>2. docs = planDocs /\ Recent(Tail(planFetches), planDocs)
  <2>1. planFetches \in Fetches(PlanStore) /\ Recent(planFetches, planDocs) /\ planFetches # <<>>
    BY <1>1 DEF IInv, Typed, LInv, IsAnswered
  <2> QED
    BY <1>1, <2>1, StillRecent DEF PlanStore
<1> HIDE DEF docs
<1>3. PICK order \in Orders(Own(planDocs)) :
        mealPlans' = [i \in DOMAIN order |-> decodedPlan(order[i], planDocs[order[i]])]
  BY <1>1, <1>2
<1>4. PICK list : list = mealPlans'
  OBVIOUS
<1>5. OneEach(list) /\ StoredListed(ToSet(list), planDocs, Own(planDocs), deleted)
  BY <1>3, <1>4, FetchedPlans DEF IInv, Typed
<1>6. Own(planDocs)' = Own(planDocs)
  BY <1>1, OwnKept
<1>7. PlanUidsDistinct' /\ PlansListed'
  BY <1>1, <1>4, <1>5, <1>6, NextPlansListed
<1>8. Recent(recipeFetches, recipeDocs)' /\ Recent(planFetches, planDocs)'
  BY <1>1, <1>2 DEF LInv
<1>9. BookListed'
  BY <1>1, BookKept DEF LInv, TabsLoaded
<1>10. Selecting'
  <2>1. ~selection.open
    BY <1>1 DEF IInv, Waits, Fetched, IsAnswered
  <2> QED
    BY <1>1, <2>1 DEF Selecting
<1> QED
  BY <1>7, <1>8, <1>9, <1>10 DEF LInv

\* A recipe is saved: only once the fetches are over, and in a document of its own.
LEMMA AddLists ==
  ASSUME IInv, LInv, FetchFirst, ~StoreFaults, NEW r \in Recipes, addToRecipeBookButtonTapped(r)
  PROVE  LInv'
<1> DEFINE o == [recipe |-> r, uid |-> NoUid, by |-> user]
           doc == [recipe |-> o.recipe, isChecked |-> isChecked[o], authorID |-> user]
<1>1. /\ tab = "other" /\ ~loading /\ recipeFetches = <<>> /\ planFetches = <<>>
      /\ savedRecipes' = Append(savedRecipes, o)
      /\ UNCHANGED <<user, loading, planDocs, mealPlans, recipeFetches, planFetches, selection, tab, deleted>>
  BY DEF addToRecipeBookButtonTapped, Ready, TabsLoaded, Fetched, session, history
<1>2. PICK u \in FreshUids : recipeDocs' = Insert(recipeDocs, u, doc)
  BY DEF addToRecipeBookButtonTapped, saveRecipe
<1>3. u \in Uids /\ u \notin DOMAIN recipeDocs
  BY DEF FreshUids
<1>4. o \in Object /\ o.uid = NoUid /\ doc.recipe = o.recipe /\ doc.authorID = user
  BY DEF IInv, Typed, Object
<1> HIDE DEF doc
<1> HIDE DEF o
<1>5. PICK ids : Listed(ids)
  BY <1>1 DEF LInv, BookListed, TabsLoaded
<1>6. Listed(Append(ids, u))'
  BY <1>1, <1>2, <1>3, <1>4, <1>5, ListedMore DEF IInv
<1>7. BookListed'
  BY <1>6 DEF BookListed
<1>8. PlansListed' /\ PlanUidsDistinct'
  BY <1>1, PlansKept DEF LInv, TabsLoaded
<1>9. Recent(recipeFetches, recipeDocs)' /\ Recent(planFetches, planDocs)' /\ Selecting'
  BY <1>1, Idle DEF LInv, Selecting
<1> QED
  BY <1>7, <1>8, <1>9 DEF LInv

LEMMA ShowLists ==
  ASSUME IInv, LInv, NEW t, NEW shown, Show(t, shown), t \in {"book", "plans", "other"},
         t = "plans" => ~selection.open
  PROVE  LInv'
<1>1. /\ TabsLoaded /\ tab' = t
      /\ UNCHANGED <<user, recipeDocs, planDocs, savedRecipes, mealPlans, recipeFetches, planFetches,
                     selection, deleted>>
  BY DEF Show, session, history
<1>2. Recent(recipeFetches', recipeDocs) /\ Recent(planFetches', planDocs)
  BY <1>1 DEF LInv
<1> QED
  BY <1>1, <1>2, QuietLists

\* A row is deleted with its document.
LEMMA DeleteRecipeLists ==
  ASSUME IInv, LInv, FetchFirst, ~StoreFaults, NEW i \in 1..MaxRecipes, DeleteRecipeRow(i)
  PROVE  LInv'
<1>1. /\ tab = "book" /\ i \in 1..Len(rows) /\ ~loading /\ recipeFetches = <<>> /\ planFetches = <<>>
  BY DEF DeleteRecipeRow, IInv, Loading, Waits, Fetched
<1>2. CASE \E cause : Crashed(cause)
  BY <1>2, CrashLists
<1>3. CASE /\ Len(savedRecipes) = Len(rows) /\ savedRecipes[i].uid # NoUid
           /\ recipeDocs' \in DocDeleted(recipeDocs, savedRecipes[i].uid)
           /\ savedRecipes' = RemoveAt(savedRecipes, i) /\ UNCHANGED planDocs
           /\ UNCHANGED <<session, isChecked, mealPlans, recipeFetches, planFetches, selection, tab,
                          crash, history>>
  <2>1. UNCHANGED <<user, loading, planDocs, mealPlans, recipeFetches, planFetches, selection, tab, deleted>>
    BY <1>3 DEF session, history
  <2>2. recipeDocs' = Without(recipeDocs, savedRecipes[i].uid)
    BY <1>3 DEF DocDeleted
  <2>3. i \in DOMAIN savedRecipes
    BY <1>1, <1>3, InSequence DEF IInv, Typed
  <2>4. PICK ids : Listed(ids)
    BY <1>1 DEF LInv, BookListed, TabsLoaded
  <2>5. Listed(RemoveAt(ids, i))'
    BY <1>3, <2>1, <2>2, <2>3, <2>4, ListedLess DEF IInv
  <2>6. BookListed'
    BY <2>5 DEF BookListed
  <2>7. PlansListed' /\ PlanUidsDistinct'
    BY <2>1, PlansKept DEF LInv, TabsLoaded
  <2>8. Recent(recipeFetches, recipeDocs)' /\ Recent(planFetches, planDocs)' /\ Selecting'
    BY <1>1, <2>1, Idle DEF LInv, Selecting
  <2> QED
    BY <2>6, <2>7, <2>8 DEF LInv
<1> QED
  BY <1>2, <1>3 DEF DeleteRecipeRow

\* What is fresh is nobody's.
LEMMA FreshIs ==
  ASSUME NEW d \in FreshPlanIds
  PROVE  /\ d \in PlanIds /\ d \notin DOMAIN planDocs /\ d # selection.plan
         /\ \A q \in ToSet(mealPlans) : q.uid # d /\ q.doc # d
BY DEF FreshPlanIds

LEMMA CreateLists ==
  ASSUME IInv, LInv, createMealPlan
  PROVE  LInv'
<1>1. PICK d \in FreshPlanIds :
        /\ mealPlans' = Append(mealPlans, newPlan(d))
        /\ selection' = [open |-> TRUE, plan |-> d, checked |-> <<>>, array |-> ToSet(savedRecipes)]
  BY DEF createMealPlan
<1>2. /\ tab = "other"
      /\ UNCHANGED <<user, loading, recipeDocs, planDocs, savedRecipes, recipeFetches, planFetches, tab, deleted>>
  BY DEF createMealPlan, session
<1>3. PICK p : p = newPlan(d)
  OBVIOUS
<1>4. p \in Plan /\ p.uid = d /\ p.doc = NoDoc
  <2>1. d \in PlanIds /\ user \in Users
    BY FreshIs DEF IInv, Typed
  <2> QED
    BY <1>3, <2>1, InSequence DEF newPlan, Plan
<1>5. PICK list : list = Append(mealPlans, p)
  OBVIOUS
<1>6. /\ OneEach(list)
      /\ \A docs, own, gone : StoredListed(ToSet(mealPlans), docs, own, gone)
                                => StoredListed(ToSet(list), docs, own, gone)
      /\ ToSet(list) = ToSet(mealPlans) \cup {p}
  <2>1. mealPlans \in Seq(Plan) /\ OneEach(mealPlans)
    BY OneEachIs DEF IInv, Typed, LInv
  <2>2. \A q \in ToSet(mealPlans) : q.uid # p.uid /\ q.doc # p.uid
    BY <1>4, FreshIs
  <2>3. ToSet(list) = ToSet(mealPlans) \cup {p}
    BY <1>4, <1>5, <2>1, AppendedTo
  <2> QED
    BY <1>4, <1>5, <2>1, <2>2, <2>3, ListedPlan
<1>7. mealPlans' = list
  BY <1>1, <1>3, <1>5
<1>8. PlanUidsDistinct' /\ PlansListed'
  <2>1. Own(planDocs)' = Own(planDocs)
    BY <1>2, OwnKept
  <2>2. TabsLoaded' = TabsLoaded
    BY <1>2 DEF TabsLoaded
  <2>3. planFetches = <<>> /\ TabsLoaded => StoredListed(ToSet(mealPlans), planDocs, Own(planDocs), deleted)
    BY PlansListedIs DEF LInv
  <2>4. planFetches = <<>> /\ TabsLoaded => StoredListed(ToSet(list), planDocs, Own(planDocs), deleted)
    BY <1>6, <2>3
  <2> QED
    BY <1>2, <1>6, <1>7, <2>1, <2>2, <2>4, NextPlansListed
<1>9. Selecting'
  <2>1. selection'.plan = d
    BY <1>1
  <2> QED
    BY <1>2, <1>4, <1>6, <1>7, <2>1 DEF Selecting
<1>10. BookListed'
  BY <1>2, BookKept DEF LInv, TabsLoaded
<1>11. Recent(recipeFetches, recipeDocs)' /\ Recent(planFetches, planDocs)'
  BY <1>2 DEF LInv
<1> QED
  BY <1>8, <1>9, <1>10, <1>11 DEF LInv

\* The steps inside a selection, and out of it, that list and store nothing.
LEMMA SelectionLists ==
  ASSUME IInv, LInv,
         \/ searchBarTextDidChange
         \/ \E o \in Object : toggleRecipeChecked(o)
         \/ AbandonSelection
  PROVE  LInv'
<1>1. /\ tab = "other"
      /\ UNCHANGED <<user, loading, recipeDocs, planDocs, savedRecipes, mealPlans, recipeFetches,
                     planFetches, tab, deleted>>
  BY DEF searchBarTextDidChange, toggleRecipeChecked, AbandonSelection, session, history
<1>2. selection'.open => selection.open /\ selection'.plan = selection.plan
  <2>1. CASE AbandonSelection
    BY <2>1 DEF AbandonSelection, NoSelection
  <2>2. CASE searchBarTextDidChange
    BY <2>2 DEF searchBarTextDidChange, IInv, Typed
  <2>3. CASE \E o \in Object : toggleRecipeChecked(o)
    <3>1. PICK o \in Object : toggleRecipeChecked(o)
      BY <2>3
    <3>2. selection.open /\ (selection' = selection \/ \E c : selection' = [selection EXCEPT !.checked = c])
      BY <3>1 DEF toggleRecipeChecked
    <3> QED
      BY <3>2 DEF IInv, Typed
  <2> QED
    BY <2>1, <2>2, <2>3
<1>3. Recent(recipeFetches', recipeDocs) /\ Recent(planFetches', planDocs)
  BY <1>1 DEF LInv
<1>4. TabsLoaded' = TabsLoaded /\ tab' # "plans"
  BY <1>1 DEF TabsLoaded
<1> QED
  BY <1>1, <1>2, <1>3, <1>4, QuietLists

\* The plan selected for is the only one of its UUID, not stored yet, and stored now.
LEMMA SaveLists ==
  ASSUME IInv, LInv, FetchFirst, ~StoreFaults, saveRecipesButtonTapped
  PROVE  LInv'
<1>1. /\ tab = "other" /\ selection.open /\ ~loading /\ selection' = NoSelection
      /\ UNCHANGED <<user, loading, recipeDocs, savedRecipes, recipeFetches, planFetches, tab, deleted>>
  BY DEF saveRecipesButtonTapped, IInv, Loading, session
<1>2. PICK checked, uid : checked = selection.checked /\ uid = selection.plan
  OBVIOUS
<1>3. PICK d \in FreshPlanIds :
        /\ planDocs' = Insert(planDocs, d, [recipes |-> encodedRecipes(checked), authorID |-> user])
        /\ mealPlans' = [i \in DOMAIN mealPlans |->
             IF mealPlans[i].uid = uid THEN Filled(mealPlans[i], d, checked) ELSE mealPlans[i]]
  BY <1>2 DEF saveRecipesButtonTapped, saveMealPlan
<1>4. recipeFetches = <<>> /\ planFetches = <<>>
  BY <1>1 DEF IInv, Waits, Fetched
<1>5. /\ d \in PlanIds /\ d \notin DOMAIN planDocs
      /\ \A q \in ToSet(mealPlans) : q.uid # d /\ q.doc # d
  BY FreshIs
<1>6. \E p \in ToSet(mealPlans) : p.uid = uid /\ p.doc = NoDoc
  BY <1>1, <1>2 DEF LInv, Selecting
<1>7. mealPlans \in Seq(Plan) /\ OneEach(mealPlans) /\ checked \in Seq(Object)
  BY <1>2, OneEachIs DEF IInv, Typed, LInv
<1>8. uid \in PlanIds
  <2>1. ToSet(mealPlans) \subseteq Plan
    BY <1>7, InSequence
  <2> QED
    BY <1>6, <2>1 DEF Plan
<1>9. StoredListed(ToSet(mealPlans), planDocs, Own(planDocs), deleted)
  BY <1>1, <1>4, PlansListedIs DEF LInv, TabsLoaded
<1>10. Own(planDocs) \in SUBSET (PlanIds \cap DOMAIN planDocs)
  BY StoreForm DEF IInv, Typed, PlanStore, Own
<1>11. PICK list, new : list = mealPlans' /\ new = planDocs'
  OBVIOUS
<1>12. OneEach(list) /\ StoredListed(ToSet(list), new, Own(planDocs) \cup {d}, deleted)
  <2>1. list = WithFilled(mealPlans, uid, d, checked) /\ new = WithStored(planDocs, d, checked, user)
    BY <1>3, <1>11 DEF WithFilled, WithStored
  <2> QED
    <3>1. PICK own : own = Own(planDocs)
      OBVIOUS
    <3>2. own \in SUBSET (PlanIds \cap DOMAIN planDocs) /\ StoredListed(ToSet(mealPlans), planDocs, own, deleted)
      BY <1>9, <1>10, <3>1
    <3>3. OneEach(list) /\ StoredListed(ToSet(list), new, own \cup {d}, deleted)
      BY <1>5, <1>6, <1>7, <1>8, <2>1, <3>2, FilledPlan
    <3> QED
      BY <3>1, <3>3
<1>13. Own(planDocs)' = Own(planDocs) \cup {d}
  <2>1. Own(new) = Own(planDocs) \cup {d}
    <3>1. PICK doc : doc = [recipes |-> encodedRecipes(checked), authorID |-> user]
      OBVIOUS
    <3>2. doc.authorID = user /\ new = Insert(planDocs, d, doc)
      BY <1>3, <1>11, <3>1
    <3> QED
      BY <1>5, <3>2, OwnChanged
  <2> QED
    BY <1>1, <1>11, <2>1, OwnKept
<1>14. PlanUidsDistinct' /\ PlansListed'
  BY <1>1, <1>11, <1>12, <1>13, NextPlansListed
<1>15. BookListed'
  BY <1>1, BookKept DEF LInv, TabsLoaded
<1>16. Recent(recipeFetches, recipeDocs)' /\ Recent(planFetches, planDocs)'
  BY <1>1, <1>4, Idle
<1>17. Selecting'
  BY <1>1 DEF Selecting, NoSelection
<1> QED
  BY <1>14, <1>15, <1>16, <1>17 DEF LInv

LEMMA DeletePlanLists ==
  ASSUME IInv, LInv, FetchFirst, ~StoreFaults, NEW i \in 1..MaxPlans, DeletePlanRow(i)
  PROVE  LInv'
<1>1. tab = "plans" /\ i \in 1..Len(rows) /\ ~loading /\ recipeFetches = <<>> /\ planFetches = <<>>
  BY DEF DeletePlanRow, IInv, Loading, Waits, Fetched
<1>2. CASE \E cause : Crashed(cause)
  BY <1>2, CrashLists
<1>3. CASE /\ Len(mealPlans) = Len(rows)
           /\ planDocs' \in DocDeleted(planDocs, mealPlans[i].uid)
           /\ mealPlans' = RemoveAt(mealPlans, i) /\ UNCHANGED recipeDocs
           /\ deleted' = deleted \cup ({mealPlans[i].doc} \ {NoDoc})
           /\ UNCHANGED <<session, savedRecipes, isChecked, recipeFetches, planFetches, selection, tab,
                          crash, stale, tapped>>
  <2>1. UNCHANGED <<user, loading, recipeDocs, savedRecipes, recipeFetches, planFetches, selection, tab>>
    BY <1>3 DEF session
  <2>2. planDocs' = Without(planDocs, mealPlans[i].uid)
    BY <1>3 DEF DocDeleted
  <2>3. /\ mealPlans \in Seq(Plan) /\ OneEach(mealPlans) /\ i \in DOMAIN mealPlans
    BY <1>1, <1>3, OneEachIs, InSequence DEF IInv, Typed, LInv
  <2>4. StoredListed(ToSet(mealPlans), planDocs, Own(planDocs), deleted)
    BY <1>1, PlansListedIs DEF LInv, TabsLoaded
  <2>5. Own(planDocs) \in SUBSET (PlanIds \cap DOMAIN planDocs)
    BY StoreForm DEF IInv, Typed, PlanStore, Own
  <2>6. PICK list, new, uid : list = mealPlans' /\ new = planDocs' /\ uid = mealPlans[i].uid
    OBVIOUS
  <2>7. StoredListed(ToSet(list), new, Own(planDocs) \ {uid}, deleted')
    BY <1>3, <2>2, <2>3, <2>4, <2>5, <2>6, UnlistedPlan
  <2>8. OneEach(list)
    <3>1. ToSet(list) \subseteq ToSet(mealPlans) /\ IsInjective(list)
      BY <1>3, <2>3, <2>6, RemovedFrom DEF OneEach
    <3> QED
      BY <2>3, <3>1 DEF OneEach
  <2>9. Own(planDocs)' = Own(planDocs) \ {uid}
    <3>1. Own(new) = Own(planDocs) \ {uid}
      BY <2>2, <2>6, OwnChanged
    <3> QED
      BY <2>1, <2>6, <3>1, OwnKept
  <2>10. PlanUidsDistinct' /\ PlansListed'
    BY <2>6, <2>7, <2>8, <2>9, NextPlansListed
  <2>11. BookListed'
    BY <2>1, BookKept DEF LInv, TabsLoaded
  <2>12. Recent(recipeFetches, recipeDocs)' /\ Recent(planFetches, planDocs)'
    BY <1>1, <2>1, Idle
  <2>13. Selecting'
    BY <1>1, <2>1 DEF LInv, Selecting
  <2> QED
    BY <2>10, <2>11, <2>12, <2>13 DEF LInv
<1> QED
  BY <1>2, <1>3 DEF DeletePlanRow

LEMMA StepLists ==
  ASSUME FetchFirst, ~StoreFaults, IInv, LInv, [Next]_vars
  PROVE  LInv'
<1>1. CASE Relaunch
  BY <1>1, RelaunchLists
<1>2. CASE logoutButtonTapped
  BY <1>2, LogoutLists
<1>3. CASE \E u \in Users : SignIn(u)
  BY <1>3, SignInLists
<1>4. CASE loadUserData
  BY <1>4, LoadLists
<1>5. CASE FetchStep
  BY <1>5, AnswerRecipesLists, AnswerPlansLists, RecipeCallbackLists, PlanCallbackLists
     DEF FetchStep, FetchFails
<1>6. CASE UserStep
  <2>1. CASE \E r \in Recipes : addToRecipeBookButtonTapped(r)
    BY <2>1, AddLists
  <2>2. CASE ShowBook \/ ShowPlans \/ ShowOther
    BY <2>2, ShowLists DEF ShowBook, ShowPlans, ShowOther
  <2>3. CASE \E i \in 1..MaxRecipes : DeleteRecipeRow(i)
    BY <2>3, DeleteRecipeLists
  <2>4. CASE searchBarTextDidChange \/ (\E o \in Object : toggleRecipeChecked(o)) \/ AbandonSelection
    BY <2>4, SelectionLists
  <2>5. CASE createMealPlan \/ saveRecipesButtonTapped
    BY <2>5, CreateLists, SaveLists
  <2>6. CASE \E i \in 1..MaxPlans : DeletePlanRow(i) \/ DatePickerTraps(i)
    BY <2>6, DeletePlanLists, CrashLists DEF DatePickerTraps
  <2> QED
    BY <1>6, <2>1, <2>2, <2>3, <2>4, <2>5, <2>6 DEF UserStep
<1>7. CASE UNCHANGED vars
  <2>1. UNCHANGED <<user, loading, recipeDocs, planDocs, savedRecipes, mealPlans, recipeFetches,
                    planFetches, selection, tab, deleted>>
    BY <1>7 DEF vars
  <2>2. Recent(recipeFetches', recipeDocs) /\ Recent(planFetches', planDocs)
    BY <2>1 DEF LInv
  <2>3. TabsLoaded' = TabsLoaded /\ (tab' = "plans" => ~selection'.open)
    BY <2>1 DEF TabsLoaded, LInv, Selecting
  <2> QED
    BY <2>1, <2>2, <2>3, QuietLists
<1> QED
  BY <1>1, <1>2, <1>3, <1>4, <1>5, <1>6, <1>7 DEF Next

LEMMA InitLists == Init => LInv
<1> SUFFICES ASSUME Init PROVE LInv
  OBVIOUS
<1>1. /\ mealPlans = <<>> /\ recipeFetches = <<>> /\ planFetches = <<>>
      /\ selection = NoSelection /\ tab = "other" /\ loading = TRUE
  BY DEF Init
<1>2. PlanUidsDistinct
  BY <1>1, Idle, OneEachIs
<1>3. BookListed /\ PlansListed
  BY <1>1 DEF BookListed, PlansListed, TabsLoaded
<1>4. Recent(recipeFetches, recipeDocs) /\ Recent(planFetches, planDocs)
  BY <1>1, Idle
<1>5. Selecting
  BY <1>1 DEF Selecting, NoSelection
<1> QED
  BY <1>2, <1>3, <1>4, <1>5 DEF LInv

\* Users who wait for the fetches, and whose calls Firestore does not refuse,
\* see the recipes and the plans they have stored, all of them and each once,
\* whatever they save, plan and delete, whoever else uses the device.
THEOREM CompleteLists == FetchFirst /\ ~StoreFaults => (Spec => []ListsAreComplete)
<1> SUFFICES ASSUME FetchFirst, ~StoreFaults PROVE Spec => []ListsAreComplete
  OBVIOUS
<1>1. IInv /\ LInv /\ [Next]_vars => LInv'
  BY StepLists
<1>2. IInv /\ LInv => ListsAreComplete
  <2> SUFFICES ASSUME IInv, LInv PROVE ListsAreComplete
    OBVIOUS
  <2>1. BookIsComplete
    BY ListedIsComplete DEF IInv, LInv, BookListed, BookIsComplete, TabsLoaded
  <2>2. PlanListComplete
    BY DEF LInv, PlansListed, PlanListComplete, TabsLoaded
  <2> QED
    BY <2>1, <2>2 DEF LInv, ListsAreComplete
<1> QED
  BY <1>1, <1>2, InitLists, Invariance, PTL DEF Spec
=============================================================================
