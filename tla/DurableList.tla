---------------------------- MODULE DurableList -----------------------------
(***************************************************************************)
(* What a shopping list promises its user: one list that outlives the app. *)
(* New lines go on top; an entry changes or leaves only because the user   *)
(* ticked, renamed or removed an entry or cleared the list.                *)
(***************************************************************************)
EXTENDS Integers, Sequences, SequencesExt

CONSTANTS Names, MaxItems

VARIABLE list

Entry == [item : Names, isChecked : BOOLEAN]

Init == list = <<>>

\* Unticked entries go on top: one typed line, or the ingredients of a recipe
\* or a plan, of which an interrupted run adds only the first few.
Add ==
  \E n \in 1..MaxItems - Len(list) :
    \E added \in [1..n -> [item : Names, isChecked : {FALSE}]] :
      list' = added \o list

\* The entry removed is the topmost with the name of the one at i.
Delete(i) ==
  \E j \in 1..i :
    /\ list[j].item = list[i].item
    /\ \A k \in 1..j - 1 : list[k].item # list[i].item
    /\ list' = RemoveAt(list, j)

Tick(i) == list' = [list EXCEPT ![i].isChecked = ~@]

Rename(i) == \E t \in Names : list' = [list EXCEPT ![i].item = t]

Clear == list' = <<>>

Next ==
  \/ Add
  \/ \E i \in 1..Len(list) : Delete(i) \/ Tick(i) \/ Rename(i)
  \/ Clear

Spec == Init /\ [][Next]_list
=============================================================================
