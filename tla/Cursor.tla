-------------------------------- MODULE Cursor --------------------------------
(***************************************************************************)
(* What an iterator over an index of boundaries promises: it stands at one *)
(* of the selected items or past the last of them, it visits them in the   *)
(* order of the text, in both directions and each one once, and a search   *)
(* leads to the first item that a position does not lie behind.            *)
(***************************************************************************)
EXTENDS Integers

CONSTANT Reaches(_, _) \* Reaches(item, p): p is not behind the item

VARIABLES
    items, \* the selected items; item.to is where one ends
    call,  \* the last call: its name, and the position it was given
    at     \* {the item the iterator is at}, or {} past the last one

vars == <<items, call, at>>

First(S) == {i \in S : \A j \in S : i.to <= j.to}
After(S) == {j \in items : \A i \in S : i.to < j.to}

Init == call.name = "option"

\* Another text or other rules: iterators are not to be used any more.
Option == call'.name = "option"

Begin == call'.name = "begin" /\ at' = First(items)
Finish == call'.name = "end" /\ at' = {}
Find == call'.name = "find" /\ at' = First({i \in items : Reaches(i, call'.p)})
Forward == call'.name = "++" /\ at # {} /\ at' = First(After(at))
Backward == call'.name = "--" /\ at' # {} /\ at' \subseteq items /\ at = First(After(at'))

Next ==
    \/ Option
    \/ UNCHANGED items /\ (Begin \/ Finish \/ Find \/ Forward \/ Backward)

Spec == Init /\ [][Next]_vars
=============================================================================
