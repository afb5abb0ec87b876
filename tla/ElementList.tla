----------------------------- MODULE ElementList -----------------------------
(***************************************************************************)
(* What evector (kern_util.hpp) promises the owner of its elements: a list *)
(* that grows at its end and keeps its order, where the element that is    *)
(* erased is the one that is destroyed, and an insertion that fails leaves *)
(* the element with its owner.                                             *)
(***************************************************************************)
EXTENDS Naturals, SequencesExt

CONSTANT Elements

VARIABLES
    list,
    alive    \* the elements that exist, in the list or in their owner's hands

vars == <<list, alive>>

Init == list = << >> /\ alive = {}

Outside == alive \ Range(list)

Create ==
    /\ \E e \in Elements \ alive : alive' = alive \cup {e}
    /\ UNCHANGED list

Push ==
    /\ \E e \in Outside : list' = Append(list, e)
    /\ UNCHANGED alive

Destroy ==
    /\ \E e \in Outside : alive' = alive \ {e}
    /\ UNCHANGED list

Erase ==
    \E i \in 1 .. Len(list) :
        /\ list' = RemoveAt(list, i)
        /\ alive' = alive \ {list[i]}

Deinit == list' = << >> /\ alive' = Outside

Next == Create \/ Push \/ Destroy \/ Erase \/ Deinit

Spec == Init /\ [][Next]_vars
=============================================================================
