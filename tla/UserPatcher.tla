----------------------------- MODULE UserPatcher -----------------------------
(***************************************************************************)
(* UserPatcher (kern_user.hpp): it loads its lookup storage, is activated, *)
(* and from then on lets programs run with a wrapper in front of their     *)
(* entry point.  Loading, and the choice of what to inject, are in the     *)
(* Lilu binary: their interface with the headers is what is modelled.      *)
(***************************************************************************)
EXTENDS UserLookup, EntryWrapper

CONSTANTS MaxObjects,   \* bound on the objects a patcher has when activated
          Factors       \* the growth factors push_back() is called with

ASSUME UserPatcherAssumption ==
    /\ MaxObjects \in Nat
    /\ Factors \subseteq Nat \ {0}

VARIABLE activated

vars == <<lvars, wvars, activated>>

Init == LookupInit /\ WrapperInit /\ activated = FALSE

Loading == ~ activated /\ UNCHANGED <<wvars, activated>>
Running == activated /\ UNCHANGED <<lvars, activated>>

\* activate(), once the loader has handed over all it made.
Activate ==
    /\ ~ activated
    /\ newStorage = Null /\ newRef = Null
    /\ Cardinality(live) <= MaxObjects
    /\ activated' = TRUE
    /\ UNCHANGED <<lvars, wvars>>

Next ==
    \/ Loading /\ CreateNew
    \/ Loading /\ CreatePage
    \/ Loading /\ CreatePageFails
    \/ Loading /\ DropStorage
    \/ Loading /\ CreateRef
    \/ Loading /\ DropRef
    \/ Loading /\ DeinitStorage
    \/ \E mul \in Factors : Loading /\ PushStorage(mul)
    \/ \E r \in ReachableRefs, mul \in Factors : Loading /\ PushPageOff(r, mul)
    \/ \E r \in ReachableRefs, mul \in Factors : Loading /\ PushSegOff(r, mul)
    \/ \E s \in Reachable, mul \in Factors : Loading /\ PushRef(s, mul)
    \/ \E index \in 0 .. (lookupStorage.cnt - 1), free \in BOOLEAN :
          Loading /\ EraseStorage(index, free)
    \/ Activate
    \/ \E m \in Modes, sp \in EntrySps : Running /\ Enter(m, sp)
    \/ Running /\ Push
    \/ Running /\ PushArg
    \/ Running /\ Pop
    \/ Running /\ Mov
    \/ Running /\ Xor
    \/ Running /\ Align
    \/ Running /\ CallOver
    \/ Running /\ Load
    \/ Running /\ Call
    \/ Running /\ Jump
    \/ Running /\ BooterReturns

Spec == Init /\ [][Next]_vars
=============================================================================
