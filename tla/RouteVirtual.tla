---------------------------- MODULE RouteVirtual ----------------------------
(***************************************************************************)
(* KernelPatcher::routeVirtual() of Lilu's kern_patcher.hpp on one slot of *)
(* a virtual table, which all objects of a class share.  Several plugins   *)
(* replace the function in the slot by wrappers of their own, while other  *)
(* threads call through it.  A wrapper ends by calling the function it     *)
(* found in its orgFunc, unless it was routed without one.                 *)
(*                                                                         *)
(* The reads and writes of the slot are plain ones: one action is one      *)
(* access to the slot or to orgFunc, in the order of the source.  Plugins  *)
(* may overtake each other between these accesses, and may route again.    *)
(***************************************************************************)
EXTENDS Integers, FiniteSets

CONSTANTS
    Routers,     \* the plugins; each routes the slot to a function of its own
    Terminals,   \* those that pass no orgFunc
    Callers,     \* threads calling the virtual function
    Original,    \* the function the class was built with
    Null

ASSUME RouteVirtualAssumption ==
    /\ IsFiniteSet(Routers)
    /\ Terminals \subseteq Routers
    /\ Original \notin Routers
    /\ Null \notin Routers \cup {Original, "outside"}
    /\ "outside" \notin Routers \cup {Original}

VARIABLES
    slot,     \* vt[off]
    org,      \* org[r]: *orgFunc of plugin r
    pc,       \* pc[r]: where plugin r is in routeVirtual()
    result,   \* result[r]: what its last call returned
    at,       \* at[c]: the function caller c is executing, or "outside"
    routed,   \* history: the plugins that have written the slot
    twice,    \* history: a wrapper was let through again behind another function
    overlapped  \* history: a plugin has called while another one was routing

vars == <<slot, org, pc, result, at, routed, twice, overlapped>>

Functions == Routers \cup {Original}
Wrappers == Routers \ Terminals

Init ==
    /\ slot = Original
    /\ org = [r \in Routers |-> Null]
    /\ pc = [r \in Routers |-> "idle"]
    /\ result = [r \in Routers |-> "none"]
    /\ at = [c \in Callers |-> "outside"]
    /\ routed = {}
    /\ twice = FALSE
    /\ overlapped = FALSE

-----------------------------------------------------------------------------
(* routeVirtual(obj, off, func, orgFunc) *)

Call(r) ==
    /\ pc[r] = "idle"
    /\ pc' = [pc EXCEPT ![r] = "test"]
    /\ result' = [result EXCEPT ![r] = "none"]
    /\ overlapped' = (overlapped \/ \E s \in Routers : pc[s] # "idle")
    /\ UNCHANGED <<slot, org, at, routed, twice>>

Finish(r, answer) ==
    /\ pc' = [pc EXCEPT ![r] = "idle"]
    /\ result' = [result EXCEPT ![r] = answer]

\* A null object has no table.
RefuseNull(r) ==
    /\ pc[r] = "test"
    /\ Finish(r, "false")
    /\ UNCHANGED <<slot, org, at, routed, twice, overlapped>>

\* Plugin r forwards, and another function was put in front of it.
Behind(r) == r \in routed \cap Wrappers /\ slot # r

\* Variant: without the test `vt[off] == func`.
TestNothing(r) ==
    /\ pc[r] = "test"
    /\ pc' = [pc EXCEPT ![r] = IF r \in Wrappers THEN "save" ELSE "write"]
    /\ twice' = (twice \/ Behind(r))
    /\ UNCHANGED <<slot, org, result, at, routed, overlapped>>

\* Variant: the slot is written before orgFunc.
TestThenPublish(r) ==
    /\ pc[r] = "test"
    /\ slot' = r
    /\ pc' = [pc EXCEPT ![r] = IF r \in Wrappers THEN "save" ELSE "write"]
    /\ twice' = (twice \/ Behind(r))
    /\ UNCHANGED <<org, result, at, routed, overlapped>>

\* Variant: orgFunc is stored through without the test `if (orgFunc)`.
TestThenSave(r) ==
    /\ pc[r] = "test"
    /\ IF slot = r
       THEN Finish(r, "false")
       ELSE pc' = [pc EXCEPT ![r] = "save"] /\ UNCHANGED result
    /\ twice' = (twice \/ Behind(r))
    /\ UNCHANGED <<slot, org, at, routed, overlapped>>

\* if (vt[off] == func) return false
Test(r) ==
    /\ pc[r] = "test"
    /\ IF slot = r
       THEN Finish(r, "false")
       ELSE /\ pc' = [pc EXCEPT ![r] = IF r \in Wrappers THEN "save" ELSE "write"]
            /\ UNCHANGED result
    /\ twice' = (twice \/ Behind(r))
    /\ UNCHANGED <<slot, org, at, routed, overlapped>>

\* Variant: orgFunc is always given the function the class was built with.
SaveBuiltin(r) ==
    /\ pc[r] = "save"
    /\ org' = [org EXCEPT ![r] = Original]
    /\ pc' = [pc EXCEPT ![r] = "write"]
    /\ UNCHANGED <<slot, result, at, routed, twice, overlapped>>

\* if (orgFunc) *orgFunc = vt[off]: a read of its own, after the test's.
Save(r) ==
    /\ pc[r] = "save"
    /\ org' = [org EXCEPT ![r] = slot]
    /\ pc' = [pc EXCEPT ![r] = "write"]
    /\ UNCHANGED <<slot, result, at, routed, twice, overlapped>>

\* vt[off] = func
Write(r) ==
    /\ pc[r] = "write"
    /\ slot' = r
    /\ routed' = routed \cup {r}
    /\ Finish(r, "true")
    /\ UNCHANGED <<org, at, twice, overlapped>>

Route(r) == Call(r) \/ RefuseNull(r) \/ Test(r) \/ Save(r) \/ Write(r)

-----------------------------------------------------------------------------
(* The callers *)

Enter(c) ==
    /\ at[c] = "outside"
    /\ at' = [at EXCEPT ![c] = slot]
    /\ UNCHANGED <<slot, org, pc, result, routed, twice, overlapped>>

\* The wrapper calls the function it replaced.
Forward(c) ==
    /\ at[c] \in Wrappers
    /\ at' = [at EXCEPT ![c] = org[at[c]]]
    /\ UNCHANGED <<slot, org, pc, result, routed, twice, overlapped>>

Leave(c) ==
    /\ at[c] \in Terminals \cup {Original}
    /\ at' = [at EXCEPT ![c] = "outside"]
    /\ UNCHANGED <<slot, org, pc, result, routed, twice, overlapped>>

Next ==
    \/ \E r \in Routers : Route(r)
    \/ \E c \in Callers : Enter(c) \/ Forward(c) \/ Leave(c)

\* A function that was entered runs to its end.
Spec ==
    /\ Init
    /\ [][Next]_vars
    /\ \A c \in Callers : WF_vars(Forward(c) \/ Leave(c))

-----------------------------------------------------------------------------
(* Type invariant *)

TypeOK ==
    /\ slot \in Functions
    /\ org \in [Routers -> Functions \cup {Null}]
    /\ pc \in [Routers -> {"idle", "test", "save", "write"}]
    /\ \A r \in Routers : pc[r] = "save" => r \in Wrappers
    /\ result \in [Routers -> {"none", "true", "false"}]
    /\ at \in [Callers -> Functions \cup {"outside", Null}]
    /\ routed \subseteq Routers
    /\ twice \in BOOLEAN /\ overlapped \in BOOLEAN

(* Safety *)

\* A caller never jumps through an orgFunc that is not set yet: the slot is
\* written after orgFunc, so whoever finds the wrapper finds its orgFunc too.
NeverCallsNull == \A c \in Callers : at[c] # Null

\* A set that holds the function in the slot and, with a wrapper, what the
\* wrapper forwards to.
Closed(S) == slot \in S /\ \A w \in S \cap Wrappers : org[w] \in S

\* The functions a call through the slot may come to: the least such set.
Chain ==
    {f \in Functions \cup {Null} :
        \A S \in SUBSET (Functions \cup {Null}) : Closed(S) => f \in S}

\* However calls of routeVirtual() overlap, the chain ends in the function the
\* class was built with or in one that replaces it for good, as long as no wrapper
\* is routed again behind another function (which the test lets through).
ChainEnds == ~ twice => Chain \cap (Terminals \cup {Original}) # {}

\* A plugin that was told "true" is still in the chain, unless a plugin in
\* front of it does not forward: as long as, besides, no two calls of
\* routeVirtual() have overlapped (the later write then drops the earlier one).
SuccessIsKept ==
    ~ twice /\ ~ overlapped =>
        \A r \in Routers :
            result[r] = "true" => r \in Chain \/ Terminals \cap Chain # {}

\* "Do not try to replace twice!": what routeVirtual() puts in front of the chain
\* is not a function that the chain comes to already, be it that plugins never
\* overtake each other.
NotReplacedTwice ==
    [][\A r \in Routers :
          ~ overlapped /\ slot' = r /\ slot # r => r \notin Chain]_vars

(* Liveness *)

\* Every call through the slot returns, overtaken by whatever routes: no cycle of
\* wrappers is ever entered before some wrapper is let through twice.
EveryCallReturns ==
    \A c \in Callers : at[c] # "outside" ~> at[c] = "outside" \/ twice
=============================================================================
