------------------------- MODULE RouteVirtualProofs -------------------------
(***************************************************************************)
(* No caller of a routed virtual function ever jumps through an orgFunc    *)
(* that is not set: for any number of plugins and callers, even if the     *)
(* plugins' calls of routeVirtual() overlap or are repeated.  Until some   *)
(* wrapper is let through twice the chain of wrappers ends, and until two  *)
(* calls of routeVirtual() overlap, too, it loses no plugin.               *)
(***************************************************************************)
EXTENDS RouteVirtual, TLAPS

(* The strengthening of the invariants *)

\* orgFunc of every plugin that can be reached is set.
Reached == {slot} \cup {org[r] : r \in Routers} \cup {at[c] : c \in Callers}

OrgIsSet ==
    \A r \in Wrappers : r \in Reached \/ pc[r] = "write" => org[r] # Null

\* Only plugins that have routed are found in the slot and in orgFuncs.
OnlyRouted ==
    /\ slot \in routed \cup {Original}
    /\ \A r \in Routers : org[r] \in routed \cup {Original, Null}

\* Until the test lets a wrapper through twice, whoever is past it has not routed.
RoutesOnce ==
    ~ twice => \A r \in Wrappers : pc[r] \in {"save", "write"} => r \notin routed

\* Until two calls overlap, what the plugin that is routing has saved stays in the
\* slot.
OneAtATime ==
    ~ overlapped =>
        /\ \A r, s \in Routers : pc[r] # "idle" /\ pc[s] # "idle" => r = s
        /\ \A r \in Wrappers : pc[r] = "write" => org[r] = slot

Links == OnlyRouted /\ RoutesOnce /\ OneAtATime

\* Every call of routeVirtual() and every call through the slot keeps the
\* control state and the functions it handles within their types.
THEOREM TypeCorrect == Spec => []TypeOK
<1> USE RouteVirtualAssumption
<1>1. Init => TypeOK
  <2> SUFFICES ASSUME Init PROVE TypeOK
    OBVIOUS
  <2>1. twice \in BOOLEAN /\ overlapped \in BOOLEAN
    BY DEF Init
  <2> QED
    BY <2>1 DEF Init, TypeOK, Functions
<1>2. TypeOK /\ [Next]_vars => TypeOK'
  <2> SUFFICES ASSUME TypeOK, [Next]_vars PROVE TypeOK'
    OBVIOUS
  <2> USE DEF TypeOK, Functions, Wrappers
  <2>1. ASSUME NEW r \in Routers, Route(r) PROVE TypeOK'
    <3>1. CASE Call(r)
      <4>1. overlapped' \in BOOLEAN
        BY <3>1 DEF Call
      <4> QED
        BY <3>1, <4>1 DEF Call
    <3>2. CASE RefuseNull(r) BY <3>2 DEF RefuseNull, Finish
    <3>3. CASE Test(r)
      <4>1. twice' \in BOOLEAN
        BY <3>3 DEF Test
      <4> QED
        BY <3>3, <4>1 DEF Test, Finish
    <3>4. CASE Save(r)      BY <3>4 DEF Save
    <3>5. CASE Write(r)     BY <3>5 DEF Write, Finish
    <3>6. QED BY <2>1, <3>1, <3>2, <3>3, <3>4, <3>5 DEF Route
  <2>2. ASSUME NEW c \in Callers, Enter(c) \/ Forward(c) \/ Leave(c) PROVE TypeOK'
    <3>1. CASE Enter(c)   BY <3>1 DEF Enter
    <3>2. CASE Forward(c) BY <3>2 DEF Forward
    <3>3. CASE Leave(c)   BY <3>3 DEF Leave
    <3>4. QED BY <2>2, <3>1, <3>2, <3>3
  <2>3. CASE UNCHANGED vars
    BY <2>3 DEF vars
  <2>4. QED
    BY <2>1, <2>2, <2>3 DEF Next
<1>3. QED
  BY <1>1, <1>2, PTL DEF Spec

\* orgFunc is set in every wrapper that the slot, a caller or another wrapper's
\* orgFunc leads to.
Sound == TypeOK /\ OrgIsSet /\ NeverCallsNull

\* A step of routeVirtual() keeps this: Save fills orgFunc with a function that
\* is reached already, and Write publishes a plugin whose orgFunc is set.
LEMMA RouteKeeps ==
    ASSUME NEW r \in Routers, Sound, Route(r), TypeOK'
    PROVE  OrgIsSet' /\ NeverCallsNull'
<1> USE RouteVirtualAssumption
<1> USE DEF Sound, TypeOK, OrgIsSet, NeverCallsNull, Reached, Functions, Wrappers
<1>1. CASE Call(r)       BY <1>1 DEF Call
<1>2. CASE RefuseNull(r) BY <1>2 DEF RefuseNull, Finish
<1>3. CASE Test(r)       BY <1>3 DEF Test, Finish
<1>4. CASE Save(r)       BY <1>4 DEF Save
<1>5. CASE Write(r)      BY <1>5 DEF Write, Finish
<1>6. QED
  BY <1>1, <1>2, <1>3, <1>4, <1>5 DEF Route

\* A caller's step keeps it: it moves along an orgFunc that is set.
LEMMA CallKeeps ==
    ASSUME NEW c \in Callers, Sound, Enter(c) \/ Forward(c) \/ Leave(c), TypeOK'
    PROVE  OrgIsSet' /\ NeverCallsNull'
<1> USE RouteVirtualAssumption
<1> USE DEF Sound, TypeOK, OrgIsSet, NeverCallsNull, Reached, Functions, Wrappers
<1>1. CASE Enter(c)   BY <1>1 DEF Enter
<1>2. CASE Forward(c) BY <1>2 DEF Forward
<1>3. CASE Leave(c)
  <2>1. c \in Callers /\ at' = [at EXCEPT ![c] = "outside"] /\ slot' = slot /\ org' = org /\ pc' = pc
    BY <1>3 DEF Leave
  <2>2. \A d \in Callers : at'[d] = at[d] \/ at'[d] = "outside"
    BY <2>1
  <2>3. \A r \in Wrappers : r \in Reached' => r \in Reached
    BY <2>1, <2>2
  <2>4. QED
    BY <2>1, <2>2, <2>3
<1>4. QED
  BY <1>1, <1>2, <1>3

\* Every orgFunc that can be reached is set, and no caller is at Null.
LEMMA OrgIsAlwaysSet == Spec => [](OrgIsSet /\ NeverCallsNull)
<1> USE RouteVirtualAssumption
<1>1. Init => OrgIsSet /\ NeverCallsNull
  BY DEF Init, OrgIsSet, NeverCallsNull, Reached, Wrappers
<1>2. Sound /\ [Next]_vars /\ TypeOK' => OrgIsSet' /\ NeverCallsNull'
  <2> SUFFICES ASSUME Sound, [Next]_vars, TypeOK'
               PROVE  OrgIsSet' /\ NeverCallsNull'
    OBVIOUS
  <2>1. CASE UNCHANGED vars
    BY <2>1 DEF vars, Sound, OrgIsSet, NeverCallsNull, Reached
  <2>2. QED
    BY <2>1, RouteKeeps, CallKeeps DEF Next
<1>3. QED
  BY <1>1, <1>2, TypeCorrect, PTL DEF Spec, Sound

\* No caller ever jumps through an unset orgFunc (routeVirtual() writes orgFunc
\* before the slot), whatever plugins route and however their calls overlap.
THEOREM WrappersFindTheirOriginal == Spec => []NeverCallsNull
<1> QED
  BY OrgIsAlwaysSet, PTL

-----------------------------------------------------------------------------
(* The chain *)

IsLeastClosed(C) ==
    /\ slot \in C
    /\ \A w \in C \cap Wrappers : org[w] \in C
    /\ \A S : Closed(S) => C \subseteq S

\* The functions a call through the slot may come to are the least closed set.
LEMMA ChainIsLeast == TypeOK => IsLeastClosed(Chain)
<1> SUFFICES ASSUME TypeOK PROVE IsLeastClosed(Chain)
  OBVIOUS
<1> USE DEF TypeOK, Closed, Wrappers, IsLeastClosed
<1>1. slot \in Chain
  BY DEF Chain
<1>2. ASSUME NEW w \in Chain \cap Wrappers PROVE org[w] \in Chain
  BY <1>2 DEF Chain
<1>3. ASSUME NEW S, Closed(S) PROVE Chain \subseteq S
  <2> DEFINE T == S \cap (Functions \cup {Null})
  <2>1. Closed(T)
    BY <1>3
  <2> QED
    BY <2>1 DEF Chain
<1> QED
  BY <1>1, <1>2, <1>3

\* And so they are after a step.
LEMMA ChainIsLeastNext == TypeOK' => IsLeastClosed(Chain)'
<1> QED
  BY ChainIsLeast, PTL

\* A plugin that has not routed the slot is not in the chain.
LEMMA ChainIsRouted ==
    ASSUME TypeOK, OnlyRouted
    PROVE  Chain \subseteq routed \cup {Original, Null}
<1>1. Closed(routed \cup {Original, Null})
  BY DEF Closed, OnlyRouted, Wrappers
<1> QED
  BY <1>1, ChainIsLeast DEF IsLeastClosed

\* Every step of plugins and callers keeps what is known of the links between the
\* slot and the orgFuncs.
LEMMA LinksKept ==
    ASSUME TypeOK, Links, [Next]_vars
    PROVE  Links'
<1> USE RouteVirtualAssumption
<1> USE DEF TypeOK, Links, OnlyRouted, RoutesOnce, OneAtATime, Functions, Wrappers
<1>1. ASSUME NEW r \in Routers, Route(r) PROVE Links'
  <2>1. CASE Call(r)
    <3>1. OnlyRouted' /\ RoutesOnce'
      BY <2>1 DEF Call
    <3>2. ASSUME ~ overlapped' PROVE ~ overlapped /\ \A s \in Routers : pc[s] = "idle"
      BY <2>1, <3>2 DEF Call
    <3>3. OneAtATime'
      BY <2>1, <3>2 DEF Call
    <3> QED
      BY <3>1, <3>3
  <2>2. CASE RefuseNull(r) BY <2>2 DEF RefuseNull, Finish
  <2>3. CASE Test(r)
    <3>1. OnlyRouted' /\ OneAtATime'
      BY <2>3 DEF Test, Finish
    <3>2. ~ twice' => ~ twice /\ ~ Behind(r)
      BY <2>3 DEF Test
    <3>3. RoutesOnce'
      BY <2>3, <3>2 DEF Test, Behind, Finish
    <3> QED
      BY <3>1, <3>3
  <2>4. CASE Save(r)
    <3>1. OnlyRouted'
      BY <2>4 DEF Save
    <3>2. RoutesOnce' /\ OneAtATime'
      BY <2>4 DEF Save
    <3> QED
      BY <3>1, <3>2
  <2>5. CASE Write(r)      BY <2>5 DEF Write, Finish
  <2> QED
    BY <1>1, <2>1, <2>2, <2>3, <2>4, <2>5 DEF Route
<1>2. ASSUME NEW c \in Callers, Enter(c) \/ Forward(c) \/ Leave(c) PROVE Links'
  BY <1>2 DEF Enter, Forward, Leave
<1>3. CASE UNCHANGED vars
  BY <1>3 DEF vars
<1> QED
  BY <1>1, <1>2, <1>3 DEF Next

\* The links hold always.
LEMMA LinksAlways == Spec => []Links
<1>1. Init => Links
  BY RouteVirtualAssumption DEF Init, Links, OnlyRouted, RoutesOnce, OneAtATime, Wrappers
<1>2. TypeOK /\ Links /\ [Next]_vars => Links'
  BY LinksKept
<1> QED
  BY <1>1, <1>2, TypeCorrect, PTL DEF Spec

\* Storing to orgFunc does not touch the chain, which the plugin is not in yet.
LEMMA SaveKeepsChain ==
    ASSUME NEW r \in Routers, Save(r), TypeOK, Links, ~ twice, TypeOK'
    PROVE  Chain \subseteq Chain'
<1>1. r \notin Chain
  BY ChainIsRouted, RouteVirtualAssumption DEF Save, Links, RoutesOnce, TypeOK
<1>2. slot' = slot /\ \A w \in Routers \ {r} : org'[w] = org[w]
  BY DEF Save, TypeOK
<1>3. slot' \in Chain' /\ \A w \in Chain' \cap Wrappers : org'[w] \in Chain'
  BY ChainIsLeastNext DEF IsLeastClosed
<1>4. Closed(Chain \cap Chain')
  BY <1>1, <1>2, <1>3, ChainIsLeast DEF Closed, Wrappers, IsLeastClosed
<1> QED
  BY <1>4, ChainIsLeast DEF IsLeastClosed

\* Writing the slot puts the plugin in front of the chain, if it forwards.
LEMMA WriteExtendsChain ==
    ASSUME NEW r \in Routers, Write(r), TypeOK, Links, ~ overlapped, TypeOK'
    PROVE  r \in Chain' /\ (r \in Wrappers => Chain \subseteq Chain')
<1>1. slot' = r /\ org' = org
  BY DEF Write
<1>2. slot' \in Chain' /\ \A w \in Chain' \cap Wrappers : org'[w] \in Chain'
  BY ChainIsLeastNext DEF IsLeastClosed
<1>3. r \in Chain'
  BY <1>1, <1>2
<1>4. ASSUME r \in Wrappers PROVE Chain \subseteq Chain'
  <2>1. org[r] = slot
    BY <1>4 DEF Write, Links, OneAtATime
  <2>2. Closed(Chain')
    BY <1>1, <1>2, <1>3, <1>4, <2>1 DEF Closed
  <2> QED
    BY <2>2, ChainIsLeast DEF IsLeastClosed
<1> QED
  BY <1>3, <1>4

\* All other steps leave the chain as it is, and tell nobody "true".
LEMMA ChainUntouched ==
    ASSUME [Next]_vars, TypeOK, ~ \E r \in Routers : Save(r) \/ Write(r)
    PROVE  /\ Chain' = Chain
           /\ \A r \in Routers : result'[r] = "true" => result[r] = "true"
<1>1. UNCHANGED <<slot, org>>
  BY DEF Next, Route, Call, RefuseNull, Test, Enter, Forward, Leave, vars
<1>2. \A r \in Routers : result'[r] = "true" => result[r] = "true"
  BY DEF Next, Route, Call, RefuseNull, Test, Finish, Enter, Forward, Leave, vars, TypeOK
<1> QED
  BY <1>1, <1>2 DEF Chain, Closed

\* Every step keeps the plugins that succeeded.
LEMMA SuccessKept ==
    ASSUME TypeOK, Links, SuccessIsKept, [Next]_vars, TypeOK'
    PROVE  SuccessIsKept'
<1> SUFFICES ASSUME ~ twice', ~ overlapped' PROVE SuccessIsKept'
  BY DEF SuccessIsKept
<1>1. ~ twice /\ ~ overlapped
  BY DEF Next, Route, Call, RefuseNull, Test, Save, Write, Enter, Forward, Leave, vars, TypeOK
<1>2. ASSUME Chain \subseteq Chain',
             \A s \in Routers : result'[s] = "true" => result[s] = "true" \/ s \in Chain'
      PROVE  SuccessIsKept'
  BY <1>1, <1>2 DEF SuccessIsKept
<1>3. ASSUME NEW r \in Routers, Save(r) PROVE SuccessIsKept'
  BY <1>1, <1>2, <1>3, SaveKeepsChain DEF Save
<1>4. ASSUME NEW r \in Routers, Write(r) PROVE SuccessIsKept'
  <2>1. r \in Chain' /\ (r \in Wrappers => Chain \subseteq Chain')
    BY <1>1, <1>4, WriteExtendsChain
  <2>2. CASE r \in Wrappers
    <3>1. \A s \in Routers \ {r} : result'[s] = result[s]
      BY <1>4 DEF Write, Finish, TypeOK
    <3> QED
      BY <1>2, <2>1, <2>2, <3>1
  <2>3. CASE r \in Terminals
    BY <2>1, <2>3 DEF SuccessIsKept
  <2> QED
    BY <2>2, <2>3 DEF Wrappers
<1>5. CASE ~ \E r \in Routers : Save(r) \/ Write(r)
  <2>1. Chain' = Chain /\ \A s \in Routers : result'[s] = "true" => result[s] = "true"
    BY <1>5, ChainUntouched
  <2> QED
    BY <1>2, <2>1
<1> QED
  BY <1>3, <1>4, <1>5

\* A plugin that routeVirtual() told "true" stays in the chain until one in front of
\* it does not forward, two calls overlap, or a wrapper is let through twice.
THEOREM SuccessIsAlwaysKept == Spec => []SuccessIsKept
<1>1. Init => SuccessIsKept
  BY DEF Init, SuccessIsKept
<1>2. TypeOK /\ Links /\ SuccessIsKept /\ [Next]_vars /\ TypeOK' => SuccessIsKept'
  BY SuccessKept
<1> QED
  BY <1>1, <1>2, TypeCorrect, LinksAlways, PTL DEF Spec

-----------------------------------------------------------------------------
(* No cycle *)

\* No wrappers forward to each other only: whoever follows orgFunc from a wrapper,
\* in the chain or not, is led out of every set of wrappers, so a call that has
\* entered the slot cannot go round in circles however it is overtaken.
NoCycle ==
    ~ \E S \in SUBSET Wrappers : S # {} /\ \A w \in S : org[w] \in S

\* Only Save changes orgFunc, and what it links to is in front of a chain without
\* the plugin: were there a cycle through the plugin, the other wrappers of it
\* would have been one before.
LEMMA SaveClosesNoCycle ==
    ASSUME NEW r \in Routers, Save(r), TypeOK, Links, ~ twice, NoCycle
    PROVE  NoCycle'
<1> USE RouteVirtualAssumption
<1> SUFFICES ASSUME NEW S \in SUBSET Wrappers, S # {}, \A w \in S : org'[w] \in S
             PROVE  FALSE
  BY DEF NoCycle, Wrappers
<1>1. /\ org'[r] = slot
      /\ \A w \in Routers \ {r} : org'[w] = org[w]
  BY DEF Save, TypeOK
<1>2. r \notin routed /\ slot # r
  BY DEF Save, Links, OnlyRouted, RoutesOnce, TypeOK
<1>3. \A w \in S \ {r} : org[w] \in S \ {r}
  BY <1>1, <1>2 DEF Links, OnlyRouted, Wrappers
<1>4. S \ {r} # {}
  <2>1. CASE r \in S
    BY <1>1, <1>2, <2>1
  <2> QED
    BY <2>1
<1>5. S \ {r} \in SUBSET Wrappers
  OBVIOUS
<1> QED
  BY <1>3, <1>4, <1>5 DEF NoCycle

\* Until a wrapper is let through twice, orgFuncs never lead in a circle, however
\* calls of routeVirtual() overlap: every call through the slot, one that began
\* long ago included, has a way out of the wrappers.
THEOREM NoCycleEver == Spec => [](~ twice => NoCycle)
<1>1. Init => NoCycle
  <2> SUFFICES ASSUME Init, NEW S \in SUBSET Wrappers, S # {}, \A w \in S : org[w] \in S
               PROVE  FALSE
    BY DEF NoCycle
  <2>1. PICK w \in S : TRUE
    OBVIOUS
  <2>2. org[w] = Null /\ Null \notin S
    BY RouteVirtualAssumption DEF Init, Wrappers
  <2> QED
    BY <2>1, <2>2
<1>2. TypeOK /\ Links /\ (~ twice => NoCycle) /\ [Next]_vars => (~ twice => NoCycle)'
  <2> SUFFICES ASSUME TypeOK, Links, ~ twice => NoCycle, [Next]_vars, ~ twice'
               PROVE  NoCycle'
    OBVIOUS
  <2>1. ~ twice /\ NoCycle
    BY DEF Next, Route, Call, RefuseNull, Test, Save, Write, Enter, Forward, Leave, vars, TypeOK
  <2>2. ASSUME NEW r \in Routers, Save(r) PROVE NoCycle'
    BY <2>1, <2>2, SaveClosesNoCycle
  <2>3. CASE ~ \E r \in Routers : Save(r)
    <3>1. org' = org
      BY <2>3 DEF Next, Route, Call, RefuseNull, Test, Write, Enter, Forward, Leave, vars
    <3> QED
      BY <2>1, <3>1 DEF NoCycle
  <2> QED
    BY <2>2, <2>3
<1> QED
  BY <1>1, <1>2, LinksAlways, TypeCorrect, PTL DEF Spec

\* Without a cycle a chain of functions that are set comes to one that does not
\* forward.
LEMMA ChainLeavesWrappers ==
    ASSUME TypeOK, OrgIsSet, NoCycle
    PROVE  Chain \cap (Terminals \cup {Original}) # {}
<1> USE RouteVirtualAssumption
<1> USE DEF TypeOK, Functions, Wrappers
<1> SUFFICES ASSUME Chain \cap (Terminals \cup {Original}) = {} PROVE FALSE
  OBVIOUS
<1>1. slot \in Chain /\ \A w \in Chain \cap Wrappers : org[w] \in Chain
  BY ChainIsLeast DEF IsLeastClosed
<1>2. Closed({f \in Functions : f \in Reached})
  BY DEF Closed, OrgIsSet, Reached
<1>3. Chain \subseteq Functions
  BY <1>2, ChainIsLeast DEF IsLeastClosed
<1>4. Chain \in SUBSET Wrappers
  BY <1>3
<1> QED
  BY <1>1, <1>4 DEF NoCycle

\* Until a wrapper is let through twice, the functions a call through the slot may
\* come to include one that does not forward, however calls of routeVirtual()
\* overlap.
THEOREM ChainsAlwaysEnd == Spec => []ChainEnds
<1>1. TypeOK /\ OrgIsSet /\ (~ twice => NoCycle) => ChainEnds
  BY ChainLeavesWrappers DEF ChainEnds
<1> QED
  BY <1>1, TypeCorrect, OrgIsAlwaysSet, NoCycleEver, PTL
=============================================================================
