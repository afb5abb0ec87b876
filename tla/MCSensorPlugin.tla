---------------------------- MODULE MCSensorPlugin ----------------------------
(***************************************************************************)
(* A plugin such as SMCProcessor is built with both SDKs: it looks symbols *)
(* up with solveMultiple() and has keys for VirtualSMC.  The two parts     *)
(* have no variable in common, so that a behaviour of the plugin is one of *)
(* each part.  A behaviour of this module takes either the one or the      *)
(* other; their interleavings would show the same states of both again.   *)
(***************************************************************************)
EXTENDS SolveMultiple, SmcPlugin, TLC

\* Two symbols, one of them asked for twice.
MCRequests == <<"s1", "s2", "s1">>

\* One kext in the middle of an 8-address space, one that ends at its top.
MCRanges == {[start |-> 2, size |-> 2], [start |-> 5, size |-> 2], [start |-> 6, size |-> 2]}

\* Five names that a comparison of the wrong end, or of one byte, confuses.
MCNames == {<<0, 1, 1, 0>>, <<0, 1, 0, 2>>, <<2, 0, 0, 1>>, <<1, 2, 0, 0>>, <<1, 2, 2, 0>>}

MCInit == Init /\ SmcInit

\* Nothing has happened to a vector of keys or to the device yet.
KeysUntouched == phase = "device" /\ filled = {}

\* Only the initial states have such a table and nothing else.
SymbolsUntouched ==
    /\ table = [s \in Symbols |-> 0]
    /\ result = "none" /\ pc = "idle"
    /\ address = [i \in Indices |-> 0]
    /\ ~ force /\ ~ crash

MCNext ==
    \/ KeysUntouched /\ Next /\ UNCHANGED smcvars
    \/ SymbolsUntouched /\ SmcNext /\ UNCHANGED vars

MCSpec == MCInit /\ [][MCNext]_<<vars, smcvars>>
=============================================================================
