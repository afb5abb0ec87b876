------------------------------ MODULE RtcDirect ------------------------------
(***************************************************************************)
(* RTCStorage::readDirect() and writeDirect() of Lilu's kern_rtc.hpp, the  *)
(* overloads that find the clock themselves, on a machine started with the *)
(* SSDTs of AcpiTables.  Several threads call them; the device is found by *)
(* its name and is reference-counted, as is the dictionary that describes  *)
(* it.                                                                     *)
(***************************************************************************)
EXTENDS AcpiTables

CONSTANTS
    Threads,   \* the callers
    Bank,      \* RTC_BANK_SIZE
    Sizes      \* the sizes they ask for

ASSUME RtcAssumption ==
    /\ IsFiniteSet(Threads)
    /\ Bank \in Nat \ {0}
    /\ Sizes \subseteq Nat

VARIABLES
    oldSdk,    \* built for a system before 10.6: waitForService() is used
    pc,        \* pc[t]: control state of thread t
    req,       \* req[t]: the offset and the size it asks for
    ret,       \* ret[t]: what its call has returned
    devRefs,   \* references to the clock device that callers hold
    dictRefs   \* references to matching dictionaries

rvars == <<oldSdk, pc, req, ret, devRefs, dictRefs>>
vars == <<avars, rvars>>

RtcInit ==
    /\ oldSdk \in BOOLEAN
    /\ pc = [t \in Threads |-> "idle"]
    /\ req = [t \in Threads |-> [off |-> 0, size |-> 0]]
    /\ ret = [t \in Threads |-> Null]
    /\ devRefs = 0 /\ dictRefs = 0

Init == AcpiInit /\ RtcInit

Goto(t, label) == pc' = [pc EXCEPT ![t] = label]

Return(t, result) ==
    /\ Goto(t, "idle")
    /\ ret' = [ret EXCEPT ![t] = result]
    /\ req' = [req EXCEPT ![t] = [off |-> 0, size |-> 0]]

\* A kext calls, at any time after the kernel has the tables.
Call(t, off, size) ==
    /\ Darwin /\ Running
    /\ pc[t] = "idle"
    /\ Goto(t, "check")
    /\ req' = [req EXCEPT ![t] = [off |-> off, size |-> size]]
    /\ ret' = [ret EXCEPT ![t] = Null]
    /\ UNCHANGED <<avars, oldSdk, devRefs, dictRefs>>

\* size > RTC_BANK_SIZE*2 - off: operands of one and two bytes, promoted to int.
TooLarge(r) == r.size > 2 * Bank - r.off

Refuse(t) ==
    /\ pc[t] = "check"
    /\ TooLarge(req[t])
    /\ Return(t, FALSE)
    /\ UNCHANGED <<avars, oldSdk, devRefs, dictRefs>>

\* IOService::nameMatching("PNP0B00")
Match(t) ==
    /\ pc[t] = "check"
    /\ ~ TooLarge(req[t])
    /\ Goto(t, "wait")
    /\ dictRefs' = dictRefs + 1
    /\ UNCHANGED <<avars, oldSdk, req, ret, devRefs>>

MatchFails(t) ==
    /\ pc[t] = "check"
    /\ ~ TooLarge(req[t])
    /\ Return(t, FALSE)
    /\ UNCHANGED <<avars, oldSdk, devRefs, dictRefs>>

\* waitForService() uses up the dictionary and returns the device without a
\* reference, which the caller takes; waitForMatchingService() does neither,
\* and returns a reference.  Both wait for as long as there is no such device,
\* unless they come back with none.
WaitForService(t) ==
    /\ oldSdk
    /\ pc[t] = "wait"
    /\ Clocks # {}
    /\ dictRefs' = dictRefs - 1
    /\ Goto(t, "retain")
    /\ UNCHANGED <<avars, oldSdk, req, ret, devRefs>>

WaitForServiceFails(t) ==
    /\ oldSdk
    /\ pc[t] = "wait"
    /\ dictRefs' = dictRefs - 1
    /\ Return(t, FALSE)
    /\ UNCHANGED <<avars, oldSdk, devRefs>>

Retain(t) ==
    /\ pc[t] = "retain"
    /\ devRefs' = devRefs + 1
    /\ Goto(t, "cast")
    /\ UNCHANGED <<avars, oldSdk, req, ret, dictRefs>>

WaitForMatchingService(t) ==
    /\ ~ oldSdk
    /\ pc[t] = "wait"
    /\ Clocks # {}
    /\ devRefs' = devRefs + 1
    /\ Goto(t, "release")
    /\ UNCHANGED <<avars, oldSdk, req, ret, dictRefs>>

\* Variant: the dictionary is released only if there is a device.
WaitForMatchingServiceFailsLeaks(t) ==
    /\ ~ oldSdk
    /\ pc[t] = "wait"
    /\ Return(t, FALSE)
    /\ UNCHANGED <<avars, oldSdk, devRefs, dictRefs>>

WaitForMatchingServiceFails(t) ==
    /\ ~ oldSdk
    /\ pc[t] = "wait"
    /\ Goto(t, "releaseNull")
    /\ UNCHANGED <<avars, oldSdk, req, ret, devRefs, dictRefs>>

\* matching->release(), and the test of the device.
ReleaseMatching(t) ==
    /\ dictRefs' = dictRefs - 1
    /\ \/ pc[t] = "release" /\ Goto(t, "cast") /\ UNCHANGED <<req, ret>>
       \/ pc[t] = "releaseNull" /\ Return(t, FALSE)
    /\ UNCHANGED <<avars, oldSdk, devRefs>>

CastSucceeds(t) ==
    /\ pc[t] = "cast"
    /\ Goto(t, "access")
    /\ UNCHANGED <<avars, oldSdk, req, ret, devRefs, dictRefs>>

\* The device is not an IOACPIPlatformDevice.
CastFails(t) ==
    /\ pc[t] = "cast"
    /\ devRefs' = devRefs - 1
    /\ Return(t, FALSE)
    /\ UNCHANGED <<avars, oldSdk, dictRefs>>

\* The access through the device, rtc->release() and the result.
Access(t) ==
    /\ pc[t] = "access"
    /\ devRefs' = devRefs - 1
    /\ Return(t, TRUE)
    /\ UNCHANGED <<avars, oldSdk, dictRefs>>

ThreadGoesOn(t) ==
    \/ Refuse(t)
    \/ Match(t)
    \/ MatchFails(t)
    \/ WaitForService(t)
    \/ Retain(t)
    \/ WaitForMatchingService(t)
    \/ ReleaseMatching(t)
    \/ CastSucceeds(t)
    \/ CastFails(t)
    \/ Access(t)

ThreadStep(t) ==
    \/ ThreadGoesOn(t)
    \/ WaitForServiceFails(t)
    \/ WaitForMatchingServiceFails(t)

Next ==
    \/ Rename /\ UNCHANGED rvars
    \/ LoadTable /\ UNCHANGED rvars
    \/ Initialise /\ UNCHANGED rvars
    \/ \E gpe \in Gpes, sleep \in Sleeps : EvaluatePrw(gpe, sleep) /\ UNCHANGED rvars
    \/ \E t \in Threads, off \in 0 .. (2 * Bank - 1), size \in Sizes : Call(t, off, size)
    \/ \E t \in Threads : ThreadStep(t)

\* A thread that can go on does; a wait that finds no device need not give up.
Spec ==
    /\ Init
    /\ [][Next]_vars
    /\ \A t \in Threads : WF_vars(ThreadGoesOn(t))

-----------------------------------------------------------------------------
(* Safety *)

Count(labels) == Cardinality({t \in Threads : pc[t] \in labels})

\* On every path, and with both ways of waiting, whether they find a device or
\* not, the references held are those of the calls that are under way: none is
\* lost and none is given back twice.
RefsBalanced ==
    /\ devRefs = Count({"release", "cast", "access"})
    /\ dictRefs = Count({"wait", "release", "releaseNull"})

(* Type invariant *)

Labels ==
    {"idle", "check", "wait", "retain", "release", "releaseNull", "cast", "access"}

TypeOK ==
    /\ pc \in [Threads -> Labels]
    /\ req \in [Threads -> [off : Nat, size : Nat]]

(* Liveness *)

\* The wait has no timeout; it ends because the tables leave Darwin a clock on
\* every firmware.
RtcAnswers == \A t \in Threads : pc[t] = "check" ~> pc[t] = "idle"
=============================================================================
