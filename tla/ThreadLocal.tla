----------------------------- MODULE ThreadLocal -----------------------------
(***************************************************************************)
(* ThreadLocal<T, N> of Lilu's kern_util.hpp: the lock-free container that *)
(* UserPatcher uses to pass a PendingUser from its vnode hook to its code  *)
(* signing hook on the same thread (kern_user.hpp, "pending").             *)
(*                                                                         *)
(* Each slot i has an atomic owner threads[i] and a plain value values[i]. *)
(* A thread searches the slots for its own identifier and, failing that,   *)
(* claims the first free one with a compare-and-swap.  One action is one   *)
(* access to the shared arrays; the position a loop has reached is pos[t]. *)
(***************************************************************************)
EXTENDS Integers, FiniteSets

CONSTANTS
    Threads,          \* identifiers current_thread() may return
    N,                \* the template parameter N: number of slots
    Values,           \* values handed to set(): pointers, none of them null
    Null              \* nullptr, both as a thread and as a T

ASSUME ThreadLocalAssumption ==
    /\ IsFiniteSet(Threads)
    /\ N \in Nat
    /\ Null \notin Threads
    /\ Null \notin Values

VARIABLES
    threads,   \* threads[i]: owner of slot i, or Null
    values,    \* values[i]: value of slot i
    pc,        \* pc[t]: the loop or statement thread t is at
    pos,       \* pos[t]: its loop index; afterwards its pointer into values
    arg,       \* arg[t]: the value given to set()
    res,       \* res[t]: what its last completed call returned
    dpc, dpos, \* control state and index of deinit()
    users,     \* history: the threads that have called set()
    overtaken  \* history: deinit() and an operation have run at once

vars == <<threads, values, pc, pos, arg, res, dpc, dpos, users, overtaken>>

Slots == 0 .. (N - 1)

\* What set(), get() and erase() return.
Results == Values \cup {Null} \cup BOOLEAN

InSet   == {"find", "claim", "store"}
InGet   == {"look", "deref"}
InErase == {"seek", "clear", "release"}

Init ==
    /\ threads = [i \in Slots |-> Null]
    /\ values = [i \in Slots |-> Null]
    /\ pc = [t \in Threads |-> "idle"]
    /\ pos = [t \in Threads |-> 0]
    /\ arg = [t \in Threads |-> Null]
    /\ res = [t \in Threads |-> Null]
    /\ dpc = "off"
    /\ dpos = 0
    /\ users = {}
    /\ overtaken = FALSE

-----------------------------------------------------------------------------
(* Calls and the shape shared by the search loops *)

Call(t, label, v) ==
    /\ pc[t] = "idle"
    /\ pc' = [pc EXCEPT ![t] = label]
    /\ pos' = [pos EXCEPT ![t] = 0]
    /\ arg' = [arg EXCEPT ![t] = v]
    /\ res' = [res EXCEPT ![t] = Null]
    /\ users' = IF label = "find" THEN users \cup {t} ELSE users
    /\ overtaken' = (overtaken \/ dpc # "off")
    /\ UNCHANGED <<threads, values, dpc, dpos>>

\* The locals pos and arg go out of scope.
Return(t, r) ==
    /\ pc' = [pc EXCEPT ![t] = "idle"]
    /\ res' = [res EXCEPT ![t] = r]
    /\ pos' = [pos EXCEPT ![t] = 0]
    /\ arg' = [arg EXCEPT ![t] = Null]
    /\ UNCHANGED <<dpc, dpos, users, overtaken>>

Goto(t, label, p) ==
    /\ pc' = [pc EXCEPT ![t] = label]
    /\ pos' = [pos EXCEPT ![t] = p]
    /\ UNCHANGED <<arg, res, dpc, dpos, users, overtaken>>

\* for (i = 0; i < N; i++) if (threads[i] == currThread) ... : one iteration.
Search(t, loop, found) ==
    /\ pc[t] = loop
    /\ pos[t] < N
    /\ IF threads[pos[t]] = t THEN Goto(t, found, pos[t])
                              ELSE Goto(t, loop, pos[t] + 1)
    /\ UNCHANGED <<threads, values>>

Exhausted(t, loop) == pc[t] = loop /\ pos[t] = N

-----------------------------------------------------------------------------
(* bool set(T value) *)

\* Variant: the search stops at the first free slot instead of going on.
SetFindFree(t) ==
    /\ pc[t] = "find"
    /\ pos[t] < N
    /\ CASE threads[pos[t]] = t -> Goto(t, "store", pos[t])
         [] threads[pos[t]] = Null -> Goto(t, "claim", pos[t])
         [] OTHER -> Goto(t, "find", pos[t] + 1)
    /\ UNCHANGED <<threads, values>>

SetFind(t) == Search(t, "find", "store")

\* Variant: the second loop starts at index 1.
SetNotFoundFrom1(t) ==
    /\ Exhausted(t, "find")
    /\ Goto(t, "claim", 1)
    /\ UNCHANGED <<threads, values>>

SetNotFound(t) ==
    /\ Exhausted(t, "find")
    /\ Goto(t, "claim", 0)
    /\ UNCHANGED <<threads, values>>

\* Variant: a weak compare-and-swap, which may fail on a free slot.
SetClaimWeak(t) ==
    /\ pc[t] = "claim"
    /\ pos[t] < N
    /\ \/ /\ threads[pos[t]] = Null
          /\ threads' = [threads EXCEPT ![pos[t]] = t]
          /\ Goto(t, "store", pos[t])
       \/ /\ Goto(t, "claim", pos[t] + 1)
          /\ UNCHANGED threads
    /\ UNCHANGED values

\* Variant: after a failed compare-and-swap set() starts over.
SetClaimRestarts(t) ==
    /\ pc[t] = "claim"
    /\ pos[t] < N
    /\ IF threads[pos[t]] = Null
       THEN /\ threads' = [threads EXCEPT ![pos[t]] = t]
            /\ Goto(t, "store", pos[t])
       ELSE /\ Goto(t, "find", 0)
            /\ UNCHANGED threads
    /\ UNCHANGED values

\* atomic_compare_exchange_strong(&threads[i], nullptr, currThread)
SetClaim(t) ==
    /\ pc[t] = "claim"
    /\ pos[t] < N
    /\ IF threads[pos[t]] = Null
       THEN /\ threads' = [threads EXCEPT ![pos[t]] = t]
            /\ Goto(t, "store", pos[t])
       ELSE /\ Goto(t, "claim", pos[t] + 1)
            /\ UNCHANGED threads
    /\ UNCHANGED values

SetStore(t) ==
    /\ pc[t] = "store"
    /\ values' = [values EXCEPT ![pos[t]] = arg[t]]
    /\ Return(t, TRUE)
    /\ UNCHANGED threads

\* Variant: without the test `if (ptr)` before the store.
SetFailStores(t) ==
    /\ Exhausted(t, "claim")
    /\ Goto(t, "store", pos[t])
    /\ UNCHANGED <<threads, values>>

SetFail(t) ==
    /\ Exhausted(t, "claim")
    /\ Return(t, FALSE)
    /\ UNCHANGED <<threads, values>>

-----------------------------------------------------------------------------
(* T *get(), and the caller's read through the pointer it returns *)

\* Variant: stops at a slot owned by any thread.
GetLookAnyOwner(t) ==
    /\ pc[t] = "look"
    /\ pos[t] < N
    /\ IF threads[pos[t]] # Null THEN Goto(t, "deref", pos[t])
                                 ELSE Goto(t, "look", pos[t] + 1)
    /\ UNCHANGED <<threads, values>>

GetLook(t) == Search(t, "look", "deref")

GetNothing(t) ==
    /\ Exhausted(t, "look")
    /\ Return(t, Null)
    /\ UNCHANGED <<threads, values>>

GetDeref(t) ==
    /\ pc[t] = "deref"
    /\ Return(t, values[pos[t]])
    /\ UNCHANGED <<threads, values>>

-----------------------------------------------------------------------------
(* bool erase() *)

EraseSeek(t) == Search(t, "seek", "clear")

EraseNothing(t) ==
    /\ Exhausted(t, "seek")
    /\ Return(t, FALSE)
    /\ UNCHANGED <<threads, values>>

\* values[i] = {}, while the slot is still owned.
EraseClear(t) ==
    /\ pc[t] = "clear"
    /\ values' = [values EXCEPT ![pos[t]] = Null]
    /\ Goto(t, "release", pos[t])
    /\ UNCHANGED threads

\* atomic_compare_exchange_strong(&threads[i], currThread, nullptr)
EraseRelease(t) ==
    /\ pc[t] = "release"
    /\ IF threads[pos[t]] = t
       THEN /\ threads' = [threads EXCEPT ![pos[t]] = Null]
            /\ Return(t, TRUE)
       ELSE /\ Return(t, FALSE)
            /\ UNCHANGED threads
    /\ UNCHANGED values

-----------------------------------------------------------------------------
(* void deinit(): per slot, drop the owner, then the value *)

DeinitCall ==
    /\ dpc = "off"
    /\ N > 0
    /\ dpc' = "drop"
    /\ dpos' = 0
    /\ overtaken' = (overtaken \/ \E t \in Threads : pc[t] # "idle")
    /\ UNCHANGED <<threads, values, pc, pos, arg, res, users>>

DeinitDrop ==
    /\ dpc = "drop"
    /\ threads' = [threads EXCEPT ![dpos] = Null]
    /\ dpc' = "wipe"
    /\ UNCHANGED <<values, pc, pos, arg, res, dpos, users, overtaken>>

DeinitWipe ==
    /\ dpc = "wipe"
    /\ values' = [values EXCEPT ![dpos] = Null]
    /\ IF dpos + 1 < N THEN dpc' = "drop" /\ dpos' = dpos + 1
                       ELSE dpc' = "off" /\ dpos' = 0
    /\ UNCHANGED <<threads, pc, pos, arg, res, users, overtaken>>

-----------------------------------------------------------------------------

Step(t) ==
    \/ SetFind(t)
    \/ SetNotFound(t)
    \/ SetClaim(t)
    \/ SetStore(t)
    \/ SetFail(t)
    \/ GetLook(t)
    \/ GetNothing(t)
    \/ GetDeref(t)
    \/ EraseSeek(t)
    \/ EraseNothing(t)
    \/ EraseClear(t)
    \/ EraseRelease(t)

Calls(t) ==
    \/ \E v \in Values : Call(t, "find", v)
    \/ Call(t, "look", Null)
    \/ Call(t, "seek", Null)

Deinit == DeinitCall \/ DeinitDrop \/ DeinitWipe

Next == Deinit \/ \E t \in Threads : Calls(t) \/ Step(t)

Spec == Init /\ [][Next]_vars

-----------------------------------------------------------------------------
(* Type invariant *)

ArraysOK ==
    /\ threads \in [Slots -> Threads \cup {Null}]
    /\ values \in [Slots -> Values \cup {Null}]

Labels == {"idle"} \cup InSet \cup InGet \cup InErase

\* At these labels pos[t] is a pointer into values.
PointerLabels == {"store", "deref", "clear", "release"}

LocalsOK ==
    /\ pc \in [Threads -> Labels]
    /\ pos \in [Threads -> 0 .. N]
    /\ arg \in [Threads -> Values \cup {Null}]
    /\ res \in [Threads -> Results]
    /\ \A t \in Threads : pc[t] \in PointerLabels => pos[t] \in Slots

DeinitOK ==
    /\ dpc \in {"off", "drop", "wipe"}
    /\ dpos \in 0 .. N
    /\ dpc # "off" => dpos \in Slots

HistoryOK == users \subseteq Threads /\ overtaken \in BOOLEAN

TypeOK == ArraysOK /\ LocalsOK /\ DeinitOK /\ HistoryOK

(* Safety *)

Holds(t, i) == threads[i] = t
Holder(t) == \E i \in Slots : Holds(t, i)

\* set() must never give a thread a second slot: get() and erase() stop at the
\* first one, so the second would leak and keep its value for ever.
OneSlotPerThread ==
    \A t \in Threads, i, j \in Slots : Holds(t, i) /\ Holds(t, j) => i = j

\* The threads that own slot i or a later one, or are still trying to claim
\* one of these.
Crowd(i) ==
    {t \in Threads : \/ \E j \in Slots : j >= i /\ Holds(t, j)
                     \/ pc[t] = "claim" /\ pos[t] >= i}

\* A claimant only moves past slot i because another thread owns it, and that
\* thread is not further right: the crowd loses a thread at every slot.
CrowdThins ==
    \A i \in 0 .. N : Crowd(i) # {} => Cardinality(Crowd(i)) + i <= Cardinality(users)

\* As long as no more than N threads have called it, set() never refuses a value,
\* however claims and erasures interleave: a claimant never reaches the end of the
\* array although it looks at every slot only once.
SetNeverFails ==
    Cardinality(users) <= N => \A t \in Threads : ~ Exhausted(t, "claim")

\* A bound on the steps thread t still has to make in its operation.
StepsLeft(t) ==
    CASE pc[t] = "find" -> (N - pos[t]) + N + 3
      [] pc[t] \in {"claim", "look", "seek"} -> (N - pos[t]) + 2
      [] pc[t] = "clear" -> 2
      [] pc[t] \in {"store", "deref", "release"} -> 1
      [] pc[t] = "idle" -> 0

\* A thread waits for nobody: each step of its own brings the end of its operation
\* nearer, also where another thread was faster or deinit() has taken the slot away,
\* and no step of theirs puts it back: 2 * N + 3 steps are always enough.
WaitFree ==
    [][\A t \in Threads : pc[t] # "idle" =>
          IF Step(t) THEN StepsLeft(t)' < StepsLeft(t)
                     ELSE UNCHANGED <<pc[t], pos[t]>>]_vars

(* Refinement *)

PrivateCell(t) ==
    IF Holder(t) THEN values[CHOOSE i \in Slots : Holds(t, i)] ELSE Null

AbstractCall(t) ==
    CASE pc[t] \in InSet -> "set"
      [] pc[t] \in InGet -> "get"
      [] pc[t] \in {"seek", "clear"} -> "erase"
      [] pc[t] = "release" -> "erased"
      [] pc[t] = "idle" -> "idle"

PrivateCells == [t \in Threads |-> PrivateCell(t)]
AbstractCalls == [t \in Threads |-> AbstractCall(t)]

Abstract == INSTANCE ThreadLocalSpec WITH local <- PrivateCells, call <- AbstractCalls

\* Each thread sees a private cell: get() returns what this thread set last,
\* nothing another thread stored, and set() is refused only beyond N threads.
\* So it is until deinit() meets an operation that is running.
ImplementsThreadLocalSpec ==
    /\ Abstract!Init
    /\ [][overtaken' \/ [Abstract!Next]_<<PrivateCells, AbstractCalls, arg, res>>]_vars
=============================================================================
