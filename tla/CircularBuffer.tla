--------------------------- MODULE CircularBuffer ---------------------------
(***************************************************************************)
(* CircularBuffer<T> of Lilu's kern_util.hpp: a ring in a caller-sized     *)
(* array, protected by an IORecursiveLock that push() and pop() take twice *)
(* (once themselves, once inside isFull() or isEmpty()).                   *)
(*                                                                         *)
(* Threads use the buffer while its owner keeps it alive.  The owner       *)
(* creates it with withCapacity(), any of whose three allocations may      *)
(* fail, and destroys it with safeDeleter() when no thread uses it: the    *)
(* class leaves that to its callers.                                       *)
(***************************************************************************)
EXTENDS Integers, FiniteSets, Sequences

CONSTANTS
    Producers,   \* threads calling push()
    Consumers,   \* threads calling pop()
    Values,      \* the elements
    Sizes,       \* the capacities withCapacity() may be asked for
    Null         \* no element, no thread, no result

Threads == Producers \cup Consumers

ASSUME CircularBufferAssumption ==
    /\ Sizes \subseteq Nat
    /\ Null \notin Threads
    /\ Null \notin Values

VARIABLES
    storage, size, indexr, indexw, count,   \* the members of the instance
    owner, depth,   \* the recursive lock: its holder and nesting depth
    heap,           \* heap[r]: live allocations of resource r
    opc,            \* control state of the owner
    pc,             \* pc[t]: control state of thread t
    op,             \* op[t]: the operation it executes
    elem,           \* elem[t]: the element it pushes, or has popped
    ret,            \* ret[t]: retVal
    learnt          \* learnt[t]: what its last query told it, see below

fields == <<storage, size, indexr, indexw, count>>
lock == <<owner, depth>>
locals == <<pc, op, elem, ret, learnt>>
vars == <<fields, lock, heap, opc, locals>>

Resources == {"storage", "instance", "lock"}
Queries == {"isEmpty", "isFull", "getCount"}

Init ==
    /\ storage = << >> /\ size = 0 /\ indexr = 0 /\ indexw = 0 /\ count = 0
    /\ owner = Null /\ depth = 0
    /\ heap = [r \in Resources |-> 0]
    /\ opc = "none"
    /\ pc = [t \in Threads |-> "idle"]
    /\ op = [t \in Threads |-> "none"]
    /\ elem = [t \in Threads |-> Null]
    /\ ret = [t \in Threads |-> Null]
    /\ learnt = [t \in Threads |-> "nothing"]

-----------------------------------------------------------------------------
(* The owner: withCapacity() and safeDeleter() *)

Alloc(r) == heap' = [heap EXCEPT ![r] = @ + 1]
Free(r) == heap' = [heap EXCEPT ![r] = @ - 1]

\* Buffer::create<T>(size); failing, it returns nullptr and changes nothing.
AllocStorage(s) ==
    /\ opc = "none"
    /\ Alloc("storage")
    /\ size' = s
    /\ opc' = "new"
    /\ UNCHANGED <<storage, indexr, indexw, count, lock, locals>>

\* Variant: the storage is not released when the instance cannot be allocated.
NewInstanceLeaks ==
    /\ opc = "new"
    /\ \/ /\ Alloc("instance")
          /\ indexr' = 0 /\ indexw' = 0 /\ count' = 0
          /\ opc' = "init"
       \/ /\ opc' = "none"
          /\ UNCHANGED <<indexr, indexw, count, heap>>
    /\ UNCHANGED <<storage, size, lock, locals>>

\* new CircularBuffer<T>(): every member takes its default.
NewInstance ==
    /\ opc = "new"
    /\ \/ /\ Alloc("instance")
          /\ indexr' = 0 /\ indexw' = 0 /\ count' = 0
          /\ opc' = "init"
       \/ /\ opc' = "freeStorage"
          /\ UNCHANGED <<indexr, indexw, count, heap>>
    /\ UNCHANGED <<storage, size, lock, locals>>

InitInstance ==
    /\ opc = "init"
    /\ storage' = [i \in 0 .. (size - 1) |-> Null]
    /\ \/ /\ Alloc("lock")
          /\ owner' = Null /\ depth' = 0
          /\ opc' = "live"
       \/ /\ opc' = "deleteInstance"
          /\ UNCHANGED <<heap, lock>>
    /\ UNCHANGED <<size, indexr, indexw, count, locals>>

\* The two failure paths of withCapacity(): delete instance, free the storage.
DeleteInstance ==
    /\ opc = "deleteInstance"
    /\ Free("instance")
    /\ opc' = "freeStorage"
    /\ UNCHANGED <<fields, lock, locals>>

FreeStorage ==
    /\ opc = "freeStorage"
    /\ Free("storage")
    /\ opc' = "none"
    /\ UNCHANGED <<fields, lock, locals>>

\* safeDeleter() -> deleter(): storage, lock (deinit), instance, pointer.
DeleterStorage ==
    /\ opc = "live"
    /\ \A t \in Threads : pc[t] = "idle"
    /\ Free("storage")
    /\ opc' = "deinit"
    /\ learnt' = [t \in Threads |-> "nothing"]
    /\ UNCHANGED <<fields, lock, pc, op, elem, ret>>

DeleterDeinit ==
    /\ opc = "deinit"
    /\ Free("lock")
    /\ opc' = "delete"
    /\ UNCHANGED <<fields, lock, locals>>

DeleterInstance ==
    /\ opc = "delete"
    /\ Free("instance")
    /\ opc' = "none"
    /\ UNCHANGED <<fields, lock, locals>>

OwnerStep ==
    \/ \E s \in Sizes : AllocStorage(s)
    \/ NewInstance
    \/ InitInstance
    \/ DeleteInstance
    \/ FreeStorage
    \/ DeleterStorage
    \/ DeleterDeinit
    \/ DeleterInstance

-----------------------------------------------------------------------------
(* The threads *)

\* IORecursiveLockLock and IORecursiveLockUnlock.
LockTaken(t) ==
    /\ owner \in {Null, t}
    /\ owner' = t
    /\ depth' = depth + 1

LockReleased(t) ==
    /\ depth' = depth - 1
    /\ owner' = IF depth = 1 THEN Null ELSE t

Goto(t, label) == pc' = [pc EXCEPT ![t] = label]

\* The locals go out of scope; the caller remembers what it has learnt.
Return(t, conclusion) ==
    /\ Goto(t, "idle")
    /\ op' = [op EXCEPT ![t] = "none"]
    /\ elem' = [elem EXCEPT ![t] = Null]
    /\ ret' = [ret EXCEPT ![t] = Null]
    /\ learnt' = [learnt EXCEPT ![t] = conclusion]

\* Variant: push() and pop() leave the locking to isFull() and isEmpty().
CallUnlocked(t, o, v) ==
    /\ opc = "live"
    /\ pc[t] = "idle"
    /\ Goto(t, "query")
    /\ op' = [op EXCEPT ![t] = o]
    /\ elem' = [elem EXCEPT ![t] = v]
    /\ UNCHANGED <<fields, lock, heap, opc, ret, learnt>>

\* push() and pop() lock first; the queries are entered directly.
Call(t, o, v) ==
    /\ opc = "live"
    /\ pc[t] = "idle"
    /\ Goto(t, IF o \in Queries THEN "query" ELSE "lock")
    /\ op' = [op EXCEPT ![t] = o]
    /\ elem' = [elem EXCEPT ![t] = v]
    /\ UNCHANGED <<fields, lock, heap, opc, ret, learnt>>

Lock(t) ==
    /\ pc[t] = "lock"
    /\ LockTaken(t)
    /\ Goto(t, "query")
    /\ UNCHANGED <<fields, heap, opc, op, elem, ret, learnt>>

\* isFull(), isEmpty() and getCount(), called by a thread or by push() and pop().
QueryLock(t) ==
    /\ pc[t] = "query"
    /\ LockTaken(t)
    /\ Goto(t, "test")
    /\ UNCHANGED <<fields, heap, opc, op, elem, ret, learnt>>

\* Variant: equal indices alone mean an empty ring.
IsEmptyByIndices == indexr = indexw

IsEmpty == count = 0 /\ indexr = indexw
IsFull == count = size /\ indexr = indexw

QueryTest(t) ==
    /\ pc[t] = "test"
    /\ ret' = [ret EXCEPT ![t] =
          CASE op[t] \in {"push", "isFull"} -> IsFull
            [] op[t] \in {"pop", "isEmpty"} -> IsEmpty
            [] op[t] = "getCount" -> count]
    /\ Goto(t, "unquery")
    /\ UNCHANGED <<fields, lock, heap, opc, op, elem, learnt>>

\* What a caller may conclude from an answer it acts upon later.
Conclusion(t) ==
    CASE op[t] = "isEmpty" /\ ret[t] = FALSE -> "notEmpty"
      [] op[t] = "isFull" /\ ret[t] = FALSE -> "notFull"
      [] OTHER -> "nothing"

\* Variant: push() and pop() return a failure without their own unlock.
QueryUnlockReturns(t) ==
    /\ pc[t] = "unquery"
    /\ LockReleased(t)
    /\ IF op[t] \in Queries \/ ret[t]
       THEN Return(t, Conclusion(t))
       ELSE /\ Goto(t, "copy")
            /\ ret' = [ret EXCEPT ![t] = ~ @]
            /\ UNCHANGED <<op, elem, learnt>>
    /\ UNCHANGED <<fields, heap, opc>>

QueryUnlock(t) ==
    /\ pc[t] = "unquery"
    /\ LockReleased(t)
    /\ IF op[t] \in Queries
       THEN Return(t, Conclusion(t))
       ELSE /\ Goto(t, IF ret[t] THEN "unlock" ELSE "copy")
            /\ ret' = [ret EXCEPT ![t] = ~ @]
            /\ UNCHANGED <<op, elem, learnt>>
    /\ UNCHANGED <<fields, heap, opc>>

Copy(t) ==
    /\ pc[t] = "copy"
    /\ IF op[t] = "push"
       THEN storage' = [storage EXCEPT ![indexw] = elem[t]] /\ UNCHANGED elem
       ELSE elem' = [elem EXCEPT ![t] = storage[indexr]] /\ UNCHANGED storage
    /\ Goto(t, "advance")
    /\ UNCHANGED <<size, indexr, indexw, count, lock, heap, opc, op, ret, learnt>>

\* index += 1; index %= size; count += 1 or -= 1.
AdvanceWrite ==
    /\ indexw' = (indexw + 1) % size
    /\ count' = count + 1
    /\ UNCHANGED indexr

\* Variant: pop() forgets to decrement the count.
AdvanceReadKeepsCount ==
    /\ indexr' = (indexr + 1) % size
    /\ UNCHANGED <<indexw, count>>

AdvanceRead ==
    /\ indexr' = (indexr + 1) % size
    /\ count' = count - 1
    /\ UNCHANGED indexw

Advance(t) ==
    /\ pc[t] = "advance"
    /\ IF op[t] = "push" THEN AdvanceWrite ELSE AdvanceRead
    /\ Goto(t, "unlock")
    /\ UNCHANGED <<storage, size, lock, heap, opc, op, elem, ret, learnt>>

Unlock(t) ==
    /\ pc[t] = "unlock"
    /\ LockReleased(t)
    /\ Return(t, "nothing")
    /\ UNCHANGED <<fields, heap, opc>>

ThreadStep(t) ==
    \/ Lock(t)
    \/ QueryLock(t)
    \/ QueryTest(t)
    \/ QueryUnlock(t)
    \/ Copy(t)
    \/ Advance(t)
    \/ Unlock(t)

ThreadCall(t) ==
    \/ t \in Producers /\ \E v \in Values : Call(t, "push", v)
    \/ t \in Producers /\ Call(t, "isFull", Null)
    \/ t \in Consumers /\ Call(t, "pop", Null)
    \/ t \in Consumers /\ Call(t, "isEmpty", Null)
    \/ Call(t, "getCount", Null)

Next == OwnerStep \/ \E t \in Threads : ThreadCall(t) \/ ThreadStep(t)

\* A thread keeps running unless it waits for the lock, and the kernel hands
\* the mutex to every waiter in the end.
Spec ==
    /\ Init
    /\ [][Next]_vars
    /\ \A t \in Threads : WF_vars(ThreadStep(t))

-----------------------------------------------------------------------------
(* Safety *)

\* How often the thread holds the lock at each of its labels.
HeldAt(t) ==
    CASE pc[t] \in {"idle", "lock"} -> 0
      [] pc[t] = "query" -> IF op[t] \in Queries THEN 0 ELSE 1
      [] pc[t] \in {"test", "unquery"} -> IF op[t] \in Queries THEN 1 ELSE 2
      [] pc[t] \in {"copy", "advance", "unlock"} -> 1

\* The lock's depth is the number of times its holder locked it: every path
\* unlocks as often as it locks, so the nested isFull() and isEmpty() neither
\* release the caller's lock nor leave it held.
LockBalanced ==
    /\ \A t \in Threads : HeldAt(t) > 0 <=> owner = t
    /\ depth = IF owner = Null THEN 0 ELSE HeldAt(owner)

\* Indices and count agree whenever no thread is between its first and last
\* update: the full and the empty ring, which have equal indices, are told
\* apart by count alone, and a ring of size 0 is never indexed.
IndicesAgree ==
    opc = "live" =>
        /\ count <= size
        /\ indexr < size \/ (size = 0 /\ indexr = 0)
        /\ indexw = IF indexr + count < size THEN indexr + count ELSE indexr + count - size

\* withCapacity() releases what it had allocated when a later allocation
\* fails, and the deleter releases everything exactly once.
NothingLeaks ==
    /\ opc = "none" => \A r \in Resources : heap[r] = 0
    /\ opc = "live" => \A r \in Resources : heap[r] = 1

\* A query's answer is stale once the lock is released, but not for the only
\* consumer (producer): only it can make the buffer empty (full) again.
AnswerStays ==
    \A t \in Threads :
        pc[t] = "unlock" =>
            /\ Consumers = {t} /\ learnt[t] = "notEmpty" /\ op[t] = "pop" => ret[t] = TRUE
            /\ Producers = {t} /\ learnt[t] = "notFull" /\ op[t] = "push" => ret[t] = TRUE

(* Liveness *)

\* Whoever holds the lock releases it: no path keeps it or waits for itself.
LockIsReleased == \A t \in Threads : owner = t ~> owner # t

(* Refinement *)

Contents ==
    IF opc = "live"
    THEN [k \in 1 .. count |-> storage[(indexr + k - 1) % size]]
    ELSE << >>

\* The operation has not taken effect yet.
Pending(t) ==
    \/ pc[t] \in {"lock", "query", "test", "copy", "advance"}
    \/ pc[t] = "unquery" /\ op[t] \notin Queries /\ ~ ret[t]

AbstractCall(t) ==
    CASE pc[t] = "idle" -> "idle"
      [] Pending(t) -> op[t]
      [] OTHER -> "done"

AbstractRet(t) ==
    CASE Pending(t) -> Null
      [] pc[t] = "unquery" /\ op[t] \notin Queries /\ ret[t] -> FALSE
      [] OTHER -> ret[t]

\* What pop() copies out before it takes effect is not yet the caller's.
AbstractElem(t) == IF op[t] = "pop" /\ Pending(t) THEN Null ELSE elem[t]

FifoCapacity == IF opc = "live" THEN size ELSE 0
FifoCall == [t \in Threads |-> AbstractCall(t)]
FifoElem == [t \in Threads |-> AbstractElem(t)]
FifoRet == [t \in Threads |-> AbstractRet(t)]

Fifo == INSTANCE BoundedFifo WITH
    queue <- Contents,
    capacity <- FifoCapacity,
    call <- FifoCall,
    elem <- FifoElem,
    ret <- FifoRet

\* Every operation takes effect atomically on a bounded queue.
ImplementsFifo == Fifo!Spec
=============================================================================
