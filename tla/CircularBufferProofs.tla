------------------------ MODULE CircularBufferProofs ------------------------
(***************************************************************************)
(* Theorems about CircularBuffer for every set of threads and every size:  *)
(* the recursive lock stays balanced, the indices agree with the count,    *)
(* no allocation of the buffer leaks, what a query has told the only       *)
(* consumer or producer stays true until it acts, and every operation      *)
(* takes effect at one step of BoundedFifo.                                *)
(***************************************************************************)
EXTENDS CircularBuffer, SequenceTheorems, TLAPS

(* The strengthening of the invariants *)

\* What is allocated at each control state of the owner.
Allocated ==
    CASE opc = "none" -> {}
      [] opc \in {"new", "freeStorage"} -> {"storage"}
      [] opc \in {"init", "deleteInstance"} -> {"storage", "instance"}
      [] opc = "live" -> Resources
      [] opc = "deinit" -> {"lock", "instance"}
      [] opc = "delete" -> {"instance"}

HeapMatches == \A r \in Resources : heap[r] = IF r \in Allocated THEN 1 ELSE 0

QuietUnlessLive == opc # "live" => owner = Null /\ \A t \in Threads : pc[t] = "idle"

OpFitsLabel ==
    \A t \in Threads :
        /\ pc[t] = "idle" <=> op[t] = "none"
        /\ pc[t] \in {"lock", "copy", "advance", "unlock"} => op[t] \in {"push", "pop"}

Proceeds(t) ==
    pc[t] \in {"copy", "advance"} \/ (pc[t] = "unquery" /\ ret[t] = FALSE)

\* The answer push() or pop() acts upon still holds when it does.
AnswerHolds ==
    \A t \in Threads :
        /\ pc[t] = "unquery" /\ op[t] \in {"push", "pop"} => ret[t] \in BOOLEAN
        /\ op[t] = "push" /\ Proceeds(t) => count < size
        /\ op[t] = "pop" /\ Proceeds(t) => count > 0

\* What isEmpty() (isFull()) told the only consumer (producer) stands until that
\* thread's own pop() (push()) has been told the same and acted upon it.
NotEmptyStands(t) ==
    IF op[t] = "pop" /\ pc[t] \in {"copy", "advance", "unlock"}
    THEN ret[t] = TRUE
    ELSE count > 0 /\ (op[t] = "pop" /\ pc[t] = "unquery" => ret[t] = FALSE)

NotFullStands(t) ==
    IF op[t] = "push" /\ pc[t] \in {"copy", "advance", "unlock"}
    THEN ret[t] = TRUE
    ELSE count < size /\ (op[t] = "push" /\ pc[t] = "unquery" => ret[t] = FALSE)

LearntAt(t) ==
    /\ op[t] = "pop" => t \in Consumers
    /\ op[t] = "push" => t \in Producers
    /\ pc[t] = "unquery" /\ op[t] = "isEmpty" /\ ret[t] = FALSE => count > 0
    /\ pc[t] = "unquery" /\ op[t] = "isFull" /\ ret[t] = FALSE => count < size
    /\ learnt[t] # "nothing" => opc = "live"
    /\ Consumers = {t} /\ learnt[t] = "notEmpty" => NotEmptyStands(t)
    /\ Producers = {t} /\ learnt[t] = "notFull" => NotFullStands(t)

LearntHolds == \A t \in Threads : LearntAt(t)

\* What a thread holds at its labels: nothing when idle, a pop()'s element only from
\* the copy on, and then the same element as the position it is about to pass.
DataAt(t) ==
    /\ pc[t] = "idle" => elem[t] = Null /\ ret[t] = Null
    /\ op[t] = "pop" /\ pc[t] \in {"lock", "query", "test", "unquery", "copy"} => elem[t] = Null
    /\ pc[t] \in {"copy", "advance"} => ret[t] = TRUE
    /\ pc[t] = "advance" => elem[t] = storage[IF op[t] = "push" THEN indexw ELSE indexr]

DataFits ==
    /\ opc = "live" => DOMAIN storage = 0 .. (size - 1)
    /\ \A t \in Threads : DataAt(t)

\* The owner's resources: what is allocated follows from its control state.
Heap ==
    /\ opc \in {"none", "new", "init", "live", "freeStorage", "deleteInstance",
                "deinit", "delete"}
    /\ heap \in [Resources -> Int]
    /\ HeapMatches

\* The heap counts of create(), withCapacity() and deleter() match what exists, always.
LEMMA HeapAlways == Spec => []Heap
<1> USE DEF Heap, HeapMatches, Allocated, Resources
<1>1. Init => Heap
  BY DEF Init
<1>2. Heap /\ [Next]_vars => Heap'
  <2> SUFFICES ASSUME Heap, [Next]_vars PROVE Heap'
    OBVIOUS
  <2>1. ASSUME NEW s \in Sizes, AllocStorage(s) PROVE Heap'
    BY <2>1 DEF AllocStorage, Alloc
  <2>2. ASSUME NewInstance PROVE Heap'
    BY <2>2 DEF NewInstance, Alloc
  <2>3. ASSUME InitInstance PROVE Heap'
    BY <2>3 DEF InitInstance, Alloc
  <2>4. ASSUME DeleteInstance PROVE Heap'
    BY <2>4 DEF DeleteInstance, Free
  <2>5. ASSUME FreeStorage PROVE Heap'
    BY <2>5 DEF FreeStorage, Free
  <2>6. ASSUME DeleterStorage PROVE Heap'
    BY <2>6 DEF DeleterStorage, Free
  <2>7. ASSUME DeleterDeinit PROVE Heap'
    BY <2>7 DEF DeleterDeinit, Free
  <2>8. ASSUME DeleterInstance PROVE Heap'
    BY <2>8 DEF DeleterInstance, Free
  <2>9. ASSUME NEW t \in Threads, ThreadCall(t) \/ ThreadStep(t) PROVE Heap'
    <3>1. UNCHANGED <<heap, opc>>
      BY <2>9 DEF ThreadCall, Call, ThreadStep, Lock, QueryLock, QueryTest, QueryUnlock,
                  Copy, Advance, Unlock
    <3> QED
      BY <3>1
  <2>10. CASE UNCHANGED vars
    BY <2>10 DEF vars
  <2> QED
    BY <2>1, <2>2, <2>3, <2>4, <2>5, <2>6, <2>7, <2>8, <2>9, <2>10 DEF Next, OwnerStep
<1> QED
  BY <1>1, <1>2, PTL DEF Spec

\* withCapacity() leaks nothing when any of its allocations fails, and the
\* deleter frees everything once.
THEOREM NothingEverLeaks == Spec => []NothingLeaks
<1>1. Heap => NothingLeaks
  BY DEF Heap, HeapMatches, Allocated, NothingLeaks, Resources
<1> QED
  BY <1>1, HeapAlways, PTL

-----------------------------------------------------------------------------
(* The recursive lock *)

Ops == Queries \cup {"none", "push", "pop"}

Labels == {"idle", "lock", "query", "test", "unquery", "copy", "advance", "unlock"}

Control ==
    /\ pc \in [Threads -> Labels]
    /\ op \in [Threads -> Ops]
    /\ owner \in Threads \cup {Null}
    /\ depth \in Int
    /\ OpFitsLabel
    /\ QuietUnlessLive
    /\ LockBalanced

\* A step that moves thread t only, to a label that fits its operation.
Moves(t) ==
    /\ opc = "live" /\ opc' = "live"
    /\ pc' \in [Threads -> Labels]
    /\ op' \in [Threads -> Ops]
    /\ \A u \in Threads \ {t} : pc'[u] = pc[u] /\ op'[u] = op[u]
    /\ pc'[t] = "idle" <=> op'[t] = "none"
    /\ pc'[t] \in {"lock", "copy", "advance", "unlock"} => op'[t] \in {"push", "pop"}

\* A step of thread t that leaves the owner's state alone is judged by what it
\* does to the lock and to t.
LEMMA ControlStep ==
    ASSUME Control, NEW t \in Threads, Moves(t),
           owner \in {Null, t}, owner' \in {Null, t}, depth' \in Int,
           owner' = t <=> HeldAt(t)' > 0,
           depth' = IF owner' = Null THEN 0 ELSE HeldAt(t)'
    PROVE  Control'
<1>1. \A u \in Threads \ {t} : HeldAt(u)' = HeldAt(u)
  BY DEF Control, HeldAt, Moves
<1>2. \A u \in Threads \ {t} : HeldAt(u) > 0 <=> owner = u
  BY DEF Control, LockBalanced
<1>3. LockBalanced'
  BY <1>1, <1>2, CircularBufferAssumption DEF LockBalanced, Threads
<1>4. OpFitsLabel'
  BY DEF Control, OpFitsLabel, Moves
<1> QED
  BY <1>3, <1>4, CircularBufferAssumption DEF Control, QuietUnlessLive, Moves

\* The same for a step that touches neither the lock nor how often t holds it.
LEMMA ControlLocal ==
    ASSUME Control, NEW t \in Threads, Moves(t), UNCHANGED lock,
           HeldAt(t)' = HeldAt(t)
    PROVE  Control'
<1>1. \A u \in Threads : HeldAt(u)' = HeldAt(u)
  BY DEF Control, HeldAt, Moves
<1>2. LockBalanced'
  BY <1>1, CircularBufferAssumption DEF Control, LockBalanced, Threads, lock
<1>3. OpFitsLabel'
  BY DEF Control, OpFitsLabel, Moves
<1> QED
  BY <1>2, <1>3 DEF Control, QuietUnlessLive, Moves, lock

\* The lock's depth and holder follow from where its holder stands in push(), pop()
\* or a query, always.
LEMMA ControlAlways == Spec => []Control
<1> USE DEF Labels, Ops, Queries
<1>1. Init => Control
  BY CircularBufferAssumption
     DEF Init, Control, OpFitsLabel, QuietUnlessLive, LockBalanced, HeldAt
<1>2. Control /\ [Next]_vars => Control'
  <2> SUFFICES ASSUME Control, [Next]_vars PROVE Control'
    OBVIOUS
  <2>a. ASSUME NEW t \in Threads
        PROVE  /\ pc[t] \in Labels /\ op[t] \in Ops
               /\ pc[t] # "idle" => opc = "live"
               /\ pc[t] = "idle" <=> op[t] = "none"
               /\ pc[t] \in {"lock", "copy", "advance", "unlock"} => op[t] \in {"push", "pop"}
               /\ HeldAt(t) > 0 <=> owner = t
               /\ owner = t => depth = HeldAt(t)
               /\ owner = Null => depth = 0
    BY CircularBufferAssumption
       DEF Control, OpFitsLabel, QuietUnlessLive, LockBalanced
  <2>1. ASSUME NEW t \in Threads, NEW o \in Ops \ {"none"}, NEW v, Call(t, o, v)
        PROVE  Control'
    <3>m. Moves(t)
      BY <2>1, <2>a DEF Call, Goto, Moves, Control
    <3>1. HeldAt(t)' = 0 /\ HeldAt(t) = 0
      BY <2>1 DEF Call, Goto, HeldAt, Control
    <3> QED
      BY <2>1, <3>m, <3>1, ControlLocal DEF Call
  <2>2. ASSUME NEW t \in Threads, Lock(t) PROVE Control'
    <3>m. Moves(t)
      BY <2>2, <2>a DEF Lock, Goto, Moves, Control
    <3>1. HeldAt(t) = 0 /\ HeldAt(t)' = 1
      BY <2>2, <2>a DEF Lock, Goto, HeldAt, Control
    <3>2. owner = Null /\ owner' = t /\ depth' = 1
      BY <2>2, <2>a, <3>1 DEF Lock, LockTaken
    <3> QED
      BY <3>m, <3>1, <3>2, CircularBufferAssumption, ControlStep
  <2>3. ASSUME NEW t \in Threads, QueryLock(t) PROVE Control'
    <3>m. Moves(t)
      BY <2>3, <2>a DEF QueryLock, Goto, Moves, Control
    <3>1. HeldAt(t)' = HeldAt(t) + 1 /\ HeldAt(t) \in 0 .. 1
      BY <2>3, <2>a DEF QueryLock, Goto, HeldAt, Control
    <3>2. owner' = t /\ depth' = HeldAt(t)' /\ owner \in {Null, t}
      BY <2>3, <2>a, <3>1 DEF QueryLock, LockTaken
    <3> QED
      BY <3>m, <3>1, <3>2, CircularBufferAssumption, ControlStep
  <2>4. ASSUME NEW t \in Threads, QueryTest(t) PROVE Control'
    <3>m. Moves(t)
      BY <2>4, <2>a DEF QueryTest, Goto, Moves, Control
    <3>1. HeldAt(t)' = HeldAt(t)
      BY <2>4 DEF QueryTest, Goto, HeldAt, Control
    <3> QED
      BY <2>4, <3>m, <3>1, ControlLocal DEF QueryTest
  <2>5. ASSUME NEW t \in Threads, QueryUnlock(t) PROVE Control'
    <3>m. Moves(t)
      BY <2>5, <2>a DEF QueryUnlock, Return, Goto, Moves, Control
    <3>1. CASE op[t] \in Queries
      <4>1. HeldAt(t) = 1 /\ HeldAt(t)' = 0
        BY <2>5, <3>1 DEF QueryUnlock, Return, Goto, HeldAt, Control
      <4>2. owner = t /\ owner' = Null /\ depth' = 0
        BY <2>5, <2>a, <4>1 DEF QueryUnlock, LockReleased
      <4> QED
        BY <3>m, <4>1, <4>2, CircularBufferAssumption, ControlStep
    <3>2. CASE op[t] \notin Queries
      <4>1. PICK label \in {"unlock", "copy"} : pc' = [pc EXCEPT ![t] = label]
        BY <2>5, <3>2 DEF QueryUnlock, Goto
      <4>2. UNCHANGED <<op, opc>>
        BY <2>5, <3>2 DEF QueryUnlock
      <4>3. HeldAt(t) = 2 /\ HeldAt(t)' = 1
        BY <2>5, <3>2, <4>1, <4>2 DEF QueryUnlock, HeldAt, Control
      <4>4. owner = t /\ owner' = t /\ depth' = 1
        BY <2>5, <2>a, <4>3 DEF QueryUnlock, LockReleased
      <4> QED
        BY <3>m, <4>3, <4>4, CircularBufferAssumption, ControlStep
    <3> QED
      BY <3>1, <3>2
  <2>6. ASSUME NEW t \in Threads, Copy(t) PROVE Control'
    <3>m. Moves(t)
      BY <2>6, <2>a DEF Copy, Goto, Moves, Control
    <3>1. HeldAt(t)' = HeldAt(t)
      BY <2>6 DEF Copy, Goto, HeldAt, Control
    <3> QED
      BY <2>6, <3>m, <3>1, ControlLocal DEF Copy
  <2>7. ASSUME NEW t \in Threads, Advance(t) PROVE Control'
    <3>m. Moves(t)
      BY <2>7, <2>a DEF Advance, Goto, Moves, Control
    <3>1. HeldAt(t)' = HeldAt(t)
      BY <2>7 DEF Advance, Goto, HeldAt, Control
    <3> QED
      BY <2>7, <3>m, <3>1, ControlLocal DEF Advance
  <2>8. ASSUME NEW t \in Threads, Unlock(t) PROVE Control'
    <3>m. Moves(t)
      BY <2>8, <2>a DEF Unlock, Return, Goto, Moves, Control
    <3>1. HeldAt(t) = 1 /\ HeldAt(t)' = 0
      BY <2>8 DEF Unlock, Return, Goto, HeldAt, Control
    <3>2. owner = t /\ owner' = Null /\ depth' = 0
      BY <2>8, <2>a, <3>1 DEF Unlock, LockReleased
    <3> QED
      BY <3>m, <3>1, <3>2, CircularBufferAssumption, ControlStep
  <2>9. ASSUME OwnerStep PROVE Control'
    <3>1. UNCHANGED <<pc, op>> /\ (UNCHANGED lock \/ (owner' = Null /\ depth' = 0))
      BY <2>9 DEF OwnerStep, AllocStorage, NewInstance, InitInstance, DeleteInstance,
         FreeStorage, DeleterStorage, DeleterDeinit, DeleterInstance, locals, lock
    <3>2. \A t \in Threads : pc[t] = "idle"
      BY <2>9 DEF OwnerStep, AllocStorage, NewInstance, InitInstance, DeleteInstance,
         FreeStorage, DeleterStorage, DeleterDeinit, DeleterInstance, Control, QuietUnlessLive
    <3>3. owner = Null /\ depth = 0
      <4>1. ASSUME NEW t \in Threads PROVE owner # t
        BY <2>a, <3>2 DEF HeldAt
      <4> QED
        BY <4>1 DEF Control, LockBalanced
    <3> QED
      BY <3>1, <3>2, <3>3, CircularBufferAssumption
         DEF Control, OpFitsLabel, QuietUnlessLive, LockBalanced, HeldAt, lock
  <2>10. CASE UNCHANGED vars
    BY <2>10 DEF vars, locals, lock, Control, OpFitsLabel, QuietUnlessLive, LockBalanced, HeldAt
  <2> QED
    BY <2>1, <2>2, <2>3, <2>4, <2>5, <2>6, <2>7, <2>8, <2>9, <2>10
       DEF Next, ThreadCall, ThreadStep
<1> QED
  BY <1>1, <1>2, PTL DEF Spec

\* At most one thread is inside the critical sections, and every path through
\* push(), pop() and the queries unlocks as often as it locks.
THEOREM LockDiscipline == Spec => []LockBalanced
<1>1. Control => LockBalanced
  BY DEF Control
<1> QED
  BY <1>1, ControlAlways, PTL

-----------------------------------------------------------------------------
(* The ring *)

\* The part of the state push() and pop() update under the lock.
Ring ==
    /\ size \in Nat /\ indexr \in Nat /\ indexw \in Nat /\ count \in Nat
    /\ IndicesAgree
    /\ AnswerHolds
    /\ opc = "init" => indexr = 0 /\ indexw = 0 /\ count = 0
    /\ DOMAIN ret = Threads

\* index += 1, index %= size: the next position of the ring.
LEMMA NextIndex ==
    ASSUME NEW n \in Nat, NEW i \in Nat, i < n
    PROVE  (i + 1) % n = IF i + 1 < n THEN i + 1 ELSE 0
<1>1. n \in Nat \ {0} /\ i + 1 \in Nat /\ i + 1 <= n
  OBVIOUS
<1>2. CASE i + 1 < n
  BY <1>1, <1>2
<1>3. CASE i + 1 = n
  BY <1>1, <1>3
<1> QED
  BY <1>1, <1>2, <1>3

\* A step that leaves the ring alone only has to justify what its thread is
\* about to do.
LEMMA RingLocal ==
    ASSUME Ring, NEW t \in Threads, Moves(t), UNCHANGED fields,
           DOMAIN ret' = Threads, \A u \in Threads \ {t} : ret'[u] = ret[u],
           pc'[t] = "unquery" /\ op'[t] \in {"push", "pop"} => ret'[t] \in BOOLEAN,
           op'[t] = "push" /\ Proceeds(t)' => count < size,
           op'[t] = "pop" /\ Proceeds(t)' => count > 0
    PROVE  Ring'
<1>1. UNCHANGED <<size, indexr, indexw, count>>
  BY DEF fields
<1>2. IndicesAgree'
  BY <1>1 DEF Ring, IndicesAgree, Moves
<1>3. \A u \in Threads \ {t} : Proceeds(u)' = Proceeds(u)
  BY DEF Proceeds, Moves
<1>4. AnswerHolds'
  BY <1>1, <1>3 DEF Ring, AnswerHolds, Moves
<1> QED
  BY <1>1, <1>2, <1>4 DEF Ring, Moves

\* Advancing an index: only the lock's holder can, so no other thread is
\* between a query's answer and its use.
LEMMA RingAdvance ==
    ASSUME Ring, Control, NEW t \in Threads, Advance(t)
    PROVE  Ring'
<1>1. /\ opc = "live" /\ opc' = "live" /\ size' = size /\ size \in Nat
      /\ pc[t] = "advance" /\ pc' = [pc EXCEPT ![t] = "unlock"]
      /\ UNCHANGED <<op, ret>>
      /\ op[t] \in {"push", "pop"}
  BY DEF Advance, Goto, Control, QuietUnlessLive, OpFitsLabel, Ring
<1>2. ASSUME NEW u \in Threads \ {t} PROVE pc[u] \notin {"unquery", "copy", "advance"}
  <2>1. owner = t
    BY <1>1 DEF Control, LockBalanced, HeldAt
  <2>2. ~ (HeldAt(u) > 0)
    BY <2>1 DEF Control, LockBalanced
  <2> QED
    BY <2>2 DEF HeldAt
<1>3. AnswerHolds'
  <2>1. \A u \in Threads : pc'[u] \notin {"unquery", "copy", "advance"}
    BY <1>1, <1>2 DEF Control
  <2> QED
    BY <2>1 DEF AnswerHolds, Proceeds
<1>4. CASE op[t] = "push"
  <2>1. /\ indexw' = (indexw + 1) % size /\ count' = count + 1 /\ indexr' = indexr
        /\ count < size /\ indexw < size /\ indexr < size
    BY <1>1, <1>4 DEF Advance, AdvanceWrite, Ring, AnswerHolds, IndicesAgree, Proceeds
  <2>2. indexw' = IF indexw + 1 < size THEN indexw + 1 ELSE 0
    BY <2>1, NextIndex DEF Ring
  <2> QED
    BY <1>1, <1>3, <2>1, <2>2 DEF Ring, IndicesAgree
<1>5. CASE op[t] = "pop"
  <2>1. /\ indexr' = (indexr + 1) % size /\ count' = count - 1 /\ indexw' = indexw
        /\ count > 0 /\ count <= size /\ indexr < size
    BY <1>1, <1>5 DEF Advance, AdvanceRead, Ring, AnswerHolds, IndicesAgree, Proceeds
  <2>2. indexr' = IF indexr + 1 < size THEN indexr + 1 ELSE 0
    BY <2>1, NextIndex DEF Ring
  <2> QED
    BY <1>1, <1>3, <2>1, <2>2 DEF Ring, IndicesAgree
<1> QED
  BY <1>1, <1>4, <1>5

\* The indices agree with the count whenever no thread is inside, and what isFull()
\* and isEmpty() have answered under the lock still holds when push() and pop() act on it.
LEMMA RingAlways == Spec => []Ring
<1>1. Init => Ring
  BY DEF Init, Ring, IndicesAgree, AnswerHolds, Proceeds
<1>2. Ring /\ Control /\ [Next]_vars => Ring'
  <2> SUFFICES ASSUME Ring, Control, [Next]_vars PROVE Ring'
    OBVIOUS
  <2>a. ASSUME NEW t \in Threads
        PROVE  /\ pc[t] # "idle" => opc = "live"
               /\ pc[t] = "idle" <=> op[t] = "none"
               /\ pc[t] \in {"lock", "copy", "advance", "unlock"} => op[t] \in {"push", "pop"}
    BY DEF Control, OpFitsLabel, QuietUnlessLive
  <2>1. ASSUME NEW t \in Threads, NEW o \in Ops \ {"none"}, NEW v, Call(t, o, v)
        PROVE  Ring'
    <3>m. Moves(t)
      BY <2>1, <2>a DEF Call, Goto, Moves, Control, Ops, Queries, Labels
    <3>1. UNCHANGED <<fields, ret>> /\ DOMAIN ret = Threads /\ ~ Proceeds(t)'
      BY <2>1 DEF Call, Goto, Proceeds, Control, Ring
    <3> QED
      BY <2>1, <3>m, <3>1, RingLocal DEF Call, Goto, Control
  <2>2. ASSUME NEW t \in Threads, Lock(t) \/ QueryLock(t) PROVE Ring'
    <3>m. Moves(t)
      BY <2>2, <2>a DEF Lock, QueryLock, Goto, Moves, Control, Ops, Queries, Labels
    <3>1. UNCHANGED <<fields, ret>> /\ DOMAIN ret = Threads /\ ~ Proceeds(t)'
      BY <2>2 DEF Lock, QueryLock, Goto, Proceeds, Control, Ring
    <3> QED
      BY <2>2, <3>m, <3>1, RingLocal DEF Lock, QueryLock, Goto, Control
  <2>3. ASSUME NEW t \in Threads, QueryTest(t) PROVE Ring'
    <3>m. Moves(t)
      BY <2>3, <2>a DEF QueryTest, Goto, Moves, Control, Ops, Queries, Labels
    <3>1. /\ pc' = [pc EXCEPT ![t] = "unquery"] /\ UNCHANGED <<op, fields>>
          /\ op[t] = "push" => ret' = [ret EXCEPT ![t] = IsFull]
          /\ op[t] = "pop" => ret' = [ret EXCEPT ![t] = IsEmpty]
      BY <2>3 DEF QueryTest, Goto
    <3>2. /\ DOMAIN ret' = Threads
          /\ \A u \in Threads \ {t} : ret'[u] = ret[u]
      BY <2>3 DEF QueryTest, Ring
    <3>3. CASE op[t] = "push"
      <4>1. ret'[t] = IsFull
        BY <3>1, <3>3 DEF Ring
      <4>2. ret'[t] \in BOOLEAN
        BY <4>1 DEF IsFull
      <4>3. ~ IsFull => count < size
        BY <3>m DEF Ring, IndicesAgree, IsFull, Moves
      <4> QED
        BY <3>m, <3>1, <3>2, <3>3, <4>1, <4>2, <4>3, RingLocal DEF Proceeds, Control
    <3>4. CASE op[t] = "pop"
      <4>1. ret'[t] = IsEmpty
        BY <3>1, <3>4 DEF Ring
      <4>2. ret'[t] \in BOOLEAN
        BY <4>1 DEF IsEmpty
      <4>3. ~ IsEmpty => count > 0
        BY <3>m DEF Ring, IndicesAgree, IsEmpty, Moves
      <4> QED
        BY <3>m, <3>1, <3>2, <3>4, <4>1, <4>2, <4>3, RingLocal DEF Proceeds, Control
    <3>5. CASE op[t] \notin {"push", "pop"}
      BY <3>m, <3>1, <3>2, <3>5, RingLocal
    <3> QED
      BY <3>3, <3>4, <3>5
  <2>4. ASSUME NEW t \in Threads, QueryUnlock(t) PROVE Ring'
    <3>m. Moves(t)
      BY <2>4, <2>a DEF QueryUnlock, Return, Goto, Moves, Control, Ops, Queries, Labels
    <3>1. /\ UNCHANGED fields
          /\ DOMAIN ret' = Threads
          /\ \A u \in Threads \ {t} : ret'[u] = ret[u]
          /\ pc'[t] # "unquery"
      BY <2>4 DEF QueryUnlock, Return, Goto, Ring, Control
    <3>2. ASSUME Proceeds(t)' PROVE op[t] \notin Queries /\ ~ ret[t] /\ UNCHANGED op
      BY <2>4, <3>1, <3>2 DEF QueryUnlock, Return, Goto, Proceeds, Control
    <3>3. op[t] \in {"push", "pop"} /\ ~ ret[t] => Proceeds(t)
      BY <2>4 DEF QueryUnlock, Proceeds, Ring, AnswerHolds
    <3> QED
      BY <3>m, <3>1, <3>2, <3>3, RingLocal DEF Ring, AnswerHolds
  <2>5. ASSUME NEW t \in Threads, Copy(t) PROVE Ring'
    <3>1. UNCHANGED <<size, indexr, indexw, count, opc, op, ret>>
      BY <2>5 DEF Copy
    <3>2. \A u \in Threads : Proceeds(u)' => Proceeds(u)
      BY <2>5, <3>1 DEF Copy, Goto, Control, Proceeds
    <3>3. \A u \in Threads : pc'[u] = "unquery" => pc[u] = "unquery"
      BY <2>5 DEF Copy, Goto, Control
    <3> QED
      BY <3>1, <3>2, <3>3 DEF Ring, IndicesAgree, AnswerHolds
  <2>6. ASSUME NEW t \in Threads, Advance(t) PROVE Ring'
    BY <2>6, RingAdvance
  <2>7. ASSUME NEW t \in Threads, Unlock(t) PROVE Ring'
    <3>m. Moves(t)
      BY <2>7, <2>a DEF Unlock, Return, Goto, Moves, Control, Ops, Queries, Labels
    <3>1. /\ UNCHANGED fields /\ ~ Proceeds(t)' /\ pc'[t] = "idle"
          /\ DOMAIN ret' = Threads
          /\ \A u \in Threads \ {t} : ret'[u] = ret[u]
      BY <2>7 DEF Unlock, Return, Goto, Proceeds, Control, Ring
    <3> QED
      BY <3>m, <3>1, RingLocal
  <2>8. ASSUME OwnerStep PROVE Ring'
    <3>1. UNCHANGED <<pc, ret>> /\ \A t \in Threads : pc[t] = "idle"
      BY <2>8 DEF OwnerStep, AllocStorage, NewInstance, InitInstance, DeleteInstance,
         FreeStorage, DeleterStorage, DeleterDeinit, DeleterInstance, locals,
         Control, QuietUnlessLive
    <3>2. AnswerHolds'
      BY <3>1 DEF AnswerHolds, Proceeds
    <3>3. size' \in Nat /\ indexr' \in Nat /\ indexw' \in Nat /\ count' \in Nat
      BY <2>8, CircularBufferAssumption
         DEF OwnerStep, AllocStorage, NewInstance, InitInstance, DeleteInstance, FreeStorage,
             DeleterStorage, DeleterDeinit, DeleterInstance, fields, Ring
    <3>4. opc' = "init" => indexr' = 0 /\ indexw' = 0 /\ count' = 0
      BY <2>8
         DEF OwnerStep, AllocStorage, NewInstance, InitInstance, DeleteInstance, FreeStorage,
             DeleterStorage, DeleterDeinit, DeleterInstance, fields, Ring
    <3>5. opc' = "live" => opc = "init" /\ UNCHANGED <<size, indexr, indexw, count>>
      BY <2>8
         DEF OwnerStep, AllocStorage, NewInstance, InitInstance, DeleteInstance, FreeStorage,
             DeleterStorage, DeleterDeinit, DeleterInstance, fields, Ring
    <3>6. IndicesAgree'
      BY <3>3, <3>5 DEF Ring, IndicesAgree
    <3> QED
      BY <3>1, <3>2, <3>3, <3>4, <3>6 DEF Ring
  <2>9. CASE UNCHANGED vars
    BY <2>9 DEF vars, locals, fields, Ring, IndicesAgree, AnswerHolds, Proceeds
  <2> QED
    BY <2>1, <2>2, <2>3, <2>4, <2>5, <2>6, <2>7, <2>8, <2>9
       DEF Next, ThreadCall, ThreadStep, Ops, Queries
<1> QED
  BY <1>1, <1>2, ControlAlways, PTL DEF Spec

\* At every moment the write index is the read index plus the count, modulo
\* the size, and the count never exceeds the size: a full ring is not taken
\* for an empty one.
THEOREM IndicesAlwaysAgree == Spec => []IndicesAgree
<1>1. Ring => IndicesAgree
  BY DEF Ring
<1> QED
  BY <1>1, RingAlways, PTL
-----------------------------------------------------------------------------
(* What a query has told *)

Learnt == LearntHolds /\ DOMAIN learnt = Threads

\* Every step of a thread moves it alone.
LEMMA StepMoves ==
    ASSUME Control, NEW t \in Threads, ThreadStep(t)
    PROVE  Moves(t)
<1> USE DEF Ops, Queries, Labels, Moves, Control
<1>1. /\ pc[t] # "idle" => opc = "live"
      /\ pc[t] = "idle" <=> op[t] = "none"
      /\ pc[t] \in {"lock", "copy", "advance", "unlock"} => op[t] \in {"push", "pop"}
  BY DEF OpFitsLabel, QuietUnlessLive
<1>2. CASE Lock(t) \/ QueryLock(t) \/ QueryTest(t)
  BY <1>1, <1>2 DEF Lock, QueryLock, QueryTest, Goto
<1>3. CASE QueryUnlock(t)
  BY <1>1, <1>3 DEF QueryUnlock, Return, Goto
<1>4. CASE Copy(t) \/ Advance(t)
  BY <1>1, <1>4 DEF Copy, Advance, Goto
<1>5. CASE Unlock(t)
  BY <1>1, <1>5 DEF Unlock, Return, Goto
<1> QED
  BY <1>2, <1>3, <1>4, <1>5 DEF ThreadStep

\* While one thread holds the lock, every other is outside of the critical sections.
LEMMA HolderIsAlone ==
    ASSUME Control, NEW t \in Threads, HeldAt(t) > 0, NEW u \in Threads \ {t}
    PROVE  pc[u] \notin {"test", "unquery", "copy", "advance", "unlock"}
<1>1. owner = t /\ ~ (HeldAt(u) > 0)
  BY DEF Control, LockBalanced
<1> QED
  BY <1>1 DEF HeldAt

\* A step that leaves the count alone only has to justify what its own thread knows.
LEMMA LearntLocal ==
    ASSUME Learnt, NEW t \in Threads, Moves(t), UNCHANGED <<size, count>>,
           DOMAIN learnt' = Threads,
           \A u \in Threads \ {t} : ret'[u] = ret[u] /\ learnt'[u] = learnt[u],
           LearntAt(t)'
    PROVE  Learnt'
<1>1. ASSUME NEW u \in Threads \ {t} PROVE LearntAt(u)'
  <2>1. /\ LearntAt(u) /\ pc'[u] = pc[u] /\ op'[u] = op[u]
        /\ ret'[u] = ret[u] /\ learnt'[u] = learnt[u] /\ opc' = "live"
    BY DEF Learnt, LearntHolds, Moves
  <2> QED
    BY <2>1 DEF LearntAt, NotEmptyStands, NotFullStands
<1> QED
  BY <1>1 DEF Learnt, LearntHolds

\* Only a producer's push() makes the buffer fuller, only a consumer's pop() emptier.
LEMMA LearntAdvance ==
    ASSUME Learnt, Ring, Control, NEW t \in Threads, Advance(t)
    PROVE  Learnt'
<1>1. /\ pc[t] = "advance" /\ pc' = [pc EXCEPT ![t] = "unlock"] /\ opc' = opc
      /\ UNCHANGED <<op, ret, learnt, size>> /\ op[t] \in {"push", "pop"} /\ LearntAt(t)
  BY DEF Advance, Goto, locals, Control, OpFitsLabel, Learnt, LearntHolds
<1>2. \A u \in Threads \ {t} :
         pc[u] \notin {"test", "unquery", "copy", "advance", "unlock"} /\ pc'[u] = pc[u]
  <2>1. HeldAt(t) > 0
    BY <1>1 DEF HeldAt
  <2> QED
    BY <1>1, <2>1, HolderIsAlone DEF Control
<1>3. pc'[t] = "unlock"
  BY <1>1 DEF Control
<1>4. /\ op[t] = "push" => count' = count + 1 /\ count < size /\ t \in Producers
      /\ op[t] = "pop" => count' = count - 1 /\ count > 0 /\ t \in Consumers
      /\ count \in Nat /\ size \in Nat /\ count <= size
  BY <1>1 DEF Advance, AdvanceWrite, AdvanceRead, LearntAt, Ring, AnswerHolds, Proceeds,
              IndicesAgree, Control, QuietUnlessLive
<1>5. LearntAt(t)'
  BY <1>1, <1>3, <1>4 DEF LearntAt, NotEmptyStands, NotFullStands
<1>6. ASSUME NEW u \in Threads \ {t} PROVE LearntAt(u)'
  <2>1. LearntAt(u)
    BY DEF Learnt, LearntHolds
  <2>2. Consumers = {u} => op[t] = "push"
    BY <1>1, <1>4
  <2>3. Producers = {u} => op[t] = "pop"
    BY <1>1, <1>4
  <2> QED
    BY <1>1, <1>2, <1>4, <2>1, <2>2, <2>3 DEF LearntAt, NotEmptyStands, NotFullStands
<1> QED
  BY <1>1, <1>5, <1>6 DEF Learnt, LearntHolds

\* No step makes what a thread has been told untrue behind its back.
LEMMA LearntKept ==
    ASSUME Learnt, Ring, Control, [Next]_vars
    PROVE  Learnt'
<1>a. ASSUME NEW t \in Threads
      PROVE  /\ LearntAt(t)
             /\ pc[t] # "idle" => opc = "live"
             /\ pc[t] \in {"lock", "copy", "advance", "unlock"} => op[t] \in {"push", "pop"}
             /\ pc[t] = "unquery" /\ op[t] \in {"push", "pop"} => ret[t] \in BOOLEAN
  BY DEF Learnt, LearntHolds, Control, OpFitsLabel, QuietUnlessLive, Ring, AnswerHolds
<1> USE DEF LearntAt, NotEmptyStands, NotFullStands
<1>1. ASSUME NEW t \in Threads, ThreadCall(t) PROVE Learnt'
  <2>1. PICK o \in Ops \ {"none"} :
           /\ \E v : Call(t, o, v)
           /\ o = "push" => t \in Producers
           /\ o = "pop" => t \in Consumers
    BY <1>1 DEF ThreadCall, Ops, Queries
  <2>2. /\ opc = "live" /\ opc' = "live" /\ pc[t] = "idle"
        /\ pc' = [pc EXCEPT ![t] = IF o \in Queries THEN "query" ELSE "lock"]
        /\ op' = [op EXCEPT ![t] = o]
        /\ UNCHANGED <<size, count, ret, learnt>>
    BY <2>1 DEF Call, Goto, fields
  <2>3. Moves(t)
    BY <1>a, <2>2 DEF Moves, Control, Ops, Queries, Labels, OpFitsLabel
  <2>4. pc'[t] \in {"query", "lock"} /\ op'[t] = o
    BY <2>2 DEF Control
  <2>5. op[t] = "none"
    BY <2>2 DEF Control, OpFitsLabel
  <2> QED
    BY <1>a, <2>1, <2>2, <2>3, <2>4, <2>5, LearntLocal DEF Learnt
<1>2. ASSUME NEW t \in Threads, Lock(t) \/ QueryLock(t) PROVE Learnt'
  <2>1. Moves(t)
    BY <1>2, StepMoves DEF ThreadStep
  <2>2. /\ pc[t] \in {"lock", "query"} /\ pc'[t] \in {"query", "test"}
        /\ UNCHANGED <<size, count, op, ret, learnt, opc>>
    BY <1>2 DEF Lock, QueryLock, Goto, fields, Control
  <2> QED
    BY <1>a, <2>1, <2>2, LearntLocal DEF Learnt
<1>3. ASSUME NEW t \in Threads, QueryTest(t) PROVE Learnt'
  <2>1. Moves(t)
    BY <1>3, StepMoves DEF ThreadStep
  <2>2. /\ pc[t] = "test" /\ pc'[t] = "unquery" /\ opc = "live"
        /\ UNCHANGED <<size, count, indexr, indexw, op, learnt, opc>>
        /\ \A u \in Threads \ {t} : ret'[u] = ret[u]
    BY <1>a, <1>3 DEF QueryTest, Goto, fields, Control, Ring
  <2>3. /\ op[t] \in {"push", "isFull"} => ret'[t] = IsFull
        /\ op[t] \in {"pop", "isEmpty"} => ret'[t] = IsEmpty
    BY <1>3 DEF QueryTest, Ring
  <2>4. (count < size => IsFull = FALSE) /\ (count > 0 => IsEmpty = FALSE)
    BY <2>2 DEF IsFull, IsEmpty, Ring
  <2>5. (IsFull = FALSE => count < size) /\ (IsEmpty = FALSE => count > 0)
    BY <2>2 DEF IsFull, IsEmpty, Ring, IndicesAgree
  <2>6. LearntAt(t)'
    BY <1>a, <2>2, <2>3, <2>4, <2>5
  <2> QED
    BY <2>1, <2>2, <2>6, LearntLocal DEF Learnt
<1>4. ASSUME NEW t \in Threads, QueryUnlock(t) PROVE Learnt'
  <2>1. Moves(t)
    BY <1>4, StepMoves DEF ThreadStep
  <2>2. pc[t] = "unquery" /\ opc = "live" /\ UNCHANGED <<size, count, opc>>
    BY <1>a, <1>4 DEF QueryUnlock, fields
  <2>3. CASE op[t] \in Queries
    <3>1. /\ pc'[t] = "idle" /\ op'[t] = "none" /\ learnt'[t] = Conclusion(t)
          /\ DOMAIN learnt' = Threads
          /\ \A u \in Threads \ {t} : ret'[u] = ret[u] /\ learnt'[u] = learnt[u]
      BY <1>4, <2>3 DEF QueryUnlock, Return, Goto, Control, Ring, Learnt
    <3>2. /\ Conclusion(t) = "notEmpty" => count > 0
          /\ Conclusion(t) = "notFull" => count < size
      BY <1>a, <2>2 DEF Conclusion
    <3> QED
      BY <2>1, <2>2, <3>1, <3>2, LearntLocal
  <2>4. CASE op[t] \notin Queries
    <3>1. op[t] \in {"push", "pop"}
      BY <2>2, <2>4 DEF Control, Ops, OpFitsLabel
    <3>2. /\ pc'[t] = IF ret[t] THEN "unlock" ELSE "copy"
          /\ ret'[t] = ~ ret[t] /\ UNCHANGED <<op, learnt>>
          /\ \A u \in Threads \ {t} : ret'[u] = ret[u]
      BY <1>4, <2>4 DEF QueryUnlock, Goto, Control, Ring
    <3>3. LearntAt(t)'
      BY <1>a, <2>2, <3>1, <3>2
    <3> QED
      BY <2>1, <2>2, <3>2, <3>3, LearntLocal DEF Learnt
  <2> QED
    BY <2>3, <2>4
<1>5. ASSUME NEW t \in Threads, Copy(t) PROVE Learnt'
  <2>1. Moves(t)
    BY <1>5, StepMoves DEF ThreadStep
  <2>2. /\ pc[t] = "copy" /\ pc'[t] = "advance" /\ op[t] \in {"push", "pop"}
        /\ UNCHANGED <<size, count, op, ret, learnt, opc>>
    BY <1>a, <1>5 DEF Copy, Goto, Control
  <2> QED
    BY <1>a, <2>1, <2>2, LearntLocal DEF Learnt
<1>6. ASSUME NEW t \in Threads, Advance(t) PROVE Learnt'
  BY <1>6, LearntAdvance
<1>7. ASSUME NEW t \in Threads, Unlock(t) PROVE Learnt'
  <2>1. Moves(t)
    BY <1>7, StepMoves DEF ThreadStep
  <2>2. /\ pc'[t] = "idle" /\ op'[t] = "none" /\ learnt'[t] = "nothing"
        /\ DOMAIN learnt' = Threads /\ UNCHANGED <<size, count>>
        /\ \A u \in Threads \ {t} : ret'[u] = ret[u] /\ learnt'[u] = learnt[u]
    BY <1>7 DEF Unlock, Return, Goto, fields, Control, Ring, Learnt
  <2> QED
    BY <2>1, <2>2, LearntLocal
<1>8. ASSUME OwnerStep PROVE Learnt'
  <2>1. UNCHANGED <<pc, op, ret>> /\ \A t \in Threads : pc[t] = "idle" /\ op[t] = "none"
    BY <1>8 DEF OwnerStep, AllocStorage, NewInstance, InitInstance, DeleteInstance,
       FreeStorage, DeleterStorage, DeleterDeinit, DeleterInstance, locals,
       Control, QuietUnlessLive, OpFitsLabel
  <2>2. /\ DOMAIN learnt' = Threads
        /\ \A t \in Threads : learnt'[t] = "nothing"
    BY <1>a, <1>8 DEF OwnerStep, AllocStorage, NewInstance, InitInstance, DeleteInstance,
       FreeStorage, DeleterStorage, DeleterDeinit, DeleterInstance, locals, Learnt
  <2> QED
    BY <2>1, <2>2 DEF Learnt, LearntHolds
<1>9. CASE UNCHANGED vars
  BY <1>9 DEF vars, locals, fields, Learnt, LearntHolds
<1> QED
  BY <1>1, <1>2, <1>3, <1>4, <1>5, <1>6, <1>7, <1>8, <1>9 DEF Next, ThreadStep

\* What isEmpty() told the only consumer, and isFull() the only producer, is still true
\* when that thread's pop() or push() comes: it does not fail, although the lock was
\* released in between.
THEOREM AnswersStay == Spec => []AnswerStays
<1>1. Init => Learnt
  BY DEF Init, Learnt, LearntHolds, LearntAt
<1>2. Learnt /\ Ring /\ Control /\ [Next]_vars => Learnt'
  BY LearntKept
<1>3. Learnt => AnswerStays
  BY DEF Learnt, LearntHolds, LearntAt, NotEmptyStands, NotFullStands, AnswerStays
<1> QED
  BY <1>1, <1>2, <1>3, RingAlways, ControlAlways, PTL DEF Spec

-----------------------------------------------------------------------------
(* Refinement of BoundedFifo: sequences and positions *)

\* A function on 1 .. n is a sequence of length n.
LEMMA SeqOf ==
    ASSUME NEW S, NEW n \in Nat, NEW s \in [1 .. n -> S]
    PROVE  s \in Seq(S) /\ Len(s) = n /\ (s = << >> <=> n = 0)
<1>1. s \in Seq(S) /\ Len(s) = n
  OBVIOUS
<1>2. Len(<< >>) = 0
  OBVIOUS
<1>3. s = << >> => n = 0
  BY <1>1, <1>2, Zenon
<1>4. n = 0 => s = << >>
  BY <1>1
<1> QED
  BY <1>1, <1>3, <1>4

\* A sequence that only adds one element at the end.
LEMMA AppendIs ==
    ASSUME NEW S, NEW n \in Nat, NEW s \in [1 .. n -> S], NEW r \in [1 .. (n + 1) -> S],
           \A k \in 1 .. n : r[k] = s[k]
    PROVE  r = Append(s, r[n + 1])
<1>1. s \in Seq(S) /\ Len(s) = n /\ r \in Seq(S) /\ Len(r) = n + 1
  BY SeqOf
<1>2. r[n + 1] \in S
  OBVIOUS
<1> DEFINE a == Append(s, r[n + 1])
<1>3. a \in Seq(S) /\ Len(a) = n + 1 /\ a[n + 1] = r[n + 1] /\ \A k \in 1 .. n : a[k] = s[k]
  BY <1>1, <1>2
<1> HIDE DEF a
<1>4. a \in [1 .. (n + 1) -> S]
  BY <1>3, LenProperties, Zenon
<1>5. \A k \in 1 .. (n + 1) : a[k] = r[k]
  BY <1>3
<1>6. a = r
  BY <1>4, <1>5
<1> QED
  BY <1>6 DEF a

\* A sequence that only lacks another's first element.
LEMMA TailIs ==
    ASSUME NEW S, NEW n \in Nat, NEW s \in [1 .. (n + 1) -> S], NEW r \in [1 .. n -> S],
           \A k \in 1 .. n : r[k] = s[k + 1]
    PROVE  r = Tail(s) /\ s # << >> /\ Head(s) = s[1]
<1>1. s \in Seq(S) /\ Len(s) = n + 1 /\ r \in Seq(S) /\ Len(r) = n /\ s # << >>
  BY SeqOf
<1> DEFINE a == Tail(s)
<1>2. a \in Seq(S) /\ Len(a) = n /\ \A k \in 1 .. n : a[k] = s[k + 1]
  BY <1>1
<1> HIDE DEF a
<1>3. a \in [1 .. n -> S]
  BY <1>2, LenProperties, Zenon
<1>4. a = r
  BY <1>2, <1>3
<1>5. Head(s) = s[1]
  BY <1>1
<1> QED
  BY <1>1, <1>4, <1>5 DEF a

\* Wrapping once: m % n for m below 2 * n.
LEMMA Wraps ==
    \A n, m \in Nat : m < n + n => (m < n => m % n = m) /\ (~ (m < n) => m % n = m - n)
<1> SUFFICES ASSUME NEW n \in Nat, NEW m \in Nat, m < n + n
             PROVE  (m < n => m % n = m) /\ (~ (m < n) => m % n = m - n)
  OBVIOUS
<1>1. n \in Nat \ {0}
  OBVIOUS
<1>2. CASE m < n
  BY <1>1, <1>2
<1>3. CASE ~ (m < n)
  <2>1. m - n \in 0 .. (n - 1) /\ m = n + (m - n)
    BY <1>1, <1>3
  <2> QED
    BY <1>1, <1>3, <2>1
<1> QED
  BY <1>2, <1>3

\* (indexr + k) % size without the remainder.
LEMMA RingPosition ==
    \A n, i, j \in Nat :
       i < n /\ j < n => (i + j) % n = IF i + j < n THEN i + j ELSE i + j - n
<1> SUFFICES ASSUME NEW n \in Nat, NEW i \in Nat, NEW j \in Nat, i < n, j < n
             PROVE  (i + j) % n = IF i + j < n THEN i + j ELSE i + j - n
  OBVIOUS
<1>1. i + j \in Nat /\ i + j < n + n
  OBVIOUS
<1>2. /\ i + j < n => (i + j) % n = i + j
      /\ ~ (i + j < n) => (i + j) % n = (i + j) - n
  BY <1>1, Wraps, Zenon
<1> QED
  BY <1>1, <1>2

-----------------------------------------------------------------------------
(* What a thread holds *)

Data == DataFits /\ DOMAIN elem = Threads

\* A step that leaves the ring alone only has to justify what its own thread holds.
LEMMA DataLocal ==
    ASSUME Data, NEW t \in Threads, Moves(t), UNCHANGED <<size, indexr, indexw, storage>>,
           DOMAIN elem' = Threads,
           \A u \in Threads \ {t} : elem'[u] = elem[u] /\ ret'[u] = ret[u],
           DataAt(t)'
    PROVE  Data'
<1>1. ASSUME NEW u \in Threads \ {t} PROVE DataAt(u)'
  <2>1. /\ DataAt(u) /\ pc'[u] = pc[u] /\ op'[u] = op[u]
        /\ ret'[u] = ret[u] /\ elem'[u] = elem[u]
    BY DEF Data, DataFits, Moves
  <2> QED
    BY <2>1 DEF DataAt
<1> QED
  BY <1>1 DEF Data, DataFits, Moves

\* push() and pop() write to the ring only under the lock, where no other thread has
\* an element in hand.
LEMMA DataCritical ==
    ASSUME Data, Ring, Control, NEW t \in Threads, Copy(t) \/ Advance(t)
    PROVE  Data'
<1>1. Moves(t)
  BY StepMoves DEF ThreadStep
<1>2. /\ pc[t] \in {"copy", "advance"} /\ opc = "live" /\ op[t] \in {"push", "pop"}
      /\ UNCHANGED <<op, ret, size, opc>> /\ DataAt(t)
      /\ DOMAIN storage = 0 .. (size - 1)
  BY <1>1 DEF Copy, Advance, Moves, Control, OpFitsLabel, Data, DataFits
<1>3. \A u \in Threads \ {t} :
         pc[u] \notin {"test", "unquery", "copy", "advance", "unlock"} /\ pc'[u] = pc[u]
  <2>1. HeldAt(t) > 0
    BY <1>2 DEF HeldAt
  <2> QED
    BY <1>1, <2>1, HolderIsAlone DEF Moves
<1>4. indexw \in 0 .. (size - 1) /\ indexr \in 0 .. (size - 1)
  <2>1. op[t] = "push" => count < size
    BY <1>2 DEF Ring, AnswerHolds, Proceeds
  <2>2. op[t] = "pop" => count > 0
    BY <1>2 DEF Ring, AnswerHolds, Proceeds
  <2>3. count < size \/ count > 0
    BY <1>2, <2>1, <2>2
  <2> QED
    BY <1>2, <2>3 DEF Ring, IndicesAgree
<1>5. CASE Copy(t)
  <2>1. /\ pc[t] = "copy" /\ pc'[t] = "advance" /\ UNCHANGED <<indexr, indexw>>
        /\ op[t] = "push" => storage' = [storage EXCEPT ![indexw] = elem[t]] /\ elem' = elem
        /\ op[t] # "push" => elem' = [elem EXCEPT ![t] = storage[indexr]] /\ storage' = storage
    BY <1>5 DEF Copy, Goto, Control
  <2>2. DOMAIN storage' = DOMAIN storage /\ DOMAIN elem' = Threads
    BY <2>1 DEF Data
  <2>3. DataAt(t)'
    BY <1>2, <1>4, <2>1 DEF DataAt, Data
  <2>4. ASSUME NEW u \in Threads \ {t} PROVE DataAt(u)'
    <3>1. DataAt(u) /\ elem'[u] = elem[u]
      BY <2>1 DEF Data, DataFits
    <3> QED
      BY <1>2, <1>3, <3>1 DEF DataAt
  <2> QED
    BY <1>2, <2>2, <2>3, <2>4 DEF Data, DataFits
<1>6. CASE Advance(t)
  <2>1. pc'[t] = "unlock" /\ UNCHANGED <<storage, elem>>
    BY <1>6 DEF Advance, Goto, Control
  <2>2. ASSUME NEW u \in Threads PROVE DataAt(u)'
    <3>1. DataAt(u)
      BY DEF Data, DataFits
    <3> QED
      BY <1>2, <1>3, <2>1, <3>1 DEF DataAt
  <2> QED
    BY <1>2, <2>1, <2>2 DEF Data, DataFits
<1> QED
  BY <1>5, <1>6

\* No step of push(), pop(), the queries or the owner leaves a thread with an element
\* it should not hold.
LEMMA DataKept ==
    ASSUME Data, Ring, Control, [Next]_vars
    PROVE  Data'
<1>a. ASSUME NEW t \in Threads
      PROVE  /\ DataAt(t)
             /\ pc[t] # "idle" => opc = "live"
             /\ pc[t] = "idle" <=> op[t] = "none"
             /\ pc[t] \in {"lock", "copy", "advance", "unlock"} => op[t] \in {"push", "pop"}
             /\ pc[t] = "unquery" /\ op[t] \in {"push", "pop"} => ret[t] \in BOOLEAN
  BY DEF Data, DataFits, Control, OpFitsLabel, QuietUnlessLive, Ring, AnswerHolds
<1>1. ASSUME NEW t \in Threads, ThreadCall(t) PROVE Data'
  <2>1. PICK o \in Ops \ {"none"}, v \in Values \cup {Null} :
           Call(t, o, v) /\ (o = "pop" => v = Null)
    BY <1>1 DEF ThreadCall, Ops, Queries
  <2>2. Moves(t)
    BY <1>a, <2>1 DEF Call, Goto, Moves, Control, Ops, Queries, Labels, OpFitsLabel
  <2>3. /\ pc'[t] \in {"query", "lock"} /\ op'[t] = o /\ elem'[t] = v
        /\ UNCHANGED <<size, indexr, indexw, storage, ret>>
        /\ DOMAIN elem' = Threads /\ \A u \in Threads \ {t} : elem'[u] = elem[u]
    BY <2>1 DEF Call, Goto, fields, Control, Data
  <2>4. DataAt(t)'
    BY <2>1, <2>3 DEF DataAt
  <2> QED
    BY <2>2, <2>3, <2>4, DataLocal
<1>2. ASSUME NEW t \in Threads, Lock(t) \/ QueryLock(t) \/ QueryTest(t) PROVE Data'
  <2>1. Moves(t)
    BY <1>2, StepMoves DEF ThreadStep
  <2>2. /\ pc[t] \in {"lock", "query", "test"} /\ pc'[t] \in {"query", "test", "unquery"}
        /\ UNCHANGED <<size, indexr, indexw, storage, op, elem>>
        /\ \A u \in Threads \ {t} : ret'[u] = ret[u]
    BY <1>2 DEF Lock, QueryLock, QueryTest, Goto, fields, Control, Ring
  <2>3. DataAt(t)'
    BY <1>a, <2>2 DEF DataAt
  <2> QED
    BY <2>1, <2>2, <2>3, DataLocal DEF Data
<1>3. ASSUME NEW t \in Threads, QueryUnlock(t) PROVE Data'
  <2>1. Moves(t)
    BY <1>3, StepMoves DEF ThreadStep
  <2>2. pc[t] = "unquery" /\ UNCHANGED <<size, indexr, indexw, storage>>
    BY <1>3 DEF QueryUnlock, fields
  <2>3. CASE op[t] \in Queries
    <3>1. /\ pc'[t] = "idle" /\ op'[t] = "none" /\ elem'[t] = Null /\ ret'[t] = Null
          /\ DOMAIN elem' = Threads
          /\ \A u \in Threads \ {t} : ret'[u] = ret[u] /\ elem'[u] = elem[u]
      BY <1>3, <2>3 DEF QueryUnlock, Return, Goto, Control, Ring, Data
    <3>2. DataAt(t)'
      BY <3>1 DEF DataAt
    <3> QED
      BY <2>1, <2>2, <3>1, <3>2, DataLocal
  <2>4. CASE op[t] \notin Queries
    <3>1. op[t] \in {"push", "pop"}
      BY <2>2, <2>4 DEF Control, Ops, OpFitsLabel
    <3>2. /\ pc'[t] = IF ret[t] THEN "unlock" ELSE "copy"
          /\ ret'[t] = ~ ret[t] /\ UNCHANGED <<op, elem>>
          /\ \A u \in Threads \ {t} : ret'[u] = ret[u]
      BY <1>3, <2>4 DEF QueryUnlock, Goto, Control, Ring
    <3>3. DataAt(t)'
      BY <1>a, <2>2, <3>1, <3>2 DEF DataAt
    <3> QED
      BY <2>1, <2>2, <3>2, <3>3, DataLocal DEF Data
  <2> QED
    BY <2>3, <2>4
<1>4. ASSUME NEW t \in Threads, Copy(t) \/ Advance(t) PROVE Data'
  BY <1>4, DataCritical
<1>5. ASSUME NEW t \in Threads, Unlock(t) PROVE Data'
  <2>1. Moves(t)
    BY <1>5, StepMoves DEF ThreadStep
  <2>2. /\ pc'[t] = "idle" /\ op'[t] = "none" /\ elem'[t] = Null /\ ret'[t] = Null
        /\ DOMAIN elem' = Threads /\ UNCHANGED <<size, indexr, indexw, storage>>
        /\ \A u \in Threads \ {t} : ret'[u] = ret[u] /\ elem'[u] = elem[u]
    BY <1>5 DEF Unlock, Return, Goto, fields, Control, Ring, Data
  <2>3. DataAt(t)'
    BY <2>2 DEF DataAt
  <2> QED
    BY <2>1, <2>2, <2>3, DataLocal
<1>6. ASSUME OwnerStep PROVE Data'
  <2>1. UNCHANGED <<pc, op, ret, elem>> /\ \A t \in Threads : pc[t] = "idle" /\ op[t] = "none"
    BY <1>6 DEF OwnerStep, AllocStorage, NewInstance, InitInstance, DeleteInstance,
       FreeStorage, DeleterStorage, DeleterDeinit, DeleterInstance, locals,
       Control, QuietUnlessLive, OpFitsLabel
  <2>2. opc' = "live" => DOMAIN storage' = 0 .. (size' - 1)
    BY <1>6 DEF OwnerStep, AllocStorage, NewInstance, InitInstance, DeleteInstance,
       FreeStorage, DeleterStorage, DeleterDeinit, DeleterInstance, fields
  <2>3. \A t \in Threads : DataAt(t)'
    BY <1>a, <2>1 DEF DataAt
  <2> QED
    BY <2>1, <2>2, <2>3 DEF Data, DataFits
<1>7. CASE UNCHANGED vars
  BY <1>7 DEF vars, locals, fields, Data, DataFits, DataAt
<1> QED
  BY <1>1, <1>2, <1>3, <1>4, <1>5, <1>6, <1>7 DEF Next, ThreadStep

\* What push() and pop() hold at each of their labels, always.
LEMMA DataAlways == Spec => []Data
<1>1. Init => Data
  BY DEF Init, Data, DataFits, DataAt
<1>2. Data /\ Ring /\ Control /\ [Next]_vars => Data'
  BY DataKept
<1> QED
  BY <1>1, <1>2, RingAlways, ControlAlways, PTL DEF Spec

-----------------------------------------------------------------------------
(* Every step is a step of the queue, or none *)

\* What the refinement needs of a state.
Sound == Control /\ Ring /\ Data

\* The state of the queue that thread t sees: its own call and the ring's contents.
LEMMA ViewMoves ==
    ASSUME NEW t \in Threads, Moves(t), size' = size,
           \A u \in Threads \ {t} : elem'[u] = elem[u] /\ ret'[u] = ret[u]
    PROVE  /\ FifoCall' = [FifoCall EXCEPT ![t] = AbstractCall(t)']
           /\ FifoElem' = [FifoElem EXCEPT ![t] = AbstractElem(t)']
           /\ FifoRet' = [FifoRet EXCEPT ![t] = AbstractRet(t)']
           /\ FifoCapacity' = FifoCapacity /\ FifoCapacity = size
           /\ FifoCall[t] = AbstractCall(t)
           /\ FifoElem[t] = AbstractElem(t)
           /\ FifoRet[t] = AbstractRet(t)
<1>1. ASSUME NEW u \in Threads \ {t}
      PROVE  /\ AbstractCall(u)' = AbstractCall(u)
             /\ AbstractElem(u)' = AbstractElem(u)
             /\ AbstractRet(u)' = AbstractRet(u)
  <2>1. /\ pc'[u] = pc[u] /\ op'[u] = op[u]
        /\ ret'[u] = ret[u] /\ elem'[u] = elem[u]
    BY DEF Moves
  <2>2. Pending(u)' <=> Pending(u)
    BY <2>1 DEF Pending
  <2> QED
    BY <2>1, <2>2 DEF AbstractCall, AbstractElem, AbstractRet
<1>2. FifoCall' = [FifoCall EXCEPT ![t] = AbstractCall(t)']
  BY <1>1 DEF FifoCall
<1>3. FifoElem' = [FifoElem EXCEPT ![t] = AbstractElem(t)']
  BY <1>1 DEF FifoElem
<1>4. FifoRet' = [FifoRet EXCEPT ![t] = AbstractRet(t)']
  BY <1>1 DEF FifoRet
<1> QED
  BY <1>2, <1>3, <1>4 DEF FifoCall, FifoElem, FifoRet, FifoCapacity, Moves

\* A step within an operation is not seen at all.
LEMMA ViewStutters ==
    ASSUME NEW t \in Threads, Moves(t), size' = size,
           \A u \in Threads \ {t} : elem'[u] = elem[u] /\ ret'[u] = ret[u],
           AbstractCall(t)' = AbstractCall(t), AbstractElem(t)' = AbstractElem(t),
           AbstractRet(t)' = AbstractRet(t), Contents' = Contents
    PROVE  UNCHANGED Fifo!avars
<1>1. FifoCall' = FifoCall /\ FifoElem' = FifoElem /\ FifoRet' = FifoRet
  BY ViewMoves DEF FifoCall, FifoElem, FifoRet
<1>2. FifoCapacity' = FifoCapacity
  BY ViewMoves
<1> QED
  BY <1>1, <1>2 DEF Fifo!avars

\* The ring as a sequence: its length is the count.
LEMMA ContentsAre ==
    ASSUME Sound, opc = "live"
    PROVE  /\ Contents = [k \in 1 .. count |-> storage[(indexr + k - 1) % size]]
           /\ \E S : Contents \in [1 .. count -> S]
           /\ Len(Contents) = count
           /\ Contents = << >> <=> count = 0
           /\ IsEmpty <=> count = 0
           /\ IsFull <=> count = size
<1>1. Contents = [k \in 1 .. count |-> storage[(indexr + k - 1) % size]]
  BY DEF Contents
<1>2. count \in Nat
  BY DEF Sound, Ring
<1> DEFINE S == {storage[(indexr + k - 1) % size] : k \in 1 .. count}
<1>3. Contents \in [1 .. count -> S]
  BY <1>1
<1> HIDE DEF S
<1>4. Len(Contents) = count /\ (Contents = << >> <=> count = 0)
  BY <1>2, <1>3, SeqOf
<1>5. (IsEmpty <=> count = 0) /\ (IsFull <=> count = size)
  BY DEF IsEmpty, IsFull, Sound, Ring, IndicesAgree
<1> QED
  BY <1>1, <1>3, <1>4, <1>5

\* The ring's contents do not depend on what a step does to the threads.
LEMMA ContentsStay ==
    ASSUME opc' = opc, UNCHANGED <<storage, size, indexr, count>>
    PROVE  Contents' = Contents
BY DEF Contents

\* What the invariants say of one thread.
LEMMA AtThread ==
    ASSUME Sound, NEW t \in Threads
    PROVE  /\ DataAt(t)
           /\ pc[t] # "idle" => opc = "live"
           /\ pc[t] = "idle" <=> op[t] = "none"
           /\ pc[t] \in {"lock", "copy", "advance", "unlock"} => op[t] \in {"push", "pop"}
           /\ pc[t] = "unquery" /\ op[t] \in {"push", "pop"} => ret[t] \in BOOLEAN
           /\ op[t] \in Ops
BY DEF Sound, Data, DataFits, Control, OpFitsLabel, QuietUnlessLive, Ring, AnswerHolds

\* Entering push(), pop() or a query.
LEMMA CallStarts ==
    ASSUME Sound, NEW t \in Threads, ThreadCall(t)
    PROVE  Fifo!Next
<1>1. PICK o \in Ops \ {"none"}, v \in Values \cup {Null} :
         /\ Call(t, o, v)
         /\ o = "push" => v \in Values
         /\ o # "push" => v = Null
  BY DEF ThreadCall, Ops, Queries
<1>2. Moves(t)
  BY <1>1, AtThread DEF Call, Goto, Moves, Sound, Control, Ops, Queries, Labels
<1>3. /\ pc[t] = "idle" /\ pc'[t] \in {"query", "lock"} /\ op'[t] = o /\ elem'[t] = v
      /\ opc' = opc /\ UNCHANGED <<storage, size, indexr, count, ret>>
      /\ \A u \in Threads \ {t} : elem'[u] = elem[u]
  BY <1>1 DEF Call, Goto, fields, Sound, Control, Data
<1>4. ret[t] = Null
  BY <1>3, AtThread DEF DataAt
<1>5. AbstractCall(t) = "idle" /\ AbstractRet(t) = Null
  BY <1>3, <1>4 DEF AbstractCall, AbstractRet, Pending
<1>6. AbstractCall(t)' = o /\ AbstractElem(t)' = v /\ AbstractRet(t)' = Null
  BY <1>1, <1>3 DEF AbstractCall, AbstractElem, AbstractRet, Pending
<1>7. Contents' = Contents
  BY <1>3, ContentsStay
<1>8. /\ FifoCall' = [FifoCall EXCEPT ![t] = AbstractCall(t)']
      /\ FifoElem' = [FifoElem EXCEPT ![t] = AbstractElem(t)']
      /\ FifoRet' = [FifoRet EXCEPT ![t] = AbstractRet(t)']
      /\ FifoCapacity' = FifoCapacity
      /\ FifoCall[t] = AbstractCall(t) /\ FifoRet[t] = AbstractRet(t)
  BY <1>2, <1>3, ViewMoves
<1>9. FifoRet' = FifoRet
  BY <1>5, <1>6, <1>8 DEF FifoRet
<1>10. Fifo!Start(t, o, v)
  BY <1>5, <1>6, <1>7, <1>8, <1>9 DEF Fifo!Start
<1> QED
  BY <1>1, <1>10 DEF Fifo!Next, Ops, Queries

\* Taking the lock, once or twice, is not an effect.
LEMMA LockStutters ==
    ASSUME Sound, NEW t \in Threads, Lock(t) \/ QueryLock(t)
    PROVE  UNCHANGED Fifo!avars
<1>1. Moves(t)
  BY StepMoves DEF ThreadStep, Sound
<1>2. /\ pc[t] \in {"lock", "query"} /\ pc'[t] \in {"query", "test"}
      /\ opc' = opc /\ UNCHANGED <<storage, size, indexr, count, op, elem, ret>>
  BY DEF Lock, QueryLock, Goto, fields, Sound, Control
<1>3. /\ AbstractCall(t)' = AbstractCall(t)
      /\ AbstractElem(t)' = AbstractElem(t)
      /\ AbstractRet(t)' = AbstractRet(t)
  BY <1>2 DEF AbstractCall, AbstractElem, AbstractRet, Pending
<1>4. Contents' = Contents
  BY <1>2, ContentsStay
<1> QED
  BY <1>1, <1>2, <1>3, <1>4, ViewStutters

\* A query's answer, and push()'s or pop()'s failure, takes effect where the indices
\* are compared; a success comes later.
LEMMA TestAnswers ==
    ASSUME Sound, NEW t \in Threads, QueryTest(t)
    PROVE  Fifo!Next \/ UNCHANGED Fifo!avars
<1>1. Moves(t)
  BY StepMoves DEF ThreadStep, Sound
<1>2. /\ pc[t] = "test" /\ pc'[t] = "unquery" /\ opc = "live" /\ op[t] \in Ops \ {"none"}
      /\ opc' = opc /\ UNCHANGED <<storage, size, indexr, count, op, elem>>
      /\ \A u \in Threads \ {t} : ret'[u] = ret[u]
  BY AtThread DEF QueryTest, Goto, fields, Sound, Control, Ring
<1>3. Contents' = Contents
  BY <1>2, ContentsStay
<1>4. /\ op[t] \in {"push", "isFull"} => ret'[t] = IsFull
      /\ op[t] \in {"pop", "isEmpty"} => ret'[t] = IsEmpty
      /\ op[t] = "getCount" => ret'[t] = count
  BY DEF QueryTest, Sound, Ring
<1>5. /\ FifoCall' = [FifoCall EXCEPT ![t] = AbstractCall(t)']
      /\ FifoElem' = [FifoElem EXCEPT ![t] = AbstractElem(t)']
      /\ FifoRet' = [FifoRet EXCEPT ![t] = AbstractRet(t)']
      /\ FifoCapacity' = FifoCapacity /\ FifoCapacity = size
      /\ FifoCall[t] = AbstractCall(t)
      /\ FifoElem[t] = AbstractElem(t)
  BY <1>1, <1>2, ViewMoves
<1>6. AbstractCall(t) = op[t]
  BY <1>2 DEF AbstractCall, Pending
<1>7. /\ Len(Contents) = count
      /\ Contents = << >> <=> count = 0
      /\ IsEmpty <=> count = 0
      /\ IsFull <=> count = size
      /\ count \in Nat /\ size \in Nat
  BY <1>2, ContentsAre DEF Sound, Ring
<1>8. CASE op[t] \in Queries
  <2>1. /\ AbstractCall(t)' = "done" /\ AbstractRet(t)' = ret'[t]
        /\ AbstractElem(t)' = AbstractElem(t)
    BY <1>2, <1>8 DEF AbstractCall, AbstractElem, AbstractRet, Pending, Queries
  <2>2. FifoElem' = FifoElem
    BY <1>5, <2>1 DEF FifoElem
  <2>3. Fifo!Finish(t, op[t], ret'[t])
    BY <1>5, <1>6, <2>1 DEF Fifo!Finish
  <2>4. op[t] = "isEmpty" => ret'[t] = (Contents = << >>)
    BY <1>4, <1>7 DEF IsEmpty
  <2>5. op[t] = "isFull" => ret'[t] = (Len(Contents) = FifoCapacity)
    BY <1>4, <1>5, <1>7 DEF IsFull
  <2>6. op[t] = "getCount" => ret'[t] = Len(Contents)
    BY <1>4, <1>7
  <2>7. Fifo!Ask(t)
    <3>1. CASE op[t] = "isEmpty"
      BY <1>3, <2>2, <2>3, <2>4, <3>1, Zenon DEF Fifo!Ask
    <3>2. CASE op[t] = "isFull"
      BY <1>3, <2>2, <2>3, <2>5, <3>2, Zenon DEF Fifo!Ask
    <3>3. CASE op[t] = "getCount"
      BY <1>3, <2>2, <2>3, <2>6, <3>3, Zenon DEF Fifo!Ask
    <3> QED
      BY <1>8, <3>1, <3>2, <3>3 DEF Queries
  <2> QED
    BY <2>7 DEF Fifo!Next
<1>9. CASE op[t] \in {"push", "pop"} /\ ret'[t]
  <2>1. (op[t] = "push" => count = size) /\ (op[t] = "pop" => count = 0)
    BY <1>4, <1>7, <1>9
  <2>2. ret'[t] = TRUE
    BY <1>4, <1>9 DEF IsFull, IsEmpty
  <2>3. AbstractCall(t)' = "done" /\ AbstractRet(t)' = FALSE
    BY <1>2, <1>9, <2>2 DEF AbstractCall, AbstractRet, Pending, Queries
  <2>4. AbstractElem(t)' = AbstractElem(t)
    <3>1. op[t] = "pop" => elem[t] = Null
      BY <1>2, AtThread DEF DataAt
    <3> QED
      BY <1>2, <3>1 DEF AbstractElem
  <2>5. FifoElem' = FifoElem
    BY <1>5, <2>4 DEF FifoElem
  <2>6. Fifo!Finish(t, op[t], FALSE)
    BY <1>5, <1>6, <2>3 DEF Fifo!Finish
  <2>7. CASE op[t] = "push"
    <3>1. ~ (Len(Contents) < FifoCapacity)
      BY <1>5, <1>7, <2>1, <2>7
    <3>2. Fifo!Push(t)
      BY <1>3, <2>5, <2>6, <2>7, <3>1, Zenon DEF Fifo!Push
    <3> QED
      BY <3>2 DEF Fifo!Next
  <2>8. CASE op[t] = "pop"
    <3>1. Contents = << >>
      BY <1>7, <2>1, <2>8
    <3>2. Fifo!Pop(t)
      BY <1>3, <2>5, <2>6, <2>8, <3>1, Zenon DEF Fifo!Pop
    <3> QED
      BY <3>2 DEF Fifo!Next
  <2> QED
    BY <1>9, <2>7, <2>8
<1>10. CASE op[t] \in {"push", "pop"} /\ ~ ret'[t]
  <2>1. Pending(t) /\ Pending(t)'
    BY <1>2, <1>10 DEF Pending, Queries
  <2>2. AbstractCall(t)' = AbstractCall(t)
    BY <1>2, <2>1 DEF AbstractCall
  <2>3. AbstractElem(t)' = AbstractElem(t)
    BY <1>2, <2>1 DEF AbstractElem
  <2>4. AbstractRet(t)' = AbstractRet(t)
    BY <1>2, <1>10, <2>1 DEF AbstractRet
  <2> QED
    BY <1>1, <1>2, <1>3, <2>2, <2>3, <2>4, ViewStutters
<1> QED
  BY <1>2, <1>8, <1>9, <1>10 DEF Ops, Queries

\* Releasing the query's lock ends a query; push() and pop() go on.
LEMMA UnlockReturns ==
    ASSUME Sound, NEW t \in Threads, QueryUnlock(t) \/ Unlock(t)
    PROVE  Fifo!Next \/ UNCHANGED Fifo!avars
<1>1. Moves(t)
  BY StepMoves DEF ThreadStep, Sound
<1>2. /\ opc' = opc /\ UNCHANGED <<storage, size, indexr, count>>
      /\ \A u \in Threads \ {t} : elem'[u] = elem[u] /\ ret'[u] = ret[u]
  BY DEF QueryUnlock, Unlock, Return, Goto, fields, Sound, Control, Data, Ring
<1>3. Contents' = Contents
  BY <1>2, ContentsStay
<1>4. /\ FifoCall' = [FifoCall EXCEPT ![t] = AbstractCall(t)']
      /\ FifoElem' = [FifoElem EXCEPT ![t] = AbstractElem(t)']
      /\ FifoRet' = [FifoRet EXCEPT ![t] = AbstractRet(t)']
      /\ FifoCapacity' = FifoCapacity /\ FifoCall[t] = AbstractCall(t)
  BY <1>1, <1>2, ViewMoves
<1>5. CASE Unlock(t) \/ op[t] \in Queries
  <2>1. /\ pc[t] \in {"unquery", "unlock"}
        /\ pc[t] = "unquery" => op[t] \in Queries
        /\ pc'[t] = "idle" /\ op'[t] = "none" /\ elem'[t] = Null /\ ret'[t] = Null
    BY <1>5 DEF QueryUnlock, Unlock, Return, Goto, Sound, Control, Data, Ring
  <2>2. AbstractCall(t) = "done"
    BY <2>1 DEF AbstractCall, Pending
  <2>3. AbstractCall(t)' = "idle" /\ AbstractElem(t)' = Null /\ AbstractRet(t)' = Null
    BY <2>1 DEF AbstractCall, AbstractElem, AbstractRet, Pending
  <2>4. Fifo!Return(t)
    BY <1>3, <1>4, <2>2, <2>3 DEF Fifo!Return
  <2> QED
    BY <2>4 DEF Fifo!Next
<1>6. CASE QueryUnlock(t) /\ op[t] \notin Queries
  <2>1. pc[t] = "unquery"
    BY <1>6 DEF QueryUnlock
  <2>2. op[t] \in {"push", "pop"} /\ ret[t] \in BOOLEAN
    BY <1>6, <2>1, AtThread DEF Ops
  <2>3. /\ pc'[t] = IF ret[t] THEN "unlock" ELSE "copy"
        /\ ret'[t] = ~ ret[t] /\ UNCHANGED <<op, elem>>
    BY <1>6 DEF QueryUnlock, Goto, Sound, Control, Ring
  <2>4. CASE ret[t] = TRUE
    <3>1. ~ Pending(t) /\ ~ Pending(t)' /\ pc'[t] = "unlock" /\ ret'[t] = FALSE
      BY <2>1, <2>2, <2>3, <2>4 DEF Pending
    <3>2. AbstractCall(t)' = AbstractCall(t) /\ AbstractElem(t)' = AbstractElem(t)
      BY <2>1, <2>3, <3>1 DEF AbstractCall, AbstractElem
    <3>3. AbstractRet(t)' = FALSE /\ AbstractRet(t) = FALSE
      BY <1>6, <2>1, <2>4, <3>1 DEF AbstractRet
    <3> QED
      BY <1>1, <1>2, <1>3, <3>2, <3>3, ViewStutters
  <2>5. CASE ret[t] = FALSE
    <3>1. Pending(t) /\ Pending(t)' /\ pc'[t] = "copy"
      BY <1>6, <2>1, <2>3, <2>5 DEF Pending
    <3>2. AbstractCall(t)' = AbstractCall(t) /\ AbstractElem(t)' = AbstractElem(t)
      BY <2>1, <2>3, <3>1 DEF AbstractCall, AbstractElem
    <3>3. AbstractRet(t)' = Null /\ AbstractRet(t) = Null
      BY <2>1, <2>5, <3>1 DEF AbstractRet
    <3> QED
      BY <1>1, <1>2, <1>3, <3>2, <3>3, ViewStutters
  <2> QED
    BY <2>2, <2>4, <2>5
<1> QED
  BY <1>5, <1>6

\* The positions the contents occupy.
LEMMA PositionsAre ==
    ASSUME Sound, opc = "live", NEW k \in Nat, k < size
    PROVE  (indexr + k) % size = IF indexr + k < size THEN indexr + k ELSE indexr + k - size
<1>1. size \in Nat /\ indexr \in Nat /\ indexr < size
  BY DEF Sound, Ring, IndicesAgree
<1> QED
  BY <1>1, RingPosition, Zenon

\* Where push() and pop() stand when they touch the ring.
LEMMA AtRing ==
    ASSUME Sound, NEW t \in Threads, pc[t] \in {"copy", "advance"}
    PROVE  /\ opc = "live" /\ op[t] \in {"push", "pop"} /\ ret[t] = TRUE
           /\ op[t] = "push" => count < size
           /\ op[t] = "pop" => count > 0
           /\ size \in Nat /\ indexr \in 0 .. (size - 1) /\ indexw \in 0 .. (size - 1)
           /\ count \in 0 .. size
           /\ indexw = IF indexr + count < size THEN indexr + count ELSE indexr + count - size
<1>1. opc = "live" /\ op[t] \in {"push", "pop"} /\ ret[t] = TRUE
  BY AtThread DEF DataAt
<1>2. (op[t] = "push" => count < size) /\ (op[t] = "pop" => count > 0)
  BY DEF Sound, Ring, AnswerHolds, Proceeds
<1>3. size > 0
  BY <1>1, <1>2 DEF Sound, Ring, IndicesAgree
<1> QED
  BY <1>1, <1>2, <1>3 DEF Sound, Ring, IndicesAgree

\* The copy writes outside of the contents.
LEMMA CopyStutters ==
    ASSUME Sound, NEW t \in Threads, Copy(t)
    PROVE  UNCHANGED Fifo!avars
<1>1. Moves(t)
  BY StepMoves DEF ThreadStep, Sound
<1>2. /\ pc[t] = "copy" /\ pc'[t] = "advance" /\ opc' = opc
      /\ UNCHANGED <<size, indexr, count, op, ret>>
      /\ op[t] = "push" => storage' = [storage EXCEPT ![indexw] = elem[t]] /\ elem' = elem
      /\ op[t] # "push" => storage' = storage
      /\ \A u \in Threads \ {t} : elem'[u] = elem[u]
  BY DEF Copy, Goto, Sound, Control, Data
<1>a. /\ opc = "live" /\ op[t] \in {"push", "pop"} /\ ret[t] = TRUE
      /\ op[t] = "push" => count < size
      /\ size \in Nat /\ indexr \in 0 .. (size - 1) /\ indexw \in 0 .. (size - 1)
      /\ count \in 0 .. size
      /\ indexw = IF indexr + count < size THEN indexr + count ELSE indexr + count - size
  BY <1>2, AtRing
<1>3. Contents' = Contents
  <2>1. CASE op[t] = "push"
    <3>1. \A k \in 1 .. count : (indexr + k - 1) % size # indexw
      <4>1. TAKE k \in 1 .. count
      <4>2. k - 1 \in Nat /\ k - 1 < size /\ k - 1 < count
        BY <1>a
      <4>3. (indexr + (k - 1)) % size =
              IF indexr + (k - 1) < size THEN indexr + (k - 1) ELSE indexr + (k - 1) - size
        BY <1>a, <4>2, PositionsAre
      <4>4. indexr + (k - 1) = indexr + k - 1
        BY <1>a
      <4> QED
        BY <1>a, <2>1, <4>2, <4>3, <4>4
    <3>2. \A k \in 1 .. count :
             storage'[(indexr + k - 1) % size] = storage[(indexr + k - 1) % size]
      <4>1. \A i : i # indexw /\ i \in DOMAIN storage => storage'[i] = storage[i]
        BY <1>2, <2>1
      <4>2. \A k \in 1 .. count : (indexr + k - 1) % size \in DOMAIN storage
        BY <1>a DEF Sound, Data, DataFits
      <4> QED
        BY <3>1, <4>1, <4>2
    <3> QED
      BY <1>2, <3>2 DEF Contents
  <2>2. CASE op[t] # "push"
    BY <1>2, <2>2, ContentsStay
  <2> QED
    BY <2>1, <2>2
<1>4. /\ AbstractCall(t)' = AbstractCall(t)
      /\ AbstractRet(t)' = AbstractRet(t)
  BY <1>2 DEF AbstractCall, AbstractRet, Pending
<1>5. AbstractElem(t)' = AbstractElem(t)
  BY <1>2, <1>a DEF AbstractElem, Pending
<1> QED
  BY <1>1, <1>2, <1>3, <1>4, <1>5, ViewStutters

\* push() appends and pop() takes the head where they advance their index.
LEMMA AdvanceActs ==
    ASSUME Sound, NEW t \in Threads, Advance(t)
    PROVE  Fifo!Next
<1>1. Moves(t)
  BY StepMoves DEF ThreadStep, Sound
<1>2. /\ pc[t] = "advance" /\ pc'[t] = "unlock" /\ opc' = opc
      /\ UNCHANGED <<storage, size, op, elem, ret>>
      /\ op[t] = "push" => AdvanceWrite
      /\ op[t] # "push" => AdvanceRead
  BY DEF Advance, Goto, Sound, Control
<1>3. /\ opc = "live" /\ op[t] \in {"push", "pop"} /\ ret[t] = TRUE
      /\ op[t] = "push" => count < size
      /\ op[t] = "pop" => count > 0
      /\ size \in Nat /\ indexr \in 0 .. (size - 1) /\ indexw \in 0 .. (size - 1)
      /\ count \in 0 .. size
      /\ indexw = IF indexr + count < size THEN indexr + count ELSE indexr + count - size
  BY <1>2, AtRing
<1>4. /\ FifoCall' = [FifoCall EXCEPT ![t] = AbstractCall(t)']
      /\ FifoElem' = [FifoElem EXCEPT ![t] = AbstractElem(t)']
      /\ FifoRet' = [FifoRet EXCEPT ![t] = AbstractRet(t)']
      /\ FifoCapacity' = FifoCapacity /\ FifoCapacity = size
      /\ FifoCall[t] = AbstractCall(t) /\ FifoElem[t] = AbstractElem(t)
  BY <1>1, <1>2, ViewMoves
<1>5. Pending(t) /\ ~ Pending(t)'
  BY <1>2 DEF Pending
<1>6. /\ AbstractCall(t) = op[t] /\ AbstractCall(t)' = "done"
      /\ AbstractRet(t)' = TRUE
  BY <1>2, <1>3, <1>5 DEF AbstractCall, AbstractRet
<1>7. Fifo!Finish(t, op[t], TRUE)
  BY <1>4, <1>6 DEF Fifo!Finish
<1>8. elem[t] = storage[IF op[t] = "push" THEN indexw ELSE indexr]
  BY <1>2, AtThread DEF DataAt
<1>c. Contents = [k \in 1 .. count |-> storage[(indexr + k - 1) % size]]
  BY <1>3, ContentsAre
<1>9. /\ Contents = [k \in 1 .. count |-> storage[(indexr + k - 1) % size]]
      /\ Contents' = [k \in 1 .. count' |-> storage[(indexr' + k - 1) % size]]
      /\ Len(Contents) = count
  BY <1>2, <1>3, ContentsAre DEF Contents
<1>10. ASSUME NEW k \in Nat, k < size
       PROVE  (indexr + k) % size = IF indexr + k < size THEN indexr + k ELSE indexr + k - size
  BY <1>3, <1>10, PositionsAre
<1>11. CASE op[t] = "push"
  <2>1. /\ indexr' = indexr /\ count' = count + 1 /\ count \in Nat /\ count < size
        /\ elem[t] = storage[indexw]
    BY <1>2, <1>3, <1>8, <1>11 DEF AdvanceWrite
  <2>2. (indexr + (count + 1) - 1) % size = indexw
    <3>1. (indexr + count) % size = indexw
      BY <1>3, <1>10, <2>1
    <3>2. indexr + (count + 1) - 1 = indexr + count
      BY <1>3
    <3> QED
      BY <3>1, <3>2
  <2> DEFINE S == {storage[(indexr + k - 1) % size] : k \in 1 .. (count + 1)}
  <2>3. Contents \in [1 .. count -> S]
    <3>1. \A k \in 1 .. count : k \in 1 .. (count + 1)
      BY <2>1
    <3> QED
      BY <1>c, <3>1
  <2>4. Contents' \in [1 .. (count + 1) -> S]
    BY <1>9, <2>1
  <2> HIDE DEF S
  <2>e. Contents' = [k \in 1 .. (count + 1) |-> storage[(indexr + k - 1) % size]]
    BY <1>9, <2>1
  <2>f. \A k \in 1 .. count : Contents'[k] = Contents[k]
    <3>1. \A k \in 1 .. count : k \in 1 .. (count + 1)
      BY <2>1
    <3> QED
      BY <1>c, <2>e, <3>1
  <2>g. Contents'[count + 1] = elem[t]
    <3>1. count + 1 \in 1 .. (count + 1)
      BY <2>1
    <3> QED
      BY <2>1, <2>2, <2>e, <3>1
  <2>5. /\ \A k \in 1 .. count : Contents'[k] = Contents[k]
        /\ Contents'[count + 1] = elem[t]
    BY <2>f, <2>g
  <2>6. Contents' = Append(Contents, elem[t])
    <3>1. Contents' = Append(Contents, Contents'[count + 1])
      BY <2>1, <2>3, <2>4, <2>5, AppendIs
    <3> QED
      BY <2>5, <3>1
  <2>7. AbstractElem(t) = elem[t] /\ AbstractElem(t)' = elem[t]
    BY <1>2, <1>11 DEF AbstractElem
  <2>8. FifoElem' = FifoElem /\ FifoElem[t] = elem[t]
    BY <1>4, <2>7 DEF FifoElem
  <2>9. Len(Contents) < FifoCapacity
    BY <1>4, <1>9, <2>1
  <2>10. Fifo!Push(t)
    BY <1>7, <1>11, <2>6, <2>8, <2>9 DEF Fifo!Push
  <2> QED
    BY <2>10 DEF Fifo!Next
<1>12. CASE op[t] = "pop"
  <2>1. /\ indexr' = (indexr + 1) % size /\ count' = count - 1 /\ count - 1 \in Nat
        /\ elem[t] = storage[indexr]
    BY <1>2, <1>3, <1>8, <1>12 DEF AdvanceRead
  <2>2. \A k \in 1 .. (count - 1) :
           (indexr' + k - 1) % size = (indexr + (k + 1) - 1) % size
    <3>1. TAKE k \in 1 .. (count - 1)
    <3>2. k \in Nat /\ k - 1 \in Nat /\ k < size /\ k - 1 < size /\ 1 < size /\ 1 \in Nat
      BY <1>3, <2>1
    <3>3. indexr' = IF indexr + 1 < size THEN indexr + 1 ELSE indexr + 1 - size
      BY <1>10, <2>1, <3>2
    <3>4. (indexr + k) % size = IF indexr + k < size THEN indexr + k ELSE indexr + k - size
      BY <1>10, <3>2
    <3>5. indexr' \in 0 .. (size - 1)
      BY <1>3, <3>2, <3>3
    <3>6. (indexr' + (k - 1)) % size
            = IF indexr' + (k - 1) < size THEN indexr' + (k - 1) ELSE indexr' + (k - 1) - size
      <4>1. indexr' \in Nat /\ indexr' < size /\ size \in Nat
        BY <1>3, <3>5
      <4> QED
        BY <3>2, <4>1, RingPosition, Zenon
    <3>7. indexr' + k - 1 = indexr' + (k - 1) /\ indexr + (k + 1) - 1 = indexr + k
      BY <1>3, <3>2, <3>5
    <3> QED
      BY <1>3, <3>2, <3>3, <3>4, <3>6, <3>7
  <2> DEFINE S == {storage[(indexr + k - 1) % size] : k \in 1 .. count}
  <2>3. Contents \in [1 .. ((count - 1) + 1) -> S]
    <3>1. Contents \in [1 .. count -> S]
      BY <1>c
    <3>2. (count - 1) + 1 = count
      BY <1>3
    <3> QED
      BY <3>1, <3>2
  <2>4. \A k \in 1 .. (count - 1) : Contents'[k] = Contents[k + 1]
    BY <1>3, <1>9, <2>1, <2>2
  <2>5. Contents' \in [1 .. (count - 1) -> S]
    <3>1. DOMAIN Contents' = 1 .. (count - 1)
      BY <1>9, <2>1
    <3>2. \A k \in 1 .. (count - 1) : k + 1 \in 1 .. ((count - 1) + 1)
      BY <1>3
    <3>3. \A k \in 1 .. (count - 1) : Contents'[k] \in S
      BY <2>3, <2>4, <3>2
    <3>4. Contents' = [k \in 1 .. (count - 1) |-> Contents'[k]]
      BY <1>9, <2>1
    <3> QED
      BY <3>3, <3>4
  <2>6. Contents[1] = elem[t]
    <3>1. indexr + 1 - 1 = indexr /\ indexr + 0 = indexr /\ 0 < size /\ 1 \in 1 .. count
      BY <1>3, <1>12
    <3>2. indexr % size = indexr
      BY <1>3, <1>10, <3>1
    <3> QED
      BY <1>9, <2>1, <3>1, <3>2
  <2> HIDE DEF S
  <2>7. Contents' = Tail(Contents) /\ Contents # << >> /\ Head(Contents) = Contents[1]
    BY <2>1, <2>3, <2>4, <2>5, TailIs
  <2>8. AbstractElem(t)' = elem[t]
    BY <1>2, <1>5 DEF AbstractElem
  <2>9. Fifo!Pop(t)
    BY <1>4, <1>7, <1>12, <2>6, <2>7, <2>8 DEF Fifo!Pop
  <2> QED
    BY <2>9 DEF Fifo!Next
<1> QED
  BY <1>3, <1>11, <1>12

\* Creating the buffer and destroying it give the threads a new, empty queue.
LEMMA OwnerRenews ==
    ASSUME Sound, OwnerStep
    PROVE  Fifo!Next \/ UNCHANGED Fifo!avars
<1>1. /\ UNCHANGED <<pc, op, elem, ret>>
      /\ \A t \in Threads : pc[t] = "idle"
  BY DEF OwnerStep, AllocStorage, NewInstance, InitInstance, DeleteInstance, FreeStorage,
         DeleterStorage, DeleterDeinit, DeleterInstance, locals, Sound, Control, QuietUnlessLive
<1>2. FifoCall' = FifoCall /\ FifoElem' = FifoElem /\ FifoRet' = FifoRet
  BY <1>1 DEF FifoCall, FifoElem, FifoRet, AbstractCall, AbstractElem, AbstractRet, Pending
<1>3. \A t \in Threads : FifoCall[t] = "idle"
  BY <1>1 DEF FifoCall, AbstractCall, Pending
<1>4. opc # "live" => Contents = << >> /\ FifoCapacity = 0
  BY DEF Contents, FifoCapacity
<1>5. opc' # "live" => Contents' = << >> /\ FifoCapacity' = 0
  BY DEF Contents, FifoCapacity
<1>6. CASE opc # "live" /\ opc' # "live"
  BY <1>2, <1>4, <1>5, <1>6 DEF Fifo!avars
<1>7. CASE opc' = "live"
  <2>1. InitInstance /\ opc = "init" /\ size' = size /\ count' = count
    BY <1>7 DEF OwnerStep, AllocStorage, NewInstance, InitInstance, DeleteInstance, FreeStorage,
         DeleterStorage, DeleterDeinit, DeleterInstance, fields
  <2>2. count' = 0 /\ FifoCapacity' \in Nat
    BY <1>7, <2>1 DEF Sound, Ring, FifoCapacity
  <2>3. Contents' = << >>
    BY <1>7, <2>2 DEF Contents
  <2>4. Fifo!Renew
    BY <1>2, <1>3, <2>2, <2>3 DEF Fifo!Renew
  <2> QED
    BY <2>4 DEF Fifo!Next
<1>8. CASE opc = "live" /\ opc' # "live"
  <2>1. Fifo!Renew
    BY <1>2, <1>3, <1>5, <1>8 DEF Fifo!Renew
  <2> QED
    BY <2>1 DEF Fifo!Next
<1> QED
  BY <1>6, <1>7, <1>8

\* Every step of the code is a step of the queue or none.
LEMMA StepIsAtomic ==
    ASSUME Sound, [Next]_vars
    PROVE  [Fifo!Next]_(Fifo!avars)
<1>1. ASSUME NEW t \in Threads, ThreadStep(t)
      PROVE  Fifo!Next \/ UNCHANGED Fifo!avars
  BY <1>1, LockStutters, TestAnswers, UnlockReturns, CopyStutters, AdvanceActs DEF ThreadStep
<1>2. CASE UNCHANGED vars
  BY <1>2 DEF vars, locals, fields, Fifo!avars, Contents, FifoCapacity, FifoCall, FifoElem,
              FifoRet, AbstractCall, AbstractElem, AbstractRet, Pending
<1> QED
  BY <1>1, <1>2, CallStarts, OwnerRenews DEF Next

\* No buffer yet: an empty queue without room.
LEMMA FifoStarts == Init => Fifo!Init
BY DEF Init, Fifo!Init, Contents, FifoCapacity, FifoCall, FifoElem, FifoRet, AbstractCall,
       AbstractElem, AbstractRet, Pending

\* push(), pop() and the queries are linearizable: whatever the threads' interleaving,
\* each takes effect in one step between its call and its return, as on a bounded
\* first-in first-out queue that knows neither indices nor a lock.
THEOREM OperationsAreAtomic == Spec => ImplementsFifo
<1>1. Sound /\ [Next]_vars => [Fifo!Next]_(Fifo!avars)
  BY StepIsAtomic
<1>2. Spec => []Sound
  BY ControlAlways, RingAlways, DataAlways, PTL DEF Sound
<1> QED
  BY <1>1, <1>2, FifoStarts, PTL DEF Spec, ImplementsFifo, Fifo!Spec

=============================================================================
