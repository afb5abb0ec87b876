-------------------------- MODULE ThreadLocalProofs --------------------------
(***************************************************************************)
(* Theorems about ThreadLocal for every set of threads and every number of *)
(* slots: type correctness, one slot per thread, the capacity theorem      *)
(* (set() is never refused when at most N threads use the container), and  *)
(* the private cell that ThreadLocalSpec gives every thread.               *)
(***************************************************************************)
EXTENDS ThreadLocal, FiniteSetTheorems, TLAPS

(* The strengthening of the invariants *)

\* A thread searching for its slot has not passed it, and a thread claiming a
\* slot owns none: only the thread itself could have given it one meanwhile.
SearchSound ==
    \A t \in Threads :
        /\ pc[t] = "find" => \A j \in Slots : j < pos[t] => ~ Holds(t, j)
        /\ pc[t] = "claim" => ~ Holder(t)

\* A pointer leads to the thread's own slot, whose value is set from the first store
\* until the clearing one; get() and erase() have not passed it.
AtSlot(t) ==
    /\ pc[t] \in InSet => arg[t] \in Values
    /\ pc[t] \in PointerLabels => Holds(t, pos[t])
    /\ pc[t] \in {"look", "seek"} => \A j \in Slots : j < pos[t] => ~ Holds(t, j)
    /\ pc[t] = "release" => values[pos[t]] = Null
    /\ pc[t] \notin {"store", "release"} => \A i \in Slots : Holds(t, i) => values[i] # Null

\* A free slot holds no value of an earlier owner.
FreeIsEmpty ==
    \A i \in Slots : threads[i] = Null => values[i] = Null \/ (dpc = "wipe" /\ i = dpos)

DeinitAlone ==
    /\ dpc # "off" => \A t \in Threads : pc[t] = "idle"
    /\ dpc = "wipe" => threads[dpos] = Null

CellsFit == DeinitAlone /\ FreeIsEmpty /\ \A t \in Threads : AtSlot(t)

\* A slot index is a natural number below N.
LEMMA SlotRange ==
    /\ N \in Nat
    /\ \A i : i \in Slots <=> i \in 0 .. N /\ i < N
    /\ \A i \in Slots : i + 1 \in 0 .. N
  BY ThreadLocalAssumption DEF Slots

\* Everything the operations return is a result.
LEMMA ResultMembers ==
    /\ TRUE \in Results /\ FALSE \in Results
    /\ \A v \in Values \cup {Null} : v \in Results
  BY DEF Results

\* Moving to another label keeps the locals well typed, provided that a label
\* at which pos[t] is dereferenced is entered with a slot.
LEMMA GotoTypes ==
    ASSUME LocalsOK, NEW t \in Threads, NEW label \in Labels, NEW p \in 0 .. N,
           label \in PointerLabels => p \in Slots, Goto(t, label, p)
    PROVE  LocalsOK'
  BY DEF LocalsOK, Goto

\* Returning keeps the locals well typed.
LEMMA ReturnTypes ==
    ASSUME LocalsOK, NEW t \in Threads, NEW r \in Results, Return(t, r)
    PROVE  LocalsOK'
  BY SlotRange DEF LocalsOK, Return, Labels, PointerLabels

\* One iteration of a search loop keeps the locals well typed.
LEMMA SearchTypes ==
    ASSUME LocalsOK, NEW t \in Threads, NEW loop \in Labels \ PointerLabels,
           NEW found \in Labels, Search(t, loop, found)
    PROVE  LocalsOK'
<1>1. pos[t] \in Slots /\ pos[t] \in 0 .. N /\ pos[t] + 1 \in 0 .. N
  BY SlotRange DEF LocalsOK, Search
<1>2. CASE threads[pos[t]] = t
  BY <1>1, <1>2, GotoTypes DEF Search
<1>3. CASE threads[pos[t]] # t
  BY <1>1, <1>3, GotoTypes DEF Search
<1> QED
  BY <1>2, <1>3

\* Every variable keeps its type, and whatever pos[t] is dereferenced with is
\* a slot of the array: no loop of ThreadLocal runs past threads[N - 1].
THEOREM TypeCorrect == Spec => []TypeOK
<1>1. Init => TypeOK
  <2>1. Init => ArraysOK /\ LocalsOK /\ DeinitOK
    BY ThreadLocalAssumption, ResultMembers
       DEF Init, ArraysOK, LocalsOK, DeinitOK, Slots, Labels, PointerLabels
  <2>2. Init => HistoryOK
    BY DEF Init, HistoryOK
  <2> QED
    BY <2>1, <2>2 DEF TypeOK
<1>2. TypeOK /\ [Next]_vars => TypeOK'
  <2> SUFFICES ASSUME TypeOK, [Next]_vars PROVE TypeOK'
    OBVIOUS
  <2> USE DEF TypeOK
  <2>L. /\ Labels = {"idle", "find", "claim", "store", "look", "deref",
                     "seek", "clear", "release"}
        /\ PointerLabels = {"store", "deref", "clear", "release"}
    BY DEF Labels, PointerLabels, InSet, InGet, InErase
  <2>A. ASSUME NEW t \in Threads
        PROVE  pos[t] \in 0 .. N /\ (pc[t] \in PointerLabels => pos[t] \in Slots)
    BY DEF LocalsOK
  <2>H. HistoryOK'
    <3>1. ASSUME NEW t \in Threads, NEW v \in Values \cup {Null},
                 NEW label \in {"find", "look", "seek"}, Call(t, label, v)
          PROVE  HistoryOK'
      BY <3>1 DEF Call, HistoryOK
    <3>2. ASSUME NEW t \in Threads, Step(t) PROVE UNCHANGED <<users, overtaken>>
      BY <3>2 DEF Step, SetFind, SetNotFound, SetClaim, SetStore, SetFail, GetLook,
         GetNothing, GetDeref, EraseSeek, EraseNothing, EraseClear, EraseRelease,
         Search, Exhausted, Goto, Return
    <3>3. ASSUME Deinit PROVE HistoryOK'
      BY <3>3 DEF Deinit, DeinitCall, DeinitDrop, DeinitWipe, HistoryOK
    <3>4. CASE UNCHANGED vars
      BY <3>4 DEF vars, HistoryOK
    <3> QED
      BY <3>1, <3>2, <3>3, <3>4 DEF Next, Calls, HistoryOK
  <2>1. ASSUME NEW t \in Threads, NEW v \in Values \cup {Null},
               NEW label \in {"find", "look", "seek"}, Call(t, label, v)
        PROVE  TypeOK'
    <3>1. LocalsOK'
      BY <2>1, <2>L, ResultMembers, SlotRange DEF LocalsOK, Call
    <3> QED
      BY <2>H, <2>1, <3>1 DEF Call, ArraysOK, DeinitOK
  <2>2. ASSUME NEW t \in Threads, SetFind(t) \/ GetLook(t) \/ EraseSeek(t)
        PROVE  TypeOK'
    <3>1. LocalsOK'
      BY <2>2, <2>L, SearchTypes DEF SetFind, GetLook, EraseSeek
    <3> QED
      BY <2>H, <2>2, <3>1
         DEF SetFind, GetLook, EraseSeek, Search, Goto, ArraysOK, DeinitOK
  <2>3. ASSUME NEW t \in Threads, SetNotFound(t) PROVE TypeOK'
    <3>1. LocalsOK'
      BY <2>3, <2>L, SlotRange, GotoTypes DEF SetNotFound
    <3> QED
      BY <2>H, <2>3, <3>1 DEF SetNotFound, Goto, ArraysOK, DeinitOK
  <2>4. ASSUME NEW t \in Threads, SetClaim(t) PROVE TypeOK'
    <3>1. pos[t] \in Slots /\ pos[t] + 1 \in 0 .. N
      BY <2>4, <2>A, SlotRange DEF SetClaim
    <3>2. LocalsOK'
      BY <2>4, <2>L, <2>A, <3>1, GotoTypes DEF SetClaim
    <3>3. ArraysOK'
      BY <2>4, <3>1 DEF SetClaim, ArraysOK
    <3> QED
      BY <2>H, <2>4, <3>2, <3>3 DEF SetClaim, Goto, DeinitOK
  <2>5. ASSUME NEW t \in Threads, SetStore(t) PROVE TypeOK'
    <3>1. LocalsOK'
      BY <2>5, ReturnTypes, ResultMembers DEF SetStore
    <3>2. ArraysOK'
      BY <2>5, <2>A, <2>L DEF SetStore, ArraysOK, LocalsOK
    <3> QED
      BY <2>H, <2>5, <3>1, <3>2 DEF SetStore, Return, DeinitOK
  <2>6. ASSUME NEW t \in Threads, SetFail(t) \/ GetNothing(t) \/ EraseNothing(t)
        PROVE  TypeOK'
    <3>1. LocalsOK'
      BY <2>6, ReturnTypes, ResultMembers DEF SetFail, GetNothing, EraseNothing
    <3> QED
      BY <2>H, <2>6, <3>1 DEF SetFail, GetNothing, EraseNothing, Return, ArraysOK, DeinitOK
  <2>7. ASSUME NEW t \in Threads, GetDeref(t) PROVE TypeOK'
    <3>1. values[pos[t]] \in Values \cup {Null}
      BY <2>7, <2>A, <2>L DEF GetDeref, ArraysOK
    <3>2. LocalsOK'
      BY <2>7, <3>1, ReturnTypes, ResultMembers DEF GetDeref
    <3> QED
      BY <2>H, <2>7, <3>2 DEF GetDeref, Return, ArraysOK, DeinitOK
  <2>8. ASSUME NEW t \in Threads, EraseClear(t) PROVE TypeOK'
    <3>1. LocalsOK'
      BY <2>8, <2>A, <2>L, GotoTypes DEF EraseClear
    <3>2. ArraysOK'
      BY <2>8, <2>A, <2>L DEF EraseClear, ArraysOK
    <3> QED
      BY <2>H, <2>8, <3>1, <3>2 DEF EraseClear, Goto, DeinitOK
  <2>9. ASSUME NEW t \in Threads, EraseRelease(t) PROVE TypeOK'
    <3>1. LocalsOK'
      BY <2>9, ReturnTypes, ResultMembers DEF EraseRelease
    <3>2. ArraysOK'
      BY <2>9, <2>A, <2>L DEF EraseRelease, ArraysOK
    <3> QED
      BY <2>H, <2>9, <3>1, <3>2 DEF EraseRelease, Return, DeinitOK
  <2>10. ASSUME DeinitCall PROVE TypeOK'
    <3>1. DeinitOK'
      BY <2>10, SlotRange DEF DeinitCall, DeinitOK
    <3> QED
      BY <2>H, <2>10, <3>1 DEF DeinitCall, ArraysOK, LocalsOK
  <2>11. ASSUME DeinitDrop PROVE TypeOK'
    BY <2>11, <2>H DEF DeinitDrop, ArraysOK, LocalsOK, DeinitOK
  <2>12. ASSUME DeinitWipe PROVE TypeOK'
    <3>1. dpos \in Slots
      BY <2>12 DEF DeinitWipe, DeinitOK
    <3>2. DeinitOK'
      BY <2>12, <3>1, SlotRange DEF DeinitWipe, DeinitOK
    <3>3. ArraysOK'
      BY <2>12, <3>1 DEF DeinitWipe, ArraysOK
    <3> QED
      BY <2>H, <2>12, <3>2, <3>3 DEF DeinitWipe, LocalsOK
  <2>13. CASE UNCHANGED vars
    BY <2>13, <2>H DEF vars, ArraysOK, LocalsOK, DeinitOK
  <2> QED
    BY <2>1, <2>2, <2>3, <2>4, <2>5, <2>6, <2>7, <2>8, <2>9, <2>10, <2>11,
       <2>12, <2>13 DEF Next, Calls, Step, Deinit
<1> QED
  BY <1>1, <1>2, PTL DEF Spec

-----------------------------------------------------------------------------
(* Ownership: a thread never owns two slots *)

Ownership == OneSlotPerThread /\ SearchSound

\* Steps that at most give slots up and do not move a searching thread.
Relinquish ==
    /\ \A i \in Slots : threads'[i] \in {threads[i], Null}
    /\ \A t \in Threads : pc'[t] \in {"find", "claim"} =>
          \/ pc'[t] = pc[t] /\ pos'[t] = pos[t]
          \/ pc'[t] = "find" /\ pos'[t] = 0

\* Relinquish (deinit(), which empties both arrays) keeps Ownership.
LEMMA RelinquishOwnership ==
    ASSUME TypeOK, Ownership, Relinquish
    PROVE  Ownership'
  BY SlotRange, ThreadLocalAssumption
     DEF TypeOK, LocalsOK, Ownership, OneSlotPerThread, SearchSound, Holder, Holds, Relinquish

\* All steps but the searching ones of set() relinquish.
LEMMA MostStepsRelinquish ==
    ASSUME TypeOK, [Next]_vars,
           ~ \E t \in Threads : SetFind(t) \/ SetNotFound(t) \/ SetClaim(t)
    PROVE  Relinquish
<1>L. PointerLabels = {"store", "deref", "clear", "release"}
  BY DEF PointerLabels
<1> USE DEF TypeOK, ArraysOK, LocalsOK, DeinitOK, Relinquish
<1>1. ASSUME NEW t \in Threads, Calls(t) PROVE Relinquish
  <2>1. PICK label \in {"find", "look", "seek"}, v \in Values \cup {Null} : Call(t, label, v)
    BY <1>1 DEF Calls
  <2>2. /\ UNCHANGED threads
        /\ pc' = [pc EXCEPT ![t] = label]
        /\ pos' = [pos EXCEPT ![t] = 0]
    BY <2>1 DEF Call
  <2> QED
    BY <2>2
<1>2. ASSUME NEW t \in Threads, GetLook(t) \/ EraseSeek(t) PROVE Relinquish
  <2>0. PICK loop \in {"look", "seek"}, found \in {"deref", "clear"} : Search(t, loop, found)
    BY <1>2 DEF GetLook, EraseSeek
  <2>1. UNCHANGED threads /\ \A u \in Threads \ {t} : pc'[u] = pc[u] /\ pos'[u] = pos[u]
    BY <2>0 DEF Search, Goto
  <2>2. pc'[t] \notin {"find", "claim"}
    BY <2>0 DEF Search, Goto
  <2> QED
    BY <2>1, <2>2
<1>3. ASSUME NEW t \in Threads,
             SetStore(t) \/ SetFail(t) \/ GetNothing(t) \/ GetDeref(t) \/ EraseNothing(t)
      PROVE  Relinquish
  BY <1>3 DEF SetStore, SetFail, GetNothing, GetDeref, EraseNothing, Return
<1>4. ASSUME NEW t \in Threads, EraseClear(t) PROVE Relinquish
  BY <1>4 DEF EraseClear, Goto
<1>5. ASSUME NEW t \in Threads, EraseRelease(t) PROVE Relinquish
  BY <1>5, <1>L DEF EraseRelease, Return
<1>6. ASSUME Deinit PROVE Relinquish
  BY <1>6 DEF Deinit, DeinitCall, DeinitDrop, DeinitWipe
<1>7. CASE UNCHANGED vars
  BY <1>7 DEF vars
<1> QED
  BY <1>1, <1>2, <1>3, <1>4, <1>5, <1>6, <1>7 DEF Next, Step

\* The threads that can hold or want a slot are among those that have called set().
UsersFit ==
    /\ users \subseteq Threads
    /\ \A t \in Threads : pc[t] \in InSet \/ Holder(t) => t \in users

\* A thread that calls set() is counted before it looks for a slot, and no step of
\* set(), get(), erase() or deinit() takes it off the count.
LEMMA UsersStep ==
    ASSUME TypeOK, UsersFit, [Next]_vars
    PROVE  UsersFit' /\ users \subseteq users'
<1> USE DEF TypeOK, ArraysOK, LocalsOK, DeinitOK, HistoryOK, UsersFit
<1>1. ASSUME NEW t \in Threads, Calls(t) PROVE UsersFit' /\ users \subseteq users'
  <2>1. PICK label \in {"find", "look", "seek"}, v \in Values \cup {Null} : Call(t, label, v)
    BY <1>1 DEF Calls
  <2> QED
    BY <2>1 DEF Call, InSet, Holder, Holds
<1>2. ASSUME NEW t \in Threads, Step(t) PROVE UsersFit' /\ users \subseteq users'
  <2>1. /\ UNCHANGED users
        /\ \A u \in Threads \ {t} : pc'[u] = pc[u]
        /\ pc'[t] \in InSet => pc[t] \in InSet
    BY <1>2 DEF Step, SetFind, SetNotFound, SetClaim, SetStore, SetFail, GetLook,
       GetNothing, GetDeref, EraseSeek, EraseNothing, EraseClear, EraseRelease,
       Search, Exhausted, Goto, Return, InSet
  <2>2. \A i \in Slots :
           threads'[i] \in {threads[i], Null} \/ (threads'[i] = t /\ pc[t] \in InSet)
    BY <1>2 DEF Step, SetFind, SetNotFound, SetClaim, SetStore, SetFail, GetLook,
       GetNothing, GetDeref, EraseSeek, EraseNothing, EraseClear, EraseRelease,
       Search, InSet
  <2> QED
    BY <2>1, <2>2, ThreadLocalAssumption DEF Holder, Holds
<1>3. ASSUME Deinit PROVE UsersFit' /\ users \subseteq users'
  <2>1. UNCHANGED <<users, pc>> /\ \A i \in Slots : threads'[i] \in {threads[i], Null}
    BY <1>3 DEF Deinit, DeinitCall, DeinitDrop, DeinitWipe
  <2> QED
    BY <2>1, ThreadLocalAssumption DEF Holder, Holds
<1>4. CASE UNCHANGED vars
  BY <1>4 DEF vars, Holder, Holds
<1> QED
  BY <1>1, <1>2, <1>3, <1>4 DEF Next

\* Ownership is preserved by every step of set(), get(), erase() and deinit().
LEMMA OwnershipStep ==
    ASSUME TypeOK, Ownership, [Next]_vars
    PROVE  Ownership'
<1> USE DEF TypeOK, ArraysOK, LocalsOK, Ownership, OneSlotPerThread, SearchSound, Holder, Holds
<1>1. ASSUME NEW t \in Threads, SetFind(t) PROVE Ownership'
  <2>1. CASE threads[pos[t]] = t
    BY <1>1, <2>1, SlotRange DEF SetFind, Search, Goto
  <2>2. CASE threads[pos[t]] # t
    <3>1. /\ UNCHANGED threads
          /\ pc' = [pc EXCEPT ![t] = "find"]
          /\ pos' = [pos EXCEPT ![t] = pos[t] + 1]
      BY <1>1, <2>2 DEF SetFind, Search, Goto
    <3>2. \A j \in Slots : j < pos[t] + 1 => threads[j] # t
      <4> HIDE DEF ArraysOK, OneSlotPerThread
      <4>1. pos[t] \in 0 .. N /\ \A j \in Slots : j < pos[t] => threads[j] # t
        BY <1>1 DEF SetFind, Search
      <4> QED
        BY <2>2, <4>1, SlotRange
    <3>3. OneSlotPerThread'
      BY <3>1
    <3>4. SearchSound'
      <4> HIDE DEF OneSlotPerThread
      <4> QED
        BY <3>1, <3>2
    <3> QED
      BY <3>3, <3>4
  <2> QED
    BY <2>1, <2>2
<1>2. ASSUME NEW t \in Threads, SetNotFound(t) PROVE Ownership'
  <2>1. \A j \in Slots : threads[j] # t
    BY <1>2, SlotRange DEF SetNotFound, Exhausted
  <2> QED
    BY <1>2, <2>1 DEF SetNotFound, Goto
<1>3. ASSUME NEW t \in Threads, SetClaim(t) PROVE Ownership'
  <2>1. pos[t] \in Slots /\ \A j \in Slots : threads[j] # t
    BY <1>3, SlotRange DEF SetClaim
  <2>2. CASE threads[pos[t]] = Null
    <3>1. /\ threads' = [threads EXCEPT ![pos[t]] = t]
          /\ pc' = [pc EXCEPT ![t] = "store"]
          /\ pos' = [pos EXCEPT ![t] = pos[t]]
      BY <1>3, <2>2 DEF SetClaim, Goto
    <3> QED
      BY <2>1, <3>1, ThreadLocalAssumption
  <2>3. CASE threads[pos[t]] # Null
    BY <1>3, <2>1, <2>3 DEF SetClaim, Goto
  <2> QED
    BY <2>2, <2>3
<1>4. CASE ~ \E t \in Threads : SetFind(t) \/ SetNotFound(t) \/ SetClaim(t)
  BY <1>4, MostStepsRelinquish, RelinquishOwnership
<1> QED
  BY <1>1, <1>2, <1>3, <1>4

\* Ownership holds always.
LEMMA OwnershipAlways == Spec => []Ownership
<1>1. Init => Ownership
  BY ThreadLocalAssumption DEF Init, Ownership, OneSlotPerThread, SearchSound, Holder, Holds
<1> QED
  BY <1>1, OwnershipStep, TypeCorrect, PTL DEF Spec

\* Holders of slots and callers of set() are counted, always.
LEMMA UsersAlways == Spec => []UsersFit
<1>1. Init => UsersFit
  BY ThreadLocalAssumption DEF Init, UsersFit, InSet, Holder, Holds
<1> QED
  BY <1>1, UsersStep, TypeCorrect, PTL DEF Spec

\* No interleaving of set(), get(), erase() and deinit() gives a thread two slots.
THEOREM OneSlot == Spec => []OneSlotPerThread
<1>1. Ownership => OneSlotPerThread
  BY DEF Ownership
<1> QED
  BY <1>1, OwnershipAlways, PTL

-----------------------------------------------------------------------------
(* Capacity: with at most N threads set() never runs out of slots *)

\* The threads that compete for a slot from i on are finitely many: they have all
\* called set().
LEMMA CrowdFinite ==
    ASSUME UsersFit, NEW i
    PROVE  /\ Crowd(i) \subseteq users /\ IsFiniteSet(Crowd(i))
           /\ Cardinality(Crowd(i)) \in Nat
           /\ IsFiniteSet(users) /\ Cardinality(users) \in Nat
           /\ Cardinality(Crowd(i)) <= Cardinality(users)
<1>1. Crowd(i) \subseteq users
  BY DEF Crowd, UsersFit, InSet, Holder
<1>2. IsFiniteSet(users)
  BY ThreadLocalAssumption, FS_Subset DEF UsersFit
<1> QED
  BY <1>1, <1>2, FS_Subset, FS_CardinalityType

\* The same in the next state.
LEMMA CrowdFiniteThen ==
    ASSUME UsersFit', NEW i
    PROVE  /\ Crowd(i)' \subseteq users' /\ IsFiniteSet(Crowd(i)')
           /\ Cardinality(Crowd(i)') \in Nat
           /\ IsFiniteSet(users') /\ Cardinality(users') \in Nat
           /\ Cardinality(Crowd(i)') <= Cardinality(users')
<1>1. Crowd(i)' \subseteq users'
  BY DEF Crowd, UsersFit, InSet, Holder
<1>2. IsFiniteSet(users')
  BY ThreadLocalAssumption, FS_Subset DEF UsersFit
<1> QED
  BY <1>1, <1>2, FS_Subset, FS_CardinalityType

\* No call of set() is forgotten, so that the count does not fall.
LEMMA UsersGrow ==
    ASSUME UsersFit, UsersFit', users \subseteq users'
    PROVE  Cardinality(users) <= Cardinality(users')
BY CrowdFinite, CrowdFiniteThen, FS_Subset

\* A crowd that does not grow keeps the bound.
LEMMA CrowdBoundKept ==
    ASSUME NEW i \in 0 .. N, UsersFit, UsersFit', users \subseteq users',
           CrowdThins, Crowd(i)' \subseteq Crowd(i), Crowd(i)' # {}
    PROVE  Cardinality(Crowd(i)') + i <= Cardinality(users')
<1>1. /\ Cardinality(Crowd(i)) + i <= Cardinality(users)
      /\ IsFiniteSet(Crowd(i)) /\ Cardinality(Crowd(i)) \in Nat
  BY CrowdFinite DEF CrowdThins
<1>2. /\ Cardinality(Crowd(i)') <= Cardinality(Crowd(i))
      /\ Cardinality(Crowd(i)') \in Nat
  BY <1>1, FS_Subset, FS_CardinalityType
<1> QED
  BY <1>1, <1>2, CrowdFinite, CrowdFiniteThen, UsersGrow, SlotRange

\* Giving up slots, or searching for one's own, makes no crowd grow.
LEMMA CrowdShrinks ==
    ASSUME NEW i \in 0 .. N, TypeOK,
           Relinquish \/ \E t \in Threads : SetFind(t)
    PROVE  Crowd(i)' \subseteq Crowd(i)
<1> USE DEF TypeOK, ArraysOK, LocalsOK
<1>1. CASE Relinquish
  BY <1>1, ThreadLocalAssumption DEF Relinquish, Crowd, Holds
<1>2. ASSUME NEW t \in Threads, SetFind(t) PROVE Crowd(i)' \subseteq Crowd(i)
  <2>1. /\ UNCHANGED threads
        /\ \A u \in Threads \ {t} : pc'[u] = pc[u] /\ pos'[u] = pos[u]
        /\ pc'[t] # "claim"
    BY <1>2 DEF SetFind, Search, Goto
  <2> QED
    BY <2>1 DEF Crowd, Holds
<1> QED
  BY <1>1, <1>2

\* A thread that starts claiming joins the first crowd only, which never holds
\* more than all threads.
LEMMA CrowdAtStart ==
    ASSUME NEW t \in Threads, SetNotFound(t), TypeOK, CrowdThins,
           UsersFit, UsersFit', users \subseteq users'
    PROVE  CrowdThins'
<1>1. /\ UNCHANGED threads
      /\ pc' = [pc EXCEPT ![t] = "claim"]
      /\ pos' = [pos EXCEPT ![t] = 0]
  BY DEF SetNotFound, Goto
<1>2. ASSUME NEW i \in 0 .. N, i # 0 PROVE Crowd(i)' \subseteq Crowd(i)
  BY <1>1, <1>2, SlotRange DEF Crowd, Holds, TypeOK, LocalsOK
<1>3. /\ Cardinality(Crowd(0)') \in Nat
      /\ Cardinality(Crowd(0)') <= Cardinality(users')
      /\ Cardinality(users') \in Nat
  BY CrowdFiniteThen
<1>4. ASSUME NEW i \in 0 .. N, Crowd(i)' # {}
      PROVE  Cardinality(Crowd(i)') + i <= Cardinality(users')
  BY <1>2, <1>3, <1>4, CrowdBoundKept
<1> QED
  BY <1>4 DEF CrowdThins

\* A claimant that loses slot p to its owner q moves into the next crowd, which
\* q is not part of: the crowd it joins is smaller than the one it came from.
LEMMA CrowdAfterLoss ==
    ASSUME NEW t \in Threads, SetClaim(t), threads[pos[t]] # Null,
           TypeOK, Ownership, CrowdThins, UsersFit, UsersFit', users \subseteq users'
    PROVE  CrowdThins'
<1> USE DEF TypeOK, ArraysOK, LocalsOK
<1>p. PICK p \in 0 .. N : p = pos[t]
  OBVIOUS
<1>q. PICK q \in Threads : q = threads[p]
  BY <1>p, SlotRange DEF SetClaim
<1>1. /\ p \in Slots /\ p + 1 \in 0 .. N /\ p \in Nat
      /\ pc[t] = "claim"
  BY <1>p, SlotRange DEF SetClaim
<1>2. /\ UNCHANGED threads
      /\ pc' = [pc EXCEPT ![t] = "claim"]
      /\ pos' = [pos EXCEPT ![t] = p + 1]
  BY <1>p DEF SetClaim, Goto
<1>3. q # t /\ pc[q] # "claim"
  BY <1>1, <1>q DEF Ownership, SearchSound, Holder, Holds
<1>4. t \in Crowd(p) /\ q \in Crowd(p)
  BY <1>1, <1>p, <1>q, SlotRange DEF Crowd, Holds
<1>5. q \notin Crowd(p + 1)'
  <2>1. pc'[q] # "claim"
    BY <1>2, <1>3
  <2>2. \A j \in Slots : threads'[j] = q => j = p
    BY <1>1, <1>2, <1>q DEF Ownership, OneSlotPerThread, Holds
  <2> QED
    BY <1>1, <2>1, <2>2, SlotRange DEF Crowd, Holds
<1>6. Crowd(p + 1)' \subseteq Crowd(p) \ {q}
  <2>1. ASSUME NEW u \in Crowd(p + 1)', u # t PROVE u \in Crowd(p)
    BY <1>1, <1>2, <2>1, SlotRange DEF Crowd, Holds
  <2> QED
    BY <1>4, <1>5, <2>1
<1>7. /\ Cardinality(Crowd(p + 1)') \in Nat
      /\ Cardinality(Crowd(p + 1)') <= Cardinality(Crowd(p)) - 1
  BY <1>4, <1>6, CrowdFinite, FS_RemoveElement, FS_Subset, FS_CardinalityType
<1>8. Cardinality(Crowd(p)) + p <= Cardinality(users)
  BY <1>1, <1>4 DEF CrowdThins
<1>9. ASSUME NEW i \in 0 .. N, i # p + 1 PROVE Crowd(i)' \subseteq Crowd(i)
  <2>1. t \in Crowd(i)' => t \in Crowd(i)
    <3>1. ASSUME t \in Crowd(i)' PROVE i <= p
      <4>1. p + 1 >= i
        BY <1>2, <1>q, <3>1, <1>1 DEF Ownership, SearchSound, Holder, Crowd, Holds
      <4> QED
        BY <1>1, <1>9, <4>1, SlotRange
    <3> QED
      BY <1>1, <1>p, <3>1 DEF Crowd
  <2>2. ASSUME NEW u \in Threads \ {t} PROVE u \in Crowd(i)' => u \in Crowd(i)
    BY <1>2, <2>2 DEF Crowd, Holds
  <2> QED
    BY <2>1, <2>2 DEF Crowd
<1>10. ASSUME NEW i \in 0 .. N, Crowd(i)' # {}
       PROVE  Cardinality(Crowd(i)') + i <= Cardinality(users')
  <2>1. CASE i = p + 1
    BY <1>1, <1>7, <1>8, <2>1, CrowdFinite, CrowdFiniteThen, UsersGrow
  <2>2. CASE i # p + 1
    BY <1>9, <1>10, <2>2, CrowdBoundKept
  <2> QED
    BY <2>1, <2>2
<1> QED
  BY <1>10 DEF CrowdThins

\* A claimant that wins a free slot stays in exactly the crowds it was in.
LEMMA CrowdAfterWin ==
    ASSUME NEW t \in Threads, SetClaim(t), threads[pos[t]] = Null, TypeOK,
           NEW i \in 0 .. N
    PROVE  Crowd(i)' \subseteq Crowd(i)
<1> USE DEF TypeOK, ArraysOK, LocalsOK
<1>1. /\ pos[t] \in Slots /\ pc[t] = "claim"
      /\ threads' = [threads EXCEPT ![pos[t]] = t]
      /\ pc' = [pc EXCEPT ![t] = "store"]
      /\ pos' = [pos EXCEPT ![t] = pos[t]]
  BY SlotRange DEF SetClaim, Goto
<1> QED
  BY <1>1, SlotRange DEF Crowd, Holds

\* Of the threads that have called set(), all but i at most compete for slot i of its
\* second loop or a later one.
THEOREM CrowdAlwaysThins == Spec => []CrowdThins
<1>1. Init => CrowdThins
  <2> SUFFICES ASSUME Init, NEW i \in 0 .. N PROVE Crowd(i) = {}
    BY DEF CrowdThins
  <2> QED
    BY ThreadLocalAssumption DEF Init, Crowd, Holds
<1>2. TypeOK /\ Ownership /\ UsersFit /\ CrowdThins /\ [Next]_vars => CrowdThins'
  <2> SUFFICES ASSUME TypeOK, Ownership, UsersFit, CrowdThins, [Next]_vars PROVE CrowdThins'
    OBVIOUS
  <2>U. UsersFit' /\ users \subseteq users'
    BY UsersStep
  <2>1. CASE \A i \in 0 .. N : Crowd(i)' \subseteq Crowd(i)
    BY <2>1, <2>U, CrowdBoundKept DEF CrowdThins
  <2>2. ASSUME NEW t \in Threads, SetNotFound(t) PROVE CrowdThins'
    BY <2>2, <2>U, CrowdAtStart
  <2>3. ASSUME NEW t \in Threads, SetClaim(t) PROVE CrowdThins'
    <3>1. CASE threads[pos[t]] = Null
      BY <2>1, <2>3, <3>1, CrowdAfterWin
    <3>2. CASE threads[pos[t]] # Null
      BY <2>3, <2>U, <3>2, CrowdAfterLoss
    <3> QED
      BY <3>1, <3>2
  <2>4. ASSUME NEW t \in Threads, SetFind(t) PROVE CrowdThins'
    BY <2>1, <2>4, CrowdShrinks
  <2>5. CASE ~ \E t \in Threads : SetFind(t) \/ SetNotFound(t) \/ SetClaim(t)
    BY <2>1, <2>5, MostStepsRelinquish, CrowdShrinks
  <2> QED
    BY <2>2, <2>3, <2>4, <2>5
<1> QED
  BY <1>1, <1>2, OwnershipAlways, UsersAlways, TypeCorrect, PTL DEF Spec

\* The capacity theorem: until more than N threads have called it, set() never
\* returns false.
THEOREM Capacity == Spec => []SetNeverFails
<1>1. UsersFit /\ CrowdThins => SetNeverFails
  <2> SUFFICES ASSUME UsersFit, CrowdThins, Cardinality(users) <= N,
                      NEW t \in Threads, Exhausted(t, "claim")
               PROVE  FALSE
    BY DEF SetNeverFails
  <2>1. t \in Crowd(N) /\ N \in 0 .. N
    <3>1. N \in 0 .. N /\ N >= N
      BY SlotRange
    <3> QED
      BY <3>1 DEF Exhausted, Crowd
  <2>2. Cardinality(Crowd(N)) + N <= Cardinality(users)
    BY <2>1 DEF CrowdThins
  <2>3. Cardinality(Crowd(N)) # 0
    BY <2>1, CrowdFinite, FS_EmptySet
  <2> QED
    BY <2>2, <2>3, CrowdFinite, SlotRange
<1> QED
  BY <1>1, UsersAlways, CrowdAlwaysThins, PTL

-----------------------------------------------------------------------------
(* Private cells, while deinit() runs alone *)

Cells == TypeOK /\ Ownership /\ CellsFit

\* A step of one thread that writes to no slot but its own or a free one, and to no
\* value but its own, only has to justify itself.
OwnStep(t) ==
    /\ dpc = "off" /\ UNCHANGED <<dpc, dpos>>
    /\ \A u \in Threads \ {t} : pc'[u] = pc[u] /\ pos'[u] = pos[u] /\ arg'[u] = arg[u]
    /\ \A i \in Slots : threads'[i] = threads[i] \/ {threads[i], threads'[i]} = {Null, t}
    /\ \A i \in Slots : values'[i] = values[i] \/ threads[i] = t

\* The other threads keep their slots and the values in them.
LEMMA OthersHold ==
    ASSUME NEW t \in Threads, OwnStep(t), NEW u \in Threads \ {t}, NEW i \in Slots
    PROVE  /\ Holds(u, i)' <=> Holds(u, i)
           /\ Holds(u, i) => values'[i] = values[i]
BY ThreadLocalAssumption DEF OwnStep, Holds

\* Such a step keeps the arrays and pointers consistent if its own thread's are.
LEMMA CellsLocal ==
    ASSUME Cells, NEW t \in Threads, OwnStep(t), AtSlot(t)', FreeIsEmpty'
    PROVE  CellsFit'
<1>1. ASSUME NEW u \in Threads \ {t} PROVE AtSlot(u)'
  <2>1. AtSlot(u) /\ pc'[u] = pc[u] /\ pos'[u] = pos[u] /\ arg'[u] = arg[u]
    BY DEF Cells, CellsFit, OwnStep
  <2>2. pc[u] \in PointerLabels => pos[u] \in Slots
    BY DEF Cells, TypeOK, LocalsOK
  <2>3. \A i \in Slots : (Holds(u, i)' <=> Holds(u, i)) /\ (Holds(u, i) => values'[i] = values[i])
    BY OthersHold
  <2>4. pc[u] \in PointerLabels => Holds(u, pos[u])' /\ Holds(u, pos[u])
    BY <2>1, <2>2, <2>3 DEF AtSlot, Holds
  <2>5. pc[u] = "release" => values'[pos[u]] = Null
    BY <2>1, <2>2, <2>3, <2>4 DEF AtSlot, PointerLabels
  <2>6. (Holds(u, pos[u])' /\ pos'[u] = pos[u]) => Holds(u, pos[u])'
    OBVIOUS
  <2> QED
    BY <2>1, <2>2, <2>3, <2>4, <2>5 DEF AtSlot, Holds
<1>2. DeinitAlone'
  BY DEF OwnStep, DeinitAlone
<1> QED
  BY <1>1, <1>2 DEF CellsFit

\* What the invariants say of one thread.
LEMMA AtThread ==
    ASSUME Cells, NEW t \in Threads
    PROVE  /\ AtSlot(t)
           /\ pc[t] # "idle" => dpc = "off"
           /\ pc[t] \in PointerLabels => pos[t] \in Slots
           /\ pos[t] \in 0 .. N
           /\ pc[t] = "claim" => \A i \in Slots : ~ Holds(t, i)
           /\ pc[t] = "find" => \A j \in Slots : j < pos[t] => ~ Holds(t, j)
           /\ \A i, j \in Slots : Holds(t, i) /\ Holds(t, j) => i = j
BY DEF Cells, CellsFit, DeinitAlone, TypeOK, LocalsOK, DeinitOK, Ownership, SearchSound,
       OneSlotPerThread, Holder

\* The labels of set() and get(), and those with a pointer.
LEMMA LabelSets ==
    /\ InSet = {"find", "claim", "store"}
    /\ InGet = {"look", "deref"}
    /\ PointerLabels = {"store", "deref", "clear", "release"}
BY DEF InSet, InGet, PointerLabels

\* The steps that read the arrays only.
LEMMA ReadersFit ==
    ASSUME Cells, NEW t \in Threads,
           UNCHANGED <<threads, values, dpc, dpos>>, dpc = "off",
           \A u \in Threads \ {t} : pc'[u] = pc[u] /\ pos'[u] = pos[u] /\ arg'[u] = arg[u],
           AtSlot(t)'
    PROVE  CellsFit'
<1>1. OwnStep(t)
  BY DEF OwnStep
<1>2. FreeIsEmpty'
  BY DEF FreeIsEmpty, Cells, CellsFit
<1> QED
  BY <1>1, <1>2, CellsLocal

\* An iteration of a search loop finds the thread's slot or has passed one more.
LEMMA SearchFits ==
    ASSUME Cells, NEW t \in Threads, SetFind(t) \/ GetLook(t) \/ EraseSeek(t)
    PROVE  CellsFit'
<1>1. PICK loop \in {"find", "look", "seek"}, found \in {"store", "deref", "clear"} :
         /\ Search(t, loop, found)
         /\ loop = "find" => found = "store"
         /\ loop = "look" => found = "deref"
         /\ loop = "seek" => found = "clear"
  BY DEF SetFind, GetLook, EraseSeek
<1>2. /\ pc[t] = loop /\ pos[t] \in Slots /\ AtSlot(t) /\ dpc = "off"
      /\ \A j \in Slots : j < pos[t] => ~ Holds(t, j)
  BY <1>1, AtThread, SlotRange, LabelSets DEF Search, AtSlot
<1>3. /\ UNCHANGED <<threads, values, arg, dpc, dpos>>
      /\ \A u \in Threads \ {t} : pc'[u] = pc[u] /\ pos'[u] = pos[u]
  BY <1>1 DEF Search, Goto, Cells, TypeOK, LocalsOK
<1>4. \/ pc'[t] = found /\ pos'[t] = pos[t] /\ Holds(t, pos[t])
      \/ pc'[t] = loop /\ pos'[t] = pos[t] + 1 /\ ~ Holds(t, pos[t])
  BY <1>1, <1>2 DEF Search, Goto, Holds, Cells, TypeOK, LocalsOK
<1>5. AtSlot(t)'
  <2>1. \A i \in Slots : Holds(t, i)' <=> Holds(t, i)
    BY <1>3 DEF Holds
  <2>2. CASE pc'[t] = found /\ pos'[t] = pos[t] /\ Holds(t, pos[t])
    BY <1>1, <1>2, <1>3, <2>1, <2>2, LabelSets DEF AtSlot, Holds
  <2>3. CASE pc'[t] = loop /\ pos'[t] = pos[t] + 1 /\ ~ Holds(t, pos[t])
    <3>1. \A j \in Slots : j < pos[t] + 1 => ~ Holds(t, j)
      BY <1>2, <2>3, SlotRange
    <3> QED
      BY <1>1, <1>2, <1>3, <2>1, <2>3, <3>1, LabelSets DEF AtSlot
  <2> QED
    BY <1>4, <2>2, <2>3
<1> QED
  BY <1>2, <1>3, <1>5, ReadersFit

\* Where set() and get(), erase() start and end, and where nothing is found.
LEMMA CallFits ==
    ASSUME Cells, NEW t \in Threads, Calls(t), ~ overtaken'
    PROVE  CellsFit'
<1>1. PICK label \in {"find", "look", "seek"}, v \in Values \cup {Null} :
         Call(t, label, v) /\ (label = "find" => v \in Values)
  BY DEF Calls
<1>2. /\ dpc = "off" /\ pc[t] = "idle" /\ UNCHANGED <<threads, values, dpc, dpos>>
      /\ \A u \in Threads \ {t} : pc'[u] = pc[u] /\ pos'[u] = pos[u] /\ arg'[u] = arg[u]
      /\ pc'[t] = label /\ pos'[t] = 0 /\ arg'[t] = v
  BY <1>1 DEF Call, Cells, TypeOK, LocalsOK
<1>3. AtSlot(t)'
  BY <1>1, <1>2, AtThread, SlotRange, LabelSets DEF AtSlot, Holds
<1> QED
  BY <1>2, <1>3, ReadersFit

\* Nothing found, nothing claimed, or the value read.
LEMMA ReturnFits ==
    ASSUME Cells, NEW t \in Threads,
           SetFail(t) \/ GetNothing(t) \/ GetDeref(t) \/ EraseNothing(t)
    PROVE  CellsFit'
<1>1. /\ pc[t] \in {"claim", "look", "deref", "seek"} /\ dpc = "off"
      /\ UNCHANGED <<threads, values, dpc, dpos>>
      /\ \A u \in Threads \ {t} : pc'[u] = pc[u] /\ pos'[u] = pos[u] /\ arg'[u] = arg[u]
      /\ pc'[t] = "idle"
  BY AtThread
     DEF SetFail, GetNothing, GetDeref, EraseNothing, Exhausted, Return, Cells, TypeOK, LocalsOK
<1>2. AtSlot(t)'
  BY <1>1, AtThread, LabelSets DEF AtSlot, Holds
<1> QED
  BY <1>1, <1>2, ReadersFit

\* From the first loop of set() to the second.
LEMMA SetNotFoundFits ==
    ASSUME Cells, NEW t \in Threads, SetNotFound(t)
    PROVE  CellsFit'
<1>1. /\ pc[t] = "find" /\ dpc = "off" /\ UNCHANGED <<threads, values, arg, dpc, dpos>>
      /\ \A u \in Threads \ {t} : pc'[u] = pc[u] /\ pos'[u] = pos[u]
      /\ pc'[t] = "claim"
  BY AtThread DEF SetNotFound, Exhausted, Goto, Cells, TypeOK, LocalsOK
<1>2. AtSlot(t)'
  BY <1>1, AtThread, LabelSets DEF AtSlot, Holds
<1> QED
  BY <1>1, <1>2, ReadersFit

\* A claimed slot is empty until its owner stores.
LEMMA SetClaimFits ==
    ASSUME Cells, NEW t \in Threads, SetClaim(t)
    PROVE  CellsFit'
<1>1. /\ pc[t] = "claim" /\ pos[t] \in Slots /\ dpc = "off" /\ AtSlot(t)
      /\ \A i \in Slots : ~ Holds(t, i)
      /\ UNCHANGED <<values, arg, dpc, dpos>>
      /\ \A u \in Threads \ {t} : pc'[u] = pc[u] /\ pos'[u] = pos[u]
  BY AtThread, SlotRange DEF SetClaim, Goto, Cells, TypeOK, LocalsOK
<1>2. CASE threads[pos[t]] = Null
  <2>1. /\ pc'[t] = "store" /\ pos'[t] = pos[t]
        /\ threads' = [threads EXCEPT ![pos[t]] = t]
    BY <1>2 DEF SetClaim, Goto, Cells, TypeOK, LocalsOK
  <2>2. threads'[pos[t]] = t /\ \A i \in Slots \ {pos[t]} : threads'[i] = threads[i]
    BY <1>1, <2>1 DEF Cells, TypeOK, ArraysOK
  <2>3. OwnStep(t)
    BY <1>1, <1>2, <2>2 DEF OwnStep
  <2>4. AtSlot(t)'
    BY <1>1, <2>1, <2>2, LabelSets DEF AtSlot, Holds
  <2>5. FreeIsEmpty'
    BY <1>1, <2>2, ThreadLocalAssumption DEF FreeIsEmpty, Cells, CellsFit
  <2> QED
    BY <2>3, <2>4, <2>5, CellsLocal
<1>3. CASE threads[pos[t]] # Null
  <2>1. pc'[t] = "claim" /\ UNCHANGED threads
    BY <1>3 DEF SetClaim, Goto, Cells, TypeOK, LocalsOK
  <2>2. AtSlot(t)'
    BY <1>1, <2>1, LabelSets DEF AtSlot, Holds
  <2> QED
    BY <1>1, <2>1, <2>2, ReadersFit
<1> QED
  BY <1>2, <1>3

\* Storing and clearing touch the value of the thread's own slot.
LEMMA WriterFits ==
    ASSUME Cells, NEW t \in Threads, SetStore(t) \/ EraseClear(t)
    PROVE  CellsFit'
<1>v. pc[t] = "store" => arg[t] \in Values
  BY AtThread, LabelSets DEF AtSlot
<1>w. PICK v \in Values \cup {Null} :
         (pc[t] = "store" => v = arg[t] /\ v \in Values) /\ (pc[t] # "store" => v = Null)
  BY <1>v, Zenon
<1>1. /\ values' = [values EXCEPT ![pos[t]] = v]
      /\ \/ pc[t] = "store" /\ v \in Values /\ pc'[t] = "idle"
         \/ pc[t] = "clear" /\ v = Null /\ pc'[t] = "release" /\ pos'[t] = pos[t]
  <2>1. CASE SetStore(t)
    BY <1>w, <2>1 DEF SetStore, Return, Cells, TypeOK, LocalsOK
  <2>2. CASE EraseClear(t)
    BY <1>w, <2>2 DEF EraseClear, Goto, Cells, TypeOK, LocalsOK
  <2> QED
    BY <2>1, <2>2
<1>2. /\ UNCHANGED <<threads, dpc, dpos>> /\ dpc = "off"
      /\ \A u \in Threads \ {t} : pc'[u] = pc[u] /\ pos'[u] = pos[u] /\ arg'[u] = arg[u]
  BY <1>1, AtThread DEF SetStore, EraseClear, Return, Goto, Cells, TypeOK, LocalsOK
<1>3. /\ pos[t] \in Slots /\ Holds(t, pos[t])
      /\ \A i \in Slots : Holds(t, i) => i = pos[t]
  BY <1>1, AtThread, LabelSets DEF AtSlot
<1>4. values'[pos[t]] = v /\ \A i \in Slots \ {pos[t]} : values'[i] = values[i]
  BY <1>1, <1>3 DEF Cells, TypeOK, ArraysOK
<1>5. OwnStep(t)
  BY <1>2, <1>3, <1>4 DEF OwnStep, Holds
<1>6. AtSlot(t)'
  BY <1>1, <1>2, <1>3, <1>4, LabelSets, ThreadLocalAssumption DEF AtSlot, Holds
<1>7. FreeIsEmpty'
  BY <1>2, <1>3, <1>4, ThreadLocalAssumption DEF FreeIsEmpty, Cells, CellsFit, Holds
<1> QED
  BY <1>5, <1>6, <1>7, CellsLocal

\* Only an emptied slot is released.
LEMMA ReleaseFits ==
    ASSUME Cells, NEW t \in Threads, EraseRelease(t)
    PROVE  CellsFit'
<1>1. /\ pc[t] = "release" /\ pos[t] \in Slots /\ Holds(t, pos[t]) /\ dpc = "off"
      /\ values[pos[t]] = Null /\ \A i \in Slots : Holds(t, i) => i = pos[t]
  BY AtThread, LabelSets DEF EraseRelease, AtSlot
<1>2. /\ threads' = [threads EXCEPT ![pos[t]] = Null]
      /\ UNCHANGED <<values, dpc, dpos>> /\ pc'[t] = "idle"
      /\ \A u \in Threads \ {t} : pc'[u] = pc[u] /\ pos'[u] = pos[u] /\ arg'[u] = arg[u]
  BY <1>1 DEF EraseRelease, Return, Holds, Cells, TypeOK, LocalsOK
<1>3. threads'[pos[t]] = Null /\ \A i \in Slots \ {pos[t]} : threads'[i] = threads[i]
  BY <1>1, <1>2 DEF Cells, TypeOK, ArraysOK
<1>4. OwnStep(t)
  BY <1>1, <1>2, <1>3 DEF OwnStep, Holds
<1>5. AtSlot(t)'
  BY <1>1, <1>2, <1>3, LabelSets, ThreadLocalAssumption DEF AtSlot, Holds
<1>6. FreeIsEmpty'
  BY <1>1, <1>2, <1>3 DEF FreeIsEmpty, Cells, CellsFit
<1> QED
  BY <1>4, <1>5, <1>6, CellsLocal

\* As long as it overtakes no call, deinit() finds every thread idle, and it empties
\* each slot it frees.
LEMMA DeinitFits ==
    ASSUME Cells, Deinit, ~ overtaken'
    PROVE  CellsFit'
<1>1. UNCHANGED <<pc, pos, arg>> /\ \A t \in Threads : pc[t] = "idle"
  BY DEF Deinit, DeinitCall, DeinitDrop, DeinitWipe, Cells, CellsFit, DeinitAlone
<1>2. dpc # "off" => dpos \in Slots
  BY DEF Cells, TypeOK, DeinitOK
<1>3. CASE DeinitCall
  BY <1>1, <1>3, LabelSets DEF DeinitCall, Cells, CellsFit, AtSlot, FreeIsEmpty, DeinitAlone, Holds
<1>4. CASE DeinitDrop
  <2>1. /\ threads'[dpos] = Null /\ \A i \in Slots \ {dpos} : threads'[i] = threads[i]
        /\ dpc = "drop" /\ dpc' = "wipe" /\ UNCHANGED <<values, dpos>>
    BY <1>2, <1>4 DEF DeinitDrop, Cells, TypeOK, ArraysOK
  <2>2. ASSUME NEW t \in Threads PROVE AtSlot(t)'
    BY <1>1, <2>1, AtThread, LabelSets, ThreadLocalAssumption DEF AtSlot, Holds
  <2>3. FreeIsEmpty'
    BY <2>1 DEF FreeIsEmpty, Cells, CellsFit
  <2> QED
    BY <1>1, <2>1, <2>2, <2>3 DEF CellsFit, DeinitAlone
<1>5. CASE DeinitWipe
  <2>1. /\ values'[dpos] = Null /\ \A i \in Slots \ {dpos} : values'[i] = values[i]
        /\ dpc = "wipe" /\ dpc' # "wipe" /\ UNCHANGED threads /\ threads[dpos] = Null
    BY <1>2, <1>5 DEF DeinitWipe, Cells, TypeOK, ArraysOK, CellsFit, DeinitAlone
  <2>2. ASSUME NEW t \in Threads PROVE AtSlot(t)'
    BY <1>1, <2>1, AtThread, LabelSets, ThreadLocalAssumption DEF AtSlot, Holds
  <2>3. FreeIsEmpty'
    BY <2>1 DEF FreeIsEmpty, Cells, CellsFit
  <2> QED
    BY <1>1, <2>1, <2>2, <2>3 DEF CellsFit, DeinitAlone
<1> QED
  BY <1>3, <1>4, <1>5 DEF Deinit

\* Once deinit() has met a running operation, this is not forgotten.
LEMMA OvertakenStays ==
    ASSUME TypeOK, [Next]_vars, ~ overtaken'
    PROVE  ~ overtaken
<1>1. ASSUME NEW t \in Threads, NEW v, NEW label, Call(t, label, v) PROVE ~ overtaken
  BY <1>1 DEF Call
<1>2. ASSUME NEW t \in Threads, Step(t) PROVE UNCHANGED overtaken
  BY <1>2 DEF Step, SetFind, SetNotFound, SetClaim, SetStore, SetFail, GetLook,
     GetNothing, GetDeref, EraseSeek, EraseNothing, EraseClear, EraseRelease,
     Search, Exhausted, Goto, Return
<1>3. ASSUME Deinit PROVE ~ overtaken
  BY <1>3 DEF Deinit, DeinitCall, DeinitDrop, DeinitWipe
<1>4. CASE UNCHANGED vars
  BY <1>4 DEF vars
<1> QED
  BY <1>1, <1>2, <1>3, <1>4 DEF Next, Calls

CellsUntilOvertaken == TypeOK /\ Ownership /\ (~ overtaken => CellsFit)

\* As long as deinit() runs alone, pointers, owners and values fit, always.
LEMMA CellsAlways == Spec => []CellsUntilOvertaken
<1>1. Init => CellsFit
  BY ThreadLocalAssumption, LabelSets
     DEF Init, CellsFit, DeinitAlone, FreeIsEmpty, AtSlot, Holds
<1>2. TypeOK /\ Ownership /\ (~ overtaken => CellsFit) /\ [Next]_vars
         => (~ overtaken => CellsFit)'
  <2> SUFFICES ASSUME TypeOK, Ownership, ~ overtaken => CellsFit, [Next]_vars, ~ overtaken'
               PROVE  CellsFit'
    OBVIOUS
  <2>0. Cells
    BY OvertakenStays DEF Cells
  <2>1. CASE UNCHANGED vars
    BY <2>0, <2>1 DEF vars, Cells, CellsFit, DeinitAlone, FreeIsEmpty, AtSlot, Holds
  <2> QED
    BY <2>0, <2>1, SearchFits, CallFits, ReturnFits, SetNotFoundFits, SetClaimFits,
       WriterFits, ReleaseFits, DeinitFits DEF Next, Step
<1> QED
  BY <1>1, <1>2, TypeCorrect, OwnershipAlways, PTL DEF Spec, CellsUntilOvertaken

-----------------------------------------------------------------------------
(* Refinement of ThreadLocalSpec *)

\* The private cell is the value of the one slot a thread holds.
LEMMA CellIs ==
    ASSUME NEW t \in Threads, \A i, j \in Slots : Holds(t, i) /\ Holds(t, j) => i = j
    PROVE  /\ \A i \in Slots : Holds(t, i) => PrivateCell(t) = values[i]
           /\ ~ Holder(t) => PrivateCell(t) = Null
BY DEF PrivateCell, Holder

\* The same in the next state.
LEMMA CellThen ==
    ASSUME Cells', NEW t \in Threads
    PROVE  /\ \A i \in Slots : Holds(t, i)' => PrivateCell(t)' = values'[i]
           /\ ~ Holder(t)' => PrivateCell(t)' = Null
<1>1. \A i, j \in Slots : Holds(t, i)' /\ Holds(t, j)' => i = j
  BY DEF Cells, Ownership, OneSlotPerThread
<1> QED
  BY <1>1 DEF PrivateCell, Holder

\* A thread whose own slot and value a step leaves alone keeps its cell.
LEMMA CellKept ==
    ASSUME Cells, Cells', NEW u \in Threads,
           \A i \in Slots : (Holds(u, i)' <=> Holds(u, i)) /\ (Holds(u, i) => values'[i] = values[i])
    PROVE  PrivateCell(u)' = PrivateCell(u)
<1>1. CASE Holder(u)
  <2>1. PICK i \in Slots : Holds(u, i) /\ Holds(u, i)'
    BY <1>1 DEF Holder
  <2>2. PrivateCell(u) = values[i]
    BY <2>1, AtThread, CellIs
  <2>3. PrivateCell(u)' = values'[i]
    BY <2>1, CellThen
  <2> QED
    BY <2>1, <2>2, <2>3
<1>2. CASE ~ Holder(u)
  BY <1>2 DEF PrivateCell, Holder
<1> QED
  BY <1>1, <1>2

\* The other threads see neither their cells nor their calls change.
LEMMA ViewMoves ==
    ASSUME Cells, Cells', NEW t \in Threads, OwnStep(t)
    PROVE  /\ PrivateCells' = [PrivateCells EXCEPT ![t] = PrivateCell(t)']
           /\ AbstractCalls' = [AbstractCalls EXCEPT ![t] = AbstractCall(t)']
           /\ PrivateCells[t] = PrivateCell(t)
           /\ AbstractCalls[t] = AbstractCall(t)
<1>1. ASSUME NEW u \in Threads \ {t}
      PROVE  PrivateCell(u)' = PrivateCell(u) /\ AbstractCall(u)' = AbstractCall(u)
  <2>1. PrivateCell(u)' = PrivateCell(u)
    BY OthersHold, CellKept
  <2>2. AbstractCall(u)' = AbstractCall(u)
    BY DEF AbstractCall, OwnStep
  <2> QED
    BY <2>1, <2>2
<1> QED
  BY <1>1 DEF PrivateCells, AbstractCalls

\* Where a step leaves both arrays alone, all private cells stay.
LEMMA CellsStay ==
    ASSUME UNCHANGED <<threads, values>>
    PROVE  PrivateCells' = PrivateCells
BY DEF PrivateCells, PrivateCell, Holder, Holds

\* A step that moves t alone and reads the arrays only.
Reads(t) ==
    /\ UNCHANGED <<threads, values>>
    /\ \A u \in Threads \ {t} : pc'[u] = pc[u]

\* Such a step is seen as a change of t's call at most.
LEMMA ReaderViews ==
    ASSUME NEW t \in Threads, Reads(t)
    PROVE  /\ PrivateCells' = PrivateCells
           /\ PrivateCells[t] = PrivateCell(t)
           /\ AbstractCalls' = [AbstractCalls EXCEPT ![t] = AbstractCall(t)']
           /\ AbstractCalls[t] = AbstractCall(t)
<1>1. \A u \in Threads \ {t} : AbstractCall(u)' = AbstractCall(u)
  BY DEF AbstractCall, Reads
<1> QED
  BY <1>1, CellsStay DEF Reads, AbstractCalls, PrivateCells

\* Entering set(), get() or erase().
LEMMA CallStarts ==
    ASSUME Cells, NEW t \in Threads, Calls(t)
    PROVE  Abstract!Next
<1>1. PICK label \in {"find", "look", "seek"}, v \in Values \cup {Null} :
         /\ Call(t, label, v)
         /\ label = "find" => v \in Values
         /\ label # "find" => v = Null
  BY DEF Calls
<1>2. /\ pc[t] = "idle" /\ pc'[t] = label /\ Reads(t)
      /\ arg' = [arg EXCEPT ![t] = v] /\ res' = [res EXCEPT ![t] = Null]
  BY <1>1 DEF Call, Reads, Cells, TypeOK, LocalsOK
<1> DEFINE o == CASE label = "find" -> "set" [] label = "look" -> "get" [] label = "seek" -> "erase"
<1>3. AbstractCall(t) = "idle" /\ AbstractCall(t)' = o
  BY <1>1, <1>2, LabelSets DEF AbstractCall
<1>4. Abstract!Start(t, o, v)
  BY <1>2, <1>3, ReaderViews DEF Abstract!Start
<1> QED
  BY <1>1, <1>4 DEF Abstract!Next

\* The iterations of the search loops are not seen.
LEMMA LoopsStutter ==
    ASSUME Cells, NEW t \in Threads,
           SetFind(t) \/ SetNotFound(t) \/ GetLook(t) \/ EraseSeek(t)
    PROVE  UNCHANGED Abstract!avars
<1>1. UNCHANGED <<arg, res>> /\ Reads(t)
  BY DEF SetFind, SetNotFound, GetLook, EraseSeek, Search, Exhausted, Goto, Reads,
         Cells, TypeOK, LocalsOK
<1>2. \/ pc[t] = "find" /\ pc'[t] \in {"find", "store", "claim"}
      \/ pc[t] = "look" /\ pc'[t] \in {"look", "deref"}
      \/ pc[t] = "seek" /\ pc'[t] \in {"seek", "clear"}
  BY DEF SetFind, SetNotFound, GetLook, EraseSeek, Search, Exhausted, Goto,
         Cells, TypeOK, LocalsOK
<1>3. AbstractCall(t)' = AbstractCall(t)
  BY <1>2, LabelSets DEF AbstractCall
<1>4. AbstractCalls' = AbstractCalls
  BY <1>1, <1>3, ReaderViews DEF AbstractCalls
<1> QED
  BY <1>1, <1>4, ReaderViews DEF Abstract!avars

\* What a return looks like to the specification.
LEMMA ReturnViews ==
    ASSUME Cells, NEW t \in Threads, NEW r, Return(t, r), UNCHANGED <<threads, values>>
    PROVE  /\ Abstract!Return(t, r)
           /\ PrivateCells' = PrivateCells
           /\ AbstractCalls[t] = AbstractCall(t) /\ PrivateCells[t] = PrivateCell(t)
<1>1. pc'[t] = "idle" /\ Reads(t)
  BY DEF Return, Reads, Cells, TypeOK, LocalsOK
<1>2. AbstractCall(t)' = "idle"
  BY <1>1, LabelSets DEF AbstractCall
<1> QED
  BY <1>1, <1>2, ReaderViews DEF Return, Abstract!Return

\* A claimed slot holds nothing yet: the cell stays empty until the store.
LEMMA ClaimStutters ==
    ASSUME Cells, Cells', NEW t \in Threads, SetClaim(t)
    PROVE  UNCHANGED Abstract!avars
<1>1. /\ pc[t] = "claim" /\ pos[t] \in Slots /\ pos[t] \in 0 .. N
      /\ ~ Holder(t) /\ dpc = "off"
      /\ UNCHANGED <<values, arg, res, dpc, dpos>>
      /\ \A u \in Threads \ {t} : pc'[u] = pc[u] /\ pos'[u] = pos[u]
      /\ pc'[t] \in {"claim", "store"}
  BY AtThread, SlotRange DEF SetClaim, Goto, Holder, Cells, TypeOK, LocalsOK
<1>2. AbstractCall(t)' = AbstractCall(t)
  BY <1>1, LabelSets DEF AbstractCall
<1>3. CASE threads[pos[t]] = Null
  <2>1. threads'[pos[t]] = t /\ \A i \in Slots \ {pos[t]} : threads'[i] = threads[i]
    BY <1>1, <1>3 DEF SetClaim, Cells, TypeOK, ArraysOK
  <2>2. OwnStep(t)
    BY <1>1, <1>3, <2>1 DEF OwnStep
  <2>3. values[pos[t]] = Null
    BY <1>1, <1>3 DEF Cells, CellsFit, FreeIsEmpty
  <2>4. PICK i \in Slots : i = pos[t]
    BY <1>1
  <2>5. PrivateCell(t)' = Null
    BY <1>1, <2>1, <2>3, <2>4, CellThen DEF Holds
  <2>6. PrivateCell(t) = Null
    BY <1>1 DEF PrivateCell
  <2>7. PrivateCells' = PrivateCells /\ AbstractCalls' = AbstractCalls
    BY <1>2, <2>2, <2>5, <2>6, ViewMoves DEF PrivateCells, AbstractCalls
  <2> QED
    BY <1>1, <2>7 DEF Abstract!avars
<1>4. CASE threads[pos[t]] # Null
  <2>1. Reads(t)
    BY <1>1, <1>4 DEF SetClaim, Reads
  <2>2. AbstractCalls' = AbstractCalls
    BY <1>2, <2>1, ReaderViews DEF AbstractCalls
  <2> QED
    BY <1>1, <2>1, <2>2, ReaderViews DEF Abstract!avars
<1> QED
  BY <1>3, <1>4

\* The store is where set() takes effect.
LEMMA StoreSets ==
    ASSUME Cells, Cells', NEW t \in Threads, SetStore(t)
    PROVE  Abstract!SetDone(t)
<1>1. /\ pc[t] = "store" /\ pos[t] \in Slots /\ Holds(t, pos[t]) /\ dpc = "off"
      /\ \A i \in Slots : Holds(t, i) => i = pos[t]
  BY AtThread, LabelSets DEF SetStore, AtSlot
<1>2. /\ UNCHANGED <<threads, dpc, dpos>> /\ Return(t, TRUE) /\ pc'[t] = "idle"
      /\ \A u \in Threads \ {t} : pc'[u] = pc[u] /\ pos'[u] = pos[u] /\ arg'[u] = arg[u]
      /\ values'[pos[t]] = arg[t] /\ \A i \in Slots \ {pos[t]} : values'[i] = values[i]
  BY <1>1 DEF SetStore, Return, Cells, TypeOK, LocalsOK, ArraysOK
<1>3. OwnStep(t)
  BY <1>1, <1>2 DEF OwnStep, Holds
<1>4. PICK i \in Slots : i = pos[t]
  BY <1>1
<1>5. PrivateCell(t)' = arg[t]
  BY <1>1, <1>2, <1>4, CellThen DEF Holds
<1>6. AbstractCall(t) = "set" /\ AbstractCall(t)' = "idle"
  BY <1>1, <1>2, LabelSets DEF AbstractCall
<1>7. /\ PrivateCells' = [PrivateCells EXCEPT ![t] = arg[t]]
      /\ AbstractCalls' = [AbstractCalls EXCEPT ![t] = "idle"]
      /\ AbstractCalls[t] = "set"
  BY <1>3, <1>5, <1>6, ViewMoves
<1>8. Abstract!Return(t, TRUE)
  BY <1>2, <1>7 DEF Return, Abstract!Return
<1> QED
  BY <1>7, <1>8 DEF Abstract!SetDone

\* set() refuses only where more threads than slots exist.
LEMMA FailRefuses ==
    ASSUME Cells, SetNeverFails, NEW t \in Threads, SetFail(t)
    PROVE  Abstract!SetRefused(t)
<1>1. pc[t] = "claim" /\ ~ Holder(t) /\ Return(t, FALSE) /\ UNCHANGED <<threads, values>>
  BY AtThread DEF SetFail, Exhausted, Holder
<1>2. Cardinality(Threads) > N
  <2>1. ~ (Cardinality(users) <= N)
    BY DEF SetNeverFails, SetFail
  <2>2. /\ Cardinality(users) <= Cardinality(Threads)
        /\ Cardinality(users) \in Nat /\ Cardinality(Threads) \in Nat /\ N \in Nat
    BY ThreadLocalAssumption, FS_Subset, FS_CardinalityType DEF Cells, TypeOK, HistoryOK
  <2> QED
    BY <2>1, <2>2
<1>3. PrivateCell(t) = Null /\ AbstractCall(t) = "set"
  BY <1>1, LabelSets DEF PrivateCell, AbstractCall
<1>4. /\ Abstract!Return(t, FALSE) /\ PrivateCells' = PrivateCells
      /\ AbstractCalls[t] = "set" /\ PrivateCells[t] = Null
  BY <1>1, <1>3, ReturnViews
<1>5. Abstract!Cardinality(Threads) = Cardinality(Threads)
  BY DEF Abstract!Cardinality, Cardinality
<1> QED
  BY <1>2, <1>4, <1>5 DEF Abstract!SetRefused

\* get() returns what the private cell holds.
LEMMA GetReturns ==
    ASSUME Cells, NEW t \in Threads, GetNothing(t) \/ GetDeref(t)
    PROVE  Abstract!GetDone(t)
<1>1. AbstractCall(t) = "get"
  BY LabelSets DEF GetNothing, GetDeref, Exhausted, AbstractCall
<1>2. UNCHANGED <<threads, values>>
  BY DEF GetNothing, GetDeref
<1>3. Return(t, PrivateCell(t))
  <2>1. CASE GetNothing(t)
    <3>1. \A i \in Slots : ~ Holds(t, i)
      BY <2>1, AtThread, SlotRange DEF GetNothing, Exhausted, AtSlot
    <3>2. PrivateCell(t) = Null
      BY <3>1 DEF PrivateCell, Holder
    <3> QED
      BY <2>1, <3>2 DEF GetNothing
  <2>2. CASE GetDeref(t)
    <3>1. pos[t] \in Slots /\ Holds(t, pos[t])
      BY <2>2, AtThread, LabelSets DEF GetDeref, AtSlot
    <3>2. PrivateCell(t) = values[pos[t]]
      BY <3>1, AtThread, CellIs
    <3> QED
      BY <2>2, <3>2 DEF GetDeref
  <2> QED
    BY <2>1, <2>2
<1> QED
  BY <1>1, <1>2, <1>3, ReturnViews DEF Abstract!GetDone

\* erase() refuses when the private cell is empty.
LEMMA NothingToEraseReturns ==
    ASSUME Cells, NEW t \in Threads, EraseNothing(t)
    PROVE  Abstract!NothingToErase(t)
<1>1. \A i \in Slots : ~ Holds(t, i)
  BY AtThread, SlotRange DEF EraseNothing, Exhausted, AtSlot
<1>2. PrivateCell(t) = Null
  BY <1>1 DEF PrivateCell, Holder
<1>3. /\ AbstractCall(t) = "erase"
      /\ Return(t, FALSE) /\ UNCHANGED <<threads, values>>
  BY LabelSets DEF EraseNothing, Exhausted, AbstractCall
<1> QED
  BY <1>2, <1>3, ReturnViews DEF Abstract!NothingToErase

\* erase() takes effect where it clears the value, before it gives the slot up.
LEMMA ClearForgets ==
    ASSUME Cells, Cells', NEW t \in Threads, EraseClear(t)
    PROVE  Abstract!Forget(t)
<1>1. /\ pc[t] = "clear" /\ pos[t] \in Slots /\ Holds(t, pos[t]) /\ dpc = "off"
      /\ \A i \in Slots : Holds(t, i) => i = pos[t]
      /\ values[pos[t]] # Null
  BY AtThread, LabelSets DEF EraseClear, AtSlot
<1>2. /\ UNCHANGED <<threads, dpc, dpos, arg, res>> /\ pc'[t] = "release"
      /\ \A u \in Threads \ {t} : pc'[u] = pc[u] /\ pos'[u] = pos[u]
      /\ values'[pos[t]] = Null /\ \A i \in Slots \ {pos[t]} : values'[i] = values[i]
  BY <1>1 DEF EraseClear, Goto, Cells, TypeOK, LocalsOK, ArraysOK
<1>3. OwnStep(t)
  BY <1>1, <1>2 DEF OwnStep, Holds
<1>4. PICK i \in Slots : i = pos[t]
  BY <1>1
<1>5. PrivateCell(t)' = Null
  BY <1>1, <1>2, <1>4, CellThen DEF Holds
<1>6. PrivateCell(t) # Null
  BY <1>1, AtThread, CellIs
<1>7. AbstractCall(t) = "erase" /\ AbstractCall(t)' = "erased"
  BY <1>1, <1>2, LabelSets DEF AbstractCall
<1> QED
  BY <1>2, <1>3, <1>5, <1>6, <1>7, ViewMoves DEF Abstract!Forget

\* Giving up the slot only ends erase().
LEMMA ReleaseEnds ==
    ASSUME Cells, Cells', NEW t \in Threads, EraseRelease(t)
    PROVE  Abstract!EraseDone(t)
<1>1. /\ pc[t] = "release" /\ pos[t] \in Slots /\ Holds(t, pos[t]) /\ dpc = "off"
      /\ values[pos[t]] = Null /\ \A i \in Slots : Holds(t, i) => i = pos[t]
  BY AtThread, LabelSets DEF EraseRelease, AtSlot
<1>2. /\ threads' = [threads EXCEPT ![pos[t]] = Null] /\ Return(t, TRUE)
      /\ UNCHANGED <<values, dpc, dpos>>
      /\ pc'[t] = "idle"
      /\ \A u \in Threads \ {t} : pc'[u] = pc[u] /\ pos'[u] = pos[u] /\ arg'[u] = arg[u]
  BY <1>1 DEF EraseRelease, Return, Holds, Cells, TypeOK, LocalsOK
<1>3. threads'[pos[t]] = Null /\ \A i \in Slots \ {pos[t]} : threads'[i] = threads[i]
  BY <1>1, <1>2 DEF Cells, TypeOK, ArraysOK
<1>4. OwnStep(t)
  BY <1>1, <1>2, <1>3 DEF OwnStep, Holds
<1>5. PrivateCell(t) = Null
  BY <1>1, AtThread, CellIs
<1>6. PrivateCell(t)' = Null
  <2>1. ~ Holder(t)'
    BY <1>1, <1>3, ThreadLocalAssumption DEF Holder, Holds
  <2> QED
    BY <2>1, CellThen
<1>7. AbstractCall(t) = "erased" /\ AbstractCall(t)' = "idle"
  BY <1>1, <1>2, LabelSets DEF AbstractCall
<1>8. PrivateCells' = PrivateCells
  BY <1>4, <1>5, <1>6, ViewMoves DEF PrivateCells
<1>9. Abstract!Return(t, TRUE) /\ AbstractCalls[t] = "erased"
  BY <1>2, <1>4, <1>7, ViewMoves DEF Return, Abstract!Return
<1> QED
  BY <1>8, <1>9 DEF Abstract!EraseDone

\* deinit() empties one cell with every owner it drops.
LEMMA DeinitResets ==
    ASSUME Cells, Cells', Deinit
    PROVE  Abstract!Next \/ UNCHANGED Abstract!avars
<1>1. UNCHANGED <<pc, pos, arg, res>>
  BY DEF Deinit, DeinitCall, DeinitDrop, DeinitWipe
<1>2. AbstractCalls' = AbstractCalls
  BY <1>1 DEF AbstractCalls, AbstractCall
<1>3. CASE DeinitCall
  BY <1>1, <1>2, <1>3, CellsStay DEF DeinitCall, Abstract!avars
<1>4. CASE DeinitWipe
  <2>1. \A i \in Slots, t \in Threads :
           (Holds(t, i)' <=> Holds(t, i)) /\ (Holds(t, i) => values'[i] = values[i])
    <3>1. dpos \in Slots /\ threads[dpos] = Null
      BY <1>4 DEF DeinitWipe, Cells, CellsFit, DeinitAlone, TypeOK, DeinitOK
    <3>2. UNCHANGED threads /\ \A i \in Slots \ {dpos} : values'[i] = values[i]
      BY <1>4 DEF DeinitWipe, Cells, TypeOK, ArraysOK
    <3> QED
      BY <3>1, <3>2, ThreadLocalAssumption DEF Holds
  <2>2. ASSUME NEW t \in Threads PROVE PrivateCell(t)' = PrivateCell(t)
    BY <2>1, CellKept
  <2> QED
    BY <1>1, <1>2, <2>2 DEF PrivateCells, Abstract!avars
<1>5. CASE DeinitDrop
  <2>1. /\ dpos \in Slots /\ threads'[dpos] = Null
        /\ \A i \in Slots \ {dpos} : threads'[i] = threads[i]
        /\ UNCHANGED values
    BY <1>5 DEF DeinitDrop, Cells, TypeOK, DeinitOK, ArraysOK
  <2>2. PICK i \in Slots : i = dpos
    BY <2>1
  <2>3. ASSUME NEW u \in Threads, ~ Holds(u, i) PROVE PrivateCell(u)' = PrivateCell(u)
    <3>1. \A j \in Slots : Holds(u, j)' <=> Holds(u, j)
      BY <2>1, <2>2, <2>3, ThreadLocalAssumption DEF Holds
    <3> QED
      BY <2>1, <3>1, CellKept
  <2>4. CASE threads[i] = Null
    <3>1. \A u \in Threads : ~ Holds(u, i)
      BY <2>4, ThreadLocalAssumption DEF Holds
    <3> QED
      BY <1>1, <1>2, <2>3, <3>1 DEF PrivateCells, Abstract!avars
  <2>5. CASE threads[i] # Null
    <3>1. PICK t \in Threads : Holds(t, i)
      BY <2>5 DEF Holds, Cells, TypeOK, ArraysOK
    <3>2. PrivateCell(t)' = Null
      <4>1. ~ Holder(t)'
        BY <2>1, <2>2, <3>1, AtThread, ThreadLocalAssumption DEF Holder, Holds
      <4> QED
        BY <4>1, CellThen
    <3>3. \A u \in Threads \ {t} : PrivateCell(u)' = PrivateCell(u)
      BY <2>3, <3>1 DEF Holds
    <3>4. PrivateCells' = [PrivateCells EXCEPT ![t] = Null]
      BY <3>2, <3>3 DEF PrivateCells
    <3>5. \A u \in Threads : AbstractCalls[u] = "idle"
      <4>1. \A u \in Threads : pc[u] = "idle"
        BY <1>5 DEF DeinitDrop, Cells, CellsFit, DeinitAlone
      <4> QED
        BY <4>1, LabelSets DEF AbstractCalls, AbstractCall
    <3>6. Abstract!Reset(t)
      BY <1>1, <1>2, <3>4, <3>5 DEF Abstract!Reset
    <3> QED
      BY <3>6 DEF Abstract!Next
  <2> QED
    BY <2>4, <2>5
<1> QED
  BY <1>3, <1>4, <1>5 DEF Deinit

\* No slot taken: every cell is empty.
LEMMA CellsStart == Init => Abstract!Init
BY ThreadLocalAssumption, LabelSets
   DEF Init, Abstract!Init, PrivateCells, PrivateCell, Holder, Holds, AbstractCalls, AbstractCall

\* Every step of the code is a step on one private cell or none.
LEMMA StepIsPrivate ==
    ASSUME Cells, Cells', SetNeverFails, [Next]_vars
    PROVE  [Abstract!Next]_(Abstract!avars)
<1>1. ASSUME NEW t \in Threads, Calls(t) \/ Step(t)
      PROVE  Abstract!Next \/ UNCHANGED Abstract!avars
  BY <1>1, CallStarts, LoopsStutter, ClaimStutters, StoreSets, FailRefuses, GetReturns,
     NothingToEraseReturns, ClearForgets, ReleaseEnds DEF Step, Abstract!Next
<1>2. CASE UNCHANGED vars
  BY <1>2, CellsStay DEF vars, Abstract!avars, AbstractCalls, AbstractCall
<1> QED
  BY <1>1, <1>2, DeinitResets DEF Next

\* For any number of threads and slots, and any interleaving of set(), get(), erase()
\* and deinit(), each thread uses a cell of its own until deinit() meets an operation
\* that is running.
THEOREM CellsArePrivate == Spec => ImplementsThreadLocalSpec
<1>1. CellsUntilOvertaken /\ CellsUntilOvertaken' /\ SetNeverFails /\ [Next]_vars
         => [overtaken' \/ [Abstract!Next]_<<PrivateCells, AbstractCalls, arg, res>>]_vars
  <2> SUFFICES ASSUME CellsUntilOvertaken, CellsUntilOvertaken', SetNeverFails, [Next]_vars,
                      ~ overtaken'
               PROVE  [Abstract!Next]_<<PrivateCells, AbstractCalls, arg, res>>
    OBVIOUS
  <2>1. ~ overtaken
    BY OvertakenStays DEF CellsUntilOvertaken
  <2>2. Cells /\ Cells'
    BY <2>1 DEF CellsUntilOvertaken, Cells
  <2> QED
    BY <2>2, StepIsPrivate DEF Abstract!avars
<1> QED
  BY <1>1, CellsAlways, CellsStart, Capacity, PTL DEF Spec, ImplementsThreadLocalSpec

-----------------------------------------------------------------------------
(* The end of every operation *)

\* Two indices apart, the loops are by that many steps apart.
LEMMA Countdown ==
    ASSUME NEW p \in 0 .. N, NEW q \in 0 .. N, q = p + 1
    PROVE  /\ (N - q) + N + 3 < (N - p) + N + 3
           /\ (N - q) + 2 < (N - p) + 2
BY SlotRange

\* An iteration of a search loop is one less, or the loop is over.
LEMMA SearchCounts ==
    ASSUME TypeOK, NEW t \in Threads, SetFind(t) \/ GetLook(t) \/ EraseSeek(t)
    PROVE  StepsLeft(t)' < StepsLeft(t)
<1>1. PICK loop \in {"find", "look", "seek"}, found \in {"store", "deref", "clear"} :
         /\ Search(t, loop, found)
         /\ loop = "find" => found = "store"
         /\ loop = "look" => found = "deref"
         /\ loop = "seek" => found = "clear"
  BY DEF SetFind, GetLook, EraseSeek
<1>2. /\ pos[t] \in 0 .. N /\ pos[t] + 1 \in 0 .. N /\ pos[t] < N /\ pc[t] = loop
      /\ \/ pc'[t] = found /\ pos'[t] = pos[t]
         \/ pc'[t] = loop /\ pos'[t] = pos[t] + 1
  BY <1>1, SlotRange DEF Search, Goto, TypeOK, LocalsOK
<1>3. CASE pc'[t] = found
  BY <1>1, <1>2, <1>3, SlotRange DEF StepsLeft
<1>4. CASE pc'[t] = loop /\ pos'[t] = pos[t] + 1
  BY <1>1, <1>2, <1>4, Countdown DEF StepsLeft
<1> QED
  BY <1>2, <1>3, <1>4

\* Every step of an operation brings its end nearer.
LEMMA StepCounts ==
    ASSUME TypeOK, NEW t \in Threads, Step(t)
    PROVE  StepsLeft(t)' < StepsLeft(t)
<1>0. /\ pos[t] \in 0 .. N /\ N \in Nat
      /\ \A i : i \in 0 .. N /\ i < N => i + 1 \in 0 .. N
  BY SlotRange DEF TypeOK, LocalsOK
<1>1. ASSUME SetNotFound(t) PROVE StepsLeft(t)' < StepsLeft(t)
  <2>1. pc[t] = "find" /\ pos[t] = N /\ pc'[t] = "claim" /\ pos'[t] = 0
    BY <1>1 DEF SetNotFound, Exhausted, Goto, TypeOK, LocalsOK
  <2> QED
    BY <1>0, <2>1 DEF StepsLeft
<1>2. ASSUME SetClaim(t) PROVE StepsLeft(t)' < StepsLeft(t)
  <2>1. /\ pc[t] = "claim" /\ pos[t] < N
        /\ \/ pc'[t] = "store"
           \/ pc'[t] = "claim" /\ pos'[t] = pos[t] + 1
    BY <1>2 DEF SetClaim, Goto, TypeOK, LocalsOK
  <2>2. CASE pc'[t] = "store"
    BY <1>0, <2>1, <2>2 DEF StepsLeft
  <2>3. CASE pc'[t] = "claim" /\ pos'[t] = pos[t] + 1
    BY <1>0, <2>1, <2>3, Countdown DEF StepsLeft
  <2> QED
    BY <2>1, <2>2, <2>3
<1>3. ASSUME \/ SetStore(t) \/ SetFail(t) \/ GetNothing(t) \/ GetDeref(t)
             \/ EraseNothing(t) \/ EraseRelease(t)
      PROVE  StepsLeft(t)' < StepsLeft(t)
  <2>1. /\ pc[t] \in {"store", "claim", "look", "deref", "seek", "release"}
        /\ pc'[t] = "idle"
    BY <1>3 DEF SetStore, SetFail, GetNothing, GetDeref, EraseNothing, EraseRelease,
       Exhausted, Return, TypeOK, LocalsOK
  <2> QED
    BY <1>0, <2>1 DEF StepsLeft
<1>4. ASSUME EraseClear(t) PROVE StepsLeft(t)' < StepsLeft(t)
  <2>1. pc[t] = "clear" /\ pc'[t] = "release"
    BY <1>4 DEF EraseClear, Goto, TypeOK, LocalsOK
  <2> QED
    BY <2>1 DEF StepsLeft
<1> QED
  BY <1>1, <1>2, <1>3, <1>4, SearchCounts DEF Step

\* What other threads and deinit() do moves no thread that is inside.
LEMMA OthersStay ==
    ASSUME TypeOK, [Next]_vars, NEW t \in Threads, pc[t] # "idle", ~ Step(t)
    PROVE  UNCHANGED <<pc[t], pos[t]>>
<1>1. ASSUME NEW u \in Threads, Calls(u) PROVE UNCHANGED <<pc[t], pos[t]>>
  BY <1>1 DEF Calls, Call, TypeOK, LocalsOK
<1>2. ASSUME NEW u \in Threads \ {t}, Step(u) PROVE UNCHANGED <<pc[t], pos[t]>>
  BY <1>2 DEF Step, SetFind, SetNotFound, SetClaim, SetStore, SetFail, GetLook,
     GetNothing, GetDeref, EraseSeek, EraseNothing, EraseClear, EraseRelease,
     Search, Exhausted, Goto, Return, TypeOK, LocalsOK
<1>3. ASSUME Deinit PROVE UNCHANGED <<pc[t], pos[t]>>
  BY <1>3 DEF Deinit, DeinitCall, DeinitDrop, DeinitWipe
<1>4. CASE UNCHANGED vars
  BY <1>4 DEF vars
<1> QED
  BY <1>1, <1>2, <1>3, <1>4 DEF Next

\* No thread waits for another in set(), get() or erase(): with any number of threads
\* and slots, each of its own steps is one of those its call still needs.
THEOREM NobodyWaits == Spec => WaitFree
<1>1. TypeOK /\ [Next]_vars =>
         [\A t \in Threads : pc[t] # "idle" =>
             IF Step(t) THEN StepsLeft(t)' < StepsLeft(t)
                        ELSE UNCHANGED <<pc[t], pos[t]>>]_vars
  BY StepCounts, OthersStay
<1> QED
  BY <1>1, TypeCorrect, PTL DEF Spec, WaitFree

=============================================================================
