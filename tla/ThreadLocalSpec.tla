--------------------------- MODULE ThreadLocalSpec ---------------------------
(***************************************************************************)
(* What ThreadLocal<T, N> (kern_util.hpp) promises its callers: every      *)
(* thread has one private cell.  set() writes it, get() reads it, erase()  *)
(* empties it, and no other thread can be observed through it.  set() may  *)
(* be refused only when more than N threads use the container.             *)
(***************************************************************************)
EXTENDS Naturals, FiniteSets

CONSTANTS Threads,  \* the threads that may call into the container
          N,        \* the number of slots it has
          Values,   \* the values stored (never a null pointer)
          Null      \* T {}, the null pointer

VARIABLES local,    \* local[t]: the private cell of thread t, Null when unset
          call,     \* call[t]: the operation t is executing
          arg,      \* arg[t]: the argument of its set()
          res       \* res[t]: what its last operation returned

avars == <<local, call, arg, res>>

Init ==
    /\ local = [t \in Threads |-> Null]
    /\ call = [t \in Threads |-> "idle"]
    /\ arg = [t \in Threads |-> Null]
    /\ res = [t \in Threads |-> Null]

Start(t, op, v) ==
    /\ call[t] = "idle"
    /\ call' = [call EXCEPT ![t] = op]
    /\ arg' = [arg EXCEPT ![t] = v]
    /\ res' = [res EXCEPT ![t] = Null]
    /\ UNCHANGED local

Return(t, r) ==
    /\ call' = [call EXCEPT ![t] = "idle"]
    /\ res' = [res EXCEPT ![t] = r]
    /\ arg' = [arg EXCEPT ![t] = Null]

SetDone(t) ==
    /\ call[t] = "set"
    /\ local' = [local EXCEPT ![t] = arg[t]]
    /\ Return(t, TRUE)

\* The only excuse for refusing a value: there are more threads than slots.
SetRefused(t) ==
    /\ call[t] = "set"
    /\ local[t] = Null
    /\ Cardinality(Threads) > N
    /\ Return(t, FALSE)
    /\ UNCHANGED local

GetDone(t) ==
    /\ call[t] = "get"
    /\ Return(t, local[t])
    /\ UNCHANGED local

Forget(t) ==
    /\ call[t] = "erase"
    /\ local[t] # Null
    /\ local' = [local EXCEPT ![t] = Null]
    /\ call' = [call EXCEPT ![t] = "erased"]
    /\ UNCHANGED <<arg, res>>

EraseDone(t) ==
    /\ call[t] = "erased"
    /\ Return(t, TRUE)
    /\ UNCHANGED local

NothingToErase(t) ==
    /\ call[t] = "erase"
    /\ local[t] = Null
    /\ Return(t, FALSE)
    /\ UNCHANGED local

\* deinit(), while no operation is running, empties the cells one by one.
Reset(t) ==
    /\ \A u \in Threads : call[u] = "idle"
    /\ local' = [local EXCEPT ![t] = Null]
    /\ UNCHANGED <<call, arg, res>>

Next == \E t \in Threads :
    \/ \E v \in Values : Start(t, "set", v)
    \/ Start(t, "get", Null)
    \/ Start(t, "erase", Null)
    \/ SetDone(t)
    \/ SetRefused(t)
    \/ GetDone(t)
    \/ Forget(t)
    \/ EraseDone(t)
    \/ NothingToErase(t)
    \/ Reset(t)

Spec == Init /\ [][Next]_avars
=============================================================================
