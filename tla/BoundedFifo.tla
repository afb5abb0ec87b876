----------------------------- MODULE BoundedFifo -----------------------------
(***************************************************************************)
(* What CircularBuffer<T> (kern_util.hpp) promises: a first-in first-out   *)
(* queue of at most `capacity` elements whose operations take effect one   *)
(* at a time.  push() fails exactly when the queue is full, pop() exactly  *)
(* when it is empty, and a failed pop() leaves its argument alone.         *)
(***************************************************************************)
EXTENDS Naturals, Sequences

CONSTANTS Threads, Values, Null

VARIABLES queue,      \* the elements, oldest first
          capacity,   \* how many of them fit
          call,       \* call[t]: the operation t waits for, "done" or "idle"
          elem,       \* elem[t]: its element argument
          ret         \* ret[t]: the value it is about to return

avars == <<queue, capacity, call, elem, ret>>

Init ==
    /\ queue = <<>>
    /\ capacity = 0
    /\ call = [t \in Threads |-> "idle"]
    /\ elem = [t \in Threads |-> Null]
    /\ ret = [t \in Threads |-> Null]

Start(t, op, v) ==
    /\ call[t] = "idle"
    /\ call' = [call EXCEPT ![t] = op]
    /\ elem' = [elem EXCEPT ![t] = v]
    /\ UNCHANGED <<queue, capacity, ret>>

Finish(t, op, r) ==
    /\ call[t] = op
    /\ call' = [call EXCEPT ![t] = "done"]
    /\ ret' = [ret EXCEPT ![t] = r]
    /\ UNCHANGED capacity

Push(t) ==
    IF Len(queue) < capacity
    THEN /\ Finish(t, "push", TRUE)
         /\ queue' = Append(queue, elem[t])
         /\ UNCHANGED elem
    ELSE Finish(t, "push", FALSE) /\ UNCHANGED <<queue, elem>>

Pop(t) ==
    IF queue # <<>>
    THEN /\ Finish(t, "pop", TRUE)
         /\ elem' = [elem EXCEPT ![t] = Head(queue)]
         /\ queue' = Tail(queue)
    ELSE Finish(t, "pop", FALSE) /\ UNCHANGED <<queue, elem>>

Ask(t) ==
    /\ \/ Finish(t, "isEmpty", queue = <<>>)
       \/ Finish(t, "isFull", Len(queue) = capacity)
       \/ Finish(t, "getCount", Len(queue))
    /\ UNCHANGED <<queue, elem>>

Return(t) ==
    /\ call[t] = "done"
    /\ call' = [call EXCEPT ![t] = "idle"]
    /\ elem' = [elem EXCEPT ![t] = Null]
    /\ ret' = [ret EXCEPT ![t] = Null]
    /\ UNCHANGED <<queue, capacity>>

\* The owner destroys the buffer, or creates it anew, while nobody uses it.
Renew ==
    /\ \A t \in Threads : call[t] = "idle"
    /\ queue' = <<>>
    /\ capacity' \in Nat
    /\ UNCHANGED <<call, elem, ret>>

Next ==
    \/ \E t \in Threads :
          \/ \E v \in Values : Start(t, "push", v)
          \/ \E op \in {"pop", "isEmpty", "isFull", "getCount"} : Start(t, op, Null)
          \/ Push(t)
          \/ Pop(t)
          \/ Ask(t)
          \/ Return(t)
    \/ Renew

Spec == Init /\ [][Next]_avars
=============================================================================
