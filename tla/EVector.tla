------------------------------- MODULE EVector -------------------------------
(***************************************************************************)
(* evector_base of Lilu's kern_util.hpp as operators on a value            *)
(*                                                                         *)
(*   ptr    the slots that are really allocated; << >> is the null pointer *)
(*   cnt    how many of them hold elements                                 *)
(*   rsvd   how many slots the vector believes it has                      *)
(*                                                                         *)
(* Slots are numbered from 1, indices of the interface from 0.             *)
(***************************************************************************)
EXTENDS Naturals, Sequences

CONSTANT Junk   \* what a slot holds before it is written

Empty == [ptr |-> << >>, cnt |-> 0, rsvd |-> 0]

\* size() elements of data().
Stored(v) == SubSeq(v.ptr, 1, v.cnt)

\* reserve() asks kern_os_realloc for memory unless this holds.
Fits(v, num) == num <= v.rsvd

\* Variant: the factor enlarges the count and not the allocation.
ReserveShort(v, mul, num) ==
    IF Fits(v, num) THEN v
    ELSE [v EXCEPT !.ptr = [i \in 1 .. num |-> IF i <= Len(v.ptr) THEN v.ptr[i] ELSE Junk],
                   !.rsvd = mul * num]

\* reserve<MUL>(num) when kern_os_realloc succeeds.  When it fails the vector
\* is unchanged and the result is nullptr.
Reserve(v, mul, num) ==
    IF Fits(v, num) THEN v
    ELSE [v EXCEPT !.ptr = [i \in 1 .. mul * num |-> IF i <= Len(v.ptr) THEN v.ptr[i] ELSE Junk],
                   !.rsvd = mul * num]

\* push_back<MUL>(element), both overloads, when reserve() succeeds.
PushBack(v, mul, element) ==
    LET r == Reserve(v, mul, v.cnt + 1)
    IN  [r EXCEPT !.ptr[v.cnt + 1] = element, !.cnt = @ + 1]

\* Variant: the range that moves down begins one slot too late.
EraseMovesLate(v, index, free) ==
    IF free /\ v.cnt = 1 THEN Empty
    ELSE [v EXCEPT !.cnt = @ - 1,
                   !.ptr = [i \in 1 .. Len(v.ptr) |->
                       IF i > index + 1 /\ i < v.cnt THEN v.ptr[i + 1] ELSE v.ptr[i]]]

\* erase(index, free) after the deleter: the elements behind it move down, and
\* an array that holds none any more is freed unless the caller wants it kept.
Erase(v, index, free) ==
    IF free /\ v.cnt = 1 THEN Empty
    ELSE [v EXCEPT !.cnt = @ - 1,
                   !.ptr = [i \in 1 .. Len(v.ptr) |->
                       IF i > index /\ i < v.cnt THEN v.ptr[i + 1] ELSE v.ptr[i]]]

\* deinit() after the deleters; a vector without an array is left as it is.
Deinit(v) == IF v.ptr = << >> THEN v ELSE Empty
=============================================================================
