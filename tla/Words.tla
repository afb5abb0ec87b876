-------------------------------- MODULE Words --------------------------------
(***************************************************************************)
(* The arithmetic helpers of Lilu's kern_util.hpp and kern_time.hpp, on    *)
(* unsigned words of W bits: numbers are taken modulo Limit = 2^W, and a   *)
(* word that is used for its bits is the set of their numbers.             *)
(***************************************************************************)
EXTENDS Integers

CONSTANTS W, Limit

Words == 0 .. Limit - 1

-----------------------------------------------------------------------------
(* Time, in nanoseconds; 0 for current, which asks for the time, is not     *)
(* passed here                                                              *)

getTimeSinceNs(start, current) == IF current > start THEN current - start ELSE 0

\* start + timeout is a word too.
getTimeLeftNs(start, timeout, current) ==
    LET over == (start + timeout) % Limit
    IN  IF over > current THEN over - current ELSE 0

\* The conversions: nanoseconds and milliseconds to coarser units, and back.
Coarser(t, unit) == t \div unit
Finer(t, unit) == (t * unit) % Limit

convertNsToMs(t) == Coarser(t, 1000000)
convertNsToSc(t) == Coarser(t, 1000000000)
convertMsToSc(t) == Coarser(t, 1000)
convertMsToNs(t) == Finer(t, 1000000)
convertScToNs(t) == Finer(t, 1000000000)
convertScToMs(t) == Finer(t, 1000)

-----------------------------------------------------------------------------
(* Bits *)

Bits == 0 .. W - 1

getBit(n) == {n}

\* getBit(n) - 1
Below(n) == 0 .. n - 1

getBitMask(hi, lo) == (getBit(hi) \cup Below(hi)) \ Below(lo)

\* so << lo and so >> lo
ShiftLeft(so, lo) == {b + lo : b \in so} \cap Bits
ShiftRight(so, lo) == {b - lo : b \in so} \cap Bits

getBitField(so, hi, lo) == ShiftRight(so \cap getBitMask(hi, lo), lo)

setBitField(so, hi, lo) == ShiftLeft(so, lo) \cap getBitMask(hi, lo)

-----------------------------------------------------------------------------
(* Alignment *)

\* What bit i is worth: 2^i.
Weight[i \in 0 .. W] == IF i = 0 THEN 1 ELSE 2 * Weight[i - 1]

\* The bits of a number, and the word that has given bits.
BitsOf(n) == {i \in Bits : (n \div Weight[i]) % 2 = 1}
WordOf(bits) == CHOOSE n \in Words : BitsOf(n) = bits

\* (size + align - 1) & (~(align - 1))
alignValue(size, align) ==
    WordOf(BitsOf((size + align - 1) % Limit) \ BitsOf(align - 1))

-----------------------------------------------------------------------------
(* Containers and versions *)

findNotEquals(in, size, value) == \E i \in 0 .. size - 1 : in[i] # value

\* The digits of "a.b.c".
parseModuleVersion(a, b, c) == a * 100 + b * 10 + c
=============================================================================
