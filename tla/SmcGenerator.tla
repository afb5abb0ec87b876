----------------------------- MODULE SmcGenerator -----------------------------
(***************************************************************************)
(* The reproducible random numbers of a VirtualSMC device (SMCInfo in      *)
(* kern_smcinfo.hpp): a word seeded with bytes of the device information   *)
(* and advanced by three shifts.  The word is the set of its bits, as in   *)
(* Words.  The product that is returned is a function of the word and is   *)
(* left out.                                                               *)
(***************************************************************************)
EXTENDS Words, Sequences

Xor(x, y) == (x \ y) \cup (y \ x)

\* The bytes that enter the seed, of the main revision and of the branch.
SeedBytes(main, branch) ==
    <<main[1], main[2], main[4], main[6], branch[1], branch[2], branch[3], branch[5]>>

\* seed.raw
Raw(main, branch) ==
    UNION {ShiftLeft(SeedBytes(main, branch)[k], 8 * (k - 1)) : k \in 1 .. 8}

\* generatorSeed(); salt is the constant of the code.
generatorSeed(main, branch, salt) == Xor(Raw(main, branch), salt)

\* x ^= x >> n and x ^= x << n
XorRight(x, n) == Xor(x, ShiftRight(x, n))
XorLeft(x, n) == Xor(x, ShiftLeft(x, n))

\* generatorRand(): the next generatorState.
generatorRand(x) == XorRight(XorLeft(XorRight(x, 12), 25), 27)
=============================================================================
