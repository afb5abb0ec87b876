---------------------------- MODULE MCThreadLocal ----------------------------
EXTENDS ThreadLocal, TLC

MCSymmetry == Permutations(Threads) \cup Permutations(Values)
=============================================================================
