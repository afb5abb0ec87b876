-------------------------- MODULE MCCircularBuffer --------------------------
EXTENDS CircularBuffer, TLC

MCSymmetry == Permutations(Producers) \cup Permutations(Values)
=============================================================================
