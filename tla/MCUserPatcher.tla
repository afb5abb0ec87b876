---------------------------- MODULE MCUserPatcher ----------------------------
EXTENDS UserPatcher, TLC

MCSymmetry == Permutations(Storages) \cup Permutations(PatchRefs)
=============================================================================
