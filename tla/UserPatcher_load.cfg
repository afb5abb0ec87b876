\* Three storages and two patch references, any allocation failing;
\* then both wrappers on every alignment of the stack.
CONSTANTS
    Null = Null
    Storages = {s1, s2, s3}
    PatchRefs = {r1, r2}
    MaxOffs = 1
    Modes = {"entry32", "entry64"}
    EntrySps = {16, 17, 18, 19}
    MaxObjects = 0
    Factors = {1, 2}
SPECIFICATION Spec
INVARIANTS
    OwnedOnce
    SlotsAreReal
    Transparent
PROPERTIES
    ImplementsList
SYMMETRY MCSymmetry
