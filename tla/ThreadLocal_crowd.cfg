\* More threads than slots, so that claims are refused and slots change hands, and
\* a deinit() that may overtake running calls.
CONSTANTS
    Null = Null
    Threads = {t1, t2, t3}
    Values = {v1, v2}
    N = 2
SPECIFICATION Spec
SYMMETRY MCSymmetry
INVARIANTS
    TypeOK
    OneSlotPerThread
    CrowdThins
    SetNeverFails
PROPERTIES
    WaitFree
    ImplementsThreadLocalSpec
