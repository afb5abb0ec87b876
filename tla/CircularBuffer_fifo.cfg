\* Two producers and the only consumer, on rings of every size up to 2.
CONSTANTS
    Null = Null
    Producers = {p1, p2}
    Consumers = {c1}
    Values = {v1, v2}
    Sizes = {0, 1, 2}
SPECIFICATION Spec
INVARIANTS
    LockBalanced
    IndicesAgree
    NothingLeaks
    AnswerStays
PROPERTIES
    ImplementsFifo
    LockIsReleased
