\* Three wrappers and one replacement route one slot, overlapping and as often as
\* they like, while calls run.
CONSTANTS
    Null = Null
    Original = Original
    Routers = {r1, r2, r3, rt}
    Terminals = {rt}
    Callers = {c1}
SPECIFICATION Spec
INVARIANTS
    TypeOK
    NeverCallsNull
    ChainEnds
    SuccessIsKept
PROPERTIES
    EveryCallReturns
