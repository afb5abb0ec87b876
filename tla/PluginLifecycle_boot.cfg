\* Two plugins, each with two candidate instances and two kinds of callback.
CONSTANTS
    Null = Null
    Plugins = {p1, p2}
    Kinds = {patcherLoad, kextLoad}
    Instances = {i1, i2}
SPECIFICATION Spec
INVARIANTS
    TypeOK
    CallbacksStayLoaded
    NeverTooLate
    RefusedStaysOut
    SelfIsRunning
PROPERTIES
    KernStartReturns
CHECK_DEADLOCK FALSE
