\* Any sequence of loads and calls; both ends of the ranges are hit, and one
\* range ends at the top of the address space.  Five keys in the two vectors of
\* the plugin, added in any order.
CONSTANTS
    Symbols = {"s1", "s2"}
    Requests <- MCRequests
    W = 3
    Limit = 8
    Addresses = {0, 2, 4, 5, 6, 7}
    Ranges <- MCRanges
    Null = Null
    Base = 3
    Names <- MCNames
SPECIFICATION MCSpec
INVARIANTS
    TrueMeansCurrent
    NoErrorLeftBehind
    LookupMatchesNames
    BuffersApart
PROPERTIES
    StoresStayInKext
CHECK_DEADLOCK FALSE
