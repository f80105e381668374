SPECIFICATION FairSpec
CONSTANTS
    c1 = c1
    c2 = c2
    c3 = c3
    c4 = c4
    k1 = k1
    k2 = k2
    NoGroup = NoGroup
    Calls <- MCCalls
    Keys <- MCKeys
INVARIANTS GroupInv
PROPERTIES RequestsEnter CloseReturns
CHECK_DEADLOCK FALSE
