CONSTANTS
    k1 = k1
    k2 = k2
    Conns = {c1, c2}
    Callers = {k1, k2}
    MethodOf <- MethodOfBoth
SPECIFICATION FairSpec
CHECK_DEADLOCK FALSE
INVARIANTS
    NoneEscapes
    ServedIsEnded
    ReturnedMeansGone
PROPERTIES
    CloseReturns
