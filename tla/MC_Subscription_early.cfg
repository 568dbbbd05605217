CONSTANTS
    c1 = c1
    c2 = c2
    c3 = c3
    c4 = c4
    r1 = r1
    r2 = r2
    Calls = {c1, c2, c3, c4}
    Settings <- EarlySettings
    AtSeqs = {}
    MaxSeq = 3
    MaxRanges = 2
    Acceptors = {r1}
    Abandons = FALSE
SPECIFICATION Spec
SYMMETRY CallSymmetry
INVARIANTS
    EarlyGroupsKept
CHECK_DEADLOCK FALSE
