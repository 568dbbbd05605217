CONSTANTS
    c1 = c1
    c2 = c2
    c3 = c3
    c4 = c4
    r1 = r1
    r2 = r2
    Calls = {c1, c2, c3}
    Settings <- MixedSettings
    AtSeqs = {3}
    MaxSeq = 3
    MaxRanges = 2
    Acceptors = {r1, r2}
    Abandons = TRUE
SPECIFICATION FairSpec
INVARIANTS
    AnswersWellFormed
    EndCoversOpened
    EofIsFinal
    NoLostWakeup
PROPERTIES
    NothingOpensAfterStop
    EndIsReached
    ClosingReturns
CHECK_DEADLOCK FALSE
