CONSTANTS
    MaxRanges = 3
    GroupSequences = {1, 2, 3, 4, 5, 6, 7, 8, 9}
    WildcardNames = {"x", "y"}
    Texts <- SmallTexts
    Roots <- SmallRoots
    Paths <- SmallPaths
    Strings <- SmallStrings
    Bases <- SmallBases
    Items <- SmallItems
    DefaultNamespaces = {"", "ns"}
    MaxTracks = 3
SPECIFICATION Spec
INVARIANTS
    PatternsMeanTheirPaths
    DeltasApplyAsWritten
PROPERTIES
    SettledIsExact
CHECK_DEADLOCK FALSE
