CONSTANTS
    n1 = n1
    n2 = n2
    w1 = w1
    s1 = s1
    c1 = c1
    c2 = c2
    c3 = c3
    Names = {n1, n2}
    Subscribers = {w1}
    TrackName <- AllTrackNames
    Calls = {c1, c2, c3}
    Watchers = {s1}
    Casts <- AllCasts
    Ops <- AllOps
    Catalogs <- AllCatalogs
    MaxChanges = 3
    None = none
SPECIFICATION FairSpec
INVARIANTS
    OnlyCurrentHandlersServe
    CatalogAndRoutesAgree
PROPERTIES
    RevokedEnds
    CatalogIsDelivered
CHECK_DEADLOCK FALSE
