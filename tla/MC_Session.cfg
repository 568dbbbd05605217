\* One call of CloseWithError beside those of two Setup Streams.
CONSTANTS
    k1 = k1
    p1 = p1
    p2 = p2
    o1 = o1
    o2 = o2
    u1 = u1
    u2 = u2
    i1 = i1
    i2 = i2
    c = c
    t1 = t1
    s1 = s1
    s2 = s2
    s3 = s3
    d1 = d1
    d2 = d2
    l1 = l1
    f1 = f1
    Closers = {k1}
    Probers = {p1, p2}
    Outgoing = {o1, o2}
    SetupStreams = {u1, u2}
    ProbeStreams = {i1, i2}
    Conn = c
    Tokens = {t1}
    Subscribes = {s1, s2, s3}
    SubscribeIDs = {d1, d2}
    idOf <- IdOf
    Listings = {l1}
    Onces = {f1}
    Offers <- AllOffers
    Casts <- AllCasts
    None = none
SPECIFICATION FairSpec
INVARIANTS
    ProbesAreSound
    NothingOutsideScope
    OnlyTheGrantInForceLapses
PROPERTIES
    CloseUntracks
    ViolationEnds
    ProbeReturns
    WaitersReleased
    EndsTogether
CHECK_DEADLOCK FALSE
