\* Two announcements, one subscriber, in each layout.
CONSTANTS
    a1 = a1
    a2 = a2
    t1 = t1
    t2 = t2
    s1 = s1
    Announcements = {a1, a2}
    Announcers = {t1, t2}
    Subscribers = {s1}
    Layouts <- AllLayouts
    ChanCap = 1
    MaxNodes = 6
    None = none
SPECIFICATION FairSpec
INVARIANTS
    NodeDelivery
    RoutingMatchesAnnouncements
PROPERTIES
    AnnounceReturns
CHECK_DEADLOCK FALSE
