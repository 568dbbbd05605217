\* Liveness, with fair goroutines.
CONSTANTS
    a1 = a1
    a2 = a2
    r1 = r1
    Announcements = {a1, a2}
    NoAnnouncement = none
    Settings <- RacesOnly
    ChanCap = 1
SPECIFICATION FairSpec
PROPERTIES
    EndReachesPeer
    DownIsCleanedUp
CHECK_DEADLOCK FALSE
