\* Two announcements, in each setting; the channel holds one.
CONSTANTS
    a1 = a1
    a2 = a2
    r1 = r1
    Announcements = {a1, a2}
    NoAnnouncement = none
    Settings <- AllSettings
    ChanCap = 1
SPECIFICATION Spec
INVARIANTS
    NothingLeaks
    Agreement
    NoLostWakeup
PROPERTIES
    ImplementsView
    OnlyLocalEndsAreAccused
CHECK_DEADLOCK FALSE
