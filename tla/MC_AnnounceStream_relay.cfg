\* A relay whose mux ends an announcement it received from this stream.
CONSTANTS
    a1 = a1
    a2 = a2
    r1 = r1
    Announcements = {a1, a2}
    NoAnnouncement = none
    Settings <- RelayOnly
    ChanCap = 1
SPECIFICATION Spec
INVARIANTS
    NoFalseViolation
CHECK_DEADLOCK FALSE
