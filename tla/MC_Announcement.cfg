\* One announcement, three registrations, two callers of end(): the
\* snapshot of three handlers exceeds MaxInline, that of two does not.
CONSTANTS
    Announcements = {a1}
    Handlers = {h1, h2, h3}
    Callers = {c1, c2}
    NoAnnouncement = none
    MaxInline = 2
SPECIFICATION FairSpec
INVARIANTS
    AtMostOnce
    StoppedNeverRuns
    DoneAfterHandlers
PROPERTIES
    EndCompletes
CHECK_DEADLOCK FALSE
