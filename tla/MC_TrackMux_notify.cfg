\* The last announcement of a node ends while a listener is subscribed to it.
CONSTANTS
    a1 = a1
    a2 = a2
    t1 = t1
    t2 = t2
    s1 = s1
    Announcements = {a1, a2}
    Announcers = {t1, t2}
    Subscribers = {s1}
    Layouts <- SiblingsOnly
    ChanCap = 1
    MaxNodes = 6
    None = none
SPECIFICATION Spec
PROPERTIES
    ListenersNotified
CHECK_DEADLOCK FALSE
