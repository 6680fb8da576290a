\* Two peers at two addresses, three triads, two connections at a time and three
\* ids: a slot is used again after a close.
CONSTANTS
    s1 = s1
    s2 = s2
    h1 = h1
    h2 = h2
    t1 = t1
    t2 = t2
    t3 = t3
    Socket = {s1, s2}
    Host = {h1, h2}
    HostOf <- MCHostOf
    Triad = {t1, t2, t3}
    MaxConn = 2
    MaxId = 3
    TearsDown = TRUE
SPECIFICATION Spec
SYMMETRY MCSymmetry
INVARIANTS
    TypeOK
    LiveOwned
    TasksMatchTable
    Supervised
    PinnedStreamsHome
PROPERTIES
    HeardNotTimedOut
    ImplementsTable
CHECK_DEADLOCK FALSE
