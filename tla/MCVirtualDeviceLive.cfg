\* The same peers with two ids, under fairness of the event loop.
CONSTANTS
    s1 = s1
    s2 = s2
    h1 = h1
    h2 = h2
    t1 = t1
    t2 = t2
    t3 = t3
    Socket = {s1, s2}
    Host = {h1, h2}
    HostOf <- MCHostOf
    Triad = {t1, t2}
    MaxConn = 2
    MaxId = 2
    TearsDown = TRUE
SPECIFICATION FairSpec
PROPERTIES
    SilentReclaimed
CHECK_DEADLOCK FALSE
