\* Two pairs on one scanner and one connection of others: the cap is reached, a
\* triad is met again, and the device is bound by one and by another.
SPECIFICATION Spec
CONSTANTS
    Originator = {"o1", "o2"}
    Device = "device"
    Socket = {"s1", "s2"}
    Config = {"x", "y"}
    Unset = "zero"
    NewUnid = {"u2"}
    FirstUnid = "u1"
    None = "none"
    MaxConn = 3
    MaxId = 5
    MaxOther = 1
    Pair = {"p1", "p2"}
    Serials = 2
    Word = 3
    OrigOf <- MCOrigOf
    ScannerOf <- MCScannerOf
    ConfigOf <- MCConfigOf
    MarkedOf <- MCMarkedOf
    Clock = {0}
    OtherSocket = {"s2"}
    OtherRequest <- MCOther
INVARIANTS
    TypeOK
    SeedsAgree
    SeedsDistinct
    BoundByOne
    UnownedWhenIdle
PROPERTIES
    ConfigurationKept
    GivenBack
CHECK_DEADLOCK FALSE
