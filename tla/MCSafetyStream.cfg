\* A cycle of sixteen ticks; two frames may be under way, two may be lost.
CONSTANTS
    Wrap = 16
    Starts <- MCStarts
    Stride = 5
    Correction = 1
    Instant = 1
    SlewDivisor = 2
    PingInterval = 1
    Late = 0
    Period = 1
    Travel = 1
    Gain = 1
    MaxElapsed = 11
    Depth = 2
    Tolerated = 2
SPECIFICATION Spec
INVARIANTS
    TypeOK
    GoalAhead
    SurvivesLoss
PROPERTIES
    WireForward
    NotStale
    OneFirstTcoo
CHECK_DEADLOCK FALSE
