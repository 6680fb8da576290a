\* A server connection opened with the default initial values.
CONSTANTS
    Wrap = 16
    Starts <- MCDefaultStart
    Stride = 5
    Correction = 1
    Instant = 1
    SlewDivisor = 2
    PingInterval = 1
    Late = 0
    Period = 1
    Travel = 1
    Gain = 1
    MaxElapsed = 11
    Depth = 2
    Tolerated = 2
SPECIFICATION Spec
INVARIANT AgreeFromFirst
CHECK_DEADLOCK FALSE
