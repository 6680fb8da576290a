\* Frames of three units in chunks of up to seven: a chunk may end one frame,
\* hold another and begin a third. The budget is shorter than the idle timeout, as in
\* the code (10 s and 60 s).
CONSTANTS
    FrameLen = 3
    MaxChunk = 7
    Budget = 2
    Idle = 3
    Handling = 1
    MaxTime = 12
SPECIFICATION Spec
INVARIANTS
    TypeOK
    DispatchedWithinBudget
    HalfFrameBounded
CHECK_DEADLOCK FALSE
