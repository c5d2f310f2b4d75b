SPECIFICATION FairSpec
CONSTANT
    MaxStarts = 3
INVARIANTS
    TypeOK
    NoDoubleClose
    RunningHasLoop
    StopReachesEveryLoop
PROPERTIES
    StopHaltsUncancelled
    CancelEnds
CHECK_DEADLOCK FALSE
