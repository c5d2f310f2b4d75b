SPECIFICATION FairSpec
CONSTANT
    MaxStarts = 2
PROPERTY
    StopHalts
CHECK_DEADLOCK FALSE
