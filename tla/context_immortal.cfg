SPECIFICATION FairContextSpec
CONSTANTS
    Bounded = TRUE
    Buffer = 1
    Plans <- RestartPlan
    MaxStarts = 2
    MaxQueue = 3
PROPERTIES
    LastAddrEndsActor
CHECK_DEADLOCK FALSE
