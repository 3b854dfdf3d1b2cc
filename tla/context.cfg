SPECIFICATION FairContextSpec
CONSTANTS
    Bounded = TRUE
    Buffer = 1
    Plans <- SmallPlans
    MaxStarts = 2
    MaxQueue = 3
INVARIANTS
    ContextTypeOK
    NoTaskForgotten
    IntervalWithWaits
PROPERTIES
    TasksEnd
    ChildrenEnd
    LastReferenceEnds
CHECK_DEADLOCK FALSE
