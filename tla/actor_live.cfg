SPECIFICATION FairActorSpec
CONSTANTS
    Messages = {r1, r2, r3}
    Bounded = TRUE
    Buffer = 1
    Configs <- LiveConfigs
    Operations = {"send", "call", "stop"}
    MayCrash = FALSE
    SelfCalls = {TRUE}
    MaxItems = 0
    NoRequest = NoRequest
PROPERTIES
    CallsReturn
    StopEnds
    LastReferenceEnds
    SourceEndsActor
CHECK_DEADLOCK FALSE
