SPECIFICATION FairActorSpec
CONSTANTS
    Messages = {r1, r2, r3}
    Bounded = TRUE
    Buffer = 1
    Configs <- PlainConfigs
    Operations = {"call", "stop"}
    MayCrash = FALSE
    SelfCalls = {}
    MaxItems = 0
    NoRequest = NoRequest
PROPERTY AlreadyStoppedIsTrue
CHECK_DEADLOCK FALSE
