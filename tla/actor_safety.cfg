SPECIFICATION ActorSpec
CONSTANTS
    Messages = {r1, r2, r3}
    Bounded = TRUE
    Buffer = 1
    Configs <- SafetyConfigs
    Operations = {"send", "force", "call", "ccall", "stop", "restart"}
    MayCrash = TRUE
    SelfCalls = {TRUE, FALSE}
    MaxItems = 1
    NoRequest = NoRequest
INVARIANTS
    ActorTypeOK
    NoOrphanedCall
    RepliesAreTrue
    HooksPaired
    StopIsABarrier
    StateSurvivesRestart
PROPERTIES
    QuietAfterNotify
    ImplementsServer
SYMMETRY AnyRequest
CHECK_DEADLOCK FALSE
