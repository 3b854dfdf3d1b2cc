SPECIFICATION ChannelSpec
CONSTANTS
    Messages = {m1, m2, m3, m4}
    Bounded = TRUE
    Buffer = 2
INVARIANT CapacityRespected
SYMMETRY AnyMessage
CHECK_DEADLOCK FALSE
