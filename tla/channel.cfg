SPECIFICATION FairChannelSpec
CONSTANTS
    Messages = {m1, m2, m3, m4}
    Bounded = TRUE
    Buffer = 1
INVARIANTS
    ChannelTypeOK
    ParkedBeyondBuffer
    NothingLost
PROPERTIES
    ImplementsFifo
    SendsReturn
CHECK_DEADLOCK FALSE
