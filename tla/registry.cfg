SPECIFICATION RegistrySpec
CONSTANTS
    Clients = {c1, c2, c3}
    Actors = {a1, a2}
    NoActor = NoActor
INVARIANTS
    RegistryTypeOK
    OneServiceAlive
    LostIsGone
PROPERTIES
    LookupIsCurrent
    LeavesForCause
    
SYMMETRY Interchangeable
CHECK_DEADLOCK FALSE
