SPECIFICATION RegistrySpec
CONSTANTS
    Clients = {c1, c2}
    Actors = {a1, a2}
    NoActor = NoActor
PROPERTY AlreadyRunningIsTrue
CHECK_DEADLOCK FALSE
