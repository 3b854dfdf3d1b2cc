SPECIFICATION FairBrokerSpec
CONSTANTS
    Actors = {a, b}
    MaxPublished = 3
    Room = 1
    MaxInbox = 1
    None = None
INVARIANTS
    BrokerTypeOK
    SameOrderForAll
    AudienceServed
PROPERTIES
    PublicationsComplete
    SubscriptionsAreWeak
CHECK_DEADLOCK FALSE
