SPECIFICATION FairReferencesSpec
CONSTANTS
    Refs = {h1, h2, h3}
    Joins = {j1, j2}
    None = None
INVARIANTS
    ReferencesTypeOK
    ValueGoesToTaker
PROPERTIES
    NeverRegained
    UpgradeFailsForCause
    UnreferencedEnds
    ConsumptionEnds
CHECK_DEADLOCK FALSE
