SPECIFICATION ListingSpec
CONSTANTS
    Row <- ThreeRows
    ListKind <- Cases
    Limit = 2
    PerMs = 2
    MaxClock = 3
INVARIANTS
    EverythingListed
CHECK_DEADLOCK FALSE
