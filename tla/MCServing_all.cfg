SPECIFICATION MCSpec
CONSTANTS
    Kinds = {"tcp", "uot", "conn"}
    MaxBuf = 1
INVARIANTS
    ServedAsAuthenticated
    NilMeansComplete
    IdleIsNotCut
PROPERTIES
    RelayEnds
    GoroutinesEnd
    StreamLeavesAwait
CHECK_DEADLOCK FALSE
