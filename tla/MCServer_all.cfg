SPECIFICATION ServerSpec
CONSTANTS
    Protocols = {"anytls", "shadowsocks", "vmess", "grpc", "juicity"}
    Conn = {k1, k2}
    MinInterval = 2
    MaxInterval = 7
    MaxVersion = 3
INVARIANTS
    NothingLeftOpen
    PaceFollowsOutcome
    ListArrives
PROPERTIES
    ShutdownCompletes
    Recovers
\* The life cycle ends where the program does.
CHECK_DEADLOCK FALSE
