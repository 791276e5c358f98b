SPECIFICATION FairSpec
CONSTANTS
    Stream = {d1, d2}
    NoStream = NoStream
    Version <- MCVersion
    Cap = 1
VIEW Observable
CHECK_DEADLOCK FALSE
INVARIANTS
    TypeOK
    NoOrphanStream
    NothingLeftInMap
PROPERTIES
    NoDowngrade
    HandlersEnd
    CloseReleasesEveryone
    NegotiationEnds
