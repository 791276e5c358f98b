SPECIFICATION JSpec
CONSTANTS
    mgr = mgr
    a = a
    c1 = c1
    c2 = c2
    v = v
    z = z
    NoUser = NoUser
    Manager = mgr
    Passage = {mgr, a, c1, c2, v, z}
    Arg <- MCArg
    InHash <- MCHash
    Uuid <- MCUuid
    UuidOf <- MCUuidOf
    Lists <- AllLists
    Syncers = {s1, s2}
SYMMETRY Symmetry
INVARIANTS
    ManagerKept
    NoStrays
    LoadsFromTable
    AgreedListReached
    UnsharedClientsLoad
PROPERTY RemovesOnlyUnlisted
