SPECIFICATION FairSpec
CONSTANTS
    mgr = mgr
    a = a
    Manager = mgr
    Passage = {mgr, a}
    Arg = {mgr, a}
    InHash <- MCHash
    Lists <- AllLists
    Syncers = {s1}
    Handler = {h1}
    Ident = {i1}
    Ctx = {c1, c2}
    NoCtx = NoCtx
    Nobody = Nobody
CHECK_DEADLOCK FALSE
PROPERTY SyncReturns
