SPECIFICATION ASpec
CONSTANTS
    mgr = mgr
    a = a
    Manager = mgr
    Passage = {mgr, a}
    Arg = {mgr, a}
    InHash <- MCHash
    Lists <- AllLists
    Syncers = {s1, s2}
    Handler = {h1, h2}
    Ident = {i1, i2}
    Ctx = {c1, c2, c3, c4}
    NoCtx = NoCtx
    Nobody = Nobody
SYMMETRY Symmetry
CHECK_DEADLOCK FALSE
INVARIANTS
    ContextsMatchPassages
    NoNilContext
    AcceptedWasLive
    SettledIsFound
PROPERTY TableSpec
