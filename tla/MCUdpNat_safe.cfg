SPECIFICATION FairSpec
CONSTANTS
    i1 = i1
    i2 = i2
    p1 = p1
    p2 = p2
    q1 = q1
    Handler = {h1, h2}
    Ident = {i1, i2}
    Packet = {p1, p2, q1}
    From <- MCFrom
    Entry = {e1, e2, e3, e4}
    NoEntry = NoEntry
    Relayed = {i2}
INVARIANTS
    RelayOwnsSocket
    OneSocketPerClient
    SentOnce
PROPERTIES
    NatPromise
    DirectWaitEnds
