SPECIFICATION FairSpec
CONSTANTS
    i1 = i1
    i2 = i2
    p1 = p1
    p2 = p2
    q1 = q1
    Handler = {h1, h2}
    Ident = {i1}
    Packet = {p1, p2}
    From <- MCFrom
    Entry = {e1, e2, e3}
    NoEntry = NoEntry
    Relayed = {i1}
PROPERTY WaitEnds
