SPECIFICATION Spec
CONSTANTS
    Writer = {w1, w2}
    Setter = {g1, g2}
    Stream = {s1, s2}
    NoStream = NoStream
    Nobody = Nobody
    MaxTime = 1
SYMMETRY Symmetry
INVARIANT
    DeadlinePoisonsNobody
