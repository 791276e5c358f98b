INIT StructuresInit
NEXT StructuresNext
CONSTANTS
    Key = {k1, k2, k3}
    LruNode = {m1, m2, m3, m4}
    First = First
    Last = Last
    NoNode = NoNode
    NoKey = NoKey
    Limit = 2
    MaxTime = 4
    Walker = {w1, w2}
    Node = {n1, n2, n3}
    Nil = Nil
    Array = {a1, a2, a3, a4}
    NoArray = NoArray
    MaxLen = 3
    Closest <- MCClosest
    Width = 4
    MaxDict = 3
SYMMETRY WalkerSymmetry
INVARIANTS CopiesAreSnapshots PanicNeedsRace MatchIsLongest
PROPERTY LruForgets
\* The trie stops when the match is made, the list when a slice expression panics.
CHECK_DEADLOCK FALSE
