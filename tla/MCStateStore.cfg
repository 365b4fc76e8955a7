SPECIFICATION MCSpec
CONSTANTS
    ObjIds = {o1, o2}
    Seals = {s1, s2}
    TxIds = {x1}
    ChainIds = {"jkc"}
    Heights = {0, 1, 2}
    Lows = {1, 2}
    Blocks = {b1}
    Codes = {k1}
    Owners = {w1}
    States = {z1}
    Values = {5}
    Tasks = {"sync", "mempool"}
    SyncTask = "sync"
    Absent = Absent
    MaxUndo = 2
    TopHeight = 2
INVARIANTS SealIndexSound RootMatchesUnlessOverlapped
SYMMETRY MCSymmetry
