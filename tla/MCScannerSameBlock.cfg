SPECIFICATION Spec
CONSTANTS
    Absent = Absent
    NoCode = NoCode
    Empty = Empty
    k1 = k1
    k2 = k2
    alice = alice
    coinbase = coinbase
    collector = collector
    change = change
    ObjIds <- MCTxIds
    Seals <- MCSeals
    TxIds <- MCTxIds
    ChainIds = {"jkc"}
    Chain = "jkc"
    Heights = {0, 1, 2, 3, 4}
    Lows <- MCLows
    Blocks = {"a1", "a2", "a3", "b2", "b3", "b4", "c3", "c4"}
    Codes = {NoCode, k1, k2, Empty}
    Owners <- MCOwners
    States <- MCStates
    Values = {0, 1, 2}
    Tasks = {"sync", "mempool"}
    SyncTask = "sync"
    MempoolTask = "mempool"
    MinFee = 2
    FeeCollector = collector
    DefaultCode = NoCode
    EmptyBlob = Empty
    Coinbase = coinbase
    Calls <- MCCalls
    InitState <- MCInitState
    Exec <- MCExec
    ObjOf <- MCObjOf
    UndoLow <- MCUndoLow
    L1Chains <- MCL1Chains
    BlockTxs <- SameBlockTxs
    StartHeight = 0
    Mempool = {}
    DhtBlobs = {k2}
    Env = {"reorg"}
    MaxFaults = 1
INVARIANTS StateIsReplay
