SPECIFICATION Spec
CONSTANTS
    Absent = Absent
    NoCode = NoCode
    Empty = Empty
    k1 = k1
    k2 = k2
    alice = alice
    coinbase = coinbase
    collector = collector
    change = change
    ObjIds <- MCTxIds
    Seals <- MCSeals
    TxIds <- MCTxIds
    ChainIds = {"jkc"}
    Chain = "jkc"
    Heights = {0, 1, 2, 3, 4}
    Lows <- MCLows
    Blocks = {"a1", "a2", "a3", "b2", "b3", "b4", "c3", "c4"}
    Codes = {NoCode, k1, k2, Empty}
    Owners <- MCOwners
    States <- MCStates
    Values = {0, 1, 2}
    Tasks = {"sync", "mempool"}
    SyncTask = "sync"
    MempoolTask = "mempool"
    MinFee = 2
    FeeCollector = collector
    DefaultCode = NoCode
    EmptyBlob = Empty
    Coinbase = coinbase
    Calls <- MCCalls
    InitState <- MCInitState
    Exec <- MCExec
    ObjOf <- MCObjOf
    UndoLow <- MCUndoLow
    L1Chains <- AdverseChains
    BlockTxs <- MCBlockTxs
    StartHeight = 0
    Mempool <- MempoolT2
    DhtBlobs = {k2}
    Env = {"tip_error", "check_error", "backtrack_error", "hash_error", "txs_error", "dht_error", "crash", "reorg", "reorg_interrupted", "reorg_in_pass"}
    MaxFaults = 1
INVARIANTS UndoCovers
