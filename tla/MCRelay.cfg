SPECIFICATION RelaySpec
CONSTANTS
    v1 = v1
    v2 = v2
    v3 = v3
    b1 = b1
    c1 = c1
    h1 = h1
    h2 = h2
    NoQuorum = NoQuorum
    Nothing = Nothing
    Validators = {v1, v2, v3}
    Honest = {v1}
    Registered = {v1, v2, v3}
    Keys = {1}
    Blocks = {b1, c1}
    Roots = {1, 2}
    Gossip <- MCGossip
    Own <- MCOwn
    Threshold = 2
    ChannelSize = 1
    HasVault = FALSE
    Copies <- OneEach
    Handlers = {h1, h2}
    BlockRecords <- Rivals
    MaxSeconds = 1
    MaxRequests = 4
INVARIANTS RelayedRootHasQuorum RelayAgreement
SYMMETRY HandlerSymmetry
