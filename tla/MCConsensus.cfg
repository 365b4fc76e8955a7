SPECIFICATION FairSpec
CONSTANTS
    v1 = v1
    v2 = v2
    v3 = v3
    b1 = b1
    c1 = c1
    NoQuorum = NoQuorum
    Validators = {v1, v2, v3}
    Honest = {v1, v2}
    Registered = {v1, v2, v3}
    Keys = {1}
    Blocks = {b1, c1}
    Roots = {1, 2}
    Gossip <- MCGossip
    Own <- MCOwn
    Threshold = 2
    ChannelSize = 1
    HasVault = FALSE
    Copies <- MCCopies
INVARIANTS VotesSound ProofsSound EquivocationRecorded HonestAccusedAcrossBlocks DivergenceSound
PROPERTIES QuorumStable DivergenceReported
