SPECIFICATION FairSpec
CONSTANTS
    c1 = c1
    c2 = c2
    p1 = p1
    b1 = b1
    b2 = b2
    Callers = {c1, c2}
    Syncer = c1
    Peers = {p1}
    Blobs = {b1, b2}
    Sha <- MCSha
    Hashes = {"h1"}
    Absent = Absent
    CmdCap = 1
    InCap = 1
    MaxCalls <- MCCalls
    MaxConns = 2
    Topics = {"attestation"}
INVARIANTS ContentAddressed WaitersKnown
PROPERTIES HandleReturns
