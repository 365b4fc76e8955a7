SPECIFICATION FairSpec
CONSTANTS
    k1 = k1
    k2 = k2
    o1 = o1
    o2 = o2
    alice = alice
    bob = bob
    jkc = jkc
    v1 = v1
    v2 = v2
    None = None
    Tasks = {k1, k2}
    Objects = {o1, o2}
    Owners = {alice, bob}
    Callers = {alice}
    OwnerOf <- EachItsOwner
    Chains = {jkc}
    Recipients = {alice}
    Validators = {v1, v2}
    Proofs <- MCProofs
    Strays <- MCStrays
    ReclaimTimeout = 1
    MaxTime = 1
    MaxCalls = 4
    MaxCrashes = 1
INVARIANTS OneTransferPerObject ExtraMintsExplained MintHasQuorum LockReleasable
PROPERTIES CallsReturn
