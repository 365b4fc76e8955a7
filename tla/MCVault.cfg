SPECIFICATION Spec
CONSTANTS
    Delays <- MCDelays
    KeyLengths = {32, 33}
    Bonds = {1, 5}
    Fees = {1, 3}
    RootStrings <- MCRoots
    BlockHashes = {"b1"}
    RootWidth = 2
    CsvHeight = 1
    TaprootHeight = 2
    OpcodeHeight = 4
    KnownHeight = 5
    MaxHeight = 6
    Ages = {0, 1, 15, 16, 17, 18, 144, 255, 256, 40000, 65552}
    U64 = 64
INVARIANTS BondingGuarded DelayExact ChallengeJustified
