SPECIFICATION Spec
CONSTANTS
    p1 = p1
    p2 = p2
    p3 = p3
    Pubkeys = {p1, p2, p3}
    BondAmounts = {2, 3}
    Tvls = {1}
    min_bond = 2
    max_operators = 2
    honest_threshold = 2
    unbond_delay = 1
    U64Max = 44
    MaxHeight = 2
    MaxBatches = 3
    indexer_fee_pct = 7
    min_indexer_fee = 1
    base_fee = 0
    fee_per_byte = 1
    min_operator_fee = 6
    DataSizes = {0, 1}
    BatchCounts = {1}
    MaxEnvelopes = 3
    MaxMarks = 1
    Challenged = {0, 1}
INVARIANTS TotalBondBacked FeesConserved SharesProportional
PROPERTIES ExitAfterDelay
SYMMETRY PubkeySymmetry
CONSTRAINT RegistryOrFees
