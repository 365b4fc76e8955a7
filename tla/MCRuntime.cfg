SPECIFICATION FairSpec
CONSTANTS
    Modules <- MCModules
    States <- MCStates
    Json <- MCJson
    Empty = "none"
    Blank = "blank"
    Args <- MCArgs
    Size <- MCSize
    Answers <- MCAnswers
    MaxGas = 3
    HostCost <- MCHostCost
    BufSize = 1
    MaxState = 2
    MaxBurn = 1
    MaxHostCalls = 1
    None = None
INVARIANTS GasExact StateCarried ContractTrapReverts
PROPERTIES ExecutionEnds
