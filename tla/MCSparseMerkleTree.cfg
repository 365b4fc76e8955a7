SPECIFICATION Spec
CONSTANTS
    TREE_DEPTH = 3
    Keys <- MCKeys
    Values = {"a", "b"}
    ZeroValue = "0"
INVARIANTS NodesAreSubtrees ProofsExact
PROPERTIES ImplementsCommitment
