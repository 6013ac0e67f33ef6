SPECIFICATION DagSpec
CONSTANTS
    N = 4
    Definitions <- MCDefinitions
CHECK_DEADLOCK FALSE
INVARIANTS
    ValidationExact
    ActivationExact
    ChainKeepsEdges
PROPERTIES
    JoinWaits
    ExecutionEnds
