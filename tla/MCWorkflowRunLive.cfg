SPECIFICATION FairSpec
CONSTANTS
    a = a
    b = b
    None = None
    Owner = {o1, o2}
    Node <- MCNode
    Edges <- MCEdges
    Impure <- MCImpure
    MaxMishaps = 1
CHECK_DEADLOCK FALSE
PROPERTIES
    RunSettles
