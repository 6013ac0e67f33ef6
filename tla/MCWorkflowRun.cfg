SPECIFICATION Spec
CONSTANTS
    a = a
    b = b
    None = None
    Owner = {o1, o2, o3}
    Node <- MCNode
    Edges <- MCEdges
    Impure <- MCImpure
    MaxMishaps = 2
SYMMETRY OwnerSymmetry
CHECK_DEADLOCK FALSE
INVARIANTS
    OwnedStartOnce
    OneResultConsumed
    LedgerBehindCheckpoint
    HolderIsCurrent
PROPERTIES
    NothingPublishedAfterCancel
    IsDurableRun
