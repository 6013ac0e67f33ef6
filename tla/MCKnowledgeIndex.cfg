SPECIFICATION Spec
CONSTANTS
    Worker = {w1, w2}
    None = None
    Chunk = {1, 2, 3}
    Old = {2}
    Fingerprint = {f1, f2}
    MaxMutations = 1
    MaxFaults = 1
INVARIANTS
    ReadyIsComplete
PROPERTIES
    Recovers
CHECK_DEADLOCK FALSE
