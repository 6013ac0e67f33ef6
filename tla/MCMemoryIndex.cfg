SPECIFICATION Spec
CONSTANTS
    Worker = {w1, w2}
    Space = {s1, s2}
    FirstSpace = s1
    None = None
    MaxRevision = 2
    MaxFaults = 2
INVARIANTS
    SettledIsIndexed
PROPERTIES
    DirtyUntilIndexed
    Converges
