SPECIFICATION Spec
CONSTANTS
    a = a
    b = b
    c = c
    None = None
    Agent = {a, b, c}
    Target <- MCTarget
    Subs <- MCSubs
    Slots = 1
    NodeSlots = 1
    MaxLevel = 7
    MaxFaults = 1
INVARIANTS
    NestingBounded
    VerdictAgrees
PROPERTIES
    AllEnd
    NeverRunAgain
CHECK_DEADLOCK FALSE
