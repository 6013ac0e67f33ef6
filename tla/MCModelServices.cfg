SPECIFICATION Spec
CONSTANTS
    t1 = t1
    t2 = t2
    Task = {t1, t2}
    Plans <- MCPlans
    Worker = {w1}
    None = None
    MaxFaults = 1
INVARIANTS
    OneOperation
    RegisteredIsDesired
PROPERTIES
    Converges
