SPECIFICATION Spec
CONSTANTS
    StepLimits = {1, 2, 3}
    Budgets = {0, 1}
    MaxFaults = 1
INVARIANTS
    WithinRecursionLimit
    SucceededIsSettled
    NothingCalledAgain
PROPERTIES
    RunEnds
CHECK_DEADLOCK FALSE
