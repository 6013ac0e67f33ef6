SPECIFICATION Spec
CONSTANTS
    Request = {r1, r2}
    Order = {o1}
    o1 = o1
    o2 = o2
    None = None
    Costs = {1, 3}
    Gifts = {1}
    Edits = {0}
    Initial = 3
    Amount <- MCAmount
SYMMETRY Symmetric
CHECK_DEADLOCK FALSE
INVARIANTS
    PaidMeansCredited
