SPECIFICATION Spec
CONSTANTS
    Key = {k1, k2}
    Call = {c1, c2}
    NoKey = NoKey
    RetryCount = 1
    FailureThreshold = 2
    ProbeCount = 1
    SuccessThreshold = 2
INVARIANTS
    ServesBelowThreshold
    ProbesAccounted
PROPERTIES
    PicksOnlyUsable
    CallsEnd
    KeysComeBack
