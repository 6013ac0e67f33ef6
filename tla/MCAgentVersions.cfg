SPECIFICATION VersionSpec
CONSTANTS
    Txn = {x1, x2}
    Caller = {c1}
    MaxVersion = 3
    MaxRequests = 6
INVARIANTS
    OneRelease
    CallsAreServed
    CreationSerial
CHECK_DEADLOCK FALSE
