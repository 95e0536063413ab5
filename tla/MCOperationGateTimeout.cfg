\* Every operation happens once, so a run ends: no deadlock check.
SPECIFICATION GateSpec
CONSTANTS
    Requests = {r1, r2}
    OperationLimit = 1
    AcquireTimeout = 1
    RequestTimeout = 2
INVARIANT
    TimeoutRunsFromPermit
CHECK_DEADLOCK FALSE
