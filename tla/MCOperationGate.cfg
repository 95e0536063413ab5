\* Every operation happens once, so a run ends: no deadlock check.
SPECIFICATION GateFairSpec
CONSTANTS
    Requests = {r1, r2}
    OperationLimit = 1
    AcquireTimeout = 2
    RequestTimeout = 4
INVARIANTS
    GateTypeOK
    PermitsConserved
    OperationsAccounted
    SaturationIs429
PROPERTIES
    EveryOperationEnds
CHECK_DEADLOCK FALSE
