\* Every operation happens once, but the supervisors go on: no run ends.
SPECIFICATION TargetSpec
CONSTANTS
    NumShards = 1
    Callers = {r1, r2}
    IndexMod = 2
    GenMod = 2
    MaxFailedProbes = 1
    InitialBackoff = 1
    MaxBackoff = 1
    Requests = {r1, r2}
    OperationLimit = 1
    AcquireTimeout = 1
    RequestTimeout = 2
SYMMETRY RequestSymmetry
INVARIANTS
    Joined
PROPERTIES
    ImplementsPool
    ImplementsGate
