\* Every operation happens once, but the supervisors go on: no run ends.
SPECIFICATION TargetFairSpec
CONSTANTS
    NumShards = 2
    Callers = {r1}
    IndexMod = 2
    GenMod = 2
    MaxFailedProbes = 1
    InitialBackoff = 1
    MaxBackoff = 1
    Requests = {r1}
    OperationLimit = 1
    AcquireTimeout = 1
    RequestTimeout = 2
PROPERTIES
    EveryOperationEnds
