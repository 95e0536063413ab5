SPECIFICATION PoolFairSpec
CONSTANTS
    NumShards = 2
    Callers = {r1}
    IndexMod = 2
    GenMod = 3
    MaxFailedProbes = 2
    InitialBackoff = 1
    MaxBackoff = 2
INVARIANTS
    PoolTypeOK
    AvailableExact
    ProbeHoldsCurrentSlot
    NoLostWakeup
PROPERTIES
    LossNeedsFailuresInARow
    RecoversFully
    OutageDetected
    CallersServed
