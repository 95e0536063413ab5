\* Connections that ask /readyz: no deadlock check, the process may stop.
SPECIFICATION ServerSpec
CONSTANTS
    Conns = {c1, c2}
    Visited = {"command", "readyz"}
    MaxConcurrency = 1
    TargetCount = 2
INVARIANTS
    ReadyOnceLoaded
CHECK_DEADLOCK FALSE
