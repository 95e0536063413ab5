\* Two API routes: no deadlock check, the process may stop.
SPECIFICATION ServerSpec
CONSTANTS
    Conns = {c1, c2}
    Visited = {"command", "pipeline"}
    MaxConcurrency = 1
    TargetCount = 1
INVARIANTS
    GlobalLimit
CHECK_DEADLOCK FALSE
