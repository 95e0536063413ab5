\* The process may stop: no deadlock check.
SPECIFICATION ServerFairSpec
CONSTANTS
    Conns = {c1, c2, c3}
    Visited = {"command", "readyz", "subscribe"}
    MaxConcurrency = 1
    TargetCount = 2
INVARIANTS
    NoRequestCut
PROPERTIES
    ReadyIsJustified
    RoutesAreLimited
    HealthAnswers
    QueuedIsServed
    ShutdownEnds
CHECK_DEADLOCK FALSE
