SPECIFICATION LockoutSpec
CONSTANTS
    Ips = {a, b}
    Handlers = {h1, h2}
    MaxFailures = 2
    FailureWindow = 2
    LockoutDuration = 3
    MaxEntries = 1
    InstantMax = 10
    MaxTime = 4
SYMMETRY Symmetry
INVARIANTS
    LockHolds
    TableBounded
PROPERTIES
    LockoutEarned
    LimitMeansFull
