SPECIFICATION LockoutSpec
CONSTANTS
    Ips = {a, b}
    Handlers = {h1, h2}
    MaxFailures = 2
    FailureWindow = 2
    LockoutDuration = 6
    MaxEntries = 1
    InstantMax = 5
    MaxTime = 4
INVARIANT
    NeverPoisoned
