\* Every subscription happens once, so a run ends: no deadlock check.
SPECIFICATION RealtimeFairSpec
CONSTANTS
    Streams = {c1, c2}
    RealtimeLimit = 1
    FirstBackoff = 1
    LastBackoff = 2
    MaxMessages = 3
INVARIANTS
    CapacityExact
    EventsInOrder
PROPERTIES
    StreamsRecover
    MessagesArrive
CHECK_DEADLOCK FALSE
