\* A refused configuration and an answered request are ends: no deadlock check.
SPECIFICATION HandlersSpec
CONSTANTS
    Environments <- MCEnvironments
    RequestsFor <- MCRequestsFor
    RedisValues <- MCRedisValues
    JsonTexts <- MCJsonTexts
    RedisJson <- MCRedisJson
    Writes <- MCWrites
    SizeOf <- MCSizeOf
    NoRepeatedKey <- MCNoRepeatedKey
    AllowedConfigs <- MCAllowed
    BlockedConfigs <- MCBlocked
    Batches <- MCBatches
    MaxPipelineCommands = 2
    MaxCommandArgs = 3
    MaxArgBytes = 2
    MaxPermits = 2
    V4Bits = 3
    V6Bits = 2
INVARIANTS
    StartsIffSound
    DecidesAsDocumented
    HardDenyHolds
    RunsWhereConfigured
    ChargesTheClient
    DenialsCounted
    WithinLimit
    NoEntryLost
PROPERTIES
    ImplementsPolicy
CHECK_DEADLOCK FALSE
