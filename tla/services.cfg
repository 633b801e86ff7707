SPECIFICATION ServicesSpec
CONSTANTS
    Clients = {c1, c2}
    Topics <- MCTopics
    Truncated <- MCTruncated
    Priorities = {1, 2}
    MaxTopics = 1
    Dispatchers = {d1, d2}
    MaxSubs = 3
    QueueSize = 2
    OsTimers = {c1, c2}
    Periods = {1, 2}
    RtcTimes = {1}
    LastBoot = 3
    MaxFired = 2
    CardCap = 2
    AnimMs = 2
    HoldMs = 2
    Durations = {0, 1}
    NoteMod = 16
    CardHeight = 3
    SensorSlots = {1, 2}
    Configured <- MCConfigured
    Builtin <- MCBuiltin
    MsMod = 4
    LastMs = 7
    Devices <- MCDevices
    Addresses = {c1, c2}
    MaxOpenHandles = 2
    MaxOpens = 3
    MaxRefcount = 2
    Handles = {d1, d2}
    Sleepers = {c1, c2}
    PowerDrivers = {d1, d2}
    PowerSlots = {1, 2}
    Timeouts = {0, 1, 2}
    ClockMod = 4
INVARIANTS OrderedByPriority QueueIsFifo PassedWereCalled TimersKept CardsGetTheirTime
    SensorsKept  ChipMatchesHandles AwakeAtRest
PROPERTIES ResumeRestores
SYMMETRY MCSymmetry
