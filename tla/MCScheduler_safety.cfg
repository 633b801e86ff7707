CONSTANTS
    MaxTasks = 4
    Prios = {1, 2}
    TickMod = 4
    SleepTicks = {1, 2}
    JumpTicks = {2}
SPECIFICATION Spec
INVARIANTS
    ListsMatchStates
    ListsAreChains
PROPERTIES
    OnlyDueOrResumed
    ImplementsTasks
