CONSTANTS
    MaxTasks = 4
    Prios = {2}
    TickMod = 4
    SleepTicks = {1}
    JumpTicks = {}
SPECIFICATION LoopSpec
PROPERTIES
    RoundRobin
