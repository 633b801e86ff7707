CONSTANTS
    MaxTasks = 4
    Prios = {2}
    TickMod = 4
    SleepTicks = {2}
    JumpTicks = {}
SPECIFICATION LoopSpec
PROPERTIES
    WakesAtItsTick
