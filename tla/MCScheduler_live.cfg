CONSTANTS
    MaxTasks = 4
    Prios = {2}
    TickMod = 3
    SleepTicks = {2}
    JumpTicks = {}
SPECIFICATION FairSpec
PROPERTIES
    SleeperWakes
    MainSleepReturns
