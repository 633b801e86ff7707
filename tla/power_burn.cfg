SPECIFICATION FairGovSpec
CONSTANTS
    TimeMod = 5
    StreakMod = 5
    WindowMs = 2
    Advances = {1, 3}
    MaxSteps = 2
    NFreqs = 5
    Temps = {60, 61, 70}
    Gaps = {49, 50}
INVARIANT BurnersAreCooled
