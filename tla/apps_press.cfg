SPECIFICATION AppsSpec
CONSTANTS
    Apps = {home, a, b}
    Home = home
    Hinted = {a}
    SelfSwitching = {}
    TaskSlots = {1, 2, 3}
    MaxPins = 5
    NoTask = 0
    Nil = nil
INVARIANT OnePressOneApp
