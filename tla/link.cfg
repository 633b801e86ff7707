SPECIFICATION LinesSpec
CONSTANTS
    PayloadBytes = {7, 8}
    NoiseBytes = {7, 8, 2}
    MaxPayload = 2
    MaxChunk = 3
    MaxFrames = 2
    MaxNoise = 3
    Calls <- MCCalls
    Slots = 1
    TxCap = 2
    MaxHellos = 2
    MaxSends = 2
    MaxResets = 1
    MaxTx = 2
    LineCap = 3
    OutCap = 6
    HtopMs = 2
    TimeMod = 3
    EspSlots = {0, 1}
    FrtHandles = {h1, h2}
    Callers = {c1, c2}
    InDevices = {d1}
    MaxInDevices = 1
    QueueSize = 2
    TapTicks = 1
    LongTicks = 2
    HoldTicks = 3
    DoubleTicks = 2
    InTickMod = 4
    LastInTick = 5
    MaxPosts = 5
    FbW = 2
    FbH = 3
    Inks = {0, 1}
    Points <- MCPoints
    Extents <- MCExtents
    Int16Mod = 12
    Screens <- MCScreens
    Second = 2
    Pace = 1
    LongSleep = 5
    TickMod = 6
INVARIANTS FramesFoundAgain ActedOnOnce ShownIsTyped  InputInOrder
    FlushShowsPicture 
CHECK_DEADLOCK FALSE
