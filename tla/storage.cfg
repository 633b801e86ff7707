SPECIFICATION StorageSpec
CONSTANTS
    PoolSize = 16
    Overhead = 2
    Requests = {1, 5}
    Alignments = {2}
    SizeMod = 17
    Keys = {1, 2, 3}
    Hashes = 2
    Values <- MCValues
    MaxEntries = 2
    MaxData = 5
    Minute = 3
    SetAfter = 2
    Compiled = 5
    Shifts = {2}
    LastTime = 10
    Partitions = {0, 1}
    Handles = {1, 2}
    Chunks <- MCChunks
    ImageSizes = {2}
    MaxSequence = 2
    PathNames = {"flash", "x", "a"}
    Paths <- MCPaths
    MountPoints <- MCPrefixes
    Volumes = {v1, v2}
    MaxMounts = 2
    VfsHandles = {h1, h2}
    MaxOpenFiles = 2
    MaxOpenDirs = 1
    MaxJobs = 2
    MaxLines = 2
    HistoryMax = 1
INVARIANTS 
    LookupIsLastSet FlushedSurvives 
    PlacesAreHeld CallsReachTheirMount
    JobsAreRecorded LinesAreKept
PROPERTIES RestartKeepsTime
SYMMETRY MCSymmetry
