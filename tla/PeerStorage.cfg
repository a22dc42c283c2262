SPECIFICATION StorageSpec
CONSTANTS
    NoValue = NoValue
    Points = {p1, p2}
    Layouts <- Indexed
    Seats <- Together
    MaxOp = 3
    MaxId = 3
    MaxCrashes = 2
    MaxEvents = 5
    SegmentSize = 2
    MaxFiles = 4
    Beginnings <- NewRestoredAndFull
    RetainClosed = 1
    MaxRecords = 3
    MaxAcks = 1
    MaxDrops = 1
    MaxKills = 1
    MaxPowerLosses = 1
    MaxIndex = 4
    MaxBatch = 2
    CompactEntries = 1
    Cells = {p1, p2}
    ValueSizes = {1, 3}
    RegionBlocks = 2
    PageBlocks = 2
    MaxPages = 2
    MaxPuts = 3
    MaxStoreFaults = 1
    Externals = {p1, p2}
    NoExternal = NoExternal
    Starts <- BothFlushed
    MaxChanges = 4
    MaxBreaks = 2
SYMMETRY Symmetry
INVARIANTS
    UpdatesSurviveCrashes
    StorageStaysUsable
    LogShowsWhatWasWritten
    ConsensusLogIsTrue
    EntriesAreAppliedInOrder
    LatestValueIsRead
    BlocksAreAccountedFor
    LoadedSegmentIsWhole
    IdTrackerIsConsistent
PROPERTIES
    FlushedValuesSurvive
CHECK_DEADLOCK FALSE
