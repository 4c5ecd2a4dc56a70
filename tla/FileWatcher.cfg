SPECIFICATION WatcherSpec
CONSTANTS
    v1 = v1
    v2 = v2
    d1 = d1
    d2 = d2
    hd = hd
    sd = sd
    Entry <- TwoVideos
    Key <- TwoVideos
    KeyOf <- Itself
    HistoryCap = 2
    None = None
    Path <- TwoVideos
    OutDir <- OneDir
    OutDirOf <- SharedDir
    Quality <- TwoQualities
    Ladder <- HdThenSd
    MaxRestarts = 1
INVARIANTS
    MissedOnlyInGap
    PublishedIsComplete
    CompletedHasStream
PROPERTIES
    FoundIsHandled
