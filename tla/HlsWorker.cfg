SPECIFICATION HlsSpec
CONSTANTS
    r1 = r1
    r2 = r2
    s1 = s1
    s2 = s2
    p1 = p1
    hd = hd
    sd = sd
    Run <- TwoRuns
    Sequential <- TwoRuns
    Source <- TwoSources
    Prefix <- OnePrefix
    PrefixOf <- Shared
    Quality <- TwoQualities
    Ladder <- HdThenSd
    Master = Master
    Gpu = TRUE
    MaxUploads = 1
    None = None
SYMMETRY RunSymmetry
INVARIANTS
    HlsTypeOK
    OneOrigin
    OkMeansPlayable
PROPERTIES
    SegmentsImmutable
CHECK_DEADLOCK FALSE
