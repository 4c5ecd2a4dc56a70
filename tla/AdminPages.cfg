CONSTANTS
    None = None
    File = {f1, f2}
    Listable = {f1}
    Category = {"Movies", "Anime"}
    ScanOrder <- MoviesThenAnime
    Slot = {1, 2}
    MaxInputs = 7
    MaxFaults = 2
SPECIFICATION AdminSpec
INVARIANTS
    UploadingHasLoop
    SuccessIsStored
PROPERTIES
    DoneOnce
    UploadEnds
    DashboardCatchesUp
CHECK_DEADLOCK FALSE
