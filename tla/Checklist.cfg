CONSTANTS
    None = None
    Check = {auth}
    Listed = {auth}
    Known = {}
    Logged = {auth}
    HistoryMax = 2
    Poll = {1, 2}
    MaxTabs = 2
    MaxFlips = 1
    MaxFaults = 1
SPECIFICATION ChecklistSpec
INVARIANTS
    ChecklistTypeOK
    NoFalseAlarm
    SparklineAgrees
PROPERTIES
    ChecklistCatchesUp
CHECK_DEADLOCK FALSE
