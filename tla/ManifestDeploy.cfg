CONSTANTS
    None = None
    Service = {s1}
    Tag = {v1, v2}
    Request = {1, 2}
    MaxLoads = 2
    MaxEdits = 1
SPECIFICATION DeploySpec
INVARIANTS
    OkMeansCommitted
PROPERTIES
    NoLostEdit
CHECK_DEADLOCK FALSE
