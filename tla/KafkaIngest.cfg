SPECIFICATION IngestSpec
CONSTANTS
    e1 = e1
    e2 = e2
    e3 = e3
    Entry <- MCEntry
    Key <- MCKey
    KeyOf <- MCKeyOf
    HistoryCap = 1
    None = None
    Malformed = Malformed
    Poison = Poison
    Published <- AnyMessage
    NoOffset = NoOffset
    MaxEvents = 3
    MaxFaults = 1
    MaxRestarts = 1
INVARIANTS
    IngestTypeOK
    AtLeastOnce
PROPERTIES
    EveryEventFed
    HandledUnlessRestarted
