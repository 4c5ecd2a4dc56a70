SPECIFICATION IngestSpec
CONSTANTS
    e1 = e1
    e2 = e2
    e3 = e3
    Entry <- MCEntry
    Key <- MCKey
    KeyOf <- MCKeyOf
    HistoryCap = 1
    None = None
    Malformed = Malformed
    Poison = Poison
    Published <- WellFormed
    NoOffset = NoOffset
    MaxEvents = 2
    MaxFaults = 0
    MaxRestarts = 1
PROPERTIES
    AnnouncedHandled
