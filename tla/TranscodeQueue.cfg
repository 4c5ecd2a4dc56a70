SPECIFICATION FairQueueSpec
CONSTANTS
    e1 = e1
    e2 = e2
    e3 = e3
    e4 = e4
    Entry <- MCEntry
    Key <- MCKey
    KeyOf <- MCKeyOf
    HistoryCap = 1
    None = None
INVARIANTS
    QueueTypeOK
    OneJobPerKey
    ProcessingIsItem
PROPERTIES
    ImplementsLifecycle
    NoStarvation
