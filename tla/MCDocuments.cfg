SPECIFICATION Spec
CONSTANTS
    Uris = {u}
    Concurrency = 3
    Capacity = 1
    MaxText = 3
    MaxSends = 5
INVARIANTS
    TypeOK
    SettledCurrent
    EditFits
PROPERTIES
    ChangesInOrder
    EveryHandlerEnds
