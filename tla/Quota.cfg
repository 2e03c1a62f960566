CONSTANTS
    MaxRows = 3
    FairRows = 2
    Workers = {v, w}
    Requests = {x, y}
    MaxMinutes = 2
    MaxSize = 2
    Limit = 2
    MaxLimit = 3
    Space = 3
    Window = 1
    None = None
SPECIFICATION MCSpec
INVARIANTS TypeOK  StorageKept NoFreeRide
PROPERTIES ComesBack
