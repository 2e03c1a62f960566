CONSTANTS
    Watched = {p, q}
    Uploads = {u}
    Contents = {a, b}
    MaxRows = 4
    MaxEdits = 4
    MaxMounts = 2
    MaxRestarts = 1
    BlackoutMin = 1
    None = None
    Deleted = Deleted
SPECIFICATION MCSpec
INVARIANTS RestoredPlays
CHECK_DEADLOCK FALSE
