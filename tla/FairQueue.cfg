CONSTANTS
    Workspaces = {1, 2}
    Recordings = {1, 2}
    Home <- MCHome
    Workers = {w1, w2}
    None = None
    Editable = {1}
    MaxCrashes = 1
SPECIFICATION FairSpec
INVARIANTS TypeOK  BoundedWait
PROPERTIES  Served
