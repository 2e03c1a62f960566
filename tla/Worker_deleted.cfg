CONSTANTS
    Recordings = {r1}
    Initial = {r1}
    Workers = {w1}
    Requests = {q1, q2}
    None = None
    Results = {"speech", "undiarized"}
    QuotaVerdicts = {"pass"}
    Enrichers = {w1}
    MayStall = {"poll"}
    EditKinds = {"delete"}
    MaxFaults = 0
    MaxEdits = 1
SPECIFICATION Spec
PROPERTIES DeletedUsageKept
