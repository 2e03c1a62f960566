CONSTANTS
    Recordings = {r1, r2}
    Initial = {r1}
    Workers = {w1, w2}
    Requests = {q1, q2}
    None = None
    Results = {"speech", "undiarized"}
    QuotaVerdicts = {"pass", "unknown"}
    Enrichers = {w1}
    MayStall = {}
    EditKinds = {"register", "archive", "sweep", "reappear", "move", "heal", "delete", "retry", "retry_failed"}
    MaxFaults = 1
    MaxEdits = 1
SPECIFICATION FairSpec

PROPERTIES Drains
