CONSTANTS
    Recordings = {r1}
    Initial = {r1}
    Workers = {w1}
    Requests = {q1, q2}
    None = None
    Results = {"speech", "undiarized"}
    QuotaVerdicts = {"pass"}
    Enrichers = {w1}
    MayStall = {}
    EditKinds = {}
    MaxFaults = 2
    MaxEdits = 0
SPECIFICATION Spec
PROPERTIES OutageIsNoError
