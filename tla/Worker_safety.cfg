CONSTANTS
    Recordings = {r1}
    Initial = {r1}
    Workers = {w1, w2}
    Requests = {q1, q2}
    None = None
    Results = {"speech", "silent"}
    QuotaVerdicts = {"pass", "exceeded", "unknown"}
    Enrichers = {w1}
    MayStall = {"submit", "poll", "enrich"}
    EditKinds = {"register", "archive", "sweep", "reappear", "move", "heal", "delete", "retry", "retry_failed"}
    MaxFaults = 2
    MaxEdits = 2
SPECIFICATION Spec
SYMMETRY Symmetry
INVARIANTS TypeOK BillingInv BilledOnce TranscriptPaid InFlightResumable 
PROPERTIES SupersededHarmless RequestSettled
