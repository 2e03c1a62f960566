CONSTANTS
    Callers = {w1, w2}
    Timeout = 2
    MaxErrors = 1
    MaxResubmits = 1
    MaxForgets = 2
SPECIFICATION FairSpec
INVARIANTS TypeOK  Patient
PROPERTIES IsCall Ends
CHECK_DEADLOCK FALSE
