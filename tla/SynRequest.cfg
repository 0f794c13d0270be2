SPECIFICATION FairSpec
CONSTANTS
    Callers = {t1, t2}
    MaxRequests = 2
    MaxAnswers = 3
INVARIANTS
    OwnAnswer
    NothingLeft
    Survives
PROPERTY
    CallsReturn
CHECK_DEADLOCK FALSE
