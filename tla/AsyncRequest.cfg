SPECIFICATION FairSpec
CONSTANTS
    Requests = {r1, r2}
    NoRequest = NoRequest
    SyncThreads = {t1}
    MaxSyncId = 2
    MaxResponses = 3
INVARIANTS
    TypeOK
    HandlerFindsItem
    NoRequestForgotten
    TimeoutIsLast
PROPERTIES
    EveryRequestCalledBack
    ImplementsContract
CHECK_DEADLOCK FALSE
