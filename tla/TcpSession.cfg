SPECIFICATION FairSpec
CONSTANTS
    INIT_SIZE = 1
    MAX_SIZE = 1
    MaxWrites = 3
    MaxFrames = 2
    MaxPosts = 1
INVARIANTS
    OneWriteAtATime
    QueueBounded
    OneReadAtATime
    OpenedAndEndedOnce
PROPERTY
    CloseReported
    ImplementsSending
CHECK_DEADLOCK FALSE
