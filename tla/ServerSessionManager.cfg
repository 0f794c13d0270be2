SPECIFICATION FairSpec
CONSTANTS
    SessionCount = 3
    PoolSize = 2
    Servers <- MCServers
INVARIANTS
    OpenIsTracked
    LimitHolds
    EntriesHeld
    LifeCycle
    WalkBrokenBySharedLoop
PROPERTIES
    SilentIsClosed
    PlacesFreed
CHECK_DEADLOCK FALSE
