SPECIFICATION FairSpec
CONSTANTS
    MaxCalls = 3
INVARIANTS
    FlagsTruthful
    CrashNeedsOverlap
    WatchedWhileConnected
PROPERTIES
    KeepsTrying
    SilentServerDropped
CHECK_DEADLOCK FALSE
