SPECIFICATION Spec
CONSTANTS
    MaxCalls = 2
INVARIANT
    NoReconnectAfterClose
CHECK_DEADLOCK FALSE
