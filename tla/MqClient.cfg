SPECIFICATION Spec
CONSTANTS
    e1 = e1
    e2 = e2
    k1 = k1
    k2 = k2
    Exchanges = {e1, e2}
    Keys = {k1, k2}
    Config <- MCConfig
    MaxConnects = 2
    MaxBinds = 2
    MaxRestarts = 1
INVARIANTS
    BindingsReach
    OneConnectIsSafe
CHECK_DEADLOCK FALSE
