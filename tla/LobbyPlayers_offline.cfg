SPECIFICATION Spec
CONSTANTS
    Users = {u1, u2}
    Sessions = {s1, s2}
    Players = {p1, p2}
    NoUser = NoUser
    NoSession = NoSession
    NoPlayer = NoPlayer
    MaxMessages = 1
    MaxInbox = 2
PROPERTY
    KeptWhileOffline
CHECK_DEADLOCK FALSE
