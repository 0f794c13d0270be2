SPECIFICATION FairSpec
CONSTANTS
    Users = {u1, u2}
    Sessions = {s1, s2}
    Players = {p1, p2}
    NoUser = NoUser
    NoSession = NoSession
    NoPlayer = NoPlayer
    MaxMessages = 2
    MaxInbox = 2
INVARIANTS
    TypeOK
    MapsAgree
    NoGhosts
PROPERTIES
    RightUser
    OldSessionEnds
CHECK_DEADLOCK FALSE
