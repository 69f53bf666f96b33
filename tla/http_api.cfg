\* Two requests at a time over one user, one room and three messages.
SPECIFICATION Spec
CONSTANTS
    Subs = {s1}
    UserIds = {u1, u2}
    DisplayNames = {d1}
    RoomIds = {r1}
    RoomNames = {n1}
    MaxMessages = 3
    DefaultLimit = 1
    MaxLimit = 2
    Base = 2
    Digits = 1
    Reqs = {i1, i2}
    Faults = {"db", "lag", "stale"}
    None = None
SYMMETRY MCSymmetry
INVARIANTS
    TypeOK
    OneIdPerUser
    UsersSound
    NoLateDuplicate
    HistoryOrdered
PROPERTIES
    UsersKeep
CHECK_DEADLOCK FALSE
