\* Two requests for a room of one name; the index is prompt and nothing fails.
SPECIFICATION Spec
CONSTANTS
    Subs = {s1}
    UserIds = {u1, u2}
    DisplayNames = {d1}
    RoomIds = {r1, r2}
    RoomNames = {n1}
    MaxMessages = 3
    DefaultLimit = 1
    MaxLimit = 2
    Base = 2
    Digits = 2
    Reqs = {i1, i2}
    Faults = {}
    None = None
INVARIANTS
    RoomNamesUnique
CHECK_DEADLOCK FALSE
