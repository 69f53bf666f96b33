\* No faults: running invocations return and $disconnects are delivered.
SPECIFICATION FairSpec
CONSTANTS
    c1 = c1
    c2 = c2
    u1 = u1
    u2 = u2
    Conns = {c1, c2}
    Users = {u1, u2}
    Owner <- MCOwner
    RoomIds = {ra}
    Rooms = {ra}
    Msgs = {m1}
    Invs = {i1, i2}
    PageLimit = 2
    Faults = {}
    SdkErrors = {"wrapped"}
    None = None
    NoRow = NoRow
PROPERTIES
    MessageReachesMembers
    ClosedRowsGo
CHECK_DEADLOCK FALSE
