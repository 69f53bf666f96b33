\* A page that closes its socket itself, after a display name was saved.
SPECIFICATION Spec
CONSTANTS
    Rooms = {ra, rb}
    Msgs = {m1}
    MaxSockets = 3
    MaxSelections = 2
    MaxRenames = 1
    HistoryLimit = 1
    None = None
PROPERTIES
    NoReconnectAfterDisconnect
CHECK_DEADLOCK FALSE
