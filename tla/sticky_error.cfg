\* The first fetch of a container fails; its HTTP gateway let the request through.
SPECIFICATION Spec
CONSTANTS
    az = az
    api = api
    ws = ws
    loc = loc
    k1 = k1
    k2 = k2
    Procs = {api}
    Kind <- MCKind
    Keys = {k2}
    FirstKey = k2
    Tokens <- MCTokens
    Reqs = {i1}
    Faults = {"net"}
    Failed = Failed
    Client = Client
    None = None
PROPERTIES
    OnlyInvalidRefused
CHECK_DEADLOCK FALSE
