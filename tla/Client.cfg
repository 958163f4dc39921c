SPECIFICATION MCSpec
CONSTANTS
    Clients = {c1, c2}
    Handles = {h1, h2}
    Null = Null
    BufferSlots = {1}
    LayerSlots = {0, 1}
    Seqs = 2
    MaxOps = 3
    MaxPlugs = 2
    Apps = {"a1", "a2"}
    Busy = {"a1"}
    Some = {"setDisplayViewPort", "getWhiteBoardHanle"}
    RECURSION_LIMIT = 1
    MAX_GET_SERVICE_COUNT = 1
    MaxDeaths = 1
    MaxCalls = 2
SYMMETRY Alike
INVARIANTS HandlesOwned IdsNameOneLayer Reachable Answered
CHECK_DEADLOCK FALSE
