SPECIFICATION MCSpec
CONSTANTS
    Group <- MCGroup
    Tvs <- MCTvs
    Calls = {"active", "hdr", "allm"}
    MaxPlugs = 2
    MaxCalls = 1
    Marks <- MCMarks
    DISPLAY_MODE_LIST <- MCList
    Filter16_9 = FALSE
    PrimaryHotplug = TRUE
    highestDv = {}
    Fb <- MCFb
    DefaultMode <- P1080p60
    Policies = {"real", "active", "fixed", "full"}
    Displays <- MCDisplays
    MaxRate = 60
    Changes = 2
    Asks = 1
    Boards <- MCBoards
    MaxMoves = 4
INVARIANTS Composed CapsOfSink IdKeepsMeaning PeriodIsScreen Bound CableFollowed
CHECK_DEADLOCK FALSE
