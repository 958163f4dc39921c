SPECIFICATION MCSpec
CONSTANTS
    Rank <- MCRank
    Group <- MCGroup
    Rate <- MCRate
    Caps = {"dv", "hdr10", "hlg"}
    Tvs <- MCTvs
    Libs <- MCLibs
    Boots <- MCBoots
    BootModes = {"1080p50"}
    Calls = {"active", "boot", "preferred", "color", "dv", "hdr", "allm", "noallm"}
    Allowed <- MCAllowed
    MaxCalls = 2
    MaxPlugs = 2
    Builds <- MCBuilds
    Sinks <- MCSinks
    MaxReplugs = 1
    MaxAsks = 2
INVARIANTS
    BootModeRestored
    ModeAsked
    Applied
    ReportedIsDriven
    AskedIsDriven
    GroupsSafe
CHECK_DEADLOCK FALSE
