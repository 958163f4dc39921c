SPECIFICATION CvbsSpec
CONSTANTS
    Rank <- MCRank
    Group <- MCGroup
    Rate <- MCRate
    Caps = {"dv", "hdr10", "hlg"}
    Tvs <- MCTvs
    Libs <- MCLibs
    Boots <- MCBoots
    BootModes = {"1080p50"}
    Calls = {"active", "boot", "preferred", "color", "dv", "hdr", "allm", "noallm"}
    Allowed <- MCAllowed
    MaxCalls = 2
    MaxPlugs = 2
    Builds <- CvbsBuilds
    Sinks <- MCSinks
    MaxReplugs = 0
    MaxAsks = 2
PROPERTY OnlyPeriod
