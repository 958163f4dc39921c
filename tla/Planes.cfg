SPECIFICATION MCSpec
CONSTANTS
    Target <- MCTarget
    Primary = "osd2"
    LayerScenes <- MCScenes
    LaterScenes <- MCLaterScenes
    Flags <- MCFlags
    OsdPlaneSeqs <- MCOsdPlaneSeqs
    VideoPlaneSeqs <- MCVideoPlaneSeqs
    MaxValidates = 2
    UiBuffers = {u1, u2}
    Targets = {t1, t2}
    Nothing = Nothing
    MaxFrames = 3
    Scenes <- MCFbScenes
    Kinds <- MCKinds
    MaxFlips = 2
    Thread <- MCThread
    Buffer = {"b1", "b2"}
    FbId <- MCFbId
    NewFbs <- MCNewFbs
    Brings <- MCBrings
    Handle = {h1, h2, h3}
    None = none
    Off = off
    Unmade = unmade
INVARIANTS
    EveryPlaneSet
    Stacked
    HolePunched
    ShownAsTold
    NotOverwritten
    PlanesFollow
    HandlesOpen
PROPERTY ShownAlive
CHECK_DEADLOCK FALSE
