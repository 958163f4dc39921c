----------------------------- MODULE SinglePlane -----------------------------
(***************************************************************************)
(* SingleplaneComposition: one osd plane, one video plane and a cursor       *)
(* plane, all at fixed z-orders.  It works on the members m of OsdPlanes;    *)
(* mFramebuffers is m.left, mOsdPlane and mHwcVideoPlane the heads of m.osd  *)
(* and m.video while they are free, mCursorPlane is in m.cursor.             *)
(***************************************************************************)
EXTENDS VideoPlanes

OsdFixedZ == 128
CursorFixedZ == 256
VideoFixedZ == 0

HwcVideoTypes == {"sideband", "sideband_tv", "dmabuf", "uvm", "tunnel"}

(* Every video and cursor layer, whatever was decided for it before: the     *)
(* first of each kind gets the plane.  A second dma buffer or cursor is left *)
(* to the ui, any other second video is hidden.  There is no legacy plane.   *)
processFbsOfExplicitComposition(m) ==
    LET videos == {z \in m.left : m.fb[z].type \in HwcVideoTypes}
        cursors == {z \in m.left : m.fb[z].type = "cursor"}
        v == IF videos = {} \/ m.video = <<>> THEN NoFb ELSE Min(videos)
        c == IF cursors = {} \/ m.cursor = <<>> THEN NoFb ELSE Min(cursors)
        decided == [z \in m.left |->
            CASE z = v -> "hwcvideo"
              [] z = c -> "cursor"
              [] z \in videos \ {v} -> IF m.fb[z].type = "dmabuf" THEN "undetermined"
                                       ELSE "dummy"
              [] z \in cursors \ {c} -> "undetermined"
              [] m.fb[z].type = "overlay" -> "dummy"
              [] OTHER -> m.fb[z].comp]
        pair(p, z) == IF z = NoFb THEN <<>> ELSE <<Pair(Head(p), 0, z)>>
    IN [m EXCEPT !.fb = [z \in DOMAIN m.fb |->
                            IF z \in m.left THEN [m.fb[z] EXCEPT !.comp = decided[z]]
                            ELSE m.fb[z]],
                 !.pairs = pair(m.video, v) \o pair(m.cursor, c),
                 !.video = IF v = NoFb THEN @ ELSE Tail(@),
                 !.cursor = IF c = NoFb THEN @ ELSE Tail(@)]

SPapplyCompositionFlags(m) == applyCompositionFlags(m)

(* A single layer the plane can scan out goes to it; anything else is        *)
(* composed.  The video needs a hole when it is between ui layers.           *)
buildOsdComposition(m) ==
    LET ui == {z \in m.left : m.fb[z].comp \in {"client", "undetermined"}}
        videos == {z \in m.left : m.fb[z].comp = "hwcvideo"}
        between == {v \in videos : v = Max(videos) /\ \E a, b \in ui : a < v /\ v < b}
        direct == /\ Cardinality(ui) = 1
                  /\ \A z \in ui : m.fb[z].comp = "undetermined" /\ m.fb[z].scan
        b == [m EXCEPT !.left = ui, !.overlay = between]
    IN IF ui = {} THEN b
       ELSE IF direct
       THEN [AddPair(SetComp(b, ui, "osd"), Head(m.osd), 0, Min(ui)) EXCEPT !.osd = Tail(@)]
       ELSE [SetComp(b, ui, "client") EXCEPT !.client = TRUE, !.composed = ui]

SPdecideComposition(m) ==
    IF m.left = {} THEN m
    ELSE AddInputs(buildOsdComposition(SPapplyCompositionFlags(
             processFbsOfExplicitComposition(m))))

FixedZ(m, plane) ==
    IF plane \in m.osdPlanes THEN OsdFixedZ
    ELSE IF plane = "cursor" THEN CursorFixedZ ELSE VideoFixedZ
=============================================================================
