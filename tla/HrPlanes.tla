------------------------------- MODULE HrPlanes -------------------------------
(***************************************************************************)
(* MultiplanesWithHRComposition repeats the graphics pipeline of             *)
(* MultiplanesWithDiComposition.  The steps whose text is the same are the    *)
(* same operators here; the ones that differ are written out.                *)
(***************************************************************************)
EXTENDS VideoPlanes

(* The sideband goes to the first video plane, at the z of the highest video.*)
HRhandleLegacySidebandVideoFbs(m, side, highest) ==
    IF side = {} THEN m
    ELSE [AddPair(SetComp(m, side \ {Min(side)}, "dummy"),
                  m.videoPlanes[1], highest, Min(side))
              EXCEPT !.video = Tail(m.videoPlanes)]

HRhandleVideoWithoutVideoPlane(m) == [SetComp(m, m.di, "client") EXCEPT !.di = {}]

(* Four compressed videos, each inside a quarter, go to the first plane as   *)
(* one.  How many quarters lie left and above is all that is counted.        *)
HRcheckAndHandle4Mosaic(m) ==
    LET half(side) == Cardinality({z \in m.di : m.fb[z].win \subseteq side})
    IN /\ m.mosaicPlane /\ ~m.fast
       /\ Cardinality(m.di) = 4
       /\ \A z \in m.di : "afbc" \in m.fb[z].kinds /\ Cardinality(m.fb[z].win) = 1
       /\ half({1, 2}) = half({1, 3})

HRhandleNonLegacySidebandVideoFbs(m, lowest) ==
    IF m.di = {} THEN m
    ELSE IF m.video # m.videoPlanes \/ m.video = <<>>
    THEN HRhandleVideoWithoutVideoPlane(m)
    ELSE IF HRcheckAndHandle4Mosaic(m)
    THEN [ToDiComposer(m, 1, lowest) EXCEPT !.video = Tail(m.videoPlanes),
                                            !.mosaic = TRUE]
    ELSE SpreadVideos(m, NoFb, Cardinality(m.di), lowest, TRUE)

HRprocessVideoFbs(m) ==
    LET c == CollectVideos(m)
    IN IF c.all = {} THEN c.m
       ELSE HRhandleNonLegacySidebandVideoFbs(
                HRhandleLegacySidebandVideoFbs(c.m, c.side, Max(c.all)), Min(c.all))

HRapplyCompositionFlags(m) == applyCompositionFlags(m)

(* No check for layers without a buffer here.                                *)
HRpickoutOsdFbs(m) == pickoutOsdFbs(m)
HRcountComposerFbs(m) == countComposerFbs(m)

(* Above 60 Hz the chip blends a single osd plane.                           *)
HRconfirmComposerRange(m) ==
    confirmComposerRange(m, IF m.fast THEN 1 ELSE Len(m.osd), HRcountComposerFbs(m))

HRhandleVPUScaleLimit(m) == handleVPUScaleLimit(m)

(* Neither the odd width limit nor the shortcut for a single layer.          *)
HRhandleVPULimit(m) ==
    LET lim == HRhandleVPUScaleLimit(m)
    IN IF m.left = {} THEN m ELSE SelectBase(lim, BaseFb(lim))

HRfillComposerFbs(m) == fillComposerFbs(m)
HRselectComposer(m) == selectComposer(m)
HRsetOsdFbs2PlanePairs(m) == setOsdFbs2PlanePairs(m)

HRhandleOsdComposition(m) ==
    HRsetOsdFbs2PlanePairs(HRselectComposer(HRfillComposerFbs(
        HRhandleVPULimit(HRconfirmComposerRange(m)))))

HRprocessGfxFbs(m) == AddInputs(HRhandleOsdComposition(HRpickoutOsdFbs(m)))

HRhandleOverlayVideoZorder(m) == handleOverlayVideoZorder(m)

(* A video that is alone is not lifted.                                      *)
HRhandleDisplayLayerZorder(m) == DisplayLayerZorder(m, FALSE)

HRdecideComposition(m) ==
    HRhandleDisplayLayerZorder(HRhandleOverlayVideoZorder(
        HRprocessGfxFbs(HRapplyCompositionFlags(HRprocessVideoFbs(m)))))
=============================================================================
