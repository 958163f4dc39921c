----------------------------- MODULE VideoPlanes -----------------------------
(***************************************************************************)
(* The video half of the two strategies for displays with several osd       *)
(* planes: MultiplanesWithDiComposition (names without a prefix) and         *)
(* MultiplanesWithHRComposition (HR names).  Of the record m of OsdPlanes:   *)
(*   video   mHwcVideoPlanes: the video planes not yet used                  *)
(*   videoPlanes   all of them (mVideoPlaneNum is their number)              *)
(*   di      mDIComposerFbs: the videos no plane was chosen for              *)
(*   inputs  what the video composer was given: addInputs of mDiComposer     *)
(*   procs   mVideoProcessorsMgr exists                                      *)
(*   mosaic  m4Mosaic                                                        *)
(* and the request flags disableSideband, disablePost, fast (a refresh rate  *)
(* above 60) and mosaicPlane (the configuration and the plane allow it).     *)
(* A video covers parts of the screen, its win: the four quarters 1 and 2    *)
(* above, 3 and 4 below, odd ones on the left.                               *)
(***************************************************************************)
EXTENDS OsdPlanes

Sidebands == {"overlay", "sideband", "sideband_tv"}
Buffered == {"dmabuf", "uvm", "tunnel"}

(* The order in which special video types deserve a plane of their own.      *)
TypeOrder == <<"dipost", "secure", "dv", "4k", "afbc", "hdr", "hdr10p", "hlg">>

SetComp(m, S, c) ==
    [m EXCEPT !.fb = [z \in DOMAIN m.fb |->
        IF z \in S THEN [m.fb[z] EXCEPT !.comp = c] ELSE m.fb[z]]]

AddPair(m, plane, z, f) == [m EXCEPT !.pairs = Append(@, Pair(plane, z, f))]

(* The videos no later one overlaps.                                         *)
chooseVideoFbsBaseNoOverlap(m, S) ==
    {z \in S : \A y \in S : y > z => m.fb[z].win \cap m.fb[y].win = {}}

chooseOneVideoFbBaseBiggestWindow(m, S) ==
    LET size(z) == Cardinality(m.fb[z].win)
    IN Max({z \in S : \A y \in S : size(y) <= size(z)})

(* The highest of the videos left when the special types have each filtered  *)
(* them, as long as one of them has the type and more than one is left.      *)
chooseOneVideoFbBaseVideoType(m, S) ==
    LET left[n \in 0 .. Len(TypeOrder)] ==
            IF n = 0 THEN {z \in S : m.fb[z].kinds # {}}
            ELSE LET before == left[n - 1]
                     having == {z \in before : TypeOrder[n] \in m.fb[z].kinds}
                 IN IF Cardinality(before) = 1 \/ having = {} THEN before ELSE having
        last == left[Len(TypeOrder)]
    IN IF last = {} THEN NoFb ELSE Max(last)

(* compose: some videos will share a plane, so the one that gets a plane of  *)
(* its own must not be covered.                                              *)
ChooseAmong(S, alone, special, biggest) ==
    IF Cardinality(S) = 1 /\ alone THEN Min(S)
    ELSE IF special # NoFb THEN special ELSE biggest

chooseOneVideoFb(m, compose) ==
    LET S == IF compose THEN chooseVideoFbsBaseNoOverlap(m, m.di) ELSE m.di
    IN ChooseAmong(S, compose, chooseOneVideoFbBaseVideoType(m, S),
                   chooseOneVideoFbBaseBiggestWindow(m, S))

(* The copies of these in the fork for 8K and 120 Hz panels.                  *)
HRchooseVideoFbsBaseNoOverlap(m, S) == chooseVideoFbsBaseNoOverlap(m, S)
HRchooseOneVideoFbBaseBiggestWindow(m, S) == chooseOneVideoFbBaseBiggestWindow(m, S)
HRchooseOneVideoFbBaseVideoType(m, S) == chooseOneVideoFbBaseVideoType(m, S)
HRchooseOneVideoFb(m, compose) ==
    LET S == IF compose THEN HRchooseVideoFbsBaseNoOverlap(m, m.di) ELSE m.di
    IN ChooseAmong(S, compose, HRchooseOneVideoFbBaseVideoType(m, S),
                   HRchooseOneVideoFbBaseBiggestWindow(m, S))

deleteFbFromeVectorFbs(m, z) == [m EXCEPT !.di = @ \ {z}]

(* The output of the video composer stands in a pair as DiOut.               *)
ToDiComposer(m, i, z) ==
    AddPair([SetComp(m, m.di, "di") EXCEPT !.inputs = m.di],
            m.videoPlanes[i], z, DiOut)

(* Collects the videos in view; a buffered one without a buffer is hidden.   *)
CollectVideos(m) ==
    LET shown == {z \in m.left : m.fb[z].comp # "dummy"}
        side == {z \in shown : m.fb[z].type \in Sidebands}
        buffered == {z \in shown : m.fb[z].type \in Buffered}
        valid == {z \in buffered : m.fb[z].buffer}
        some == side \cup valid # {}
    IN [m |-> [SetComp(m, buffered \ valid, "dummy") EXCEPT
                   !.di = valid,
                   !.inputs = {},
                   !.procs = some /\ ~m.fast /\ ~m.disablePost],
        side |-> side, all |-> side \cup valid]

(* Plane 1 to the last but one take a chosen video each, the last one what   *)
(* is left: by itself, or through the video composer when that is more than  *)
(* one.  first is a video already chosen for the first plane; fork: for 8K.  *)
SpreadVideos(m, first, n, lowest, fork) ==
    LET V == Len(m.videoPlanes)
        compose == n > V
        own == Min({n, V - 1})
        put[i \in 0 .. own] ==
            IF i = 0 THEN m
            ELSE LET b == put[i - 1]
                     z == IF i = 1 /\ first # NoFb THEN first
                          ELSE IF fork THEN HRchooseOneVideoFb(b, compose)
                          ELSE chooseOneVideoFb(b, compose)
                 IN AddPair(SetComp(deleteFbFromeVectorFbs(b, z), {z}, "hwcvideo"),
                            m.videoPlanes[i], IF compose THEN z + 1 ELSE z, z)
        b == put[own]
        last == IF n < V \/ b.di = {} THEN b
                ELSE IF compose THEN ToDiComposer(b, V, lowest)
                ELSE AddPair(SetComp(b, {Min(b.di)}, "hwcvideo"),
                             m.videoPlanes[V], Min(b.di), Min(b.di))
    IN [last EXCEPT !.video = SubSeq(m.videoPlanes, Min({n, V}) + 1, V)]

(* One video plane and a sideband: the plane is the sideband's, or with      *)
(* sideband disabled the chosen video's; the other videos are hidden.        *)
OnePlaneSideband(m, s) ==
    LET z == IF m.disableSideband /\ m.di # {} THEN chooseOneVideoFb(m, FALSE) ELSE s
        off == IF m.disableSideband THEN {s} ELSE {}
        b == SetComp(SetComp(m, {z}, "hwcvideo"), off \cup (m.di \ {z}), "dummy")
    IN [AddPair(b, m.videoPlanes[1], z, z) EXCEPT !.video = Tail(m.videoPlanes),
                                                   !.di = @ \ {z}]

processVideoFbs(m) ==
    LET c == CollectVideos(m)
        s == IF c.side = {} THEN NoFb ELSE Min(c.side)
        b == SetComp(c.m, c.side \ {s}, "dummy")
        n == Cardinality(c.m.di) + IF s = NoFb THEN 0 ELSE 1
    IN IF c.all = {} THEN c.m
       ELSE IF s # NoFb /\ Len(m.videoPlanes) = 1 THEN OnePlaneSideband(b, s)
       ELSE SpreadVideos(b, s, n, Min(c.all), FALSE)

(* Of the layers nothing was decided for: hide the secure ones, have the     *)
(* client compose the others.                                                *)
applyCompositionFlags(m) ==
    LET open == {z \in m.left : m.fb[z].comp = "undetermined"}
        secret == {z \in open : m.hideSecure /\ m.fb[z].secure}
    IN SetComp(SetComp(m, secret, "dummy"),
               IF m.forceClient THEN open \ secret ELSE {}, "client")

=============================================================================
