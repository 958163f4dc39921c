------------------------------ MODULE OsdPlanes ------------------------------
(***************************************************************************)
(* The graphics half of the strategy for displays with several osd planes   *)
(* (MultiplanesWithDiComposition).  A call of the strategy works on one     *)
(* record m, its members:                                                   *)
(*                                                                         *)
(*   fb        z-order -> frame buffer, the layers of the frame            *)
(*   left      mFramebuffers: the layers no step has taken away yet        *)
(*   overlay   mOverlayFbs: videos that may need a hole in the ui           *)
(*   composed  mComposerFbs           ref   mDisplayRefFb                   *)
(*   lo, hi    mMinComposerZorder, mMaxComposerZorder                      *)
(*   client    mComposer is the client composer                             *)
(*   holes     the overlays the client composer was given                  *)
(*   osd       mOsdPlanes, not yet used      pairs   mDisplayPairs          *)
(*   frame     mOsdDisplayFrame, as the scale of the layer it was taken of *)
(*   di, inputs, video   see VideoPlanes                                   *)
(*                                                                         *)
(* A frame buffer is [type, comp, buffer, scan, secure, vt, afbc, shrunk,  *)
(* odd, scale, kinds, win].  Geometry is reduced to what the code compares: *)
(* scale is the ratio of display frame and source crop in each direction,  *)
(* shrunk that the display frame is lower than the expected height, odd    *)
(* that the source width is odd, win the parts of the screen it covers.    *)
(* Layers are named by their z-order, which is the key of mFramebuffers.   *)
(***************************************************************************)
EXTENDS Integers, Sequences, FiniteSets, FiniteSetsExt

CONSTANTS Target,        \* <<w, h>>: what the scaler must enlarge a full base by
          Primary        \* the osd plane with PLANE_PRIMARY

NoZ == 1000              \* INVALID_ZORDER, above every z-order
NoFb == 0
DiOut == NoZ + 1         \* the output of the video composer, in a pair
TargetFb == NoZ + 2      \* the client target, on the screen

(* Present z-orders: osd planes 65.., the one video on top 129.., others 1.. *)
OsdBegin == 65
TopVideo == 129
BottomVideo == 1

Nth(S, n) == CHOOSE z \in S : Cardinality({y \in S : y <= z}) = n

InRange(m, z) == m.lo <= z /\ z <= m.hi

(* A layer without a buffer is shown nowhere.                               *)
checkLayerValidate(m) ==
    [m EXCEPT !.fb = [z \in DOMAIN m.fb |->
        IF z \in m.left /\ ~m.fb[z].buffer
        THEN [m.fb[z] EXCEPT !.comp = "dummy"] ELSE m.fb[z]]]

(* Mutant: a video between ui layers raises the range only.                  *)
RangeUpOnly(m) ==
    LET of(c) == {z \in m.left : m.fb[z].comp \in c}
        ui == of({"client", "undetermined"})
        videos == of({"hwcvideo", "di"})
        must == {z \in ui : m.fb[z].comp = "client" \/ ~m.fb[z].scan}
        inside == {v \in videos : \E a, b \in ui : a <= v /\ v <= b}
    IN [m EXCEPT !.left = ui, !.overlay = inside,
                 !.lo = IF must = {} THEN NoZ ELSE Min(must),
                 !.hi = IF must = {} THEN NoZ ELSE Max(inside \cup must)]

(* Takes the hidden layers and the videos out of the ui, and finds the      *)
(* range that must be composed: the client layers, those the plane cannot   *)
(* scan out and, for a video between ui layers, everything below it.        *)
pickoutOsdFbs(m) ==
    LET of(c) == {z \in m.left : m.fb[z].comp \in c}
        ui == of({"client", "undetermined"})
        videos == of({"hwcvideo", "di"})
        must == {z \in ui : m.fb[z].comp = "client" \/ ~m.fb[z].scan}
        inside == {v \in videos : \E a, b \in ui : a <= v /\ v <= b}
        top == {v \in videos : \A z \in ui : z < v}
        kept == IF top = {} \/ Cardinality(videos) > 2 THEN top
                ELSE top \ {Min(top)}
    IN [m EXCEPT !.left = ui,
                 !.overlay = IF ui = {} THEN videos ELSE inside \cup kept,
                 !.lo = IF inside # {} THEN Min(ui)
                        ELSE IF must # {} THEN Min(must) ELSE NoZ,
                 !.hi = IF inside \cup must = {} THEN NoZ
                        ELSE Max(inside \cup must)]

countComposerFbs(m) ==
    [below  |-> {z \in m.left : m.lo # NoZ /\ z < m.lo},
     up     |-> {z \in m.left : z > m.hi},
     inside |-> {z \in m.left : InRange(m, z)}]

(* More ui layers than planes: the composed range grows downwards first,    *)
(* then upwards, until what is not composed fits beside its output.         *)
confirmComposerRange(m, planes, n) ==
    LET free == m.lo = NoZ
        need == Cardinality(m.left) - planes + 1
                - IF free THEN 0 ELSE Cardinality(n.inside)
        down == Cardinality(n.below)
    IN IF m.left = {} \/ planes = 0 \/ Cardinality(m.left) <= planes
          \/ (~free /\ need <= 0)
       THEN m
       ELSE IF free
       THEN [m EXCEPT !.lo = Min(m.left), !.hi = Nth(m.left, need)]
       ELSE IF down > 0 /\ need <= down
       THEN [m EXCEPT !.lo = Nth(m.left, down - need + 1)]
       ELSE [m EXCEPT !.lo = Min(m.left),
                      !.hi = IF need > down /\ need - down <= Cardinality(n.up)
                             THEN Nth(n.up, need - down) ELSE m.hi]

(* 1 if a enlarges more than b in both directions, 0 if equally, -1 if not.  *)
compareFbScale(a, b) ==
    IF a = b THEN 0
    ELSE IF a[1] > b[1] /\ a[2] > b[2] THEN 1 ELSE -1

(* One ui layer less for the blender when one is shrunk too much, or more   *)
(* than two are uncompressed: the range grows by one layer, upwards first.  *)
handleVPUScaleLimit(m) ==
    LET out == {z \in m.left : ~InRange(m, z)}
        shrunk == {z \in out : m.fb[z].shrunk}
        below == {z \in m.left : z < m.lo}
        above == {z \in m.left : z > m.hi}
    IN IF shrunk = {} /\ Cardinality({z \in out : ~m.fb[z].afbc}) <= 2 THEN m
       ELSE IF \E z \in shrunk : z > m.hi THEN [m EXCEPT !.hi = Min(above)]
       ELSE IF shrunk = {} THEN m
       ELSE IF m.lo = NoZ THEN [m EXCEPT !.lo = Min(m.left), !.hi = Min(m.left)]
       ELSE IF below # {} THEN [m EXCEPT !.lo = Max(below)]
       ELSE m

(* A chip that cannot scale an odd width composes every ui layer as soon as *)
(* an odd one on a plane would be scaled by a factor of its own.            *)
handleVPUOddScaleLimit(m) ==
    LET device == {z \in m.left : ~InRange(m, z)}
        last == Max(device)
        differs == IF device # m.left
                   THEN m.fb[last].odd
                        /\ compareFbScale(m.fb[last].scale, m.frame) # 0
                   ELSE compareFbScale(m.fb[Nth(m.left, 1)].scale,
                                       m.fb[Nth(m.left, 2)].scale) # 0
    IN IF /\ m.gfcdOdd /\ Cardinality(m.left) > 1 /\ device # {}
          /\ \E z \in m.left : m.fb[z].odd
          /\ differs
       THEN [m EXCEPT !.lo = IF m.lo = NoZ THEN Min(m.left) ELSE Min(m.left \cup {m.lo}),
                      !.hi = IF m.hi = NoZ THEN Max(m.left) ELSE Max(m.left \cup {m.hi})]
       ELSE m

(* The layer on din0 gives the scaler its factor: the first one that has    *)
(* the target's factor, or the smallest of those above it.                  *)
BaseFb(m) ==
    LET cmp(z) == compareFbScale(m.fb[z].scale, Target)
        exact == {z \in m.left : cmp(z) = 0}
        above == {z \in m.left : cmp(z) = 1}
        step[n \in 0 .. Cardinality(above)] ==
            IF n = 0 THEN NoFb
            ELSE LET z == Nth(above, n)  ref == step[n - 1]
                 IN IF ref = NoFb \/ compareFbScale(m.fb[z].scale, m.fb[ref].scale) = -1
                    THEN z ELSE ref
    IN IF exact # {} THEN Min(exact) ELSE step[Cardinality(above)]

(* Nothing composed yet: choose the base, or compose the lowest layer when  *)
(* none is suitable.  A single layer is its own base.                       *)
SelectBase(m, base) ==
    IF m.left = {} \/ m.lo # NoZ THEN m
    ELSE IF base # NoFb THEN [m EXCEPT !.ref = base]
    ELSE [m EXCEPT !.lo = Min(m.left), !.hi = Min(m.left)]

handleVPULimit(m) ==
    IF m.left = {} THEN m
    ELSE LET lim == handleVPUOddScaleLimit(handleVPUScaleLimit(m))
         IN SelectBase(lim, IF Cardinality(m.left) = 1 THEN Min(m.left) ELSE BaseFb(lim))

(* The composed layers are represented by the highest of them.              *)
fillComposerFbs(m) ==
    LET comp == {z \in m.left : InRange(m, z)}
    IN IF m.lo = NoZ THEN [m EXCEPT !.overlay = {}]
       ELSE [m EXCEPT !.composed = comp,
                      !.ref = Max(comp),
                      !.left = (m.left \ comp) \cup {Max(comp)},
                      !.overlay = {v \in m.overlay : InRange(m, v)}]

(* Mutant: only the representative learns that it is composed.               *)
TellsRefOnly(m) ==
    IF m.composed = {} THEN [m EXCEPT !.holes = {}]
    ELSE [m EXCEPT !.client = TRUE, !.fb[m.ref].comp = "client"]

(* No other composer is built: what is composed is composed by the client.  *)
selectComposer(m) ==
    IF m.composed = {} THEN [m EXCEPT !.holes = {}]
    ELSE [m EXCEPT !.client = TRUE,
                   !.fb = [z \in DOMAIN m.fb |->
                       IF z \in m.composed THEN [m.fb[z] EXCEPT !.comp = "client"]
                       ELSE m.fb[z]]]

PrimaryFirst(osd) ==
    IF \E i \in 2 .. Len(osd) : osd[i] = Primary
    THEN LET i == CHOOSE i \in 2 .. Len(osd) : osd[i] = Primary
         IN [osd EXCEPT ![1] = osd[i], ![i] = osd[1]]
    ELSE osd

Pair(plane, z, f) == [plane |-> plane, z |-> z, fb |-> f]

(* Mutant: one plane too many counts as used.                                *)
UsesOneMore(m) ==
    LET rest == m.left \ {m.ref}
        planes == PrimaryFirst(m.osd)
    IN IF m.left = {} THEN m
       ELSE [m EXCEPT !.pairs = @ \o <<Pair(planes[1], m.ref, m.ref)>>
                                 \o [n \in 1 .. Cardinality(rest) |->
                                        Pair(planes[n + 1], Nth(rest, n), Nth(rest, n))],
                      !.osd = SubSeq(planes, Cardinality(rest) + 3, Len(planes)),
                      !.fb = [z \in DOMAIN m.fb |->
                          IF z \in m.left /\ m.fb[z].comp = "undetermined"
                          THEN [m.fb[z] EXCEPT !.comp = "osd"] ELSE m.fb[z]]]

(* The base on din0, each other layer on the next plane.                    *)
setOsdFbs2PlanePairs(m) ==
    LET osd == PrimaryFirst(m.osd)
        rest == m.left \ {m.ref}
        plane(n) == osd[Min({n, Len(osd)})]
        others == [n \in 1 .. Cardinality(rest) |->
                       Pair(plane(n + 1), Nth(rest, n), Nth(rest, n))]
        used == Min({Cardinality(rest) + 1, Len(osd)})
    IN IF m.left = {} THEN m
       ELSE [m EXCEPT !.pairs = @ \o <<Pair(osd[1], m.ref, m.ref)>> \o others,
                      !.osd = SubSeq(osd, used + 1, Len(osd)),
                      !.fb = [z \in DOMAIN m.fb |->
                          IF z \in m.left /\ m.fb[z].comp = "undetermined"
                          THEN [m.fb[z] EXCEPT !.comp = "osd"] ELSE m.fb[z]]]

handleOsdComposition(m) ==
    setOsdFbs2PlanePairs(selectComposer(fillComposerFbs(
        handleVPULimit(confirmComposerRange(m, Len(m.osd), countComposerFbs(m))))))

(* The composer gets its inputs, and the videos it has to clear the ui for. *)
AddInputs(m) == IF m.client THEN [m EXCEPT !.holes = m.overlay] ELSE m

processGfxFbs(m) ==
    AddInputs(handleOsdComposition(pickoutOsdFbs(checkLayerValidate(m))))

(* The z-order of a pair's frame buffer; the output of the video composer   *)
(* has that of its first input.                                             *)
FbZ(m, p) == IF p.fb = DiOut THEN Min(m.inputs) ELSE p.fb

handleOverlayVideoZorder(m) ==
    [m EXCEPT !.pairs = [i \in DOMAIN m.pairs |->
        IF InRange(m, FbZ(m, m.pairs[i]))
        THEN [m.pairs[i] EXCEPT !.z = @ - 1] ELSE m.pairs[i]]]

(* Mutant: a video above the lowest osd plane counts as the top one.          *)
TopAboveLowest(m, lone) ==
    LET isOsd(i) == m.pairs[i].plane \in m.osdPlanes
        osdZ == {m.pairs[i].z : i \in {j \in DOMAIN m.pairs : isOsd(j)}}
        above(i) == ~isOsd(i) /\ osdZ # {} /\ FbZ(m, m.pairs[i]) > Min(osdZ)
    IN [m EXCEPT !.pairs = [i \in DOMAIN m.pairs |->
           [m.pairs[i] EXCEPT !.z = @ + IF isOsd(i) THEN OsdBegin
                                       ELSE IF above(i) THEN TopVideo ELSE BottomVideo]]]

(* Osd planes above the bottom videos, one video above the osd planes.  A   *)
(* display with one pair lifts its video once more (lone).                  *)
DisplayLayerZorder(m, lone) ==
    LET isOsd(i) == m.pairs[i].plane \in m.osdPlanes
        osdZ == {m.pairs[i].z : i \in {j \in DOMAIN m.pairs : isOsd(j)}}
        above(i) == ~isOsd(i) /\ osdZ # {} /\ FbZ(m, m.pairs[i]) > Max(osdZ)
        isTop(i) == above(i) /\ \A j \in DOMAIN m.pairs : above(j) => i <= j
        begin(i) == IF isOsd(i) THEN OsdBegin
                    ELSE (IF isTop(i) THEN TopVideo ELSE BottomVideo)
                         + IF lone /\ Len(m.pairs) = 1 THEN TopVideo ELSE 0
    IN [m EXCEPT !.pairs = [i \in DOMAIN m.pairs |->
           [m.pairs[i] EXCEPT !.z = @ + begin(i)]]]

handleDisplayLayerZorder(m) == DisplayLayerZorder(m, TRUE)
=============================================================================
