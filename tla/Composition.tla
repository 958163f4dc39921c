----------------------------- MODULE Composition -----------------------------
(***************************************************************************)
(* A composition strategy of a display and the planes it drives: validate    *)
(* sets the strategy up for a frame and decides where each layer goes,       *)
(* present commits the decision, the video tunnel thread commits the videos  *)
(* it feeds, and a present without a validate commits the last decision      *)
(* again.  Which strategy a display has depends on its planes only.          *)
(***************************************************************************)
EXTENDS HrPlanes, TLC

SP == INSTANCE SinglePlane

CONSTANTS Scenes,        \* functions from a set of z-orders to frame buffers
          LaterScenes,   \* those the frames after the first may have
          Flags,         \* the request flags of validate
          OsdPlaneSeqs, VideoPlaneSeqs,   \* the planes a display may have
          MaxFrames      \* bound: frames validated

VARIABLES strategy, m, screen, calls, phase, frames

vars == <<strategy, m, screen, calls, phase, frames>>

Elems(s) == {s[i] : i \in DOMAIN s}

Blank == [fb |-> NoFb, z |-> 0, secure |-> FALSE]

Planes == m.osdPlanes \cup Elems(m.videoPlanes) \cup {"cursor"}

(* More than one osd plane: the strategy for 8K panels if a video plane is   *)
(* made for them, else the one with the video composer.                      *)
StrategyOf(osd, has8k) ==
    IF Len(osd) = 1 THEN "single" ELSE IF has8k THEN "hr" ELSE "di"

(* init, then setup: the frame of the crtc and the processors outlive it, as *)
(* do the overlays the client composer was last given.  The strategy for one *)
(* osd plane keeps the last of the video planes only.                        *)
setup(scene, flags) ==
    [fb |-> scene, left |-> DOMAIN scene, overlay |-> {}, composed |-> {},
     lo |-> NoZ, hi |-> NoZ, ref |-> NoFb, client |-> FALSE, holes |-> m.holes,
     osd |-> m.osdSeq, osdSeq |-> m.osdSeq, osdPlanes |-> m.osdPlanes,
     video |-> IF strategy = "single" THEN <<m.videoPlanes[Len(m.videoPlanes)]>>
               ELSE m.videoPlanes, videoPlanes |-> m.videoPlanes, cursor |-> <<"cursor">>,
     pairs |-> <<>>, di |-> {}, inputs |-> {}, mosaic |-> FALSE,
     frame |-> IF strategy = "hr" THEN <<0, 0>> ELSE m.frame, procs |-> m.procs,
     gfcdOdd |-> flags.gfcdOdd, hideSecure |-> flags.hideSecure,
     forceClient |-> flags.forceClient, fast |-> flags.fast,
     disableSideband |-> flags.disableSideband, disablePost |-> flags.disablePost,
     mosaicPlane |-> flags.mosaicPlane]

decideComposition(n) ==
    handleDisplayLayerZorder(handleOverlayVideoZorder(
        processGfxFbs(applyCompositionFlags(processVideoFbs(n)))))

Decide(n) ==
    IF strategy = "single" THEN SP!SPdecideComposition(n)
    ELSE IF n.left = {} THEN [n EXCEPT !.holes = {}]
    ELSE IF strategy = "hr" THEN HRdecideComposition(n)
    ELSE decideComposition(n)

Validate(scene, flags) ==
    /\ frames < MaxFrames
    /\ m' = Decide(setup(scene, flags))
    /\ phase' = "validated"
    /\ frames' = frames + 1
    /\ calls' = [p \in Planes |-> 0]
    /\ UNCHANGED <<strategy, screen>>

-----------------------------------------------------------------------------
(* How often a plane was set for this frame; beyond two does not matter.     *)
More(n, k) == Min({2, n + k})

IsVt(f) == f \in DOMAIN m.fb /\ m.fb[f].vt

(* What a pair puts on its plane: the client target for a composed layer.    *)
Shown(p) ==
    IF m.client /\ p.fb \in DOMAIN m.fb /\ m.fb[p.fb].comp = "client"
    THEN [fb |-> TargetFb, z |-> m.hi + OsdBegin, secure |-> FALSE]
    ELSE [fb |-> p.fb, z |-> p.z,
          secure |-> p.fb \in DOMAIN m.fb /\ m.hideSecure /\ m.fb[p.fb].secure]

VtInUse == \E i \in DOMAIN m.pairs :
    LET f == Shown(m.pairs[i]).fb
    IN IsVt(f) \/ (f = DiOut /\ \E z \in m.inputs : m.fb[z].vt)

PairsOn(plane) == {i \in DOMAIN m.pairs : m.pairs[i].plane = plane}

(* The planes a commit sets: its pairs but the tunnel's, whose thread does   *)
(* that (a tunnel that is interrupted is blanked or coloured at once), and   *)
(* the unused ones, the video planes only if no tunnel is in use.  The       *)
(* planes of no use to the strategy are blanked by the first commit only.    *)
SetByCommit(interrupted, again) ==
    LET paired == {p \in Planes : \E i \in PairsOn(p) :
                      ~IsVt(Shown(m.pairs[i]).fb) \/ interrupted}
    IN paired \cup Elems(m.osd) \cup (IF VtInUse THEN {} ELSE Elems(m.video))
              \cup (IF again THEN {} ELSE {"cursor"})

NewContent(p) ==
    IF PairsOn(p) = {} THEN Blank ELSE Shown(m.pairs[Max(PairsOn(p))])

SetPlanes(S, failed) ==
    /\ screen' = [p \in Planes |-> IF p \in S \ failed THEN NewContent(p) ELSE screen[p]]
    /\ calls' = [p \in Planes |->
           More(calls[p], IF p \in S THEN Max({1, Cardinality(PairsOn(p))}) ELSE 0)]

(* The crtc is told the frame of the base layer unless a plane failed.       *)
FrameAfter == IF m.ref = NoFb THEN m.frame
              ELSE IF m.client /\ InRange(m, m.ref) THEN Target
              ELSE m.fb[m.ref].scale

commit(interrupted, failed) ==
    /\ SetPlanes(SetByCommit(interrupted, FALSE), failed)
    /\ m' = IF failed = {} THEN [m EXCEPT !.frame = FrameAfter] ELSE m

HRcommit(interrupted, failed) == commit(interrupted, failed)

(* One osd plane: the output of the composer takes it last, at a fixed z.    *)
(* The unused planes are blanked whoever feeds the video.                    *)
SPcommit(interrupted) ==
    LET free == Elems(m.osd) \cup Elems(m.cursor) \cup Elems(m.video)
        set == {p \in Planes : IF PairsOn(p) = {} THEN p \in free
                               ELSE interrupted \/ ~\E i \in PairsOn(p) : IsVt(m.pairs[i].fb)}
        content(p) == IF p \in m.osdPlanes /\ m.client
                      THEN [fb |-> TargetFb, z |-> SP!OsdFixedZ, secure |-> FALSE]
                      ELSE [NewContent(p) EXCEPT
                               !.z = IF PairsOn(p) = {} THEN 0 ELSE SP!FixedZ(m, p)]
    IN /\ screen' = [p \in Planes |-> IF p \in set THEN content(p) ELSE screen[p]]
       /\ calls' = [p \in Planes |-> More(calls[p], IF p \in set THEN 1 ELSE 0)]
       /\ UNCHANGED m

Commit(interrupted, failed) ==
    /\ phase = "validated"
    /\ CASE strategy = "single" -> failed = {} /\ SPcommit(interrupted)
         [] strategy = "hr" -> HRcommit(interrupted, failed)
         [] OTHER -> commit(interrupted, failed)
    /\ phase' = IF failed = {} THEN "shown" ELSE "failed"
    /\ UNCHANGED <<strategy, frames>>

(* A present without a validate: only if no layer is the client's.           *)
SkipCommit ==
    /\ phase = "shown"
    /\ \A z \in DOMAIN m.fb : m.fb[z].comp # "client"
    /\ IF strategy = "single" THEN SPcommit(FALSE)
       ELSE SetPlanes(SetByCommit(FALSE, TRUE), {}) /\ UNCHANGED m
    /\ UNCHANGED <<strategy, phase, frames>>

(* The tunnel thread: its videos on their planes, and the video planes       *)
(* nobody uses blanked.  A composed tunnel video goes to the composer.       *)
commitTunnelVideo ==
    LET vt == {p \in Planes : \E i \in PairsOn(p) : IsVt(m.pairs[i].fb)}
    IN SetPlanes(vt \cup Elems(m.video), {})

HRcommitTunnelVideo == commitTunnelVideo

SPcommitTunnelVideo ==
    LET vt == {p \in Planes : \E i \in PairsOn(p) : IsVt(m.pairs[i].fb)}
    IN /\ screen' = [p \in Planes |->
              IF p \in vt THEN [NewContent(p) EXCEPT !.z = SP!VideoFixedZ] ELSE screen[p]]
       /\ calls' = [p \in Planes |-> More(calls[p], IF p \in vt THEN 1 ELSE 0)]

TunnelCommit ==
    /\ phase \in {"validated", "shown"}
    /\ \E z \in DOMAIN m.fb : m.fb[z].vt
    /\ CASE strategy = "single" -> SPcommitTunnelVideo
         [] strategy = "hr" -> HRcommitTunnelVideo
         [] OTHER -> commitTunnelVideo
    /\ UNCHANGED <<strategy, m, phase, frames>>

Empty(osd, video) ==
    [holes |-> {}, osdSeq |-> osd, osdPlanes |-> Elems(osd),
     videoPlanes |-> video, frame |-> <<0, 0>>, procs |-> FALSE]

Init ==
    \E osd \in OsdPlaneSeqs, video \in VideoPlaneSeqs, has8k \in BOOLEAN,
       scene \in Scenes, flags \in Flags :
        /\ strategy = StrategyOf(osd, has8k)
        /\ m = [scene |-> scene, flags |-> flags] @@ Empty(osd, video)
        /\ screen = [p \in Elems(osd) \cup Elems(video) \cup {"cursor"} |-> Blank]
        /\ calls = [p \in DOMAIN screen |-> 0]
        /\ phase = "new"
        /\ frames = 0

FirstValidate == phase = "new" /\ Validate(m.scene, m.flags)

NextValidate ==
    \E scene \in LaterScenes, flags \in Flags :
        phase \in {"shown", "failed"} /\ Validate(scene, flags)

CommitAny == \E interrupted \in BOOLEAN, failed \in {{}, m.osdPlanes} :
                 Commit(interrupted, failed)

Next == FirstValidate \/ NextValidate \/ CommitAny \/ SkipCommit \/ TunnelCommit

Spec == Init /\ [][Next]_vars
-----------------------------------------------------------------------------
(* Properties                                                                *)

Current(p) == calls[p] > 0 /\ screen[p].fb # NoFb

UiLayers == {z \in DOMAIN m.fb : m.fb[z].comp \in {"osd", "client"}}
Videos == {z \in DOMAIN m.fb : m.fb[z].comp = "hwcvideo"}

(* Where a layer of the frame is on the screen.                              *)
PlanesOf(z) ==
    {p \in Planes : Current(p) /\ \/ screen[p].fb = z
                                  \/ screen[p].fb = TargetFb /\ z \in m.composed
                                  \/ screen[p].fb = DiOut /\ z \in m.inputs}
ZOf(z) == screen[CHOOSE p \in PlanesOf(z) : TRUE].z

OnScreen == {z \in DOMAIN m.fb : PlanesOf(z) # {}}

(* A display for 8K panels that has a sideband layer the firmware feeds: it  *)
(* leaves the layer's type open, see the README.                             *)
HrSideband == strategy = "hr" /\ \E z \in DOMAIN m.fb : m.fb[z].type \in Sidebands

(* The planes of the state and of the frame; the strategy's members agree.   *)
TypeOK ==
    /\ strategy \in {"single", "di", "hr"}
    /\ phase \in {"new", "validated", "shown", "failed"}
    /\ DOMAIN screen = Planes /\ DOMAIN calls = Planes
    /\ phase # "new" =>
          /\ m.left \subseteq DOMAIN m.fb /\ m.composed \subseteq DOMAIN m.fb
          /\ m.lo <= m.hi /\ (m.lo = NoZ <=> m.hi = NoZ)
          /\ \A i \in DOMAIN m.pairs : m.pairs[i].plane \in Planes

(* No plane is given two frame buffers, and a commit leaves no plane of the  *)
(* strategy as the frame before had it: it is set or blanked, the video      *)
(* planes of a tunnel by the tunnel's own commit.                            *)
EveryPlaneSet ==
    phase = "shown" =>
        \A p \in Planes :
            /\ Cardinality(PairsOn(p)) <= 1
            /\ \/ calls[p] > 0
               \/ p \notin m.osdPlanes /\ VtInUse
               \/ strategy = "single" /\ p # m.videoPlanes[Len(m.videoPlanes)]

(* Ui layers keep their order on the screen, whichever are composed and      *)
(* whichever have a plane, and no video covers a ui layer above it.          *)
Stacked ==
    phase = "shown" /\ ~HrSideband =>
        \A a, b \in OnScreen : a < b /\ b \in UiLayers /\ a \in UiLayers \cup Videos =>
            \/ ZOf(a) < ZOf(b)
            \/ {a, b} \subseteq m.composed

(* A video between ui layers is seen: each ui layer below it is composed,    *)
(* and the composer was told to clear it where the video is.                 *)
HolePunched ==
    phase = "shown" /\ ~HrSideband =>
        \A v \in Videos \cap OnScreen : \A a, b \in UiLayers : a < v /\ v < b =>
            a \in m.composed /\ v \in m.holes

(* What SurfaceFlinger is told of a layer is what happens to it.             *)
ShownAsTold ==
    phase = "shown" /\ ~HrSideband /\ ~m.disableSideband =>
        \A z \in DOMAIN m.fb :
            CASE m.fb[z].comp = "client" ->
                    \E p \in Planes : screen[p].fb = TargetFb /\ z \in m.composed
              [] m.fb[z].comp = "di" -> z \in m.inputs /\ \E p \in Planes : screen[p].fb = DiOut
              [] m.fb[z].comp = "dummy" -> PlanesOf(z) = {}
              [] m.fb[z].comp = "undetermined" -> FALSE
              [] OTHER -> (\E i \in DOMAIN m.pairs : m.pairs[i].fb = z) /\ z \notin m.composed

=============================================================================
