------------------------------- MODULE Present -------------------------------
(***************************************************************************)
(* A frame on its way to the screen: SurfaceFlinger's thread, which runs the  *)
(* commands of ComposerClient through HwcHal and MesonHwc2 into Hwc2Display,  *)
(* its strategy, the drm planes and the crtc; the event thread, which tells   *)
(* the display of hotplugs and mode changes; and a thread of the display      *)
(* service.  Which layers get a plane is Composition's matter: here any       *)
(* choice.  The kernel is told by commits and may refuse one.                 *)
(***************************************************************************)
EXTENDS Naturals, FiniteSets

CONSTANTS LayerId, Plane, None,
          Calls,                       \* calls of the display service
          MaxFrames, MaxEvents, MaxCalls   \* bounds

Target == "target"

\* The client target and no framebuffer at all are no layers.
ASSUME PresentAssumption ==
    IsFiniteSet(LayerId) /\ Target \notin LayerId /\ None \notin LayerId \cup {Target}

VARIABLES sf,      \* SurfaceFlinger: its layers, their newest buffer, its step
          res,     \* ComposerResources of the display
          layer,   \* mLayers of Hwc2Display
          disp,    \* the other members of Hwc2Display and of its strategy
          power,   \* HwcPowerMode
          plane,   \* the DrmPlanes
          req,     \* mReq of DrmCrtc: empty when it is NULL
          kernel,  \* what each plane shows
          ev,      \* the event thread, the cable and the driver's mode
          svc,     \* the thread of the service
          n,       \* frames, events and calls so far
          dropped  \* the driver refused a commit or a mode, or a thread freed
                   \* the request of another

vars == <<sf, res, layer, disp, power, plane, req, kernel, ev, svc, n, dropped>>

Live == {l \in LayerId : layer[l].live}
Blank == [px |-> {}, at |-> 0]
NoFlip == <<>>

\* disableQms holds mStateLock until it waits for the mode change.
HoldsStateLock == {"blank", "flip", "qms"}

\* presentDisplay holds mMutex until it returns.
Locked == sf.at \in {"commit", "flip"}

\* A bound: nothing new begins after the last frame.
Watched == n.frames < MaxFrames \/ sf.at # "idle"
Event == n.events < MaxEvents /\ Watched

-----------------------------------------------------------------------------
(* HwcPowerMode                                                              *)

setScreenStatus(blank) ==
    [power EXCEPT !.blank = blank,
                  !.mode = IF @ = "BOOT" /\ ~blank
                           THEN IF power.present THEN "IN" ELSE "OUT" ELSE @]

setConnectorStatus(on) ==
    [power EXCEPT !.present = on,
                  !.mode = IF @ # "BOOT" /\ power.present # on
                           THEN IF on THEN "IN" ELSE "OUT" ELSE @]

\* Mutant: without a connector only an empty screen is blanked.
ShowsWhenOut(hasLayer) ==
    \/ power.mode = "BOOT" /\ ~(power.present /\ hasLayer)
    \/ power.mode # "BOOT" /\ (~power.on \/ ~hasLayer)

needBlankScreen(hasLayer) ==
    \/ power.mode = "BOOT" /\ ~(power.present /\ hasLayer)
    \/ power.mode = "IN" /\ (~power.on \/ ~hasLayer)
    \/ power.mode = "OUT"

-----------------------------------------------------------------------------
(* Planes and crtc                                                           *)

FbUpdated(fb) == IF fb = Target THEN disp.target.new
                 ELSE layer[fb].updated \/ layer[fb].fresh

HasBuffer(fb) == IF fb = Target THEN disp.target.px # {} ELSE layer[fb].buf > 0

Pixels(fb) == IF fb = Target THEN [px |-> disp.target.px, at |-> disp.calib]
              ELSE [px |-> {<<fb, layer[fb].buf>>}, at |-> layer[fb].at]

\* setPlane returns early: the plane shows the framebuffer, and it is the same.
Skips(p, fb) ==
    \/ fb = None /\ plane[p].blank
    \/ fb # None /\ ((plane[p].fb = fb /\ ~FbUpdated(fb)) \/ ~HasBuffer(fb))

SetPlanes(pairs) ==
    /\ plane' = [p \in Plane |->
          IF Skips(p, pairs[p]) THEN plane[p]
          ELSE [fb |-> pairs[p], blank |-> pairs[p] = None]]
    /\ req' = [p \in DOMAIN req \cup {p \in Plane : ~Skips(p, pairs[p])} |->
          IF Skips(p, pairs[p]) THEN req[p]
          ELSE IF pairs[p] = None THEN Blank ELSE Pixels(pairs[p])]

NoPairs == [p \in Plane |-> None]

\* The kernel takes the request over what it shows.
Committed(flip) == [p \in Plane |-> IF p \in DOMAIN flip THEN flip[p] ELSE kernel[p]]

\* prePageFlip frees a request some thread has not committed.
Frees == req' = NoFlip /\ dropped' = (dropped \/ req # NoFlip)

\* prePageFlip, setPlane and pageFlip in one, by who holds mMutex or is alone.
blankDisplayLocked ==
    /\ plane' = [p \in Plane |-> [fb |-> None, blank |-> TRUE]]
    /\ kernel' = [p \in Plane |-> IF plane[p].blank THEN kernel[p] ELSE Blank]
    /\ Frees

KeepsPlanes == UNCHANGED <<plane, req, kernel>>

-----------------------------------------------------------------------------
(* SurfaceFlinger between frames                                             *)

AsksRefresh(s) == [s EXCEPT !.refresh = TRUE]

NoLayer == [live |-> FALSE, buf |-> 0, at |-> 0, fresh |-> FALSE, updated |-> FALSE, z |-> FALSE,
             hwc |-> "INVALID", comp |-> "UNDETERMINED"]

Forgotten(gone) == [l \in LayerId |-> IF l \in gone THEN 0 ELSE sf.want[l]]

\* A layer that is gone from mLayers lives on where it is still referenced.
Erased(gone) == [l \in LayerId |-> [layer[l] EXCEPT !.live = @ /\ l \notin gone]]

\* createLayer: in HwcHal, then in the resources.  Without the display the layer
\* is destroyed again.
createLayer(l) ==
    /\ sf.at = "idle" /\ res.has /\ Watched
    /\ l \notin Live \cup sf.layers \cup sf.drop \cup disp.present
    /\ \A p \in Plane : /\ plane[p].fb # l /\ disp.pairs[p] # l
                        /\ \A x \in kernel[p].px : x[1] # l
    /\ layer' = [layer EXCEPT ![l] = [NoLayer EXCEPT !.live = TRUE]]
    /\ res' = [res EXCEPT !.layers = @ \cup {l}]
    /\ sf' = AsksRefresh([sf EXCEPT !.layers = @ \cup {l}, !.want[l] = 0, !.geo = TRUE])
    /\ KeepsPlanes /\ UNCHANGED <<disp, power, ev, svc, n, dropped>>

\* destroyLayer, of the layers the last frame hid.
destroyLayer ==
    /\ sf.at = "idle" /\ sf.drop # {}
    /\ layer' = Erased(sf.drop)
    /\ res' = [res EXCEPT !.layers = @ \ sf.drop]
    /\ sf' = [sf EXCEPT !.drop = {}, !.want = Forgotten(sf.drop)]
    /\ KeepsPlanes /\ UNCHANGED <<disp, power, ev, svc, n, dropped>>

\* A display that is connected again: SurfaceFlinger gives up all its layers.
OnHotplug ==
    /\ sf.at = "idle" /\ sf.hotplug
    /\ layer' = Erased(sf.layers \cup sf.drop)
    /\ res' = [res EXCEPT !.layers = @ \ (sf.layers \cup sf.drop)]
    /\ sf' = AsksRefresh([sf EXCEPT !.layers = {}, !.drop = {}, !.client = {},
                                    !.want = Forgotten(LayerId), !.hotplug = FALSE, !.geo = FALSE])
    /\ KeepsPlanes /\ UNCHANGED <<disp, power, ev, svc, n, dropped>>

setPowerMode ==
    /\ sf.at = "idle" /\ Event
    /\ n' = [n EXCEPT !.events = @ + 1]
    /\ power' = [power EXCEPT !.on = ~@]
    /\ IF power.on THEN blankDisplayLocked /\ UNCHANGED sf
       ELSE KeepsPlanes /\ sf' = AsksRefresh(sf) /\ UNCHANGED dropped
    /\ UNCHANGED <<res, layer, disp, ev, svc>>

\* setActiveConfig blanks without mMutex and sets the mode.  Its wait, for the mode
\* change, an unplug or 3 seconds, is SurfaceFlinger's staying idle.
setActiveConfig ==
    /\ sf.at = "idle" /\ ~ev.pending /\ ~ev.changing /\ ev.plugged /\ Event
    /\ svc \notin HoldsStateLock
    /\ n' = [n EXCEPT !.events = @ + 1]
    /\ blankDisplayLocked
    /\ ev' = [ev EXCEPT !.pending = TRUE]
    /\ UNCHANGED <<sf, res, layer, disp, power, svc>>

-----------------------------------------------------------------------------
(* A frame: the state of its layers, then presentOrValidate or validate      *)

\* setLayerBuffer asks the resources for the handle, the others only Hwc2Display.
Buffered(l) == l \in res.layers \cap Live

SetBuffer(s, v) == [s EXCEPT !.buf = v, !.fresh = TRUE, !.updated = @ \/ s.buf = 0]

SetGeometry(s) == [s EXCEPT !.updated = TRUE, !.z = TRUE, !.hwc = "DEVICE"]

Frame == /\ sf.at = "idle" /\ sf.drop = {} /\ ~sf.hotplug /\ power.on
         /\ n.frames < MaxFrames
         /\ n' = [n EXCEPT !.frames = @ + 1]

\* SurfaceFlinger does not try to present when it composed some layer last time.
Starts(s) == sf' = [s EXCEPT !.at = IF sf.client = {} THEN "try" ELSE "calibrate",
                             !.refresh = FALSE]

ContentFrame(l) ==
    /\ Frame /\ ~sf.geo /\ l \in sf.layers
    /\ LET v == sf.want[l] + 1
       IN /\ layer' = [k \in LayerId |-> IF k = l /\ Buffered(l)
                                     THEN SetBuffer(layer[k], v) ELSE layer[k]]
          /\ Starts([sf EXCEPT !.want[l] = v])
    /\ KeepsPlanes /\ UNCHANGED <<res, disp, power, ev, svc, dropped>>

\* The layers that stay visible are sent whole; the others go after the frame.
GeometryFrame(visible) ==
    /\ Frame /\ visible # {} /\ visible \subseteq sf.layers
    /\ LET new == {l \in visible : sf.want[l] = 0}
           set(l) == IF l \in new /\ Buffered(l) THEN SetBuffer(layer[l], 1) ELSE layer[l]
       IN /\ layer' = [l \in LayerId |-> IF l \in visible \cap Live
                                              THEN SetGeometry(set(l)) ELSE layer[l]]
          /\ Starts([sf EXCEPT !.want = [l \in LayerId |-> IF l \in new THEN 1 ELSE @[l]],
                               !.layers = visible, !.drop = sf.layers \ visible, !.geo = FALSE])
    /\ KeepsPlanes /\ UNCHANGED <<res, disp, power, ev, svc, dropped>>

RefreshFrame ==
    /\ Frame /\ ~sf.geo /\ sf.refresh
    /\ Starts(sf)
    /\ KeepsPlanes /\ UNCHANGED <<res, layer, disp, power, ev, svc, dropped>>

-----------------------------------------------------------------------------
(* validateDisplay                                                           *)

\* MesonHwc2 takes the viewport first, outside the critical section that follows.
Calibrate ==
    /\ sf.at = "calibrate"
    /\ disp' = [disp EXCEPT !.coords = disp.view]
    /\ sf' = [sf EXCEPT !.at = "validate"]
    /\ KeepsPlanes /\ UNCHANGED <<res, layer, power, ev, svc, n, dropped>>

\* When the order of some layer was set, the others are taken for hidden.
collectLayersForPresent ==
    {l \in Live : (\E k \in Live : layer[k].z) => layer[l].z}

\* The strategy's choice: a plane for some layers, one for the client target when
\* the client has to compose some.  A layer set to CLIENT stays with the client.
Choices(present) ==
    {pairs \in [Plane -> present \cup {Target, None}] :
        LET onPlane == {l \in present : \E p \in Plane : pairs[p] = l}
        IN /\ \A p, q \in Plane : p # q => pairs[p] # pairs[q] \/ pairs[p] = None
           /\ \A l \in onPlane : layer[l].hwc # "CLIENT"
           /\ (\E p \in Plane : pairs[p] = Target) <=> onPlane # present}

CompType(l, pairs, present, dark) ==
    IF l \notin present THEN layer[l].comp
    ELSE IF dark THEN "DUMMY"
    ELSE IF \E p \in Plane : pairs[p] = l THEN "PLANE" ELSE "CLIENT"

mesonComp2Hwc2Comp(comp) == IF comp = "CLIENT" THEN "CLIENT" ELSE "DEVICE"

Skipped(present) == needBlankScreen(present # {}) /\ power.blank

\* adjustDisplayFrame of the layers that are presented: after an outside change all
\* of them count as updated.
Adjusted(s) == [s EXCEPT !.at = disp.coords, !.updated = @ \/ disp.outside]

validateDisplay ==
    /\ sf.at = "validate"
    /\ LET present == collectLayersForPresent
           dark == needBlankScreen(present # {})
           skip == Skipped(present)
       IN \E pairs \in IF dark THEN {NoPairs} ELSE Choices(present) :
            LET typed == [l \in LayerId |->
                    [layer[l] EXCEPT !.comp = CompType(l, pairs, present, dark)]]
            IN /\ layer' = [l \in LayerId |-> IF l \in present /\ ~skip
                                           THEN [Adjusted(layer[l]) EXCEPT !.comp = typed[l].comp]
                                           ELSE typed[l]]
               /\ power' = IF skip THEN power ELSE setScreenStatus(present = {} \/ dark)
               /\ disp' = [disp EXCEPT
                     !.present = present,
                     !.skip = skip, !.valid = TRUE,
                     !.pairs = IF skip THEN @ ELSE pairs,
                     !.calib = IF skip THEN @ ELSE disp.coords,
                     !.outside = @ /\ (skip \/ present = {})]
    /\ res' = [res EXCEPT !.must = FALSE]
    /\ sf' = [sf EXCEPT !.at = "learn"]
    /\ KeepsPlanes /\ UNCHANGED <<ev, svc, n, dropped>>

\* getChangedCompositionTypes: SurfaceFlinger composes itself what changed to CLIENT
\* and what it has set to CLIENT before.
getChangedCompositionTypes ==
    /\ sf.at = "learn"
    /\ sf' = [sf EXCEPT !.at = "accept",
          !.client = {l \in sf.layers \cap Live :
              (IF l \in disp.present THEN mesonComp2Hwc2Comp(layer[l].comp) ELSE layer[l].hwc)
                  = "CLIENT"}]
    /\ KeepsPlanes /\ UNCHANGED <<res, layer, disp, power, ev, svc, n, dropped>>

acceptDisplayChanges ==
    /\ sf.at = "accept"
    /\ layer' = [l \in LayerId |-> IF l \in disp.present
                                THEN [layer[l] EXCEPT !.hwc = mesonComp2Hwc2Comp(layer[l].comp)]
                                ELSE layer[l]]
    /\ sf' = [sf EXCEPT !.at = IF sf.client = {} THEN "present" ELSE "target"]
    /\ KeepsPlanes /\ UNCHANGED <<res, disp, power, ev, svc, n, dropped>>

setClientTarget ==
    /\ sf.at = "target"
    /\ disp' = IF res.has
               THEN [disp EXCEPT !.target = [px |-> {<<l, sf.want[l]>> : l \in sf.client},
                                             new |-> TRUE]]
               ELSE disp
    /\ sf' = [sf EXCEPT !.at = "present"]
    /\ KeepsPlanes /\ UNCHANGED <<res, layer, power, ev, svc, n, dropped>>

-----------------------------------------------------------------------------
(* presentDisplay                                                            *)

\* Mutant: changes outside the layers do not ask for a validate.
LayersOnly == /\ \A l \in Live : layer[l].comp # "CLIENT" /\ ~layer[l].updated
              /\ Cardinality(disp.present) = Cardinality(Live)

presentSkipValidateCheck ==
    /\ \A l \in Live : layer[l].comp # "CLIENT" /\ ~layer[l].updated
    /\ ~disp.outside
    /\ Cardinality(disp.present) = Cardinality(Live)

ClearUpdateFlags ==
    layer' = [l \in LayerId |-> IF l \in Live THEN [layer[l] EXCEPT !.updated = FALSE, !.z = FALSE]
                                ELSE layer[l]]

\* To the end, when the composition is skipped; to the page flip otherwise.
Presents ==
    /\ disp' = [disp EXCEPT !.valid = FALSE, !.first = FALSE]
    /\ IF disp.skip THEN /\ ClearUpdateFlags
                         /\ sf' = [sf EXCEPT !.at = "idle"]
                         /\ UNCHANGED <<req, dropped>>
       ELSE /\ sf' = [sf EXCEPT !.at = "commit", !.from = sf.at]
            /\ Frees
            /\ UNCHANGED layer
    /\ UNCHANGED <<res, power, plane, kernel, ev, svc, n>>

\* The display is only asked when the resources need no validate.
presentOrValidate ==
    /\ sf.at = "try"
    /\ IF ~res.must /\ (disp.valid \/ presentSkipValidateCheck) THEN Presents
       ELSE /\ sf' = [sf EXCEPT !.at = "calibrate"]
            /\ disp' = [disp EXCEPT !.first = @ /\ res.must]
            /\ KeepsPlanes /\ UNCHANGED <<res, layer, power, ev, svc, n, dropped>>

presentDisplay ==
    /\ sf.at = "present"
    /\ IF ~res.must /\ (disp.valid \/ presentSkipValidateCheck) THEN Presents
       ELSE /\ sf' = [sf EXCEPT !.at = "idle"]
            /\ disp' = [disp EXCEPT !.first = @ /\ res.must]
            /\ KeepsPlanes /\ UNCHANGED <<res, layer, power, ev, svc, n, dropped>>

commit ==
    /\ sf.at = "commit"
    /\ SetPlanes(disp.pairs)
    /\ layer' = [l \in LayerId |-> IF \E p \in Plane : disp.pairs[p] = l
                                THEN [layer[l] EXCEPT !.fresh = FALSE] ELSE layer[l]]
    /\ disp' = [disp EXCEPT !.target.new = @ /\ \A p \in Plane : disp.pairs[p] # Target]
    /\ sf' = [sf EXCEPT !.at = "flip"]
    /\ UNCHANGED <<res, power, kernel, ev, svc, n, dropped>>

pageFlip ==
    /\ sf.at = "flip"
    /\ kernel' = Committed(req)
    /\ req' = NoFlip
    /\ ClearUpdateFlags
    /\ sf' = [sf EXCEPT !.at = "idle", !.from = "try"]
    /\ UNCHANGED <<res, disp, power, plane, ev, svc, n, dropped>>

\* A refused commit returns before the flags are cleared: presentOrValidate goes on
\* to validate, presentDisplay reports the error.
FlipRefused ==
    /\ sf.at = "flip" /\ DOMAIN req # {} /\ ~dropped
    /\ req' = NoFlip
    /\ dropped' = TRUE
    /\ sf' = [sf EXCEPT !.at = IF sf.from = "try" THEN "calibrate" ELSE "idle",
                        !.from = "try"]
    /\ UNCHANGED <<res, layer, disp, power, plane, kernel, ev, svc, n>>

-----------------------------------------------------------------------------
(* The event thread                                                          *)

EventIdle == ev.at = "idle" /\ ~Locked

ModeBegin ==
    /\ EventIdle /\ ev.pending /\ ev.plugged
    /\ ev' = [ev EXCEPT !.pending = FALSE, !.changing = TRUE]
    /\ power' = setConnectorStatus(FALSE)
    /\ disp' = [disp EXCEPT !.skip = TRUE]
    /\ KeepsPlanes /\ UNCHANGED <<sf, res, layer, svc, n, dropped>>

\* told: the mode list or the hdr capabilities changed, so the hotplug is reported.
ModeComplete(told) ==
    /\ EventIdle /\ ev.changing
    /\ ev' = [ev EXCEPT !.changing = FALSE,
                        !.at = IF ~told THEN "refresh" ELSE IF disp.first THEN "target" ELSE "clean"]
    /\ power' = setConnectorStatus(TRUE)
    /\ disp' = [disp EXCEPT !.skip = FALSE, !.outside = TRUE]
    /\ KeepsPlanes /\ UNCHANGED <<sf, res, layer, svc, n, dropped>>

Unplug ==
    /\ EventIdle /\ ev.plugged /\ Event
    /\ n' = [n EXCEPT !.events = @ + 1]
    /\ ev' = [ev EXCEPT !.plugged = FALSE, !.pending = FALSE, !.changing = FALSE, !.at = "clean"]
    /\ power' = setConnectorStatus(FALSE)
    /\ disp' = [disp EXCEPT !.skip = TRUE]
    /\ blankDisplayLocked
    /\ UNCHANGED <<sf, res, layer, svc>>

\* The policy sets a mode of the new display; the rest follows the mode change.
PlugIn ==
    /\ EventIdle /\ ~ev.plugged
    /\ ev' = [ev EXCEPT !.plugged = TRUE, !.pending = TRUE]
    /\ KeepsPlanes /\ UNCHANGED <<sf, res, layer, disp, power, svc, n, dropped>>

\* Mutant: the layers are cleared although no hotplug is reported.
ClearsUntold ==
    /\ ev.at = "clean" /\ ~Locked
    /\ layer' = Erased(Live)
    /\ disp' = [disp EXCEPT !.present = {}, !.pairs = NoPairs]
    /\ ev' = [ev EXCEPT !.at = "refresh"]
    /\ KeepsPlanes /\ UNCHANGED <<sf, res, power, svc, n, dropped>>

cleanupBeforeDestroy ==
    /\ ev.at = "clean" /\ ~Locked
    /\ layer' = Erased(Live)
    /\ disp' = [disp EXCEPT !.present = {}, !.pairs = NoPairs,
                            !.target = [px |-> {}, new |-> FALSE]]
    /\ ev' = [ev EXCEPT !.at = "target"]
    /\ KeepsPlanes /\ UNCHANGED <<sf, res, power, svc, n, dropped>>

\* HalEventCallback: the client target goes, then the display and all its handles,
\* and a display that has to be validated takes their place.
cleanDisplayResources ==
    /\ ev.at = "target" /\ ~Locked
    /\ disp' = [disp EXCEPT !.target = [px |-> {}, new |-> TRUE]]
    /\ ev' = [ev EXCEPT !.at = "remove"]
    /\ KeepsPlanes /\ UNCHANGED <<sf, res, layer, power, svc, n, dropped>>

removeDisplay ==
    /\ ev.at = "remove"
    /\ res' = [has |-> FALSE, layers |-> {}, must |-> FALSE]
    /\ ev' = [ev EXCEPT !.at = "add"]
    /\ KeepsPlanes /\ UNCHANGED <<sf, layer, disp, power, svc, n, dropped>>

addPhysicalDisplay ==
    /\ ev.at = "add"
    /\ res' = [res EXCEPT !.has = TRUE, !.must = TRUE]
    /\ ev' = [ev EXCEPT !.at = "call"]
    /\ KeepsPlanes /\ UNCHANGED <<sf, layer, disp, power, svc, n, dropped>>

\* An unplugged primary display is reported as connected, too.
CallHotplug ==
    /\ ev.at = "call"
    /\ sf' = [sf EXCEPT !.hotplug = TRUE]
    /\ ev' = [ev EXCEPT !.at = IF ev.plugged THEN "refresh" ELSE "idle"]
    /\ KeepsPlanes /\ UNCHANGED <<res, layer, disp, power, svc, n, dropped>>

CallRefresh ==
    /\ ev.at = "refresh"
    /\ sf' = AsksRefresh(sf)
    /\ ev' = [ev EXCEPT !.at = "idle"]
    /\ KeepsPlanes /\ UNCHANGED <<res, layer, disp, power, svc, n, dropped>>

ModeRefused ==
    /\ ev.pending /\ ~dropped
    /\ ev' = [ev EXCEPT !.pending = FALSE]
    /\ dropped' = TRUE
    /\ KeepsPlanes /\ UNCHANGED <<sf, res, layer, disp, power, svc, n>>

-----------------------------------------------------------------------------
(* The display service                                                       *)

Call(call) == /\ svc = "idle" /\ call \in Calls /\ n.calls < MaxCalls /\ Watched
              /\ n' = [n EXCEPT !.calls = @ + 1]

SetsMode == ev' = [ev EXCEPT !.pending = ev.plugged]

\* setDisplayMode blanks the screen, under mMutex, and then sets the mode.
setDisplayMode ==
    /\ Call("mode") /\ ~Locked
    /\ power' = setConnectorStatus(FALSE)
    /\ disp' = [disp EXCEPT !.skip = TRUE]
    /\ blankDisplayLocked
    /\ svc' = "mode"
    /\ UNCHANGED <<sf, res, layer, ev>>

ModeSet ==
    /\ svc \in {"mode", "qms"}
    /\ SetsMode
    /\ svc' = "idle"
    /\ KeepsPlanes /\ UNCHANGED <<sf, res, layer, disp, power, n, dropped>>

\* disableQms blanks without mMutex.
disableQms ==
    /\ Call("qms")
    /\ Frees
    /\ svc' = "blank"
    /\ UNCHANGED <<sf, res, layer, disp, power, plane, kernel, ev>>

QmsBlanks ==
    /\ svc = "blank"
    /\ SetPlanes(NoPairs)
    /\ svc' = "flip"
    /\ UNCHANGED <<sf, res, layer, disp, power, kernel, ev, n, dropped>>

QmsFlips ==
    /\ svc = "flip"
    /\ kernel' = Committed(req)
    /\ req' = NoFlip
    /\ svc' = "qms"
    /\ UNCHANGED <<sf, res, layer, disp, power, plane, ev, n, dropped>>

setViewPort ==
    /\ Call("view")
    /\ disp' = [disp EXCEPT !.view = @ + 1]
    /\ svc' = "view"
    /\ KeepsPlanes /\ UNCHANGED <<sf, res, layer, power, ev, dropped>>

outsideChanged ==
    /\ svc = "view"
    /\ disp' = [disp EXCEPT !.outside = TRUE]
    /\ sf' = AsksRefresh(sf)
    /\ svc' = "idle"
    /\ KeepsPlanes /\ UNCHANGED <<res, layer, power, ev, n, dropped>>

-----------------------------------------------------------------------------
Init ==
    /\ sf = [at |-> "idle", from |-> "try", layers |-> {}, want |-> [l \in LayerId |-> 0],
             client |-> {}, drop |-> {}, refresh |-> FALSE, hotplug |-> FALSE, geo |-> FALSE]
    /\ res = [has |-> TRUE, layers |-> {}, must |-> TRUE]
    /\ layer = [l \in LayerId |-> NoLayer]
    /\ disp = [present |-> {}, skip |-> FALSE, outside |-> FALSE, valid |-> FALSE,
               first |-> TRUE, view |-> 1, coords |-> 0, calib |-> 0, pairs |-> NoPairs,
               target |-> [px |-> {}, new |-> FALSE]]
    /\ power = [mode |-> "BOOT", present |-> TRUE, blank |-> TRUE, on |-> TRUE]
    /\ plane = [p \in Plane |-> [fb |-> None, blank |-> TRUE]]
    /\ req = NoFlip
    /\ kernel = [p \in Plane |-> Blank]
    /\ ev = [at |-> "idle", plugged |-> TRUE, pending |-> FALSE, changing |-> FALSE]
    /\ svc = "idle"
    /\ n = [frames |-> 0, events |-> 0, calls |-> 0]
    /\ dropped = FALSE

Next ==
    \/ \E l \in LayerId : createLayer(l) \/ ContentFrame(l)
    \/ \E visible \in SUBSET LayerId : GeometryFrame(visible)
    \/ destroyLayer \/ OnHotplug \/ setPowerMode \/ setActiveConfig
    \/ RefreshFrame \/ Calibrate \/ validateDisplay \/ getChangedCompositionTypes
    \/ acceptDisplayChanges \/ setClientTarget
    \/ presentOrValidate \/ presentDisplay \/ commit \/ pageFlip \/ FlipRefused
    \/ ModeBegin \/ \E told \in BOOLEAN : ModeComplete(told)
    \/ Unplug \/ PlugIn \/ cleanupBeforeDestroy \/ cleanDisplayResources
    \/ removeDisplay \/ addPhysicalDisplay \/ CallHotplug \/ CallRefresh \/ ModeRefused
    \/ setDisplayMode \/ ModeSet \/ disableQms \/ QmsBlanks \/ QmsFlips
    \/ setViewPort \/ outsideChanged

Spec == Init /\ [][Next]_vars

-----------------------------------------------------------------------------
(* Properties                                                                *)

Settled == /\ sf.at = "idle" /\ sf.drop = {} /\ ~sf.hotplug
           /\ ev.at = "idle" /\ svc = "idle"

Quiet == /\ Settled /\ ~sf.refresh /\ ~sf.geo /\ sf.layers # {} /\ power.on
         /\ ev.plugged /\ ~ev.pending /\ ~ev.changing

\* When every thread is at rest and the driver has refused nothing, the screen shows
\* SurfaceFlinger's layers, all of them, each with its newest buffer, and nothing
\* else: whatever modes, plugs, blanks and page flips came between, also the blank
\* disableQms sends without mMutex.
ScreenCurrent ==
    Quiet /\ ~dropped
        => UNION {kernel[p].px : p \in Plane} = {<<l, sf.want[l]>> : l \in sf.layers}

\* A plane is only given something to show while the connector is up: no frame that
\* was validated before a mode change, an unplug or a blank is committed after it.
DarkWhileChanging ==
    [][\A p \in Plane : kernel'[p] # kernel[p] /\ kernel'[p].px # {} => power.present]_vars

\* The three books on layers agree when nothing is under way: SurfaceFlinger's,
\* that of ComposerResources and that of the display, which are cleared by two
\* threads in several steps.
LayersAgree == Settled => Live = sf.layers /\ res.layers = sf.layers
=============================================================================
