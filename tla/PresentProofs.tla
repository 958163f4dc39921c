---------------------------- MODULE PresentProofs ----------------------------
(***************************************************************************)
(* What holds of Present for every set of layers and planes and any number of *)
(* frames, events and calls: the types of the state, that nothing is put on   *)
(* the screen while the connector is down, that the three books on the        *)
(* layers agree, and that the screen is never left behind.                    *)
(***************************************************************************)
EXTENDS Present, TLAPS, FiniteSetTheorems

\* A framebuffer a plane can be given, and what a plane can be told to show.
Fb == LayerId \cup {Target, None}
Picture == SUBSET (LayerId \X Nat)
Show == [px : Picture, at : Nat]

SfState ==
    [at : {"idle", "try", "calibrate", "validate", "learn", "accept", "target", "present",
           "commit", "flip"},
     from : {"try", "present"}, layers : SUBSET LayerId, want : [LayerId -> Nat],
     client : SUBSET LayerId, drop : SUBSET LayerId, refresh : BOOLEAN, hotplug : BOOLEAN,
     geo : BOOLEAN]

LayerState ==
    [live : BOOLEAN, buf : Nat, at : Nat, fresh : BOOLEAN, updated : BOOLEAN, z : BOOLEAN,
     hwc : {"INVALID", "DEVICE", "CLIENT"},
     comp : {"UNDETERMINED", "DUMMY", "PLANE", "CLIENT"}]

DispState ==
    [present : SUBSET LayerId, skip : BOOLEAN, outside : BOOLEAN, valid : BOOLEAN,
     first : BOOLEAN, view : Nat, coords : Nat, calib : Nat, pairs : [Plane -> Fb],
     target : [px : Picture, new : BOOLEAN]]

PowerState == [mode : {"BOOT", "IN", "OUT"}, present : BOOLEAN, blank : BOOLEAN, on : BOOLEAN]

\* A request sets some of the planes.
Request(r) == DOMAIN r \subseteq Plane /\ \A p \in DOMAIN r : r[p] \in Show

EvState ==
    [at : {"idle", "refresh", "target", "clean", "remove", "add", "call"},
     plugged : BOOLEAN, pending : BOOLEAN, changing : BOOLEAN]

TypeOK ==
    /\ sf \in SfState
    /\ res \in [has : BOOLEAN, layers : SUBSET LayerId, must : BOOLEAN]
    /\ layer \in [LayerId -> LayerState]
    /\ disp \in DispState
    /\ power \in PowerState
    /\ plane \in [Plane -> [fb : Fb, blank : BOOLEAN]]
    /\ Request(req)
    /\ kernel \in [Plane -> Show]
    /\ ev \in EvState
    /\ svc \in {"idle", "mode", "qms", "blank", "flip", "view"}
    /\ n \in [frames : Nat, events : Nat, calls : Nat]
    /\ dropped \in BOOLEAN

\* While the connector is down mSkipComposition is set or what was validated is
\* empty; a frame that holds mMutex was not skipped; and only the frame that is about
\* to flip has something to show in the request, with the connector up.
Dark ==
    /\ ~power.present => power.mode # "IN"
    /\ ~power.present /\ ~disp.skip => disp.pairs = NoPairs
    /\ Locked => ~disp.skip
    /\ \A p \in DOMAIN req : req[p].px # {} => sf.at = "flip" /\ power.present

\* SurfaceFlinger knows every layer there is.  Those it knows are all in mLayers but
\* from the clean-up to its own OnHotplug, and all in the resources but from
\* removeDisplay to that.
Cleared == {"target", "remove", "add", "call"}
Removed == {"add", "call"}
Known == sf.layers \cup sf.drop
Books ==
    /\ sf.layers \cap sf.drop = {}
    /\ Live \subseteq Known /\ res.layers \subseteq Known
    /\ ev.at \notin Cleared /\ ~sf.hotplug => Live = Known
    /\ ev.at \notin Removed /\ ~sf.hotplug => res.layers = Known

IInv == TypeOK /\ Dark /\ Books

----------------------------------------------------------------------------
(* What the helpers return *)

LEMMA NoFlipRequest == Request(NoFlip) /\ DOMAIN NoFlip = {}
  BY DEF Request, NoFlip

LEMMA BlankShown == Blank \in Show /\ Blank.px = {}
  BY DEF Blank, Show, Picture

LEMMA NoPairsTyped == NoPairs \in [Plane -> Fb] /\ \A p \in Plane : NoPairs[p] = None
  BY DEF NoPairs, Fb

LEMMA PixelsShown ==
  ASSUME TypeOK, NEW fb \in Fb, fb # None
  PROVE  Pixels(fb) \in Show
  BY DEF TypeOK, Fb, Pixels, Show, Picture, DispState, LayerState

LEMMA ScreenStatus ==
  ASSUME TypeOK, NEW blank \in BOOLEAN
  PROVE  /\ setScreenStatus(blank) \in PowerState
         /\ setScreenStatus(blank).present = power.present
         /\ ~power.present /\ power.mode # "IN" => setScreenStatus(blank).mode # "IN"
  BY DEF TypeOK, PowerState, setScreenStatus

LEMMA ConnectorStatus ==
  ASSUME TypeOK, NEW on \in BOOLEAN
  PROVE  /\ setConnectorStatus(on) \in PowerState
         /\ setConnectorStatus(on).present = on
         /\ ~on /\ (power.present \/ power.mode # "IN") => setConnectorStatus(on).mode # "IN"
  BY DEF TypeOK, PowerState, setConnectorStatus

\* What setPlane leaves in the planes and in the request.
LEMMA SetPlanesTypes ==
  ASSUME TypeOK, NEW pairs \in [Plane -> Fb], SetPlanes(pairs)
  PROVE  /\ plane' \in [Plane -> [fb : Fb, blank : BOOLEAN]]
         /\ Request(req')
         /\ \A p \in DOMAIN req' :
               \/ p \in DOMAIN req /\ req'[p] = req[p]
               \/ req'[p] = Blank
               \/ pairs[p] # None
  <1>1. plane' \in [Plane -> [fb : Fb, blank : BOOLEAN]]
    <2>1. \A p \in Plane : pairs[p] \in Fb /\ (pairs[p] = None) \in BOOLEAN
      OBVIOUS
    <2> QED BY <2>1 DEF SetPlanes, TypeOK
  <1>2. /\ DOMAIN req' = DOMAIN req \cup {p \in Plane : ~Skips(p, pairs[p])}
        /\ \A p \in DOMAIN req' :
              req'[p] = IF Skips(p, pairs[p]) THEN req[p]
                        ELSE IF pairs[p] = None THEN Blank ELSE Pixels(pairs[p])
    BY DEF SetPlanes
  <1>3. ASSUME NEW p \in DOMAIN req'
        PROVE  p \in Plane /\ req'[p] \in Show
    <2>1. p \in Plane /\ pairs[p] \in Fb
      BY <1>2 DEF TypeOK, Request
    <2>2. CASE Skips(p, pairs[p])
      BY <1>2, <2>2 DEF TypeOK, Request
    <2>3. CASE ~Skips(p, pairs[p])
      BY <1>2, <2>1, <2>3, BlankShown, PixelsShown
    <2> QED BY <2>1, <2>2, <2>3
  <1> QED BY <1>1, <1>2, <1>3 DEF Request

LEMMA CommittedShown ==
  ASSUME TypeOK
  PROVE  Committed(req) \in [Plane -> Show]
  BY DEF TypeOK, Request, Committed

LEMMA BlankedTypes ==
  ASSUME TypeOK, blankDisplayLocked
  PROVE  /\ plane' \in [Plane -> [fb : Fb, blank : BOOLEAN]]
         /\ Request(req') /\ DOMAIN req' = {}
         /\ kernel' \in [Plane -> Show]
         /\ dropped' \in BOOLEAN
  BY NoFlipRequest, BlankShown DEF TypeOK, blankDisplayLocked, Frees, Fb

LEMMA ErasedTypes ==
  ASSUME TypeOK, NEW gone
  PROVE  /\ Erased(gone) \in [LayerId -> LayerState]
         /\ Forgotten(gone) \in [LayerId -> Nat]
         /\ \A l \in LayerId : Erased(gone)[l].live <=> layer[l].live /\ l \notin gone
  <1>1. ASSUME NEW l \in LayerId
        PROVE  /\ Erased(gone)[l] \in LayerState
               /\ Erased(gone)[l].live <=> layer[l].live /\ l \notin gone
    <2>1. /\ layer[l] \in LayerState
          /\ Erased(gone)[l] = [layer[l] EXCEPT !.live = layer[l].live /\ l \notin gone]
      BY DEF TypeOK, Erased
    <2>2. ASSUME NEW b \in BOOLEAN
          PROVE  [layer[l] EXCEPT !.live = b] \in LayerState /\ [layer[l] EXCEPT !.live = b].live = b
      BY <2>1 DEF LayerState
    <2>3. (layer[l].live /\ l \notin gone) \in BOOLEAN
      OBVIOUS
    <2> QED BY <2>1, <2>2, <2>3
  <1>2. Erased(gone) = [l \in LayerId |-> Erased(gone)[l]]
    BY DEF Erased
  <1>3. Forgotten(gone) \in [LayerId -> Nat]
    BY DEF TypeOK, SfState, Forgotten
  <1> QED BY <1>1, <1>2, <1>3


----------------------------------------------------------------------------
(* The types, one step per action *)

LEMMA SfTypes ==
  ASSUME TypeOK,
         destroyLayer \/ OnHotplug \/ setPowerMode \/ setActiveConfig \/ RefreshFrame
         \/ Calibrate \/ getChangedCompositionTypes \/ acceptDisplayChanges
         \/ setClientTarget
  PROVE  TypeOK'
  <1>1. CASE destroyLayer
    <2>a. Forgotten(sf.drop) \in [LayerId -> Nat]
      BY ErasedTypes
    <2>1. sf' \in SfState
      BY <1>1, <2>a DEF TypeOK, SfState, destroyLayer
    <2>2. res' \in [has : BOOLEAN, layers : SUBSET LayerId, must : BOOLEAN]
      BY <1>1 DEF TypeOK, destroyLayer
    <2>3. layer' \in [LayerId -> LayerState]
      BY <1>1, ErasedTypes DEF TypeOK, destroyLayer
    <2> QED BY <1>1, <2>1, <2>2, <2>3 DEF TypeOK, destroyLayer, KeepsPlanes
  <1>2. CASE OnHotplug
    <2>1. sf' \in SfState
      BY <1>2, ErasedTypes DEF TypeOK, SfState, OnHotplug, AsksRefresh
    <2>2. res' \in [has : BOOLEAN, layers : SUBSET LayerId, must : BOOLEAN]
      BY <1>2 DEF TypeOK, OnHotplug
    <2>3. layer' \in [LayerId -> LayerState]
      BY <1>2, ErasedTypes DEF TypeOK, OnHotplug
    <2> QED BY <1>2, <2>1, <2>2, <2>3 DEF TypeOK, OnHotplug, KeepsPlanes
  <1>3. CASE setPowerMode
    <2>1. sf' \in SfState
      BY <1>3 DEF TypeOK, SfState, setPowerMode, AsksRefresh
    <2>2. power' \in PowerState
      BY <1>3 DEF TypeOK, PowerState, setPowerMode
    <2>3. n' \in [frames : Nat, events : Nat, calls : Nat]
      BY <1>3 DEF TypeOK, setPowerMode, Event
    <2> QED BY <1>3, <2>1, <2>2, <2>3, BlankedTypes DEF TypeOK, setPowerMode, KeepsPlanes
  <1>4. CASE setActiveConfig
    <2>1. ev' \in EvState
      BY <1>4 DEF TypeOK, EvState, setActiveConfig
    <2>2. n' \in [frames : Nat, events : Nat, calls : Nat]
      BY <1>4 DEF TypeOK, setActiveConfig, Event
    <2> QED BY <1>4, <2>1, <2>2, BlankedTypes DEF TypeOK, setActiveConfig
  <1>5. CASE RefreshFrame
    <2>1. sf' \in SfState
      BY <1>5 DEF TypeOK, SfState, RefreshFrame, Starts
    <2>2. n' \in [frames : Nat, events : Nat, calls : Nat]
      BY <1>5 DEF TypeOK, RefreshFrame, Frame
    <2> QED BY <1>5, <2>1, <2>2 DEF TypeOK, RefreshFrame, KeepsPlanes
  <1>6. CASE Calibrate
    <2>1. sf' \in SfState
      BY <1>6 DEF TypeOK, SfState, Calibrate
    <2>2. disp' \in DispState
      BY <1>6 DEF TypeOK, DispState, Calibrate
    <2> QED BY <1>6, <2>1, <2>2 DEF TypeOK, Calibrate, KeepsPlanes
  <1>7. CASE getChangedCompositionTypes
    <2>1. sf' \in SfState
      BY <1>7 DEF TypeOK, SfState, getChangedCompositionTypes
    <2> QED BY <1>7, <2>1 DEF TypeOK, getChangedCompositionTypes, KeepsPlanes
  <1>8. CASE acceptDisplayChanges
    <2>1. sf' \in SfState
      BY <1>8 DEF TypeOK, SfState, acceptDisplayChanges
    <2>a. ASSUME NEW l \in LayerId
          PROVE  [layer[l] EXCEPT !.hwc = mesonComp2Hwc2Comp(layer[l].comp)] \in LayerState
      BY DEF TypeOK, LayerState, mesonComp2Hwc2Comp
    <2>2. layer' \in [LayerId -> LayerState]
      BY <1>8, <2>a DEF TypeOK, acceptDisplayChanges
    <2> QED BY <1>8, <2>1, <2>2 DEF TypeOK, acceptDisplayChanges, KeepsPlanes
  <1>9. CASE setClientTarget
    <2>1. sf' \in SfState
      BY <1>9 DEF TypeOK, SfState, setClientTarget
    <2>a. {<<l, sf.want[l]>> : l \in sf.client} \in Picture
      BY DEF TypeOK, SfState, Picture
    <2>2. disp' \in DispState
      BY <1>9, <2>a DEF TypeOK, DispState, setClientTarget
    <2> QED BY <1>9, <2>1, <2>2 DEF TypeOK, setClientTarget, KeepsPlanes
  <1> QED BY <1>1, <1>2, <1>3, <1>4, <1>5, <1>6, <1>7, <1>8, <1>9

LEMMA EvTypes ==
  ASSUME TypeOK,
         ModeBegin \/ Unplug \/ PlugIn \/ cleanupBeforeDestroy \/ cleanDisplayResources
         \/ removeDisplay \/ addPhysicalDisplay \/ CallHotplug \/ CallRefresh
         \/ ModeRefused
  PROVE  TypeOK'
  <1>1. CASE ModeBegin
    <2>1. power' \in PowerState
      BY <1>1, ConnectorStatus DEF TypeOK, PowerState, ModeBegin
    <2>2. disp' \in DispState
      BY <1>1 DEF TypeOK, DispState, ModeBegin
    <2>3. ev' \in EvState
      BY <1>1 DEF TypeOK, EvState, ModeBegin
    <2> QED BY <1>1, <2>1, <2>2, <2>3 DEF TypeOK, ModeBegin, KeepsPlanes
  <1>2. CASE Unplug
    <2>1. power' \in PowerState
      BY <1>2, ConnectorStatus DEF TypeOK, PowerState, Unplug
    <2>2. disp' \in DispState
      BY <1>2 DEF TypeOK, DispState, Unplug
    <2>3. ev' \in EvState
      BY <1>2 DEF TypeOK, EvState, Unplug
    <2>4. n' \in [frames : Nat, events : Nat, calls : Nat]
      BY <1>2 DEF TypeOK, Unplug, Event
    <2> QED BY <1>2, <2>1, <2>2, <2>3, <2>4, BlankedTypes DEF TypeOK, Unplug
  <1>3. CASE PlugIn
    <2>1. ev' \in EvState
      BY <1>3 DEF TypeOK, EvState, PlugIn
    <2> QED BY <1>3, <2>1 DEF TypeOK, PlugIn, KeepsPlanes
  <1>4. CASE cleanupBeforeDestroy
    <2>1. layer' \in [LayerId -> LayerState]
      BY <1>4, ErasedTypes DEF TypeOK, cleanupBeforeDestroy
    <2>2. disp' \in DispState
      BY <1>4, NoPairsTyped DEF TypeOK, DispState, cleanupBeforeDestroy, Picture
    <2>3. ev' \in EvState
      BY <1>4 DEF TypeOK, EvState, cleanupBeforeDestroy
    <2> QED BY <1>4, <2>1, <2>2, <2>3 DEF TypeOK, cleanupBeforeDestroy, KeepsPlanes
  <1>5. CASE cleanDisplayResources
    <2>1. disp' \in DispState
      BY <1>5 DEF TypeOK, DispState, cleanDisplayResources, Picture
    <2>2. ev' \in EvState
      BY <1>5 DEF TypeOK, EvState, cleanDisplayResources
    <2> QED BY <1>5, <2>1, <2>2 DEF TypeOK, cleanDisplayResources, KeepsPlanes
  <1>6. CASE removeDisplay
    <2>1. res' \in [has : BOOLEAN, layers : SUBSET LayerId, must : BOOLEAN]
      BY <1>6 DEF TypeOK, removeDisplay
    <2>2. ev' \in EvState
      BY <1>6 DEF TypeOK, EvState, removeDisplay
    <2> QED BY <1>6, <2>1, <2>2 DEF TypeOK, removeDisplay, KeepsPlanes
  <1>7. CASE addPhysicalDisplay
    <2>1. res' \in [has : BOOLEAN, layers : SUBSET LayerId, must : BOOLEAN]
      BY <1>7 DEF TypeOK, addPhysicalDisplay
    <2>2. ev' \in EvState
      BY <1>7 DEF TypeOK, EvState, addPhysicalDisplay
    <2> QED BY <1>7, <2>1, <2>2 DEF TypeOK, addPhysicalDisplay, KeepsPlanes
  <1>8. CASE CallHotplug
    <2>1. sf' \in SfState
      BY <1>8 DEF TypeOK, SfState, CallHotplug
    <2>2. ev' \in EvState
      BY <1>8 DEF TypeOK, EvState, CallHotplug
    <2> QED BY <1>8, <2>1, <2>2 DEF TypeOK, CallHotplug, KeepsPlanes
  <1>9. CASE CallRefresh
    <2>1. sf' \in SfState
      BY <1>9 DEF TypeOK, SfState, CallRefresh, AsksRefresh
    <2>2. ev' \in EvState
      BY <1>9 DEF TypeOK, EvState, CallRefresh
    <2> QED BY <1>9, <2>1, <2>2 DEF TypeOK, CallRefresh, KeepsPlanes
  <1>10. CASE ModeRefused
    <2>1. ev' \in EvState
      BY <1>10 DEF TypeOK, EvState, ModeRefused
    <2> QED BY <1>10, <2>1 DEF TypeOK, ModeRefused, KeepsPlanes
  <1> QED BY <1>1, <1>2, <1>3, <1>4, <1>5, <1>6, <1>7, <1>8, <1>9, <1>10

LEMMA SvcTypes ==
  ASSUME TypeOK,
         setDisplayMode \/ ModeSet \/ disableQms \/ QmsBlanks \/ QmsFlips \/ setViewPort
         \/ outsideChanged
  PROVE  TypeOK'
  <1>1. CASE setDisplayMode
    <2>1. power' \in PowerState
      BY <1>1, ConnectorStatus DEF TypeOK, PowerState, setDisplayMode
    <2>2. disp' \in DispState
      BY <1>1 DEF TypeOK, DispState, setDisplayMode
    <2>3. n' \in [frames : Nat, events : Nat, calls : Nat]
      BY <1>1 DEF TypeOK, setDisplayMode, Call
    <2> QED BY <1>1, <2>1, <2>2, <2>3, BlankedTypes DEF TypeOK, setDisplayMode
  <1>2. CASE ModeSet
    <2>1. ev' \in EvState
      BY <1>2 DEF TypeOK, EvState, ModeSet, SetsMode
    <2> QED BY <1>2, <2>1 DEF TypeOK, ModeSet, KeepsPlanes
  <1>3. CASE disableQms
    <2>1. n' \in [frames : Nat, events : Nat, calls : Nat]
      BY <1>3 DEF TypeOK, disableQms, Call
    <2> QED BY <1>3, <2>1, NoFlipRequest DEF TypeOK, disableQms, Frees
  <1>4. CASE QmsBlanks
    <2> QED BY <1>4, NoPairsTyped, SetPlanesTypes DEF TypeOK, QmsBlanks
  <1>5. CASE QmsFlips
    <2> QED BY <1>5, CommittedShown, NoFlipRequest DEF TypeOK, QmsFlips
  <1>6. CASE setViewPort
    <2>1. disp' \in DispState
      BY <1>6 DEF TypeOK, DispState, setViewPort
    <2>2. n' \in [frames : Nat, events : Nat, calls : Nat]
      BY <1>6 DEF TypeOK, setViewPort, Call
    <2> QED BY <1>6, <2>1, <2>2 DEF TypeOK, setViewPort, KeepsPlanes
  <1>7. CASE outsideChanged
    <2>1. sf' \in SfState
      BY <1>7 DEF TypeOK, SfState, outsideChanged, AsksRefresh
    <2>2. disp' \in DispState
      BY <1>7 DEF TypeOK, DispState, outsideChanged
    <2> QED BY <1>7, <2>1, <2>2 DEF TypeOK, outsideChanged, KeepsPlanes
  <1> QED BY <1>1, <1>2, <1>3, <1>4, <1>5, <1>6, <1>7

\* What is cleared at the end of a frame.
LEMMA FlagsTypes ==
  ASSUME TypeOK, ClearUpdateFlags
  PROVE  /\ layer' \in [LayerId -> LayerState]
         /\ \A l \in LayerId : layer'[l].live = layer[l].live
  <1>1. ASSUME NEW L \in LayerState
        PROVE  /\ [L EXCEPT !.updated = FALSE, !.z = FALSE] \in LayerState
               /\ [L EXCEPT !.updated = FALSE, !.z = FALSE].live = L.live
    <2>1. [L EXCEPT !.updated = FALSE] \in LayerState /\ [L EXCEPT !.updated = FALSE].live = L.live
      BY DEF LayerState
    <2>2. ASSUME NEW M \in LayerState
          PROVE  [M EXCEPT !.z = FALSE] \in LayerState /\ [M EXCEPT !.z = FALSE].live = M.live
      BY DEF LayerState
    <2>3. [L EXCEPT !.updated = FALSE, !.z = FALSE] = [[L EXCEPT !.updated = FALSE] EXCEPT !.z = FALSE]
      OBVIOUS
    <2> QED BY <2>1, <2>2, <2>3
  <1>2. \A l \in LayerId : layer'[l] \in LayerState /\ layer'[l].live = layer[l].live
    BY <1>1 DEF TypeOK, ClearUpdateFlags
  <1>3. layer' = [l \in LayerId |-> layer'[l]]
    BY DEF ClearUpdateFlags
  <1> QED BY <1>2, <1>3

\* A frame that skips nothing and one that does, and one that has to be validated.
LEMMA PresentTypes ==
  ASSUME TypeOK, presentOrValidate \/ presentDisplay
  PROVE  TypeOK'
  <1>b. sf.at \in {"try", "present"}
    BY DEF presentOrValidate, presentDisplay
  <1>1. CASE Presents
    <2>1. disp' \in DispState
      BY <1>1 DEF TypeOK, DispState, Presents
    <2>2. sf' \in SfState
      BY ZenonT(60), <1>1, <1>b DEF TypeOK, SfState, Presents
    <2>3. layer' \in [LayerId -> LayerState]
      BY <1>1, FlagsTypes DEF TypeOK, Presents
    <2>4. Request(req') /\ dropped' \in BOOLEAN
      BY <1>1, NoFlipRequest DEF TypeOK, Presents, Frees
    <2> QED BY <1>1, <2>1, <2>2, <2>3, <2>4 DEF TypeOK, Presents
  <1>2. CASE /\ \E at \in {"calibrate", "idle"} : sf' = [sf EXCEPT !.at = at]
             /\ \E b \in BOOLEAN : disp' = [disp EXCEPT !.first = b]
             /\ KeepsPlanes /\ UNCHANGED <<res, layer, power, ev, svc, n, dropped>>
    <2>1. sf' \in SfState
      BY <1>2 DEF TypeOK, SfState
    <2>2. disp' \in DispState
      BY <1>2 DEF TypeOK, DispState
    <2> QED BY <1>2, <2>1, <2>2 DEF TypeOK, KeepsPlanes
  <1>3. (disp.first /\ res.must) \in BOOLEAN
    BY DEF TypeOK, DispState
  <1> QED BY <1>1, <1>2, <1>3 DEF presentOrValidate, presentDisplay

LEMMA FlipTypes ==
  ASSUME TypeOK, commit \/ pageFlip \/ FlipRefused
  PROVE  TypeOK'
  <1>1. CASE commit
    <2>a. disp.pairs \in [Plane -> Fb]
      BY DEF TypeOK, DispState
    <2>b. /\ plane' \in [Plane -> [fb : Fb, blank : BOOLEAN]]
          /\ Request(req')
      BY <1>1, <2>a, SetPlanesTypes DEF commit
    <2>c. ASSUME NEW l \in LayerId
          PROVE  [layer[l] EXCEPT !.fresh = FALSE] \in LayerState
      BY ZenonT(60) DEF TypeOK, LayerState
    <2>1. layer' \in [LayerId -> LayerState]
      BY <1>1, <2>c DEF TypeOK, commit
    <2>2. disp' \in DispState
      <3>1. PICK b \in BOOLEAN : disp' = [disp EXCEPT !.target.new = b]
        BY <1>1 DEF commit
      <3> QED BY <3>1 DEF TypeOK, DispState
    <2>3. sf' \in SfState
      BY <1>1 DEF TypeOK, SfState, commit
    <2> QED BY <1>1, <2>b, <2>1, <2>2, <2>3 DEF TypeOK, commit
  <1>2. CASE pageFlip
    <2>1. layer' \in [LayerId -> LayerState]
      BY <1>2, FlagsTypes DEF pageFlip
    <2>2. sf' \in SfState
      BY <1>2 DEF TypeOK, SfState, pageFlip
    <2> QED BY <1>2, <2>1, <2>2, CommittedShown, NoFlipRequest DEF TypeOK, pageFlip
  <1>3. CASE FlipRefused
    <2>1. sf' \in SfState
      BY <1>3 DEF TypeOK, SfState, FlipRefused
    <2> QED BY <1>3, <2>1, NoFlipRequest DEF TypeOK, FlipRefused
  <1> QED BY <1>1, <1>2, <1>3

LEMMA ModeCompleteTypes ==
  ASSUME TypeOK, NEW told \in BOOLEAN, ModeComplete(told)
  PROVE  TypeOK'
  <1>1. power' \in PowerState
    BY ConnectorStatus DEF ModeComplete
  <1>2. disp' \in DispState
    BY DEF TypeOK, DispState, ModeComplete
  <1>3. ev' \in EvState
    BY DEF TypeOK, EvState, ModeComplete
  <1> QED BY <1>1, <1>2, <1>3 DEF TypeOK, ModeComplete, KeepsPlanes

LEMMA CreateTypes ==
  ASSUME TypeOK, NEW l \in LayerId, createLayer(l)
  PROVE  TypeOK'
  <1>1. [NoLayer EXCEPT !.live = TRUE] \in LayerState
    BY DEF NoLayer, LayerState
  <1>2. layer' \in [LayerId -> LayerState]
    BY <1>1 DEF TypeOK, createLayer
  <1>3. res' \in [has : BOOLEAN, layers : SUBSET LayerId, must : BOOLEAN]
    BY DEF TypeOK, createLayer
  <1>4. sf' \in SfState
    BY DEF TypeOK, SfState, createLayer, AsksRefresh
  <1> QED BY <1>2, <1>3, <1>4 DEF TypeOK, createLayer, KeepsPlanes

----------------------------------------------------------------------------
(* Frames: what SurfaceFlinger sends for them *)

\* A layer keeps its type with a new buffer, and sent whole.
LEMMA SentTypes ==
  ASSUME NEW L \in LayerState, NEW v \in Nat
  PROVE  /\ SetBuffer(L, v) \in LayerState /\ SetBuffer(L, v).live = L.live
         /\ SetGeometry(L) \in LayerState /\ SetGeometry(L).live = L.live
  <1>1. (L.updated \/ L.buf = 0) \in BOOLEAN
    OBVIOUS
  <1>2. ASSUME NEW b \in BOOLEAN
        PROVE  [L EXCEPT !.buf = v, !.fresh = TRUE, !.updated = b] \in LayerState
    BY DEF LayerState
  <1> QED BY <1>1, <1>2 DEF LayerState, SetBuffer, SetGeometry

\* A frame starts: one of its two first steps, nothing else of SurfaceFlinger's
\* books on the layers.
LEMMA StartsTypes ==
  ASSUME TypeOK, NEW s \in SfState, Starts(s)
  PROVE  /\ sf' \in SfState
         /\ sf'.at \in {"try", "calibrate"}
         /\ sf'.layers = s.layers /\ sf'.drop = s.drop /\ sf'.hotplug = s.hotplug
  BY DEF SfState, Starts

LEMMA FrameTypes ==
  ASSUME TypeOK, Frame
  PROVE  n' \in [frames : Nat, events : Nat, calls : Nat] /\ sf.at = "idle"
  BY DEF TypeOK, Frame

LEMMA ContentTypes ==
  ASSUME TypeOK, NEW l \in LayerId, ContentFrame(l)
  PROVE  /\ TypeOK'
         /\ \A k \in LayerId : layer'[k].live = layer[k].live
         /\ sf'.at \in {"try", "calibrate"}
         /\ sf'.layers = sf.layers /\ sf'.drop = sf.drop /\ sf'.hotplug = sf.hotplug
  <1> DEFINE v == sf.want[l] + 1
             s == [sf EXCEPT !.want[l] = v]
  <1>1. v \in Nat /\ s \in SfState /\ s.layers = sf.layers /\ s.drop = sf.drop
        /\ s.hotplug = sf.hotplug
    BY DEF TypeOK, SfState
  <1>2. /\ sf' \in SfState
        /\ sf'.at \in {"try", "calibrate"}
        /\ sf'.layers = s.layers /\ sf'.drop = s.drop /\ sf'.hotplug = s.hotplug
    BY <1>1, StartsTypes DEF ContentFrame
  <1>3. layer' = [k \in LayerId |-> IF k = l /\ Buffered(l) THEN SetBuffer(layer[k], v)
                                    ELSE layer[k]]
    BY DEF ContentFrame
  <1>4. \A k \in LayerId : layer'[k] \in LayerState /\ layer'[k].live = layer[k].live
    BY <1>1, <1>3, SentTypes DEF TypeOK
  <1>5. layer' \in [LayerId -> LayerState]
    BY <1>3, <1>4
  <1>6. TypeOK'
    BY <1>2, <1>5, FrameTypes DEF TypeOK, ContentFrame, KeepsPlanes
  <1> QED BY <1>1, <1>2, <1>4, <1>6

LEMMA GeometryTypes ==
  ASSUME TypeOK, NEW visible \in SUBSET LayerId, GeometryFrame(visible)
  PROVE  /\ TypeOK'
         /\ \A k \in LayerId : layer'[k].live = layer[k].live
         /\ sf'.at \in {"try", "calibrate"}
         /\ sf'.layers = visible /\ sf'.drop = sf.layers \ visible
         /\ sf.hotplug = FALSE /\ sf'.hotplug = FALSE
         /\ visible \subseteq sf.layers /\ sf.drop = {}
  <1> DEFINE new == {l \in visible : sf.want[l] = 0}
             set(l) == IF l \in new /\ Buffered(l) THEN SetBuffer(layer[l], 1) ELSE layer[l]
             s == [sf EXCEPT !.want = [l \in LayerId |-> IF l \in new THEN 1 ELSE @[l]],
                             !.layers = visible, !.drop = sf.layers \ visible, !.geo = FALSE]
  <1>0. visible \subseteq sf.layers /\ sf.drop = {} /\ sf.hotplug = FALSE
    BY DEF TypeOK, SfState, GeometryFrame, Frame
  <1>1. /\ s \in SfState /\ s.layers = visible /\ s.drop = sf.layers \ visible
        /\ s.hotplug = sf.hotplug
    BY DEF TypeOK, SfState
  <1>2. /\ sf' \in SfState
        /\ sf'.at \in {"try", "calibrate"}
        /\ sf'.layers = s.layers /\ sf'.drop = s.drop /\ sf'.hotplug = s.hotplug
    BY <1>1, StartsTypes DEF GeometryFrame
  <1>3. layer' = [l \in LayerId |-> IF l \in visible \cap Live THEN SetGeometry(set(l))
                                    ELSE layer[l]]
    BY DEF GeometryFrame
  <1>a. \A l \in LayerId : set(l) \in LayerState /\ set(l).live = layer[l].live
    BY SentTypes DEF TypeOK
  <1>4. \A l \in LayerId : layer'[l] \in LayerState /\ layer'[l].live = layer[l].live
    BY <1>3, <1>a, SentTypes DEF TypeOK
  <1>5. layer' \in [LayerId -> LayerState]
    BY <1>3, <1>4
  <1>6. TypeOK'
    BY <1>2, <1>5, FrameTypes DEF TypeOK, GeometryFrame, KeepsPlanes
  <1> QED BY <1>0, <1>1, <1>2, <1>4, <1>6

----------------------------------------------------------------------------
(* validateDisplay *)

\* The choice validateDisplay makes, without the conditions no proof needs.
LEMMA ValidateSteps ==
  ASSUME TypeOK, validateDisplay
  PROVE  \E present \in SUBSET LayerId, pairs \in [Plane -> Fb], skip \in BOOLEAN,
            blank \in BOOLEAN, outside \in BOOLEAN :
         /\ needBlankScreen(present # {}) => pairs = NoPairs
         /\ power' = IF skip THEN power ELSE setScreenStatus(blank)
         /\ disp' = [disp EXCEPT !.present = present, !.skip = skip, !.valid = TRUE,
                        !.pairs = IF skip THEN @ ELSE pairs,
                        !.calib = IF skip THEN @ ELSE disp.coords, !.outside = outside]
         /\ \A l \in LayerId : layer'[l].live = layer[l].live
         /\ layer' \in [LayerId -> LayerState]
  <1> DEFINE present == collectLayersForPresent
             dark == needBlankScreen(present # {})
             skip == Skipped(present)
             typed(pairs) == [l \in LayerId |->
                    [layer[l] EXCEPT !.comp = CompType(l, pairs, present, dark)]]
  <1>1. PICK pairs \in IF dark THEN {NoPairs} ELSE Choices(present) :
               /\ layer' = [l \in LayerId |-> IF l \in present /\ ~skip
                               THEN [Adjusted(layer[l]) EXCEPT !.comp = typed(pairs)[l].comp]
                               ELSE typed(pairs)[l]]
               /\ power' = IF skip THEN power ELSE setScreenStatus(present = {} \/ dark)
               /\ disp' = [disp EXCEPT
                     !.present = present,
                     !.skip = skip, !.valid = TRUE,
                     !.pairs = IF skip THEN @ ELSE pairs,
                     !.calib = IF skip THEN @ ELSE disp.coords,
                     !.outside = @ /\ (skip \/ present = {})]
    BY DEF validateDisplay
  <1>2. present \in SUBSET LayerId
    BY DEF collectLayersForPresent, Live
  <1>3. pairs \in [Plane -> Fb]
    BY <1>1, <1>2, NoPairsTyped DEF Choices, Fb
  <1>4. /\ skip \in BOOLEAN /\ (present = {} \/ dark) \in BOOLEAN
        /\ (disp.outside /\ (skip \/ present = {})) \in BOOLEAN
    BY DEF Skipped
  <1>5. ASSUME NEW l \in LayerId
        PROVE  layer'[l] \in LayerState /\ layer'[l].live = layer[l].live
    <2> DEFINE c == CompType(l, pairs, present, dark)
               seen == layer[l].updated \/ disp.outside
    <2>1. layer[l] \in LayerState
      BY DEF TypeOK
    <2>2. c \in {"UNDETERMINED", "DUMMY", "PLANE", "CLIENT"}
      BY <2>1 DEF CompType, LayerState
    <2>3. ASSUME NEW L \in LayerState
          PROVE  /\ [L EXCEPT !.comp = c] \in LayerState /\ [L EXCEPT !.comp = c].live = L.live
                 /\ [L EXCEPT !.comp = c].comp = c
      BY <2>2 DEF LayerState
    <2>4. ASSUME NEW b \in BOOLEAN
          PROVE  /\ [layer[l] EXCEPT !.at = disp.coords, !.updated = b] \in LayerState
                 /\ [layer[l] EXCEPT !.at = disp.coords, !.updated = b].live = layer[l].live
      BY <2>1 DEF TypeOK, DispState, LayerState
    <2>5. Adjusted(layer[l]) \in LayerState /\ Adjusted(layer[l]).live = layer[l].live
      <3>1. seen \in BOOLEAN
        OBVIOUS
      <3>2. Adjusted(layer[l]) = [layer[l] EXCEPT !.at = disp.coords, !.updated = seen]
        BY DEF Adjusted
      <3> QED BY <2>4, <3>1, <3>2
    <2>6. layer'[l] = [Adjusted(layer[l]) EXCEPT !.comp = c] \/ layer'[l] = [layer[l] EXCEPT !.comp = c]
      <3>1. typed(pairs)[l] = [layer[l] EXCEPT !.comp = c] /\ typed(pairs)[l].comp = c
        BY <2>1, <2>3
      <3> QED BY <1>1, <3>1
    <2> QED BY <2>1, <2>3, <2>5, <2>6
  <1>6. layer' \in [LayerId -> LayerState]
    BY <1>1, <1>5
  <1>7. dark => pairs = NoPairs
    BY <1>1
  <1> QED BY <1>1, <1>2, <1>3, <1>4, <1>5, <1>6, <1>7

LEMMA ValidateTypes ==
  ASSUME TypeOK, validateDisplay
  PROVE  TypeOK'
  <1>1. PICK present \in SUBSET LayerId, pairs \in [Plane -> Fb], skip \in BOOLEAN,
             blank \in BOOLEAN, outside \in BOOLEAN :
         /\ power' = IF skip THEN power ELSE setScreenStatus(blank)
         /\ disp' = [disp EXCEPT !.present = present, !.skip = skip, !.valid = TRUE,
                        !.pairs = IF skip THEN @ ELSE pairs,
                        !.calib = IF skip THEN @ ELSE disp.coords, !.outside = outside]
         /\ layer' \in [LayerId -> LayerState]
    BY ZenonT(60), ValidateSteps
  <1>2. power' \in PowerState
    BY <1>1, ScreenStatus DEF TypeOK
  <1>3. disp' \in DispState
    BY <1>1 DEF TypeOK, DispState
  <1>4. res' \in [has : BOOLEAN, layers : SUBSET LayerId, must : BOOLEAN]
    BY DEF TypeOK, validateDisplay
  <1>5. sf' \in SfState
    BY DEF TypeOK, SfState, validateDisplay
  <1> QED BY <1>1, <1>2, <1>3, <1>4, <1>5 DEF TypeOK, validateDisplay, KeepsPlanes

----------------------------------------------------------------------------
(* The types, all actions together *)

LEMMA InitTypes == Init => TypeOK
  <1> SUFFICES ASSUME Init
               PROVE  TypeOK
    OBVIOUS
  <1>1. NoLayer \in LayerState
    BY DEF NoLayer, LayerState
  <1>2. sf \in SfState
    BY DEF Init, SfState
  <1>3. disp \in DispState
    BY NoPairsTyped DEF Init, DispState, Picture
  <1>4. power \in PowerState /\ ev \in EvState
    BY DEF Init, PowerState, EvState
  <1> QED
    BY <1>1, <1>2, <1>3, <1>4, NoFlipRequest, BlankShown DEF Init, TypeOK, Fb

LEMMA NextTypes == TypeOK /\ [Next]_vars => TypeOK'
  <1> SUFFICES ASSUME TypeOK, [Next]_vars
               PROVE  TypeOK'
    OBVIOUS
  <1>1. CASE UNCHANGED vars
    BY <1>1 DEF vars, TypeOK
  <1> QED
    BY <1>1, SfTypes, EvTypes, SvcTypes, PresentTypes, FlipTypes, ModeCompleteTypes, CreateTypes,
       ContentTypes, GeometryTypes, ValidateTypes DEF Next

----------------------------------------------------------------------------
(* Nothing is shown while the connector is down *)

\* A step of Present that neither validates nor flips, nor changes the connector.
LEMMA DarkAside ==
  ASSUME TypeOK, Dark,
         power'.present = power.present, power'.mode = power.mode,
         disp'.skip = disp.skip, disp'.pairs = disp.pairs \/ disp'.pairs = NoPairs,
         sf'.at = sf.at \/ (~Locked /\ ~Locked'), req' = req
  PROVE  Dark'
  <1>1. Locked' => Locked
    BY DEF Locked
  <1>2. sf.at = "flip" /\ sf'.at # "flip" => \A p \in DOMAIN req : req[p].px = {}
    BY DEF Locked, Dark
  <1>3. ASSUME NEW p \in DOMAIN req', req'[p].px # {}
        PROVE  sf'.at = "flip" /\ power'.present
    BY <1>2, <1>3 DEF Dark
  <1> QED BY <1>1, <1>3 DEF Dark

\* A step that empties the request while no frame is under way, and takes the
\* connector down or leaves it as it is.
LEMMA DarkCleared ==
  ASSUME TypeOK, Dark, DOMAIN req' = {},
         \/ power'.present = power.present /\ power'.mode = power.mode /\ disp' = disp /\ sf'.at = sf.at
         \/ /\ ~Locked /\ ~Locked' /\ power' = setConnectorStatus(FALSE)
            /\ disp' = [disp EXCEPT !.skip = TRUE]
  PROVE  Dark'
  <1>1. \A p \in DOMAIN req' : req'[p].px # {} => sf'.at = "flip" /\ power'.present
    OBVIOUS
  <1>2. CASE power'.present = power.present /\ power'.mode = power.mode /\ disp' = disp /\ sf'.at = sf.at
    BY <1>1, <1>2 DEF Dark, Locked
  <1>3. CASE /\ ~Locked /\ ~Locked' /\ power' = setConnectorStatus(FALSE)
             /\ disp' = [disp EXCEPT !.skip = TRUE]
    <2>1. disp'.skip = TRUE
      BY <1>3 DEF TypeOK, DispState
    <2>2. power'.mode # "IN"
      BY <1>3, ConnectorStatus DEF Dark
    <2> QED BY <1>1, <1>3, <2>1, <2>2 DEF Dark
  <1> QED BY <1>2, <1>3

\* SurfaceFlinger's steps that commit nothing.
LEMMA DarkBetween ==
  ASSUME TypeOK, Dark,
         \/ \E l \in LayerId : createLayer(l) \/ ContentFrame(l)
         \/ \E visible \in SUBSET LayerId : GeometryFrame(visible)
         \/ destroyLayer \/ OnHotplug \/ RefreshFrame \/ Calibrate
         \/ getChangedCompositionTypes \/ acceptDisplayChanges \/ setClientTarget
  PROVE  Dark'
  <1>1. req' = req /\ power' = power
    BY DEF createLayer, ContentFrame, GeometryFrame, destroyLayer, OnHotplug, RefreshFrame, Calibrate,
           getChangedCompositionTypes, acceptDisplayChanges, setClientTarget, KeepsPlanes
  <1>2. disp'.skip = disp.skip /\ disp'.pairs = disp.pairs
    BY DEF TypeOK, DispState, createLayer, ContentFrame, GeometryFrame, destroyLayer, OnHotplug,
           RefreshFrame, Calibrate, getChangedCompositionTypes, acceptDisplayChanges, setClientTarget
  <1>3. ~Locked /\ ~Locked'
    <2>1. CASE \E l \in LayerId : createLayer(l)
      BY <2>1 DEF TypeOK, SfState, createLayer, AsksRefresh, Locked
    <2>2. CASE \E l \in LayerId : ContentFrame(l)
      BY <2>2, ContentTypes, FrameTypes DEF ContentFrame, Locked
    <2>3. CASE \E visible \in SUBSET LayerId : GeometryFrame(visible)
      BY <2>3, GeometryTypes, FrameTypes DEF GeometryFrame, Locked
    <2>4. CASE RefreshFrame
      BY <2>4, StartsTypes, FrameTypes DEF TypeOK, RefreshFrame, Locked
    <2>5. CASE destroyLayer \/ OnHotplug \/ Calibrate
      BY <2>5 DEF TypeOK, SfState, destroyLayer, OnHotplug, AsksRefresh, Calibrate, Locked
    <2>6. CASE getChangedCompositionTypes \/ acceptDisplayChanges \/ setClientTarget
      BY <2>6 DEF TypeOK, SfState, getChangedCompositionTypes, acceptDisplayChanges,
         setClientTarget, Locked
    <2> QED BY <2>1, <2>2, <2>3, <2>4, <2>5, <2>6
  <1> QED BY <1>1, <1>2, <1>3, DarkAside

\* validateDisplay chooses nothing to show while the connector is down.
LEMMA DarkValidate ==
  ASSUME TypeOK, Dark, validateDisplay
  PROVE  Dark'
  <1>1. PICK present \in SUBSET LayerId, pairs \in [Plane -> Fb], skip \in BOOLEAN,
             blank \in BOOLEAN, outside \in BOOLEAN :
         /\ needBlankScreen(present # {}) => pairs = NoPairs
         /\ power' = IF skip THEN power ELSE setScreenStatus(blank)
         /\ disp' = [disp EXCEPT !.present = present, !.skip = skip, !.valid = TRUE,
                        !.pairs = IF skip THEN @ ELSE pairs,
                        !.calib = IF skip THEN @ ELSE disp.coords, !.outside = outside]
         /\ \A l \in LayerId : layer'[l].live = layer[l].live
         /\ layer' \in [LayerId -> LayerState]
    BY ValidateSteps
  <1>2. disp'.skip = skip /\ (~skip => disp'.pairs = pairs)
    BY <1>1 DEF TypeOK, DispState
  <1>3. power'.present = power.present /\ (~power.present => power'.mode # "IN")
    BY <1>1, ScreenStatus DEF Dark
  <1>4. ~power.present => needBlankScreen(present # {})
    BY DEF TypeOK, PowerState, Dark, needBlankScreen
  <1>5. sf.at = "validate" /\ sf'.at = "learn" /\ req' = req
    BY DEF TypeOK, SfState, validateDisplay, KeepsPlanes
  <1> QED BY <1>1, <1>2, <1>3, <1>4, <1>5 DEF Dark, Locked

LEMMA DarkPresent ==
  ASSUME TypeOK, Dark, presentOrValidate \/ presentDisplay
  PROVE  Dark'
  <1>1. /\ sf.at \in {"try", "present"} /\ power' = power
        /\ disp'.skip = disp.skip /\ disp'.pairs = disp.pairs
    BY DEF TypeOK, DispState, presentOrValidate, presentDisplay, Presents
  <1>2. CASE sf'.at \in {"idle", "calibrate"} /\ req' = req
    BY <1>1, <1>2, DarkAside DEF Locked
  <1>3. CASE sf'.at = "commit" /\ ~disp.skip /\ DOMAIN req' = {}
    BY <1>1, <1>3 DEF Dark, Locked
  <1>4. \/ sf'.at \in {"idle", "calibrate"} /\ req' = req
        \/ sf'.at = "commit" /\ ~disp.skip /\ DOMAIN req' = {}
    BY NoFlipRequest DEF TypeOK, SfState, presentOrValidate, presentDisplay, Presents, Frees,
       KeepsPlanes
  <1> QED BY <1>2, <1>3, <1>4

LEMMA DarkFlip ==
  ASSUME TypeOK, Dark, commit \/ pageFlip \/ FlipRefused
  PROVE  Dark'
  <1>1. CASE commit
    <2>1. /\ sf.at = "commit" /\ sf'.at = "flip" /\ power' = power
          /\ disp'.skip = disp.skip /\ disp'.pairs = disp.pairs
      BY <1>1 DEF TypeOK, SfState, DispState, commit
    <2>2. disp.pairs \in [Plane -> Fb]
      BY DEF TypeOK, DispState
    <2>3. ~power.present => disp.pairs = NoPairs
      BY <2>1 DEF Dark, Locked
    <2>4. ASSUME NEW p \in DOMAIN req', req'[p].px # {}
          PROVE  power.present
      <3>1. p \in Plane
        BY <1>1, <2>2, SetPlanesTypes DEF commit, Request
      <3>2. \/ p \in DOMAIN req /\ req'[p] = req[p]
            \/ req'[p] = Blank
            \/ disp.pairs[p] # None
        BY <1>1, <2>2, SetPlanesTypes DEF commit
      <3> QED BY <2>1, <2>3, <2>4, <3>1, <3>2, BlankShown, NoPairsTyped DEF Dark
    <2> QED BY <2>1, <2>4 DEF Dark, Locked
  <1>2. CASE pageFlip \/ FlipRefused
    <2>1. /\ power' = power /\ disp' = disp /\ DOMAIN req' = {}
          /\ Locked /\ sf'.at \in {"idle", "calibrate"}
      BY <1>2, NoFlipRequest DEF TypeOK, SfState, pageFlip, FlipRefused, Locked
    <2> QED BY <2>1 DEF Dark, Locked
  <1> QED BY <1>1, <1>2

LEMMA DarkEvents ==
  ASSUME TypeOK, Dark,
         \/ ModeBegin \/ Unplug \/ PlugIn \/ cleanupBeforeDestroy \/ cleanDisplayResources
         \/ removeDisplay \/ addPhysicalDisplay \/ CallHotplug \/ CallRefresh \/ ModeRefused
         \/ \E told \in BOOLEAN : ModeComplete(told)
  PROVE  Dark'
  <1>1. CASE ModeBegin
    <2>1. /\ ~Locked /\ sf' = sf /\ req' = req /\ disp' = [disp EXCEPT !.skip = TRUE]
          /\ power' = setConnectorStatus(FALSE)
      BY <1>1 DEF ModeBegin, EventIdle, KeepsPlanes
    <2>2. disp'.skip = TRUE
      BY <2>1 DEF TypeOK, DispState
    <2>3. power'.mode # "IN"
      BY <2>1, ConnectorStatus DEF Dark
    <2>4. \A p \in DOMAIN req' : req'[p].px = {}
      BY <2>1 DEF Dark, Locked
    <2> QED BY <2>1, <2>2, <2>3, <2>4 DEF Dark, Locked
  <1>2. CASE Unplug
    <2>1. /\ ~Locked /\ ~Locked' /\ power' = setConnectorStatus(FALSE)
          /\ disp' = [disp EXCEPT !.skip = TRUE]
      BY <1>2 DEF Unplug, EventIdle, Locked
    <2> QED BY <1>2, <2>1, BlankedTypes, DarkCleared DEF Unplug
  <1>3. CASE \E told \in BOOLEAN : ModeComplete(told)
    <2>1. /\ ~Locked /\ sf' = sf /\ req' = req /\ power' = setConnectorStatus(TRUE)
      BY <1>3 DEF ModeComplete, EventIdle, KeepsPlanes
    <2>2. power'.present
      BY <2>1, ConnectorStatus
    <2>3. \A p \in DOMAIN req' : req'[p].px = {}
      BY <2>1 DEF Dark, Locked
    <2> QED BY <2>1, <2>2, <2>3 DEF Dark, Locked
  <1>4. CASE \/ PlugIn \/ cleanupBeforeDestroy \/ cleanDisplayResources \/ removeDisplay
             \/ addPhysicalDisplay \/ CallHotplug \/ CallRefresh \/ ModeRefused
    <2>1. req' = req /\ power' = power /\ sf'.at = sf.at
      BY <1>4 DEF TypeOK, SfState, PlugIn, cleanupBeforeDestroy, cleanDisplayResources,
         removeDisplay, addPhysicalDisplay, CallHotplug, CallRefresh, AsksRefresh, ModeRefused,
         KeepsPlanes
    <2>2. disp'.skip = disp.skip /\ (disp'.pairs = disp.pairs \/ disp'.pairs = NoPairs)
      BY ZenonT(60), <1>4 DEF TypeOK, DispState, PlugIn, cleanupBeforeDestroy, cleanDisplayResources,
         removeDisplay, addPhysicalDisplay, CallHotplug, CallRefresh, ModeRefused
    <2> QED BY <2>1, <2>2, DarkAside
  <1> QED BY <1>1, <1>2, <1>3, <1>4

LEMMA DarkBlanks ==
  ASSUME TypeOK, Dark,
         \/ setPowerMode \/ setActiveConfig \/ setDisplayMode \/ ModeSet \/ disableQms
         \/ QmsBlanks \/ QmsFlips \/ setViewPort \/ outsideChanged
  PROVE  Dark'
  <1>1. CASE setPowerMode
    <2>1. /\ power'.present = power.present /\ power'.mode = power.mode /\ disp' = disp
          /\ sf'.at = sf.at
      BY <1>1 DEF TypeOK, SfState, PowerState, setPowerMode, AsksRefresh
    <2>2. req' = req \/ blankDisplayLocked
      BY <1>1 DEF setPowerMode, KeepsPlanes
    <2> QED BY <2>1, <2>2, BlankedTypes, DarkCleared, DarkAside
  <1>2. CASE setActiveConfig
    BY <1>2, BlankedTypes, DarkCleared DEF setActiveConfig
  <1>3. CASE setDisplayMode
    <2>1. /\ ~Locked /\ ~Locked' /\ power' = setConnectorStatus(FALSE)
          /\ disp' = [disp EXCEPT !.skip = TRUE]
      BY <1>3 DEF setDisplayMode, Locked
    <2> QED BY <1>3, <2>1, BlankedTypes, DarkCleared DEF setDisplayMode
  <1>4. CASE disableQms \/ QmsFlips
    BY <1>4, NoFlipRequest, DarkCleared DEF disableQms, QmsFlips, Frees
  <1>5. CASE QmsBlanks
    <2>1. ASSUME NEW p \in DOMAIN req', req'[p].px # {}
          PROVE  p \in DOMAIN req /\ req'[p] = req[p]
      <3>1. p \in Plane
        BY <1>5, NoPairsTyped, SetPlanesTypes DEF QmsBlanks, Request
      <3> QED BY <1>5, <2>1, <3>1, NoPairsTyped, SetPlanesTypes, BlankShown DEF QmsBlanks
    <2> QED BY <1>5, <2>1 DEF QmsBlanks, Dark, Locked
  <1>6. CASE ModeSet \/ setViewPort \/ outsideChanged
    <2>1. req' = req /\ power' = power /\ sf'.at = sf.at
      BY <1>6 DEF TypeOK, SfState, ModeSet, setViewPort, outsideChanged, AsksRefresh, KeepsPlanes
    <2>2. disp'.skip = disp.skip /\ disp'.pairs = disp.pairs
      BY <1>6 DEF TypeOK, DispState, ModeSet, setViewPort, outsideChanged
    <2> QED BY <2>1, <2>2, DarkAside
  <1> QED BY <1>1, <1>2, <1>3, <1>4, <1>5, <1>6

LEMMA NextDark == TypeOK /\ Dark /\ [Next]_vars => Dark'
  <1> SUFFICES ASSUME TypeOK, Dark, [Next]_vars
               PROVE  Dark'
    OBVIOUS
  <1>1. CASE UNCHANGED vars
    BY <1>1 DEF vars, Dark, Locked
  <1> QED
    BY <1>1, DarkBetween, DarkValidate, DarkPresent, DarkFlip, DarkEvents, DarkBlanks DEF Next

----------------------------------------------------------------------------
(* The books on the layers *)

\* Live, from one layer to the next.
LEMMA LiveKept ==
  ASSUME \A l \in LayerId : layer'[l].live = layer[l].live
  PROVE  Live' = Live
  BY DEF Live

LEMMA LiveErased ==
  ASSUME TypeOK, NEW gone, layer' = Erased(gone)
  PROVE  Live' = Live \ gone
  BY ErasedTypes DEF Live

\* A step that leaves the books alone, and does not end what excuses them.
LEMMA BooksAside ==
  ASSUME Books, Live' = Live, res'.layers = res.layers,
         Known' = Known, sf'.layers \cap sf'.drop = {},
         sf.hotplug => sf'.hotplug,
         \/ sf'.hotplug
         \/ /\ ev.at \in Cleared => ev'.at \in Cleared
            /\ ev.at \in Removed => ev'.at \in Removed
  PROVE  Books'
  BY DEF Books, Known

LEMMA BooksSf ==
  ASSUME TypeOK, Books,
         \/ \E l \in LayerId : createLayer(l) \/ ContentFrame(l)
         \/ \E visible \in SUBSET LayerId : GeometryFrame(visible)
         \/ destroyLayer \/ OnHotplug
  PROVE  Books'
  <1>1. ASSUME NEW l \in LayerId, createLayer(l)
        PROVE  Books'
    <2>1. Live' = Live \cup {l}
      BY ZenonT(60), <1>1 DEF TypeOK, LayerState, Live, createLayer, NoLayer
    <2>2. /\ res'.layers = res.layers \cup {l} /\ ev' = ev
          /\ sf'.layers = sf.layers \cup {l} /\ sf'.drop = sf.drop /\ sf'.hotplug = sf.hotplug
          /\ l \notin sf.drop
      BY <1>1 DEF TypeOK, SfState, createLayer, AsksRefresh
    <2> QED BY <2>1, <2>2 DEF Books, Known
  <1>2. ASSUME NEW l \in LayerId, ContentFrame(l)
        PROVE  Books'
    <2>1. Live' = Live
      BY <1>2, ContentTypes, LiveKept
    <2>2. Known' = Known /\ sf'.layers \cap sf'.drop = {}
      BY <1>2, ContentTypes DEF Known, Books
    <2> QED BY <1>2, <2>1, <2>2, ContentTypes, BooksAside DEF ContentFrame
  <1>3. ASSUME NEW visible \in SUBSET LayerId, GeometryFrame(visible)
        PROVE  Books'
    <2>1. Live' = Live
      BY <1>3, GeometryTypes, LiveKept
    <2>2. Known' = Known /\ sf'.layers \cap sf'.drop = {}
      BY <1>3, GeometryTypes DEF Known
    <2> QED BY <1>3, <2>1, <2>2, GeometryTypes, BooksAside DEF GeometryFrame
  <1>4. CASE destroyLayer
    <2>1. Live' = Live \ sf.drop
      BY <1>4, LiveErased DEF destroyLayer
    <2>2. /\ res'.layers = res.layers \ sf.drop /\ ev' = ev
          /\ sf'.layers = sf.layers /\ sf'.drop = {} /\ sf'.hotplug = sf.hotplug
      BY <1>4 DEF TypeOK, SfState, destroyLayer
    <2> QED BY <2>1, <2>2 DEF Books, Known
  <1>5. CASE OnHotplug
    <2>1. Live' = Live \ (sf.layers \cup sf.drop)
      BY <1>5, LiveErased DEF OnHotplug
    <2>2. /\ res'.layers = res.layers \ (sf.layers \cup sf.drop) /\ ev' = ev
          /\ sf'.layers = {} /\ sf'.drop = {}
      BY <1>5 DEF TypeOK, SfState, OnHotplug, AsksRefresh
    <2> QED BY <2>1, <2>2 DEF Books, Known
  <1> QED BY <1>1, <1>2, <1>3, <1>4, <1>5

LEMMA BooksEv ==
  ASSUME TypeOK, Books,
         \/ ModeBegin \/ Unplug \/ PlugIn \/ cleanupBeforeDestroy \/ cleanDisplayResources
         \/ removeDisplay \/ addPhysicalDisplay \/ CallHotplug \/ CallRefresh \/ ModeRefused
         \/ \E told \in BOOLEAN : ModeComplete(told)
  PROVE  Books'
  <1>1. CASE cleanupBeforeDestroy
    <2>1. Live' = {}
      BY <1>1, LiveErased DEF cleanupBeforeDestroy
    <2>2. sf' = sf /\ res' = res /\ ev.at = "clean" /\ ev'.at = "target"
      BY <1>1 DEF TypeOK, EvState, cleanupBeforeDestroy
    <2> QED BY <2>1, <2>2 DEF Books, Known, Cleared, Removed
  <1>2. CASE removeDisplay
    <2>1. Live' = Live /\ sf' = sf /\ res'.layers = {} /\ ev.at = "remove" /\ ev'.at = "add"
      BY <1>2 DEF TypeOK, EvState, removeDisplay, Live
    <2> QED BY <2>1 DEF Books, Known, Cleared, Removed
  <1>3. CASE \/ ModeBegin \/ Unplug \/ PlugIn \/ cleanDisplayResources \/ addPhysicalDisplay
             \/ CallHotplug \/ CallRefresh \/ ModeRefused
             \/ \E told \in BOOLEAN : ModeComplete(told)
    <2>1. Live' = Live /\ res'.layers = res.layers /\ sf'.layers = sf.layers /\ sf'.drop = sf.drop
      BY <1>3 DEF TypeOK, SfState, Live, ModeBegin, Unplug, PlugIn, cleanDisplayResources,
         addPhysicalDisplay, CallHotplug, CallRefresh, AsksRefresh, ModeRefused, ModeComplete
    <2>2. sf'.hotplug = sf.hotplug \/ sf'.hotplug = TRUE
      BY <1>3 DEF TypeOK, SfState, ModeBegin, Unplug, PlugIn, cleanDisplayResources,
         addPhysicalDisplay, CallHotplug, CallRefresh, AsksRefresh, ModeRefused, ModeComplete
    <2>3. \/ sf'.hotplug = TRUE
          \/ /\ ev.at \in Cleared => ev'.at \in Cleared
             /\ ev.at \in Removed => ev'.at \in Removed
      <3>1. CASE ModeBegin \/ Unplug \/ PlugIn \/ ModeRefused
        BY <3>1 DEF TypeOK, EvState, ModeBegin, Unplug, PlugIn, ModeRefused, EventIdle, Cleared,
           Removed
      <3>2. CASE \E told \in BOOLEAN : ModeComplete(told)
        BY <3>2 DEF ModeComplete, EventIdle, Cleared, Removed
      <3>3. CASE cleanDisplayResources
        BY <3>3 DEF TypeOK, EvState, cleanDisplayResources, Cleared, Removed
      <3>4. CASE addPhysicalDisplay
        BY <3>4 DEF TypeOK, EvState, addPhysicalDisplay, Cleared, Removed
      <3>5. CASE CallHotplug
        BY <3>5 DEF TypeOK, SfState, CallHotplug
      <3>6. CASE CallRefresh
        BY <3>6 DEF CallRefresh, Cleared, Removed
      <3> QED BY <1>3, <3>1, <3>2, <3>3, <3>4, <3>5, <3>6
    <2> QED BY <2>1, <2>2, <2>3, BooksAside DEF Books, Known
  <1> QED BY <1>1, <1>2, <1>3

\* The steps that none of the books sees.
LEMMA BooksRest ==
  ASSUME TypeOK, Books,
         \/ setPowerMode \/ setActiveConfig \/ RefreshFrame \/ Calibrate \/ validateDisplay
         \/ getChangedCompositionTypes \/ acceptDisplayChanges \/ setClientTarget
         \/ presentOrValidate \/ presentDisplay \/ commit \/ pageFlip \/ FlipRefused
         \/ setDisplayMode \/ ModeSet \/ disableQms \/ QmsBlanks \/ QmsFlips
         \/ setViewPort \/ outsideChanged
  PROVE  Books'
  <1>1. \A l \in LayerId : layer'[l].live = layer[l].live
    <2>1. CASE validateDisplay
      BY <2>1, ValidateSteps
    <2>2. CASE acceptDisplayChanges
      BY <2>2 DEF TypeOK, LayerState, acceptDisplayChanges
    <2>3. CASE commit
      BY <2>3 DEF TypeOK, LayerState, commit
    <2>4. CASE layer' = layer \/ ClearUpdateFlags
      BY <2>4, FlagsTypes
    <2> QED
      BY <2>1, <2>2, <2>3, <2>4 DEF setPowerMode, setActiveConfig, RefreshFrame, Calibrate,
         getChangedCompositionTypes, setClientTarget, presentOrValidate, presentDisplay, Presents,
         pageFlip, FlipRefused, setDisplayMode, ModeSet, disableQms, QmsBlanks, QmsFlips,
         setViewPort, outsideChanged
  <1>2. Live' = Live
    BY <1>1, LiveKept
  <1>3. res'.layers = res.layers
    BY DEF TypeOK, setPowerMode, setActiveConfig, RefreshFrame, Calibrate, validateDisplay,
       getChangedCompositionTypes, acceptDisplayChanges, setClientTarget, presentOrValidate,
       presentDisplay, Presents, commit, pageFlip, FlipRefused, setDisplayMode, ModeSet,
       disableQms, QmsBlanks, QmsFlips, setViewPort, outsideChanged
  <1>4. ev'.at = ev.at
    BY DEF TypeOK, EvState, setPowerMode, setActiveConfig, RefreshFrame, Calibrate, validateDisplay,
       getChangedCompositionTypes, acceptDisplayChanges, setClientTarget, presentOrValidate,
       presentDisplay, Presents, commit, pageFlip, FlipRefused, setDisplayMode, ModeSet, SetsMode,
       disableQms, QmsBlanks, QmsFlips, setViewPort, outsideChanged
  <1>5. sf'.layers = sf.layers /\ sf'.drop = sf.drop /\ sf'.hotplug = sf.hotplug
    BY ZenonT(60) DEF TypeOK, SfState, setPowerMode, setActiveConfig, RefreshFrame, Starts, Calibrate,
       validateDisplay, getChangedCompositionTypes, acceptDisplayChanges, setClientTarget,
       presentOrValidate, presentDisplay, Presents, commit, pageFlip, FlipRefused, setDisplayMode,
       ModeSet, disableQms, QmsBlanks, QmsFlips, setViewPort, outsideChanged, AsksRefresh
  <1> QED BY <1>2, <1>3, <1>4, <1>5, BooksAside DEF Books, Known

LEMMA NextBooks == TypeOK /\ Books /\ [Next]_vars => Books'
  <1> SUFFICES ASSUME TypeOK, Books, [Next]_vars
               PROVE  Books'
    OBVIOUS
  <1>1. CASE UNCHANGED vars
    BY <1>1 DEF vars, Books, Known, Live
  <1> QED BY <1>1, BooksSf, BooksEv, BooksRest DEF Next

----------------------------------------------------------------------------
(* The theorems *)

LEMMA InitKeeps == Init => IInv
  <1> SUFFICES ASSUME Init
               PROVE  IInv
    OBVIOUS
  <1>1. Dark
    BY NoFlipRequest DEF Init, Dark, Locked
  <1>2. Live = {}
    BY DEF Init, Live, NoLayer
  <1>3. Books
    BY <1>2 DEF Init, Books, Known
  <1> QED BY <1>1, <1>3, InitTypes DEF IInv

LEMMA Invariance == Spec => []IInv
  <1>1. IInv /\ [Next]_vars => IInv'
    BY NextTypes, NextDark, NextBooks DEF IInv
  <1> QED BY InitKeeps, <1>1, PTL DEF Spec

\* Frames, plugs, modes and calls of the service, in any number and order, leave every
\* variable of its type: a request only sets planes there are, and a plane is only
\* given layers, the client target or nothing.
THEOREM TypeCorrect == Spec => []TypeOK
  BY Invariance, PTL DEF IInv

\* When nothing is under way SurfaceFlinger, ComposerResources and the display have
\* the same layers, though the event thread clears two of the books in several steps
\* between SurfaceFlinger's calls.
THEOREM BooksAgree == Spec => []LayersAgree
  <1>1. Books => LayersAgree
    BY DEF Books, Known, LayersAgree, Settled, Cleared, Removed
  <1> QED BY <1>1, Invariance, PTL DEF IInv

\* What the kernel shows changes only by a commit of the request, and that has
\* nothing to show while the connector is down.
LEMMA ShowsWhenUp ==
  ASSUME IInv, Next, NEW p \in Plane, kernel'[p] # kernel[p], kernel'[p].px # {}
  PROVE  power.present
  <1>1. CASE kernel' = Committed(req)
    BY <1>1 DEF IInv, Dark, Committed
  <1>2. CASE blankDisplayLocked
    BY <1>2, BlankShown DEF blankDisplayLocked
  <1>3. kernel' = kernel \/ kernel' = Committed(req) \/ blankDisplayLocked
    BY DEF Next, createLayer, ContentFrame, GeometryFrame, destroyLayer, OnHotplug, setPowerMode,
       setActiveConfig, RefreshFrame, Calibrate, validateDisplay, getChangedCompositionTypes,
       acceptDisplayChanges, setClientTarget, presentOrValidate, presentDisplay, Presents, commit,
       pageFlip, FlipRefused, ModeBegin, ModeComplete, Unplug, PlugIn, cleanupBeforeDestroy,
       cleanDisplayResources, removeDisplay, addPhysicalDisplay, CallHotplug, CallRefresh,
       ModeRefused, setDisplayMode, ModeSet, disableQms, QmsBlanks, QmsFlips, setViewPort,
       outsideChanged, KeepsPlanes
  <1> QED BY <1>1, <1>2, <1>3

\* No frame that was validated before a mode change, an unplug or a blank puts anything
\* on the screen after it, for any number of planes and threads' steps in between.
THEOREM DarkWhileDown == Spec => DarkWhileChanging
  <1>1. IInv /\ [Next]_vars
          => [\A p \in Plane : kernel'[p] # kernel[p] /\ kernel'[p].px # {} => power.present]_vars
    BY ShowsWhenUp
  <1> QED BY <1>1, Invariance, PTL DEF Spec, DarkWhileChanging

----------------------------------------------------------------------------
(***************************************************************************)
(* The screen follows SurfaceFlinger.  The invariant Screen says how far every *)
(* framebuffer is on its way: from SurfaceFlinger's book to the layer          *)
(* (Newest), from the layers to the strategy's choice (Drawn, Plan, Composes), *)
(* from there to the planes and the request (Marked, Drew), and who owes the   *)
(* next frame when it is not there yet (Connected, Asked, TakenIn).            *)
(***************************************************************************)

\* No hotplug is under way that SurfaceFlinger will give up its layers for, and the
\* driver has refused nothing; and besides it the connector is up and nothing outside
\* the layers has changed since they were validated.
Sound == ~sf.hotplug /\ ev.at \notin Cleared /\ ~dropped
Clear == Sound /\ ~disp.outside /\ power.present

Early == sf.at \in {"try", "calibrate", "validate"}
Validated == sf.at \in {"learn", "accept", "target", "present"}
Late == Validated \/ Locked

\* What makes SurfaceFlinger draw another frame, sooner or later.
Owed == \/ sf.refresh \/ sf.hotplug \/ dropped \/ ~power.on
        \/ ~ev.plugged \/ ev.pending \/ ev.changing \/ ev.at # "idle" \/ svc # "idle"

\* What a plane will show once the request is committed, and what it should show.
Soon(p) == Committed(req)[p].px
ForClient(l) == layer[l].comp = "CLIENT"
Composed == {l \in sf.layers : ForClient(l)}
TargetPx == {<<l, sf.want[l]>> : l \in Composed}
PairPx(p) == IF disp.pairs[p] = None THEN {}
             ELSE IF disp.pairs[p] = Target THEN TargetPx
             ELSE {<<disp.pairs[p], sf.want[disp.pairs[p]]>>}
GivesTarget == \E p \in Plane : disp.pairs[p] = Target

\* The request is empty between two flips, and a plane without a framebuffer is dark.
InStep ==
    /\ svc # "flip" /\ sf.at # "flip" => req = NoFlip
    /\ \A p \in Plane : plane[p].blank <=> plane[p].fb = None
    /\ ~dropped => \A p \in Plane : plane[p].fb = None => Soon(p) = {}

\* A frame is drawn with the power on and of layers that all have a buffer.
InFrame ==
    /\ sf.at # "idle" => ~sf.geo /\ power.on
    /\ ~sf.geo => \A l \in sf.layers : sf.want[l] > 0

\* The connector is down for as long as a mode is on its way, and while it is up the
\* composition is only skipped for an empty screen.
Connected ==
    /\ power.mode = "OUT" => ~power.present
    /\ ~power.present => svc = "mode" \/ ev.pending \/ ev.changing \/ ~ev.plugged \/ dropped
    /\ disp.skip => ~power.present \/ disp.present = {}

\* The layers have SurfaceFlinger's newest buffers.
Newest == Sound => \A l \in Live : layer[l].buf = sf.want[l]

\* A validated display stays so until it is presented, unless the resources want it
\* validated again.
Asked ==
    /\ Validated => disp.valid
    /\ Validated /\ res.must => ~Sound
    /\ disp.valid => Validated \/ res.must \/ ev.at = "add"
    /\ ~res.has => ev.at = "add"

\* Whether a frame changes the geometry or not, validateDisplay collects exactly the
\* layers SurfaceFlinger has; a present without it has them already.
Same == /\ sf.drop = {} /\ \A l \in Live : ~layer[l].z
        /\ disp.present \subseteq sf.layers \/ sf.layers = {}
Moved == /\ sf.layers # {}
         /\ \A l \in Live : layer[l].z <=> l \in sf.layers
         /\ \A l \in sf.layers : layer[l].updated
Drawn ==
    Sound =>
      /\ sf.at = "idle" => \A l \in Live : ~layer[l].updated /\ ~layer[l].z
      /\ Late => disp.present = sf.layers
      /\ sf.at = "idle" => disp.present \subseteq sf.layers \/ sf.layers = {} \/ sf.geo
      /\ Early => Same \/ Moved

\* The strategy's last choice covers the layers that were presented.
Covers ==
    /\ \A p \in Plane : disp.pairs[p] \in disp.present \cup {Target, None}
    /\ \A l \in disp.present : ForClient(l) <=> \A p \in Plane : disp.pairs[p] # l
    /\ GivesTarget <=> \E l \in disp.present : ForClient(l)
Plan == ~disp.outside /\ power.present /\ disp.present # {} => Covers

\* A plane that was given a layer shows the layer's newest buffer, or the layer is
\* marked, so that setPlane does not return early.
Marked ==
    Clear => \A p \in Plane : \A l \in sf.layers : plane[p].fb = l =>
        \/ Soon(p) = {<<l, layer[l].buf>>}
        \/ sf.at # "flip" /\ (layer[l].fresh \/ layer[l].updated)

\* SurfaceFlinger composes what has no plane, and hands that over before it presents.
Composes ==
    Sound =>
      /\ sf.at \in {"accept", "target", "present"} => sf.client = Composed
      /\ sf.at = "present" /\ sf.client # {} => disp.target.new /\ disp.target.px = TargetPx
      /\ sf.at = "commit" /\ sf.layers # {} /\ Clear /\ GivesTarget
           => disp.target.new /\ disp.target.px = TargetPx

\* A change outside the layers is taken in by the frame that was asked for it.
TakenIn == disp.outside /\ ~Owed => sf.layers = {} \/ sf.geo \/ Early

\* With nothing owed the planes show what the last frame gave them.
Drew ==
    sf.at \in {"idle", "flip"} /\ ~Owed /\ sf.layers # {} /\ ~sf.geo
      => disp.present = sf.layers /\ \A p \in Plane : Soon(p) = PairPx(p)

Screen == /\ InStep /\ InFrame /\ Connected /\ Newest /\ Asked /\ Drawn /\ Plan /\ Marked
          /\ Composes /\ TakenIn /\ Drew

----------------------------------------------------------------------------
(* Planes *)

LEMMA SoonIs ==
  ASSUME NEW p \in Plane
  PROVE  /\ p \in DOMAIN req => Soon(p) = req[p].px
         /\ p \notin DOMAIN req => Soon(p) = kernel[p].px
  BY DEF Soon, Committed

\* setPlane leaves the plane as it is, or shows the framebuffer.
LEMMA PlaneSet ==
  ASSUME TypeOK, NEW pairs \in [Plane -> Fb], SetPlanes(pairs), kernel' = kernel, NEW p \in Plane
  PROVE  /\ Skips(p, pairs[p]) => plane'[p] = plane[p] /\ Soon(p)' = Soon(p)
         /\ ~Skips(p, pairs[p]) =>
               /\ plane'[p].fb = pairs[p] /\ (plane'[p].blank <=> pairs[p] = None)
               /\ Soon(p)' = (IF pairs[p] = None THEN Blank ELSE Pixels(pairs[p])).px
  <1>1. /\ plane'[p] = IF Skips(p, pairs[p]) THEN plane[p]
                       ELSE [fb |-> pairs[p], blank |-> pairs[p] = None]
        /\ p \in DOMAIN req' <=> p \in DOMAIN req \/ ~Skips(p, pairs[p])
        /\ p \in DOMAIN req' => req'[p] = IF Skips(p, pairs[p]) THEN req[p]
                                          ELSE IF pairs[p] = None THEN Blank ELSE Pixels(pairs[p])
    BY DEF SetPlanes
  <1>2. /\ p \in DOMAIN req' => Soon(p)' = req'[p].px
        /\ p \notin DOMAIN req' => Soon(p)' = kernel[p].px
    BY DEF Soon, Committed
  <1>3. CASE Skips(p, pairs[p])
    <2>1. plane'[p] = plane[p]
      BY <1>1, <1>3
    <2>2. CASE p \in DOMAIN req
      BY <1>1, <1>2, <1>3, <2>2, SoonIs
    <2>3. CASE p \notin DOMAIN req
      BY <1>1, <1>2, <1>3, <2>3, SoonIs
    <2> QED BY <2>1, <2>2, <2>3, <1>3
  <1>4. CASE ~Skips(p, pairs[p])
    <2>1. plane'[p] = [fb |-> pairs[p], blank |-> pairs[p] = None]
      BY <1>1, <1>4
    <2>a. ASSUME NEW b \in BOOLEAN, plane'[p] = [fb |-> pairs[p], blank |-> b]
          PROVE  plane'[p].fb = pairs[p] /\ plane'[p].blank = b
      BY <2>a
    <2>2. plane'[p].fb = pairs[p] /\ (plane'[p].blank <=> pairs[p] = None)
      BY <2>1, <2>a
    <2>3. p \in DOMAIN req' /\ req'[p] = IF pairs[p] = None THEN Blank ELSE Pixels(pairs[p])
      BY <1>1, <1>4
    <2>4. Soon(p)' = (IF pairs[p] = None THEN Blank ELSE Pixels(pairs[p])).px
      BY <1>2, <2>3
    <2> QED BY <1>4, <2>2, <2>4
  <1> QED BY <1>3, <1>4

\* All planes are blanked at once, or one by one in disableQms: they go dark.
LEMMA AllDark ==
  ASSUME TypeOK, InStep,
         blankDisplayLocked \/ (SetPlanes(NoPairs) /\ UNCHANGED <<kernel, dropped>>)
  PROVE  /\ \A p \in Plane : plane'[p].fb = None /\ plane'[p].blank
         /\ ~dropped' => \A p \in Plane : Soon(p)' = {}
         /\ dropped => dropped'
  <1>1. CASE blankDisplayLocked
    <2>1. /\ plane' = [p \in Plane |-> [fb |-> None, blank |-> TRUE]]
          /\ kernel' = [p \in Plane |-> IF plane[p].blank THEN kernel[p] ELSE Blank]
          /\ req' = NoFlip /\ dropped' = (dropped \/ req # NoFlip)
      BY <1>1 DEF blankDisplayLocked, Frees
    <2>2. ASSUME ~dropped', NEW p \in Plane
          PROVE  Soon(p)' = {}
      <3>1. Soon(p)' = kernel'[p].px
        BY <2>1, NoFlipRequest DEF Soon, Committed
      <3>2. req = NoFlip /\ ~dropped
        BY <2>1, <2>2
      <3>3. Soon(p) = kernel[p].px
        BY <3>2, NoFlipRequest, SoonIs
      <3>4. plane[p].blank => kernel[p].px = {}
        BY <3>2, <3>3 DEF InStep
      <3> QED BY <2>1, <3>1, <3>4, BlankShown
    <2> QED BY <2>1, <2>2
  <1>2. CASE SetPlanes(NoPairs) /\ UNCHANGED <<kernel, dropped>>
    <2>1. ASSUME NEW p \in Plane
          PROVE  plane'[p].fb = None /\ plane'[p].blank /\ (~dropped' => Soon(p)' = {})
      <3>1. NoPairs \in [Plane -> Fb] /\ NoPairs[p] = None
        BY NoPairsTyped
      <3>2. CASE Skips(p, None)
        <4>1. plane[p].blank /\ plane[p].fb = None
          BY <3>2 DEF Skips, InStep
        <4> QED BY <1>2, <3>1, <3>2, <4>1, PlaneSet DEF InStep
      <3>3. CASE ~Skips(p, None)
        BY <1>2, <3>1, <3>3, PlaneSet, BlankShown
      <3> QED BY <3>2, <3>3
    <2> QED BY <1>2, <2>1
  <1> QED BY <1>1, <1>2

\* What a commit of the request leaves to come.
LEMMA Flipped ==
  ASSUME TypeOK, kernel' = Committed(req), req' = NoFlip, NEW p \in Plane
  PROVE  Soon(p)' = Soon(p)
  BY NoFlipRequest DEF Soon, Committed

----------------------------------------------------------------------------
(* Steps beside a frame *)

\* What SurfaceFlinger and the display have of a frame stays.
SameFrame ==
    /\ sf'.at = sf.at /\ sf'.layers = sf.layers /\ sf'.drop = sf.drop /\ sf'.want = sf.want
    /\ sf'.client = sf.client /\ sf'.geo = sf.geo
    /\ layer' = layer
    /\ disp'.present = disp.present /\ disp'.pairs = disp.pairs /\ disp'.target = disp.target
    /\ disp'.valid = disp.valid

\* No hotplug ends, and what was validated does not become valid again.
NoBetter ==
    /\ Sound' => Sound
    /\ ~disp'.outside /\ power'.present => ~disp.outside /\ power.present
    /\ sf.at # "idle" => power'.on = power.on

LEMMA Beside ==
  ASSUME InFrame, Newest, Drawn, Plan, Composes, SameFrame, NoBetter
  PROVE  InFrame' /\ Newest' /\ Drawn' /\ Plan' /\ Composes'
  <1>1. InFrame'
    BY DEF InFrame, SameFrame, NoBetter
  <1>2. Newest'
    BY DEF Newest, SameFrame, NoBetter, Live
  <1>3. Drawn'
    BY DEF Drawn, Same, Moved, Early, Late, Validated, Locked, SameFrame, NoBetter, Live
  <1>4. Plan'
    BY DEF Plan, Covers, GivesTarget, ForClient, SameFrame, NoBetter
  <1>5. Clear' => Clear
    BY DEF Clear, NoBetter
  <1>6. Composed' = Composed /\ TargetPx' = TargetPx /\ GivesTarget' = GivesTarget
    BY DEF Composed, TargetPx, GivesTarget, ForClient, SameFrame
  <1>7. Composes'
    BY <1>5, <1>6 DEF Composes, SameFrame, NoBetter
  <1> QED BY <1>1, <1>2, <1>3, <1>4, <1>7

LEMMA InStepAside ==
  ASSUME InStep, plane' = plane, req' = req, kernel' = kernel, sf'.at = sf.at, svc' # "flip" => svc # "flip",
         ~dropped' => ~dropped
  PROVE  InStep' /\ \A p \in Plane : Soon(p)' = Soon(p)
  <1>1. \A p \in Plane : Soon(p)' = Soon(p)
    BY DEF Soon, Committed
  <1> QED BY <1>1 DEF InStep

LEMMA MarkedAside ==
  ASSUME Marked, sf'.at = sf.at, sf'.layers = sf.layers, layer' = layer, Clear' => Clear,
         plane' = plane, \A p \in Plane : Soon(p)' = Soon(p)
  PROVE  Marked'
  BY DEF Marked

LEMMA MarkedDark ==
  ASSUME TypeOK', \A p \in Plane : plane'[p].fb = None
  PROVE  Marked'
  BY PresentAssumption DEF Marked, TypeOK, SfState

\* While the layers are being given up nothing is claimed of them.
LEMMA Unsound ==
  ASSUME ~Sound'
  PROVE  Newest' /\ Drawn' /\ Marked' /\ Composes'
  BY DEF Newest, Drawn, Marked, Composes, Clear

\* The event thread, between the frames of SurfaceFlinger.
LEMMA EvFrame ==
  ASSUME TypeOK,
         \/ ModeBegin \/ Unplug \/ PlugIn \/ removeDisplay
         \/ addPhysicalDisplay \/ CallHotplug \/ CallRefresh \/ ModeRefused
         \/ \E told \in BOOLEAN : ModeComplete(told)
  PROVE  SameFrame /\ NoBetter
  <1>1. CASE ModeBegin \/ Unplug
    <2>1. sf' = sf /\ layer' = layer /\ disp' = [disp EXCEPT !.skip = TRUE] /\ power' = setConnectorStatus(FALSE)
      BY <1>1 DEF ModeBegin, Unplug
    <2>2. /\ disp'.present = disp.present /\ disp'.pairs = disp.pairs /\ disp'.target = disp.target
          /\ disp'.valid = disp.valid
      BY <2>1 DEF TypeOK, DispState
    <2>3. ~power'.present /\ power'.on = power.on
      BY <2>1, ConnectorStatus DEF TypeOK, PowerState, setConnectorStatus
    <2>4. Sound' => Sound
      <3>1. ev.at = "idle" /\ (~dropped' => ~dropped)
        <4>1. CASE ModeBegin
          BY <4>1 DEF ModeBegin, EventIdle
        <4>2. CASE Unplug
          BY <4>2 DEF Unplug, EventIdle, blankDisplayLocked, Frees
        <4> QED BY <1>1, <4>1, <4>2
      <3> QED BY <2>1, <3>1 DEF Sound, Cleared
    <2> QED BY <2>1, <2>2, <2>3, <2>4 DEF SameFrame, NoBetter
  <1>2. CASE \E told \in BOOLEAN : ModeComplete(told)
    <2>1. /\ sf' = sf /\ layer' = layer /\ disp' = [disp EXCEPT !.skip = FALSE, !.outside = TRUE]
          /\ power' = setConnectorStatus(TRUE) /\ dropped' = dropped /\ ev.at = "idle"
      BY <1>2 DEF ModeComplete, EventIdle
    <2>2. /\ disp'.present = disp.present /\ disp'.pairs = disp.pairs /\ disp'.target = disp.target
          /\ disp'.valid = disp.valid /\ disp'.outside
      BY <2>1 DEF TypeOK, DispState
    <2>3. power'.on = power.on
      BY <2>1 DEF TypeOK, PowerState, setConnectorStatus
    <2> QED BY <2>1, <2>2, <2>3 DEF SameFrame, NoBetter, Sound, Cleared
  <1>3. CASE PlugIn \/ removeDisplay \/ addPhysicalDisplay \/ ModeRefused
    <2>1. sf' = sf /\ layer' = layer /\ disp' = disp /\ power' = power
      BY <1>3 DEF PlugIn, removeDisplay, addPhysicalDisplay, ModeRefused
    <2>2. Sound' => Sound
      <3>1. CASE PlugIn
        BY <3>1, <2>1 DEF Sound, PlugIn, EventIdle, Cleared
      <3>2. CASE removeDisplay \/ addPhysicalDisplay
        BY <3>2, <2>1 DEF TypeOK, EvState, Sound, removeDisplay, addPhysicalDisplay, Cleared
      <3>3. CASE ModeRefused
        BY <3>3 DEF Sound, ModeRefused
      <3> QED BY <1>3, <3>1, <3>2, <3>3
    <2> QED BY <2>1, <2>2 DEF SameFrame, NoBetter
  <1>4. CASE CallHotplug \/ CallRefresh
    <2>1. /\ layer' = layer /\ disp' = disp /\ power' = power /\ dropped' = dropped
          /\ sf'.at = sf.at /\ sf'.layers = sf.layers /\ sf'.drop = sf.drop /\ sf'.want = sf.want
          /\ sf'.client = sf.client /\ sf'.geo = sf.geo
      BY <1>4 DEF TypeOK, SfState, CallHotplug, CallRefresh, AsksRefresh
    <2>2. Sound' => Sound
      BY <1>4 DEF TypeOK, SfState, CallHotplug, CallRefresh, AsksRefresh, Sound, Cleared
    <2> QED BY <2>1, <2>2 DEF SameFrame, NoBetter
  <1> QED BY <1>1, <1>2, <1>3, <1>4

\* The service, and SurfaceFlinger's calls that blank.
LEMMA SvcFrame ==
  ASSUME TypeOK,
         \/ setPowerMode \/ setActiveConfig \/ setDisplayMode \/ ModeSet \/ disableQms
         \/ QmsBlanks \/ QmsFlips \/ setViewPort \/ outsideChanged
  PROVE  SameFrame /\ NoBetter
  <1>1. /\ layer' = layer /\ (~dropped' => ~dropped) /\ ev'.at = ev.at
        /\ sf'.at = sf.at /\ sf'.layers = sf.layers /\ sf'.drop = sf.drop /\ sf'.want = sf.want
        /\ sf'.client = sf.client /\ sf'.geo = sf.geo /\ sf'.hotplug = sf.hotplug
    BY DEF TypeOK, SfState, EvState, setPowerMode, setActiveConfig, setDisplayMode, ModeSet, SetsMode,
       disableQms, QmsBlanks, QmsFlips, setViewPort, outsideChanged, AsksRefresh, blankDisplayLocked,
       Frees
  <1>2. /\ disp'.present = disp.present /\ disp'.pairs = disp.pairs /\ disp'.target = disp.target
        /\ disp'.valid = disp.valid /\ (disp'.outside = disp.outside \/ disp'.outside)
    BY DEF TypeOK, DispState, setPowerMode, setActiveConfig, setDisplayMode, ModeSet,
       disableQms, QmsBlanks, QmsFlips, setViewPort, outsideChanged
  <1>3. CASE setPowerMode
    BY <1>1, <1>2, <1>3 DEF TypeOK, PowerState, setPowerMode, SameFrame, NoBetter, Sound
  <1>4. CASE setDisplayMode
    <2>1. ~power'.present /\ power'.on = power.on
      BY <1>4, ConnectorStatus DEF TypeOK, PowerState, setConnectorStatus, setDisplayMode
    <2> QED BY <1>1, <1>2, <2>1 DEF SameFrame, NoBetter, Sound
  <1>5. CASE power' = power
    BY <1>1, <1>2, <1>5 DEF SameFrame, NoBetter, Sound
  <1> QED BY <1>3, <1>4, <1>5 DEF setActiveConfig, ModeSet, disableQms, QmsBlanks, QmsFlips,
             setViewPort, outsideChanged

EvSteps == \/ ModeBegin \/ Unplug \/ PlugIn \/ removeDisplay
           \/ addPhysicalDisplay \/ CallHotplug \/ CallRefresh \/ ModeRefused
           \/ \E told \in BOOLEAN : ModeComplete(told)
SvcSteps == \/ setPowerMode \/ setActiveConfig \/ setDisplayMode \/ ModeSet \/ disableQms
            \/ QmsBlanks \/ QmsFlips \/ setViewPort \/ outsideChanged

\* Whatever the event thread and the service do, another frame is owed after it.
LEMMA EvOwes ==
  ASSUME TypeOK, EvSteps \/ cleanupBeforeDestroy \/ cleanDisplayResources
  PROVE  Owed'
  <1>1. CASE ModeBegin \/ Unplug \/ PlugIn
    BY <1>1 DEF TypeOK, EvState, ModeBegin, Unplug, PlugIn, Owed
  <1>a. CASE CallHotplug \/ CallRefresh
    BY <1>a DEF TypeOK, SfState, CallHotplug, CallRefresh, AsksRefresh, Owed
  <1>b. CASE ModeRefused
    BY <1>b DEF ModeRefused, Owed
  <1>2. CASE removeDisplay \/ addPhysicalDisplay \/ cleanupBeforeDestroy \/ cleanDisplayResources
    BY <1>2 DEF TypeOK, EvState, removeDisplay, addPhysicalDisplay, cleanupBeforeDestroy,
       cleanDisplayResources, Owed
  <1>3. CASE \E told \in BOOLEAN : ModeComplete(told)
    BY <1>3 DEF TypeOK, EvState, ModeComplete, Owed
  <1> QED BY <1>1, <1>a, <1>b, <1>2, <1>3 DEF EvSteps

LEMMA SvcOwes ==
  ASSUME TypeOK, SvcSteps
  PROVE  Owed'
  <1>1. CASE setPowerMode \/ setActiveConfig \/ setDisplayMode \/ outsideChanged
    BY <1>1 DEF TypeOK, SfState, EvState, PowerState, setPowerMode, AsksRefresh, setActiveConfig,
       setDisplayMode, outsideChanged, Owed
  <1>2. CASE disableQms \/ QmsBlanks \/ QmsFlips \/ setViewPort
    BY <1>2 DEF disableQms, QmsBlanks, QmsFlips, setViewPort, Owed
  <1>3. CASE ModeSet
    BY <1>3 DEF TypeOK, EvState, ModeSet, SetsMode, Owed
  <1> QED BY <1>1, <1>2, <1>3 DEF SvcSteps

\* What is owed excuses the screen.
LEMMA Excused ==
  ASSUME Owed'
  PROVE  TakenIn' /\ Drew'
  BY DEF TakenIn, Drew

LEMMA ConnectorMode ==
  ASSUME TypeOK, Connected, NEW on \in BOOLEAN, power' = setConnectorStatus(on)
  PROVE  /\ power'.present = on
         /\ power'.mode = "OUT" => ~power'.present
  BY DEF TypeOK, PowerState, Connected, setConnectorStatus

LEMMA EvConnected ==
  ASSUME TypeOK, Connected, EvSteps
  PROVE  Connected'
  <1>1. CASE ModeBegin \/ Unplug
    <2>1. power'.present = FALSE
      BY <1>1, ConnectorMode DEF ModeBegin, Unplug
    <2>2. ev'.changing \/ ~ev'.plugged
      BY <1>1 DEF TypeOK, EvState, ModeBegin, Unplug
    <2> QED BY <2>1, <2>2 DEF Connected
  <1>2. CASE \E told \in BOOLEAN : ModeComplete(told)
    <2>1. power'.present = TRUE /\ power'.mode # "OUT"
      BY <1>2, ConnectorMode DEF ModeComplete
    <2>2. ~disp'.skip
      BY <1>2 DEF TypeOK, DispState, ModeComplete
    <2> QED BY <2>1, <2>2 DEF Connected
  <1>3. CASE PlugIn \/ removeDisplay \/ addPhysicalDisplay \/ CallHotplug \/ CallRefresh \/ ModeRefused
    BY <1>3 DEF TypeOK, EvState, PlugIn, removeDisplay, addPhysicalDisplay, CallHotplug, CallRefresh,
       ModeRefused, Connected
  <1> QED BY <1>1, <1>2, <1>3 DEF EvSteps

LEMMA SvcConnected ==
  ASSUME TypeOK, Connected, SvcSteps
  PROVE  Connected'
  <1>1. CASE setDisplayMode
    <2>1. power'.present = FALSE
      BY <1>1, ConnectorMode DEF setDisplayMode
    <2> QED BY <1>1, <2>1 DEF setDisplayMode, Connected
  <1>2. CASE setPowerMode
    <2>1. power'.present = power.present /\ power'.mode = power.mode /\ disp' = disp /\ ev' = ev /\ svc' = svc
      BY <1>2 DEF TypeOK, PowerState, setPowerMode
    <2>2. dropped => dropped'
      BY <1>2 DEF setPowerMode, blankDisplayLocked, Frees
    <2> QED BY <2>1, <2>2 DEF Connected
  <1>3. CASE setActiveConfig \/ disableQms \/ setViewPort
    <2>1. /\ power' = power /\ disp'.skip = disp.skip /\ disp'.present = disp.present
          /\ (dropped => dropped')
      BY <1>3 DEF TypeOK, DispState, setActiveConfig, disableQms, setViewPort, blankDisplayLocked, Frees
    <2>2. /\ svc = "mode" => svc' = "mode"
          /\ (ev.changing => ev'.changing) /\ ev'.plugged = ev.plugged /\ (ev.pending => ev'.pending)
      BY <1>3 DEF TypeOK, EvState, setActiveConfig, disableQms, setViewPort, Call, HoldsStateLock
    <2> QED BY <2>1, <2>2 DEF Connected
  <1>4. CASE QmsBlanks \/ QmsFlips \/ outsideChanged
    <2>1. /\ power' = power /\ disp'.skip = disp.skip /\ disp'.present = disp.present
          /\ ev' = ev /\ dropped' = dropped /\ svc # "mode"
      BY <1>4 DEF TypeOK, DispState, QmsBlanks, QmsFlips, outsideChanged
    <2> QED BY <2>1 DEF Connected
  <1>5. CASE ModeSet
    <2>1. ev'.pending = ev.plugged /\ ev'.plugged = ev.plugged
      BY <1>5 DEF TypeOK, EvState, ModeSet, SetsMode
    <2> QED BY <1>5, <2>1 DEF ModeSet, Connected
  <1> QED BY <1>1, <1>2, <1>3, <1>4, <1>5 DEF SvcSteps

LEMMA EvAsked ==
  ASSUME TypeOK, Asked, EvSteps
  PROVE  Asked'
  <1>1. sf'.at = sf.at /\ disp'.valid = disp.valid /\ (Sound' => Sound)
    BY EvFrame DEF EvSteps, SameFrame, NoBetter
  <1>2. CASE removeDisplay \/ addPhysicalDisplay
    <2>1. CASE removeDisplay
      BY <1>1, <2>1 DEF TypeOK, EvState, removeDisplay, Asked, Validated
    <2>2. CASE addPhysicalDisplay
      <3>1. ev'.at = "call" /\ res'.must /\ res'.has
        BY <2>2 DEF TypeOK, EvState, addPhysicalDisplay
      <3> QED BY <1>1, <3>1 DEF Asked, Validated, Sound, Cleared
    <2> QED BY <1>2, <2>1, <2>2
  <1>3. CASE res' = res /\ ev.at # "add"
    BY <1>1, <1>3 DEF Asked, Validated
  <1>4. CASE res' = res /\ ev'.at = ev.at
    BY <1>1, <1>4 DEF Asked, Validated
  <1>5. CASE ModeBegin \/ Unplug \/ PlugIn \/ CallHotplug \/ CallRefresh
             \/ (\E told \in BOOLEAN : ModeComplete(told))
    <2>1. res' = res /\ ev.at # "add"
      BY <1>5 DEF ModeBegin, Unplug, PlugIn, CallHotplug, CallRefresh, ModeComplete, EventIdle
    <2> QED BY <1>3, <2>1
  <1>6. CASE ModeRefused
    <2>1. res' = res /\ ev'.at = ev.at
      BY <1>6 DEF TypeOK, EvState, ModeRefused
    <2> QED BY <1>4, <2>1
  <1> QED BY <1>2, <1>5, <1>6 DEF EvSteps

LEMMA SvcAsked ==
  ASSUME TypeOK, Asked, SvcSteps
  PROVE  Asked'
  <1>1. sf'.at = sf.at /\ disp'.valid = disp.valid /\ (Sound' => Sound)
    BY SvcFrame DEF SvcSteps, SameFrame, NoBetter
  <1>2. res' = res /\ ev'.at = ev.at
    BY DEF SvcSteps, TypeOK, EvState, setPowerMode, setActiveConfig, setDisplayMode, ModeSet, SetsMode,
       disableQms, QmsBlanks, QmsFlips, setViewPort, outsideChanged
  <1> QED BY <1>1, <1>2 DEF Asked, Validated

\* The planes: blanked, or given to the kernel, or left alone.
LEMMA BlanksInStep ==
  ASSUME TypeOK, TypeOK', InStep, blankDisplayLocked
  PROVE  InStep' /\ Marked'
  <1>1. req' = NoFlip
    BY DEF blankDisplayLocked, Frees
  <1>2. InStep'
    BY <1>1, AllDark DEF InStep
  <1> QED BY <1>2, AllDark, MarkedDark

LEMMA EvInStep ==
  ASSUME TypeOK, TypeOK', InStep, Marked, EvSteps
  PROVE  InStep' /\ Marked'
  <1>1. /\ sf'.at = sf.at /\ sf'.layers = sf.layers /\ layer' = layer
        /\ (Sound' => Sound) /\ (Clear' => Clear)
    BY EvFrame DEF EvSteps, SameFrame, NoBetter, Clear
  <1>2. CASE Unplug
    BY <1>2, BlanksInStep DEF Unplug
  <1>3. CASE /\ plane' = plane /\ req' = req /\ kernel' = kernel
             /\ svc' = svc /\ (~dropped' => ~dropped)
    <2>1. InStep' /\ \A p \in Plane : Soon(p)' = Soon(p)
      BY <1>1, <1>3, InStepAside
    <2> QED BY <1>1, <1>3, <2>1, MarkedAside
  <1>4. CASE \/ ModeBegin \/ PlugIn \/ removeDisplay \/ addPhysicalDisplay \/ CallHotplug
             \/ CallRefresh \/ (\E told \in BOOLEAN : ModeComplete(told))
    BY <1>3, <1>4 DEF ModeBegin, PlugIn, removeDisplay, addPhysicalDisplay, CallHotplug,
       CallRefresh, ModeComplete, KeepsPlanes
  <1>5. CASE ModeRefused
    BY <1>3, <1>5 DEF ModeRefused, KeepsPlanes
  <1> QED BY <1>2, <1>4, <1>5 DEF EvSteps

LEMMA SvcInStep ==
  ASSUME TypeOK, TypeOK', InStep, Marked, SvcSteps
  PROVE  InStep' /\ Marked'
  <1>1. /\ sf'.at = sf.at /\ sf'.layers = sf.layers /\ layer' = layer
        /\ (Sound' => Sound) /\ (Clear' => Clear)
    BY SvcFrame DEF SvcSteps, SameFrame, NoBetter, Clear
  <1>2. CASE blankDisplayLocked
    BY <1>2, BlanksInStep
  <1>3. CASE KeepsPlanes /\ svc' # "flip" /\ svc # "flip" /\ dropped' = dropped
    <2>1. InStep' /\ \A p \in Plane : Soon(p)' = Soon(p)
      BY <1>1, <1>3, InStepAside DEF KeepsPlanes
    <2> QED BY <1>1, <1>3, <2>1, MarkedAside DEF KeepsPlanes
  <1>a. CASE setPowerMode /\ KeepsPlanes /\ dropped' = dropped
    <2>1. InStep' /\ \A p \in Plane : Soon(p)' = Soon(p)
      BY <1>1, <1>a, InStepAside DEF KeepsPlanes, setPowerMode
    <2> QED BY <1>1, <1>a, <2>1, MarkedAside DEF KeepsPlanes
  <1>4. CASE disableQms
    <2>1. /\ plane' = plane /\ kernel' = kernel /\ req' = NoFlip /\ svc = "idle"
          /\ (~dropped' => ~dropped /\ req = NoFlip) /\ svc' = "blank"
      BY <1>4 DEF disableQms, Frees, Call
    <2>2. ~dropped' => \A p \in Plane : Soon(p)' = Soon(p)
      BY <2>1 DEF Soon, Committed
    <2>4. CASE ~dropped'
      <3>1. (\A p \in Plane : Soon(p)' = Soon(p)) /\ ~dropped
        BY <2>1, <2>2, <2>4
      <3>2. InStep'
        BY <2>1, <3>1 DEF InStep
      <3>3. Marked'
        BY <1>1, <2>1, <3>1, MarkedAside
      <3> QED BY <3>2, <3>3
    <2>5. CASE dropped'
      <3>1. InStep'
        BY <2>1, <2>5 DEF InStep
      <3> QED BY <2>5, <3>1, Unsound DEF Sound
    <2> QED BY <2>4, <2>5
  <1>5. CASE QmsBlanks
    <2>1. /\ SetPlanes(NoPairs) /\ UNCHANGED <<kernel, dropped>> /\ svc' = "flip"
      BY <1>5 DEF QmsBlanks
    <2>2. InStep'
      BY <2>1, AllDark DEF InStep
    <2> QED BY <2>1, <2>2, AllDark, MarkedDark
  <1>6. CASE QmsFlips
    <2>1. /\ kernel' = Committed(req) /\ req' = NoFlip /\ plane' = plane /\ dropped' = dropped
          /\ svc' = "qms"
      BY <1>6 DEF QmsFlips
    <2>2. \A p \in Plane : Soon(p)' = Soon(p)
      BY <2>1, Flipped
    <2>3. InStep'
      BY <2>1, <2>2 DEF InStep
    <2> QED BY <1>1, <2>1, <2>2, <2>3, MarkedAside
  <1>7. CASE setActiveConfig \/ setDisplayMode
    BY <1>2, <1>7 DEF setActiveConfig, setDisplayMode
  <1>8. CASE setPowerMode
    BY <1>2, <1>a, <1>8 DEF setPowerMode
  <1>9. CASE ModeSet \/ setViewPort \/ outsideChanged
    BY <1>3, <1>9 DEF ModeSet, setViewPort, outsideChanged, Call
  <1> QED BY <1>4, <1>5, <1>6, <1>7, <1>8, <1>9 DEF SvcSteps

\* The clean-up of a display that is reported anew.
LEMMA CleanScreen ==
  ASSUME TypeOK, TypeOK', Screen, cleanupBeforeDestroy \/ cleanDisplayResources
  PROVE  Screen'
  <1>1. ~Sound' /\ Owed'
    BY EvOwes DEF TypeOK, EvState, cleanupBeforeDestroy, cleanDisplayResources, Sound, Cleared
  <1>2. Newest' /\ Drawn' /\ Marked' /\ Composes' /\ TakenIn' /\ Drew'
    BY <1>1, Unsound, Excused
  <1>3. /\ sf' = sf /\ power' = power /\ KeepsPlanes /\ svc' = svc /\ dropped' = dropped /\ res' = res
        /\ ev.at # "add" /\ ev'.plugged = ev.plugged /\ ev'.pending = ev.pending
        /\ ev'.changing = ev.changing
    BY DEF TypeOK, EvState, cleanupBeforeDestroy, cleanDisplayResources
  <1>4. /\ disp'.valid = disp.valid /\ disp'.skip = disp.skip /\ disp'.outside = disp.outside
        /\ \/ disp'.present = {}
           \/ disp'.present = disp.present /\ disp'.pairs = disp.pairs /\ layer' = layer
    <2>1. CASE cleanupBeforeDestroy
      BY <2>1 DEF TypeOK, DispState, cleanupBeforeDestroy
    <2>2. CASE cleanDisplayResources
      BY <2>2 DEF TypeOK, DispState, cleanDisplayResources
    <2> QED BY <2>1, <2>2
  <1>5. InStep'
    BY <1>3, InStepAside DEF Screen, KeepsPlanes
  <1>6. InFrame'
    BY <1>3 DEF Screen, InFrame
  <1>7. Connected'
    BY <1>3, <1>4 DEF Screen, Connected
  <1>8. Asked'
    BY <1>1, <1>3, <1>4 DEF Screen, Asked, Validated
  <1>9. Plan'
    BY <1>3, <1>4 DEF Screen, Plan, Covers, GivesTarget, ForClient
  <1> QED BY <1>2, <1>5, <1>6, <1>7, <1>8, <1>9 DEF Screen

LEMMA BesideScreen ==
  ASSUME TypeOK, TypeOK', Screen,
         EvSteps \/ SvcSteps \/ cleanupBeforeDestroy \/ cleanDisplayResources
  PROVE  Screen'
  <1>1. CASE EvSteps
    <2>1. InFrame' /\ Newest' /\ Drawn' /\ Plan' /\ Composes'
      BY <1>1, EvFrame, Beside DEF EvSteps, Screen
    <2>2. InStep' /\ Marked' /\ Connected' /\ Asked'
      BY <1>1, EvInStep, EvConnected, EvAsked DEF Screen
    <2> QED BY <1>1, <2>1, <2>2, EvOwes, Excused DEF Screen
  <1>2. CASE SvcSteps
    <2>1. InFrame' /\ Newest' /\ Drawn' /\ Plan' /\ Composes'
      BY <1>2, SvcFrame, Beside DEF SvcSteps, Screen
    <2>2. InStep' /\ Marked' /\ Connected' /\ Asked'
      BY <1>2, SvcInStep, SvcConnected, SvcAsked DEF Screen
    <2> QED BY <1>2, <2>1, <2>2, SvcOwes, Excused DEF Screen
  <1> QED BY <1>1, <1>2, CleanScreen

----------------------------------------------------------------------------
(* SurfaceFlinger between its frames *)

\* With nothing owed the layers are sound, the connector is up, and no outside change
\* waits for a validate.
LEMMA QuietClear ==
  ASSUME TypeOK, Connected, TakenIn, ~Owed, sf.layers # {}, ~sf.geo, ~Early
  PROVE  Clear
  BY DEF Owed, Connected, TakenIn, Clear, Sound, Cleared

LEMMA SoundBooks ==
  ASSUME Books, Sound
  PROVE  Live = Known /\ res.layers = Known
  BY DEF Books, Sound, Cleared, Removed

LEMMA ErasedFields ==
  ASSUME TypeOK, NEW gone, layer' = Erased(gone), NEW l \in LayerId
  PROVE  /\ layer'[l].buf = layer[l].buf /\ layer'[l].fresh = layer[l].fresh
         /\ layer'[l].updated = layer[l].updated /\ layer'[l].z = layer[l].z
         /\ layer'[l].comp = layer[l].comp
  <1>1. layer'[l] = [layer[l] EXCEPT !.live = layer[l].live /\ l \notin gone] /\ layer[l] \in LayerState
    BY DEF TypeOK, Erased
  <1>2. ASSUME NEW b \in BOOLEAN, layer'[l] = [layer[l] EXCEPT !.live = b]
        PROVE  /\ layer'[l].buf = layer[l].buf /\ layer'[l].fresh = layer[l].fresh
               /\ layer'[l].updated = layer[l].updated /\ layer'[l].z = layer[l].z
               /\ layer'[l].comp = layer[l].comp
    BY <1>1, <1>2 DEF LayerState
  <1> QED BY <1>1, <1>2

\* The planes are not touched, before a flip or between two.
LEMMA InStepKept ==
  ASSUME InStep, KeepsPlanes, svc' = svc, dropped' = dropped, sf.at # "flip", sf'.at # "flip"
  PROVE  InStep' /\ \A p \in Plane : Soon(p)' = Soon(p)
  <1>1. \A p \in Plane : Soon(p)' = Soon(p)
    BY DEF Soon, Committed, KeepsPlanes
  <1> QED BY <1>1 DEF InStep, KeepsPlanes

LEMMA PlanKept ==
  ASSUME Plan, disp' = disp, power' = power,
         \A l \in disp.present : layer'[l].comp = layer[l].comp
  PROVE  Plan'
  <1>1. GivesTarget' = GivesTarget /\ \A l \in disp.present : ForClient(l)' = ForClient(l)
    BY DEF GivesTarget, ForClient
  <1> QED BY <1>1 DEF Plan, Covers

LEMMA CreateEffect ==
  ASSUME TypeOK, NEW l \in LayerId, createLayer(l)
  PROVE  /\ sf.at = "idle" /\ sf'.at = "idle" /\ sf'.layers = sf.layers \cup {l}
         /\ sf'.drop = sf.drop /\ sf'.hotplug = sf.hotplug /\ sf'.geo /\ sf'.refresh
         /\ sf'.want[l] = 0 /\ \A k \in LayerId \ {l} : sf'.want[k] = sf.want[k]
         /\ layer'[l] = [NoLayer EXCEPT !.live = TRUE]
         /\ \A k \in LayerId \ {l} : layer'[k] = layer[k]
         /\ l \notin disp.present /\ \A p \in Plane : plane[p].fb # l
         /\ Live' = Live \cup {l}
         /\ res'.must = res.must /\ res'.has = res.has
  <1>1. /\ sf.at = "idle" /\ sf'.at = "idle" /\ sf'.layers = sf.layers \cup {l}
        /\ sf'.drop = sf.drop /\ sf'.hotplug = sf.hotplug /\ sf'.geo /\ sf'.refresh
        /\ sf'.want[l] = 0 /\ \A k \in LayerId \ {l} : sf'.want[k] = sf.want[k]
    BY DEF TypeOK, SfState, createLayer, AsksRefresh
  <1>2. /\ layer'[l] = [NoLayer EXCEPT !.live = TRUE]
        /\ \A k \in LayerId \ {l} : layer'[k] = layer[k]
        /\ l \notin disp.present /\ \A p \in Plane : plane[p].fb # l
        /\ res'.must = res.must /\ res'.has = res.has
    BY DEF TypeOK, createLayer
  <1>3. Live' = Live \cup {l}
    BY ZenonT(60) DEF TypeOK, LayerState, Live, createLayer, NoLayer
  <1> QED BY <1>1, <1>2, <1>3

LEMMA CreateScreen ==
  ASSUME TypeOK, TypeOK', Screen, NEW l \in LayerId, createLayer(l)
  PROVE  Screen'
  <1> USE DEF Screen
  <1>1. /\ sf.at = "idle" /\ sf'.at = "idle" /\ sf'.layers = sf.layers \cup {l}
        /\ sf'.drop = sf.drop /\ sf'.hotplug = sf.hotplug /\ sf'.geo /\ sf'.refresh
        /\ sf'.want[l] = 0 /\ \A k \in LayerId \ {l} : sf'.want[k] = sf.want[k]
        /\ \A k \in LayerId \ {l} : layer'[k] = layer[k]
        /\ l \notin disp.present /\ \A p \in Plane : plane[p].fb # l
        /\ Live' = Live \cup {l}
        /\ res'.must = res.must /\ res'.has = res.has
    BY CreateEffect
  <1>2. layer'[l].buf = 0 /\ ~layer'[l].updated /\ ~layer'[l].z
    BY CreateEffect DEF NoLayer
  <1>3. /\ disp' = disp /\ power' = power /\ ev' = ev /\ svc' = svc /\ dropped' = dropped /\ KeepsPlanes
    BY DEF createLayer
  <1>4. InStep' /\ \A p \in Plane : Soon(p)' = Soon(p)
    BY <1>1, <1>3, InStepKept
  <1>5. InFrame' /\ Connected' /\ Asked' /\ Composes'
    BY <1>1, <1>3 DEF InFrame, Connected, Asked, Composes, Validated
  <1>6. Sound' = Sound /\ Clear' = Clear
    BY <1>1, <1>3 DEF Sound, Clear
  <1>7. Newest'
    BY <1>1, <1>2, <1>6 DEF Newest, Live
  <1>8. Drawn'
    <2>1. ~Late' /\ ~Early' /\ Live \subseteq LayerId
      BY <1>1 DEF Late, Early, Validated, Locked, Live
    <2> QED BY <1>1, <1>2, <1>6, <2>1 DEF Drawn
  <1>9. Plan'
    <2>1. disp.present \subseteq LayerId \ {l}
      BY <1>1 DEF TypeOK, DispState
    <2> QED BY <1>1, <1>3, <2>1, PlanKept
  <1>10. Marked'
    BY <1>1, <1>3, <1>4, <1>6 DEF Marked, TypeOK, SfState, KeepsPlanes
  <1> QED BY <1>1, <1>4, <1>5, <1>7, <1>8, <1>9, <1>10, Excused DEF Owed

LEMMA DestroyScreen ==
  ASSUME TypeOK, TypeOK', Books, Screen, destroyLayer
  PROVE  Screen'
  <1> USE DEF Screen
  <1>1. /\ sf.at = "idle" /\ sf'.at = "idle" /\ sf'.layers = sf.layers /\ sf'.drop = {}
        /\ sf'.hotplug = sf.hotplug /\ sf'.geo = sf.geo /\ sf'.refresh = sf.refresh
        /\ res'.must = res.must /\ res'.has = res.has
    BY DEF TypeOK, SfState, destroyLayer
  <1>2. sf.layers \cap sf.drop = {} /\ \A l \in LayerId \ sf.drop : sf'.want[l] = sf.want[l]
    BY DEF TypeOK, SfState, destroyLayer, Forgotten, Books
  <1>3. /\ disp' = disp /\ power' = power /\ ev' = ev /\ svc' = svc /\ dropped' = dropped /\ KeepsPlanes
    BY DEF destroyLayer
  <1>4. \A l \in LayerId : /\ layer'[l].buf = layer[l].buf /\ layer'[l].fresh = layer[l].fresh
                           /\ layer'[l].updated = layer[l].updated /\ layer'[l].z = layer[l].z
                           /\ layer'[l].comp = layer[l].comp
    BY ErasedFields DEF destroyLayer
  <1>5. Live' = Live \ sf.drop
    BY LiveErased DEF destroyLayer
  <1>6. Live \subseteq LayerId /\ sf.layers \subseteq LayerId /\ disp.present \subseteq LayerId
    BY DEF Live, TypeOK, SfState, DispState
  <1>7. InStep' /\ \A p \in Plane : Soon(p)' = Soon(p)
    BY <1>1, <1>3, InStepKept
  <1>8. InFrame' /\ Connected' /\ Asked' /\ Composes'
    BY <1>1, <1>2, <1>3, <1>6 DEF InFrame, Connected, Asked, Composes, Validated
  <1>9. Sound' = Sound /\ Clear' = Clear /\ Owed' = Owed
    BY <1>1, <1>3 DEF Sound, Clear, Owed
  <1>10. Newest'
    BY <1>2, <1>4, <1>5, <1>6, <1>9 DEF Newest
  <1>11. Drawn'
    BY <1>1, <1>3, <1>4, <1>5, <1>6, <1>9 DEF Drawn, Late, Early, Validated, Locked
  <1>12. Plan'
    BY <1>3, <1>4, <1>6, PlanKept
  <1>13. Marked'
    BY <1>1, <1>3, <1>4, <1>6, <1>7, <1>9 DEF Marked, KeepsPlanes
  <1>14. TakenIn'
    BY <1>1, <1>3, <1>9 DEF TakenIn, Early
  <1>15. Drew'
    <2>1. SUFFICES ASSUME ~Owed, sf.layers # {}, ~sf.geo, NEW p \in Plane
                   PROVE  disp.present = sf.layers /\ Soon(p) = PairPx(p)'
      BY <1>1, <1>3, <1>7, <1>9, <2>1 DEF Drew
    <2>2. disp.present = sf.layers /\ Soon(p) = PairPx(p)
      BY <1>1, <2>1 DEF Drew
    <2>3. Clear
      BY <1>1, <2>1, QuietClear DEF Early
    <2>4. disp.pairs[p] \in sf.layers \cup {Target, None}
      BY <2>1, <2>2, <2>3 DEF Plan, Covers, Clear
    <2>5. Composed' = Composed /\ \A l \in sf.layers : sf'.want[l] = sf.want[l]
      BY <1>1, <1>2, <1>4, <1>6 DEF Composed, ForClient
    <2>6. TargetPx' = TargetPx
      BY <2>5 DEF TargetPx, Composed
    <2>7. PairPx(p)' = PairPx(p)
      BY <1>3, <2>4, <2>5, <2>6 DEF PairPx
    <2> QED BY <2>2, <2>7
  <1> QED BY <1>7, <1>8, <1>10, <1>11, <1>12, <1>13, <1>14, <1>15

LEMMA HotplugScreen ==
  ASSUME TypeOK, TypeOK', Books, Screen, OnHotplug
  PROVE  Screen'
  <1> USE DEF Screen
  <1>1. /\ sf.at = "idle" /\ sf'.at = "idle" /\ sf'.layers = {} /\ sf'.drop = {}
        /\ sf'.refresh /\ res'.must = res.must /\ res'.has = res.has
    BY DEF TypeOK, SfState, OnHotplug, AsksRefresh
  <1>2. /\ disp' = disp /\ power' = power /\ ev' = ev /\ svc' = svc /\ dropped' = dropped /\ KeepsPlanes
    BY DEF OnHotplug
  <1>3. Live' = {}
    BY LiveErased DEF OnHotplug, Books, Known
  <1>4. \A l \in LayerId : layer'[l].comp = layer[l].comp
    BY ErasedFields DEF OnHotplug
  <1>5. InStep'
    BY <1>1, <1>2, InStepKept
  <1>6. InFrame' /\ Connected' /\ Asked' /\ Composes' /\ Newest' /\ Marked'
    BY <1>1, <1>2, <1>3 DEF InFrame, Connected, Asked, Composes, Validated, Newest, Marked
  <1>7. Drawn'
    <2>1. ~Late' /\ ~Early'
      BY <1>1 DEF Late, Early, Validated, Locked
    <2> QED BY <1>1, <1>3, <2>1 DEF Drawn
  <1>8. Plan'
    <2>1. disp.present \subseteq LayerId
      BY DEF TypeOK, DispState
    <2> QED BY <1>2, <1>4, <2>1, PlanKept
  <1> QED BY <1>1, <1>5, <1>6, <1>7, <1>8, Excused DEF Owed

----------------------------------------------------------------------------
(* A frame starts *)

LEMMA SentFields ==
  ASSUME NEW L \in LayerState, NEW v \in Nat
  PROVE  /\ SetBuffer(L, v).buf = v /\ SetBuffer(L, v).fresh
         /\ SetBuffer(L, v).z = L.z /\ SetBuffer(L, v).comp = L.comp
         /\ (L.updated => SetBuffer(L, v).updated)
         /\ SetGeometry(L).buf = L.buf /\ SetGeometry(L).fresh = L.fresh
         /\ SetGeometry(L).updated /\ SetGeometry(L).z /\ SetGeometry(L).comp = L.comp
  <1>1. ASSUME NEW b \in BOOLEAN
        PROVE  LET M == [L EXCEPT !.buf = v, !.fresh = TRUE, !.updated = b]
               IN M.buf = v /\ M.fresh = TRUE /\ M.z = L.z /\ M.comp = L.comp /\ M.updated = b
    BY DEF LayerState
  <1>2. (L.updated \/ L.buf = 0) \in BOOLEAN
    OBVIOUS
  <1>3. /\ SetBuffer(L, v).buf = v /\ SetBuffer(L, v).fresh
        /\ SetBuffer(L, v).z = L.z /\ SetBuffer(L, v).comp = L.comp
        /\ SetBuffer(L, v).updated = (L.updated \/ L.buf = 0)
    BY <1>1, <1>2 DEF SetBuffer
  <1>4. /\ SetGeometry(L).buf = L.buf /\ SetGeometry(L).fresh = L.fresh
        /\ SetGeometry(L).updated /\ SetGeometry(L).z /\ SetGeometry(L).comp = L.comp
    BY DEF LayerState, SetGeometry
  <1> QED BY <1>3, <1>4

Starting ==
    /\ sf'.at \in {"try", "calibrate"} /\ ~sf'.geo /\ sf'.hotplug = sf.hotplug
    /\ \A l \in sf'.layers : sf'.want[l] > 0
    /\ UNCHANGED <<res, disp, power, ev, svc, dropped>> /\ KeepsPlanes

LEMMA StartingScreen ==
  ASSUME Screen, Frame, Starting
  PROVE  /\ InStep' /\ InFrame' /\ Connected' /\ Asked' /\ Composes' /\ TakenIn' /\ Drew'
         /\ Sound' = Sound /\ Clear' = Clear /\ ~Late' /\ Early' /\ sf'.at \notin {"idle", "flip"}
         /\ \A p \in Plane : Soon(p)' = Soon(p)
  <1> USE DEF Screen
  <1>1. sf.at = "idle" /\ power.on
    BY DEF Frame
  <1>2. ~Late' /\ ~Validated' /\ Early' /\ sf'.at \notin {"idle", "flip", "accept", "target", "present", "commit"}
    BY DEF Starting, Late, Early, Validated, Locked
  <1>3. InStep' /\ \A p \in Plane : Soon(p)' = Soon(p)
    BY <1>1, <1>2, InStepKept DEF Starting
  <1>4. InFrame'
    BY <1>1 DEF InFrame, Starting
  <1>5. Connected'
    BY DEF Connected, Starting
  <1>6. Asked'
    BY <1>1, <1>2 DEF Asked, Starting, Validated
  <1>7. Composes' /\ TakenIn' /\ Drew'
    BY <1>2 DEF Composes, TakenIn, Drew
  <1>8. Sound' = Sound /\ Clear' = Clear
    BY DEF Sound, Clear, Starting
  <1> QED BY <1>2, <1>3, <1>4, <1>5, <1>6, <1>7, <1>8

\* All that a frame's start does to SurfaceFlinger's books.
LEMMA StartsEffect ==
  ASSUME NEW s \in SfState, Starts(s)
  PROVE  /\ sf'.at \in {"try", "calibrate"} /\ sf'.geo = s.geo /\ sf'.hotplug = s.hotplug
         /\ sf'.layers = s.layers /\ sf'.drop = s.drop /\ sf'.want = s.want
  BY DEF SfState, Starts

LEMMA RefreshScreen ==
  ASSUME TypeOK, TypeOK', Books, Screen, RefreshFrame
  PROVE  Screen'
  <1> USE DEF Screen
  <1>1. /\ sf'.at \in {"try", "calibrate"} /\ sf'.geo = sf.geo /\ sf'.hotplug = sf.hotplug
        /\ sf'.layers = sf.layers /\ sf'.drop = sf.drop /\ sf'.want = sf.want
    BY StartsEffect DEF TypeOK, RefreshFrame
  <1>2. Frame /\ ~sf.geo /\ sf.at = "idle" /\ sf.drop = {} /\ layer' = layer
    BY DEF RefreshFrame, Frame
  <1>3. Starting
    BY <1>1, <1>2 DEF RefreshFrame, Starting, InFrame
  <1>4. /\ InStep' /\ InFrame' /\ Connected' /\ Asked' /\ Composes' /\ TakenIn' /\ Drew'
        /\ Sound' = Sound /\ Clear' = Clear /\ ~Late' /\ Early' /\ sf'.at \notin {"idle", "flip"}
        /\ \A p \in Plane : Soon(p)' = Soon(p)
    BY <1>2, <1>3, StartingScreen
  <1>5. disp' = disp /\ power' = power /\ plane' = plane /\ Live' = Live
    BY <1>2, <1>3 DEF Starting, KeepsPlanes, Live
  <1>6. Newest'
    BY <1>1, <1>2, <1>4, <1>5 DEF Newest
  <1>7. Sound => Same'
    BY <1>1, <1>2, <1>5 DEF Drawn, Same
  <1>8. Drawn'
    BY <1>4, <1>7 DEF Drawn
  <1>9. Plan'
    BY <1>2, <1>5, PlanKept
  <1>10. Marked'
    BY <1>1, <1>2, <1>4, <1>5 DEF Marked
  <1> QED BY <1>4, <1>6, <1>8, <1>9, <1>10

LEMMA ContentScreen ==
  ASSUME TypeOK, TypeOK', Books, Screen, NEW l \in LayerId, ContentFrame(l)
  PROVE  Screen'
  <1> USE DEF Screen
  <1> DEFINE v == sf.want[l] + 1
             s == [sf EXCEPT !.want[l] = v]
  <1>0. /\ s \in SfState /\ s.geo = sf.geo /\ s.hotplug = sf.hotplug /\ s.layers = sf.layers
        /\ s.drop = sf.drop /\ s.want[l] = v /\ v \in Nat /\ v > 0
        /\ \A k \in LayerId \ {l} : s.want[k] = sf.want[k]
    <2>1. sf.want \in [LayerId -> Nat] /\ sf \in SfState
      BY DEF TypeOK, SfState
    <2>2. v \in Nat /\ v > 0
      BY <2>1
    <2>3. s = [sf EXCEPT !.want = [sf.want EXCEPT ![l] = v]]
      OBVIOUS
    <2>4. ASSUME NEW w \in [LayerId -> Nat]
          PROVE  LET t == [sf EXCEPT !.want = w]
                 IN /\ t \in SfState /\ t.geo = sf.geo /\ t.hotplug = sf.hotplug
                    /\ t.layers = sf.layers /\ t.drop = sf.drop /\ t.want = w
      BY <2>1 DEF SfState
    <2>5. /\ [sf.want EXCEPT ![l] = v] \in [LayerId -> Nat] /\ [sf.want EXCEPT ![l] = v][l] = v
          /\ \A k \in LayerId \ {l} : [sf.want EXCEPT ![l] = v][k] = sf.want[k]
      BY <2>1, <2>2
    <2>6. /\ s \in SfState /\ s.geo = sf.geo /\ s.hotplug = sf.hotplug /\ s.layers = sf.layers
          /\ s.drop = sf.drop /\ s.want = [sf.want EXCEPT ![l] = v]
      BY <2>3, <2>4, <2>5
    <2> QED BY <2>2, <2>5, <2>6
  <1>1. /\ sf'.at \in {"try", "calibrate"} /\ sf'.geo = s.geo /\ sf'.hotplug = s.hotplug
        /\ sf'.layers = s.layers /\ sf'.drop = s.drop /\ sf'.want = s.want
    BY <1>0 DEF SfState, ContentFrame, Starts
  <1>2. Frame /\ ~sf.geo /\ sf.at = "idle" /\ sf.drop = {} /\ l \in sf.layers
    BY DEF ContentFrame, Frame
  <1>3. Starting
    <2>1. \A k \in sf'.layers : sf'.want[k] > 0
      BY <1>0, <1>1, <1>2 DEF InFrame, TypeOK, SfState
    <2> QED BY <1>0, <1>1, <1>2, <2>1 DEF ContentFrame, Starting
  <1>4. /\ InStep' /\ InFrame' /\ Connected' /\ Asked' /\ Composes' /\ TakenIn' /\ Drew'
        /\ Sound' = Sound /\ Clear' = Clear /\ ~Late' /\ Early' /\ sf'.at \notin {"idle", "flip"}
        /\ \A p \in Plane : Soon(p)' = Soon(p)
    BY <1>2, <1>3, StartingScreen
  <1>5. disp' = disp /\ power' = power /\ plane' = plane
    BY <1>3 DEF Starting, KeepsPlanes
  <1>6. layer' = [k \in LayerId |-> IF k = l /\ Buffered(l) THEN SetBuffer(layer[k], v)
                                    ELSE layer[k]]
    BY DEF ContentFrame
  <1>7. ASSUME NEW k \in LayerId
        PROVE  /\ layer'[k].z = layer[k].z /\ layer'[k].comp = layer[k].comp
               /\ \/ layer'[k].fresh
                  \/ /\ layer'[k].buf = layer[k].buf /\ layer'[k].updated = layer[k].updated
                     /\ layer'[k].fresh = layer[k].fresh
    BY <1>0, <1>6, SentFields DEF TypeOK
  <1>8. Live' = Live /\ Live \subseteq LayerId
    BY ContentTypes, LiveKept DEF Live
  <1>9. Newest'
    <2>1. SUFFICES ASSUME Sound, NEW k \in Live
                   PROVE  layer'[k].buf = sf'.want[k]
      BY <1>4, <1>8, <2>1 DEF Newest
    <2>2. k \in LayerId /\ layer[k].buf = sf.want[k]
      BY <1>8, <2>1 DEF Newest
    <2>3. Buffered(l)
      BY <1>2, <2>1, SoundBooks DEF Buffered, Known
    <2>4. CASE k = l
      BY <1>0, <1>1, <1>6, <2>3, <2>4, SentFields DEF TypeOK
    <2>5. CASE k # l
      BY <1>0, <1>1, <1>6, <2>2, <2>5
    <2> QED BY <2>4, <2>5
  <1>10. Sound => Same'
    BY <1>0, <1>1, <1>2, <1>5, <1>7, <1>8 DEF Drawn, Same
  <1>11. Drawn'
    BY <1>4, <1>10 DEF Drawn
  <1>12. Plan'
    BY <1>5, <1>7, PlanKept DEF TypeOK, DispState
  <1>13. Marked'
    <2>1. SUFFICES ASSUME Clear, NEW p \in Plane, NEW k \in sf.layers, plane[p].fb = k
                   PROVE  Soon(p) = {<<k, layer'[k].buf>>} \/ layer'[k].fresh \/ layer'[k].updated
      BY <1>0, <1>1, <1>4, <1>5, <2>1 DEF Marked
    <2>2. k \in LayerId
      BY DEF TypeOK, SfState
    <2>3. Soon(p) = {<<k, layer[k].buf>>} \/ layer[k].fresh \/ layer[k].updated
      BY <2>1 DEF Marked
    <2> QED BY <1>7, <2>2, <2>3
  <1> QED BY <1>4, <1>9, <1>11, <1>12, <1>13

LEMMA GeometryScreen ==
  ASSUME TypeOK, TypeOK', Books, Screen, NEW visible \in SUBSET LayerId, GeometryFrame(visible)
  PROVE  Screen'
  <1> USE DEF Screen
  <1> DEFINE new == {l \in visible : sf.want[l] = 0}
             set(l) == IF l \in new /\ Buffered(l) THEN SetBuffer(layer[l], 1) ELSE layer[l]
             s == [sf EXCEPT !.want = [l \in LayerId |-> IF l \in new THEN 1 ELSE @[l]],
                             !.layers = visible, !.drop = sf.layers \ visible, !.geo = FALSE]
  <1>0. /\ s \in SfState /\ s.geo = FALSE /\ s.hotplug = sf.hotplug /\ s.layers = visible
        /\ s.drop = sf.layers \ visible
        /\ \A l \in LayerId : s.want[l] = IF l \in new THEN 1 ELSE sf.want[l]
    BY DEF TypeOK, SfState
  <1>1. /\ sf'.at \in {"try", "calibrate"} /\ sf'.geo = s.geo /\ sf'.hotplug = s.hotplug
        /\ sf'.layers = s.layers /\ sf'.drop = s.drop /\ sf'.want = s.want
    BY <1>0 DEF SfState, GeometryFrame, Starts
  <1>2. Frame /\ sf.at = "idle" /\ sf.drop = {} /\ visible # {} /\ visible \subseteq sf.layers
    BY DEF GeometryFrame, Frame
  <1>3. Starting
    <2>1. ASSUME NEW l \in visible
          PROVE  s.want[l] > 0
      <3>1. l \in LayerId /\ sf.want[l] \in Nat
        BY DEF TypeOK, SfState
      <3>2. s.want[l] = IF l \in new THEN 1 ELSE sf.want[l]
        BY <1>0, <3>1
      <3>3. l \notin new => sf.want[l] # 0
        OBVIOUS
      <3> QED BY <3>1, <3>2, <3>3
    <2> QED BY <1>0, <1>1, <2>1 DEF GeometryFrame, Starting
  <1>4. /\ InStep' /\ InFrame' /\ Connected' /\ Asked' /\ Composes' /\ TakenIn' /\ Drew'
        /\ Sound' = Sound /\ Clear' = Clear /\ ~Late' /\ Early' /\ sf'.at \notin {"idle", "flip"}
        /\ \A p \in Plane : Soon(p)' = Soon(p)
    BY <1>2, <1>3, StartingScreen
  <1>5. disp' = disp /\ power' = power /\ plane' = plane
    BY <1>3 DEF Starting, KeepsPlanes
  <1>6. layer' = [l \in LayerId |-> IF l \in visible \cap Live THEN SetGeometry(set(l))
                                    ELSE layer[l]]
    BY DEF GeometryFrame
  <1>a. ASSUME NEW l \in LayerId
        PROVE  /\ set(l) \in LayerState /\ set(l).comp = layer[l].comp
               /\ set(l).fresh \/ set(l).buf = layer[l].buf
               /\ set(l).fresh \/ set(l).fresh = layer[l].fresh
               /\ l \in new /\ Buffered(l) => set(l).buf = 1
               /\ ~(l \in new /\ Buffered(l)) => set(l) = layer[l]
    BY SentFields, SentTypes DEF TypeOK
  <1>7. ASSUME NEW l \in LayerId
        PROVE  /\ layer'[l].comp = layer[l].comp
               /\ l \in visible \cap Live => /\ layer'[l].updated /\ layer'[l].z
                                             /\ layer'[l].buf = set(l).buf
               /\ l \notin visible \cap Live => layer'[l] = layer[l]
    BY <1>6, <1>a, SentFields
  <1>8. Live' = Live /\ Live \subseteq LayerId
    BY GeometryTypes, LiveKept DEF Live
  <1>b. Sound => Live = sf.layers /\ res.layers = sf.layers
    BY <1>2, SoundBooks DEF Known
  <1>9. Newest'
    <2>1. SUFFICES ASSUME Sound, NEW l \in Live
                   PROVE  layer'[l].buf = sf'.want[l]
      BY <1>4, <1>8, <2>1 DEF Newest
    <2>2. l \in LayerId /\ layer[l].buf = sf.want[l]
      BY <1>8, <2>1 DEF Newest
    <2>3. Buffered(l)
      BY <1>b, <2>1 DEF Buffered
    <2>4. CASE l \in new
      BY <1>0, <1>1, <1>7, <1>a, <2>1, <2>2, <2>3, <2>4
    <2>5. CASE l \notin new
      BY <1>0, <1>1, <1>7, <1>a, <2>2, <2>5
    <2> QED BY <2>4, <2>5
  <1>10. Sound => Moved'
    <2>1. SUFFICES ASSUME Sound
                   PROVE  /\ visible # {}
                          /\ \A l \in Live : layer'[l].z <=> l \in visible
                          /\ \A l \in visible : layer'[l].updated
      BY <1>0, <1>1, <1>8 DEF Moved
    <2>2. \A l \in Live : ~layer[l].z
      BY <1>2, <2>1 DEF Drawn
    <2> QED BY <1>2, <1>7, <1>8, <1>b, <2>1, <2>2
  <1>11. Drawn'
    BY <1>4, <1>10 DEF Drawn
  <1>12. Plan'
    BY <1>5, <1>7, PlanKept DEF TypeOK, DispState
  <1>13. Marked'
    <2>1. SUFFICES ASSUME Clear, NEW p \in Plane, NEW l \in visible, plane[p].fb = l
                   PROVE  layer'[l].updated
      BY <1>0, <1>1, <1>4, <1>5, <2>1 DEF Marked
    <2>2. Sound
      BY <2>1 DEF Clear
    <2> QED BY <1>2, <1>7, <1>8, <1>b, <2>1, <2>2
  <1> QED BY <1>4, <1>9, <1>11, <1>12, <1>13

----------------------------------------------------------------------------
(* From one step of a frame to the next *)

\* The last choice of the strategy covers what it did.
LEMMA PlanSame ==
  ASSUME Plan, disp'.present = disp.present, disp'.pairs = disp.pairs, disp'.outside = disp.outside,
         power' = power, \A l \in disp.present : layer'[l].comp = layer[l].comp
  PROVE  Plan'
  <1>1. GivesTarget' = GivesTarget /\ \A l \in disp.present : ForClient(l)' = ForClient(l)
    BY DEF GivesTarget, ForClient
  <1> QED BY <1>1 DEF Plan, Covers

SameSf ==
    /\ sf'.layers = sf.layers /\ sf'.drop = sf.drop /\ sf'.want = sf.want /\ sf'.geo = sf.geo
    /\ sf'.hotplug = sf.hotplug /\ sf'.refresh = sf.refresh

SameLayers ==
    \A l \in LayerId : /\ layer'[l].live = layer[l].live /\ layer'[l].buf = layer[l].buf
                       /\ layer'[l].fresh = layer[l].fresh /\ layer'[l].updated = layer[l].updated
                       /\ layer'[l].z = layer[l].z /\ layer'[l].comp = layer[l].comp

SameDisp ==
    /\ disp'.present = disp.present /\ disp'.pairs = disp.pairs /\ disp'.outside = disp.outside
    /\ disp'.skip = disp.skip

\* A frame goes on and changes none of what it was given.
LEMMA Onward ==
  ASSUME TypeOK, Screen, sf.at \notin {"idle", "flip"}, sf'.at # "flip", SameSf, SameLayers, SameDisp,
         power' = power, ev' = ev, svc' = svc, dropped' = dropped, KeepsPlanes
  PROVE  /\ InStep' /\ InFrame' /\ Connected' /\ Newest' /\ Plan' /\ Marked'
         /\ Sound' = Sound /\ Clear' = Clear /\ Owed' = Owed /\ Live' = Live
         /\ Composed' = Composed /\ TargetPx' = TargetPx /\ GivesTarget' = GivesTarget
  <1> USE DEF Screen
  <1>1. /\ disp.present \subseteq LayerId /\ sf.layers \subseteq LayerId /\ Live \subseteq LayerId
    BY DEF TypeOK, DispState, SfState, Live
  <1>2. InStep' /\ \A p \in Plane : Soon(p)' = Soon(p)
    BY InStepKept
  <1>3. InFrame'
    BY DEF InFrame, SameSf
  <1>4. Connected'
    BY DEF Connected, SameDisp
  <1>5. Live' = Live
    BY LiveKept DEF SameLayers
  <1>6. Sound' = Sound /\ Clear' = Clear /\ Owed' = Owed
    BY DEF Sound, Clear, Owed, SameSf, SameDisp
  <1>7. Newest'
    BY <1>1, <1>5, <1>6 DEF Newest, SameLayers, SameSf
  <1>8. Plan'
    BY <1>1, PlanSame DEF SameDisp, SameLayers
  <1>9. Marked'
    BY <1>1, <1>2, <1>6 DEF Marked, SameLayers, SameSf, KeepsPlanes
  <1>10. Composed' = Composed
    BY <1>1 DEF Composed, ForClient, SameLayers, SameSf
  <1>11. TargetPx' = TargetPx /\ GivesTarget' = GivesTarget
    BY <1>10 DEF TargetPx, GivesTarget, SameSf, SameDisp
  <1> QED BY <1>2, <1>3, <1>4, <1>5, <1>6, <1>7, <1>8, <1>9, <1>10, <1>11

LEMMA CalibrateScreen ==
  ASSUME TypeOK, TypeOK', Screen, Calibrate
  PROVE  Screen'
  <1> USE DEF Screen
  <1>1. sf.at = "calibrate" /\ sf'.at = "validate" /\ SameSf
    BY DEF TypeOK, SfState, Calibrate, SameSf
  <1>2. SameDisp /\ disp'.valid = disp.valid
    BY DEF TypeOK, DispState, Calibrate, SameDisp
  <1>3. /\ SameLayers /\ layer' = layer /\ res' = res /\ power' = power /\ ev' = ev /\ svc' = svc
        /\ dropped' = dropped /\ KeepsPlanes
    BY DEF Calibrate, SameLayers
  <1>4. /\ InStep' /\ InFrame' /\ Connected' /\ Newest' /\ Plan' /\ Marked'
        /\ Sound' = Sound /\ Live' = Live
    BY <1>1, <1>2, <1>3, Onward
  <1>5. Asked'
    BY <1>1, <1>2, <1>3 DEF Asked, Validated
  <1>6. Same' = Same /\ Moved' = Moved /\ Early' /\ Early
    BY <1>1, <1>2, <1>3, <1>4 DEF Same, Moved, SameSf, SameDisp, Early
  <1>7. Drawn'
    BY <1>1, <1>4, <1>6 DEF Drawn, Late, Validated, Locked
  <1>8. Composes' /\ TakenIn' /\ Drew'
    BY <1>1, <1>6 DEF Composes, TakenIn, Drew
  <1> QED BY <1>4, <1>5, <1>7, <1>8

\* What was validated with nothing owed had taken in the changes outside the layers.
LEMMA TakenStays ==
  ASSUME TakenIn, ~Early, sf'.layers = sf.layers, sf'.geo = sf.geo, Owed' = Owed,
         disp'.outside = disp.outside
  PROVE  TakenIn'
  BY DEF TakenIn

LEMMA LearnScreen ==
  ASSUME TypeOK, TypeOK', Books, Screen, getChangedCompositionTypes
  PROVE  Screen'
  <1> USE DEF Screen
  <1>1. /\ sf.at = "learn" /\ sf'.at = "accept" /\ SameSf
        /\ sf'.client = {l \in sf.layers \cap Live :
              (IF l \in disp.present THEN mesonComp2Hwc2Comp(layer[l].comp) ELSE layer[l].hwc)
                  = "CLIENT"}
    <2>1. ASSUME NEW c, sf' = [sf EXCEPT !.at = "accept", !.client = c]
          PROVE  sf'.at = "accept" /\ SameSf /\ sf'.client = c
      BY <2>1 DEF TypeOK, SfState, SameSf
    <2> QED BY <2>1 DEF getChangedCompositionTypes
  <1>2. /\ SameLayers /\ SameDisp /\ disp' = disp /\ res' = res /\ power' = power /\ ev' = ev /\ svc' = svc
        /\ dropped' = dropped /\ KeepsPlanes
    BY DEF getChangedCompositionTypes, SameLayers, SameDisp
  <1>3. /\ InStep' /\ InFrame' /\ Connected' /\ Newest' /\ Plan' /\ Marked'
        /\ Sound' = Sound /\ Owed' = Owed /\ Composed' = Composed
    BY <1>1, <1>2, Onward
  <1>4. Asked'
    BY <1>1, <1>2, <1>3 DEF Asked, Validated
  <1>5. ~Early /\ ~Early' /\ Late /\ Late'
    BY <1>1 DEF Early, Late, Validated
  <1>6. Drawn'
    BY <1>1, <1>2, <1>3, <1>5 DEF Drawn, SameSf
  <1>7. Sound => sf'.client = Composed
    <2>1. SUFFICES ASSUME Sound
                   PROVE  sf'.client = Composed
      OBVIOUS
    <2>2. disp.present = sf.layers /\ sf.layers \subseteq Live
      BY <1>5, <2>1, SoundBooks DEF Drawn, Known
    <2> QED BY <1>1, <2>2 DEF Composed, ForClient, mesonComp2Hwc2Comp
  <1>8. Composes'
    BY <1>1, <1>3, <1>7 DEF Composes
  <1>9. TakenIn' /\ Drew'
    BY <1>1, <1>2, <1>3, <1>5, TakenStays DEF Drew, SameSf
  <1> QED BY <1>3, <1>4, <1>6, <1>8, <1>9

LEMMA AcceptScreen ==
  ASSUME TypeOK, TypeOK', Screen, acceptDisplayChanges
  PROVE  Screen'
  <1> USE DEF Screen
  <1>1. /\ sf.at = "accept" /\ sf'.at = (IF sf.client = {} THEN "present" ELSE "target") /\ SameSf
        /\ sf'.client = sf.client
    BY DEF TypeOK, SfState, acceptDisplayChanges, SameSf
  <1>2. /\ SameDisp /\ disp' = disp /\ res' = res /\ power' = power /\ ev' = ev /\ svc' = svc
        /\ dropped' = dropped /\ KeepsPlanes
    BY DEF acceptDisplayChanges, SameDisp
  <1>a. SameLayers
    <2>1. ASSUME NEW l \in LayerId
          PROVE  /\ layer'[l].live = layer[l].live /\ layer'[l].buf = layer[l].buf
                 /\ layer'[l].fresh = layer[l].fresh /\ layer'[l].updated = layer[l].updated
                 /\ layer'[l].z = layer[l].z /\ layer'[l].comp = layer[l].comp
      BY DEF TypeOK, LayerState, acceptDisplayChanges
    <2> QED BY <2>1 DEF SameLayers
  <1>3. /\ InStep' /\ InFrame' /\ Connected' /\ Newest' /\ Plan' /\ Marked'
        /\ Sound' = Sound /\ Owed' = Owed /\ Composed' = Composed
    BY <1>1, <1>2, <1>a, Onward
  <1>4. Asked'
    BY <1>1, <1>2, <1>3 DEF Asked, Validated
  <1>5. ~Early /\ ~Early' /\ Late /\ Late'
    BY <1>1 DEF Early, Late, Validated
  <1>6. Drawn'
    BY <1>1, <1>2, <1>3, <1>5 DEF Drawn, SameSf
  <1>7. Composes'
    BY <1>1, <1>3 DEF Composes
  <1>8. TakenIn' /\ Drew'
    BY <1>1, <1>2, <1>3, <1>5, TakenStays DEF Drew, SameSf
  <1> QED BY <1>3, <1>4, <1>6, <1>7, <1>8

LEMMA TargetScreen ==
  ASSUME TypeOK, TypeOK', Screen, setClientTarget
  PROVE  Screen'
  <1> USE DEF Screen
  <1>1. /\ sf.at = "target" /\ sf'.at = "present" /\ SameSf /\ sf'.client = sf.client
    BY DEF TypeOK, SfState, setClientTarget, SameSf
  <1>2. /\ SameDisp /\ disp'.valid = disp.valid
        /\ res.has => /\ disp'.target.px = {<<l, sf.want[l]>> : l \in sf.client}
                      /\ disp'.target.new
    <2>1. CASE res.has
      BY <2>1 DEF TypeOK, DispState, setClientTarget, SameDisp
    <2>2. CASE ~res.has
      BY <2>2 DEF setClientTarget, SameDisp
    <2> QED BY <2>1, <2>2
  <1>a. /\ SameLayers /\ res' = res /\ power' = power /\ ev' = ev /\ svc' = svc
        /\ dropped' = dropped /\ KeepsPlanes
    BY DEF setClientTarget, SameLayers
  <1>3. /\ InStep' /\ InFrame' /\ Connected' /\ Newest' /\ Plan' /\ Marked'
        /\ Sound' = Sound /\ Owed' = Owed /\ Composed' = Composed /\ TargetPx' = TargetPx
    BY <1>1, <1>2, <1>a, Onward
  <1>4. Asked'
    BY <1>1, <1>2, <1>a, <1>3 DEF Asked, Validated
  <1>5. ~Early /\ ~Early' /\ Late /\ Late'
    BY <1>1 DEF Early, Late, Validated
  <1>6. Drawn'
    BY <1>1, <1>2, <1>3, <1>5 DEF Drawn, SameSf, SameDisp
  <1>7. Sound => sf.client = Composed /\ disp'.target.new /\ disp'.target.px = TargetPx
    BY <1>1, <1>2 DEF Composes, Asked, Sound, Cleared, TargetPx
  <1>8. Composes'
    BY <1>1, <1>3, <1>7 DEF Composes
  <1>9. TakenIn' /\ Drew'
    BY <1>1, <1>2, <1>3, <1>5, TakenStays DEF Drew, SameSf, SameDisp
  <1> QED BY <1>3, <1>4, <1>6, <1>8, <1>9

----------------------------------------------------------------------------
(* A frame is presented *)

\* A display that is presented has been given the layers SurfaceFlinger has: either it
\* was validated with them, or nothing was updated and the sets have the same size.
LEMMA PresentsAll ==
  ASSUME TypeOK, Books, Screen, Sound, ~res.must,
         \/ sf.at = "present"
         \/ sf.at = "try" /\ (disp.valid \/ presentSkipValidateCheck)
  PROVE  /\ disp.present = sf.layers /\ sf.layers \subseteq Live
         /\ sf.at = "try" => ~disp.outside /\ \A l \in Live : ~ForClient(l)
  <1> USE DEF Screen
  <1>0. Live = sf.layers \cup sf.drop
    BY SoundBooks DEF Known
  <1>1. CASE sf.at = "present"
    BY <1>0, <1>1 DEF Drawn, Late, Validated
  <1>2. CASE sf.at = "try"
    <2>1. ~disp.valid
      BY <1>2 DEF Asked, Validated, Sound, Cleared
    <2>2. /\ \A l \in Live : ~ForClient(l) /\ ~layer[l].updated
          /\ ~disp.outside /\ Cardinality(disp.present) = Cardinality(Live)
      BY <1>2, <2>1 DEF presentSkipValidateCheck, ForClient
    <2>3. Same
      <3>1. Same \/ Moved
        BY <1>2 DEF Drawn, Early
      <3>2. ~Moved
        BY <1>0, <2>2 DEF Moved
      <3> QED BY <3>1, <3>2
    <2>4. Live = sf.layers
      BY <1>0, <2>3 DEF Same
    <2>5. IsFiniteSet(sf.layers) /\ IsFiniteSet(disp.present)
      BY PresentAssumption, FS_Subset DEF TypeOK, SfState, DispState
    <2>6. CASE sf.layers = {}
      BY <1>2, <2>2, <2>4, <2>5, <2>6, FS_EmptySet
    <2>7. CASE disp.present \subseteq sf.layers
      BY <1>2, <2>2, <2>4, <2>5, <2>7, FS_Subset
    <2> QED BY <2>3, <2>6, <2>7 DEF Same
  <1> QED BY <1>1, <1>2

LEMMA ClearedFields ==
  ASSUME TypeOK, ClearUpdateFlags, NEW l \in LayerId
  PROVE  /\ layer'[l].live = layer[l].live /\ layer'[l].buf = layer[l].buf
         /\ layer'[l].fresh = layer[l].fresh /\ layer'[l].comp = layer[l].comp
         /\ l \in Live => ~layer'[l].updated /\ ~layer'[l].z
  <1>1. layer[l] \in LayerState
    BY DEF TypeOK
  <1>2. LET M == [layer[l] EXCEPT !.updated = FALSE, !.z = FALSE]
        IN /\ M.live = layer[l].live /\ M.buf = layer[l].buf /\ M.fresh = layer[l].fresh
           /\ M.comp = layer[l].comp /\ ~M.updated /\ ~M.z
    BY <1>1 DEF LayerState
  <1>3. layer'[l] = IF l \in Live THEN [layer[l] EXCEPT !.updated = FALSE, !.z = FALSE] ELSE layer[l]
    BY DEF ClearUpdateFlags
  <1> QED BY <1>2, <1>3

Presented ==
    /\ sf.at \in {"try", "present"} /\ ~res.must
    /\ sf.at = "try" => disp.valid \/ presentSkipValidateCheck
    /\ Presents

\* What both kinds of a present leave alone.
LEMMA PresentsAside ==
  ASSUME TypeOK, Books, Screen, Presented
  PROVE  /\ SameSf /\ SameDisp /\ ~disp'.valid /\ disp'.target = disp.target
         /\ sf'.client = sf.client
         /\ res' = res /\ power' = power /\ plane' = plane /\ kernel' = kernel /\ ev' = ev /\ svc' = svc
         /\ sf'.at \in {"idle", "commit"} /\ (sf'.at = "idle" <=> disp.skip)
         /\ dropped => dropped'
         /\ Asked' /\ InFrame' /\ Connected'
         /\ disp.outside /\ ~Owed => sf.layers = {}
  <1> USE DEF Screen
  <1>1. /\ SameSf /\ sf'.client = sf.client
        /\ sf'.at \in {"idle", "commit"} /\ (sf'.at = "idle" <=> disp.skip)
    <2>1. CASE disp.skip
      BY <2>1 DEF TypeOK, SfState, Presented, Presents, SameSf
    <2>2. CASE ~disp.skip
      <3>1. sf' = [sf EXCEPT !.at = "commit", !.from = sf.at]
        BY <2>2 DEF Presented, Presents
      <3>2. ASSUME NEW from, sf' = [sf EXCEPT !.at = "commit", !.from = from]
            PROVE  SameSf /\ sf'.client = sf.client /\ sf'.at = "commit"
        BY <3>2 DEF TypeOK, SfState, SameSf
      <3> QED BY <2>2, <3>1, <3>2
    <2> QED BY <2>1, <2>2
  <1>2. /\ SameDisp /\ ~disp'.valid /\ disp'.target = disp.target
    BY DEF TypeOK, DispState, Presented, Presents, SameDisp
  <1>3. /\ res' = res /\ power' = power /\ plane' = plane /\ kernel' = kernel /\ ev' = ev /\ svc' = svc
        /\ dropped => dropped'
    BY DEF Presented, Presents, Frees
  <1>4. Asked'
    BY <1>1, <1>2, <1>3 DEF Asked, Validated
  <1>5. InFrame'
    BY <1>1, <1>3 DEF InFrame, SameSf, Presented
  <1>6. Connected'
    BY <1>2, <1>3 DEF Connected, SameDisp
  <1>7. ASSUME disp.outside, ~Owed
        PROVE  sf.layers = {}
    <2>1. Sound
      BY <1>7 DEF Sound, Owed, Cleared
    <2>2. sf.at # "try"
      BY <1>7, <2>1, PresentsAll DEF Presented
    <2>3. ~Early /\ ~sf.geo
      BY <2>2 DEF Early, Presented, InFrame
    <2> QED BY <1>7, <2>3 DEF TakenIn
  <1> QED BY <1>1, <1>2, <1>3, <1>4, <1>5, <1>6, <1>7

\* With mSkipComposition set a frame ends here; it had no layer, or the connector is
\* down.
LEMMA SkippedScreen ==
  ASSUME TypeOK, TypeOK', Books, Screen, Presented, disp.skip
  PROVE  Screen'
  <1> USE DEF Screen
  <1>1. /\ SameSf /\ SameDisp /\ sf'.at = "idle"
        /\ res' = res /\ power' = power /\ plane' = plane /\ kernel' = kernel /\ ev' = ev /\ svc' = svc
        /\ Asked' /\ InFrame' /\ Connected'
    BY PresentsAside
  <1>2. ClearUpdateFlags /\ req' = req /\ dropped' = dropped /\ sf.at # "flip" /\ KeepsPlanes
    BY <1>1 DEF Presented, Presents, KeepsPlanes
  <1>3. /\ disp.present \subseteq LayerId /\ sf.layers \subseteq LayerId /\ Live \subseteq LayerId
    BY DEF TypeOK, DispState, SfState, Live
  <1>4. InStep'
    BY <1>1, <1>2, InStepKept
  <1>5. Live' = Live
    BY <1>2, ClearedFields, LiveKept
  <1>6. Sound' = Sound /\ Clear' = Clear /\ Owed' = Owed
    BY <1>1, <1>2 DEF Sound, Clear, Owed, SameSf, SameDisp
  <1>7. Newest'
    BY <1>1, <1>2, <1>3, <1>5, <1>6, ClearedFields DEF Newest, SameSf
  <1>8. Plan'
    BY <1>1, <1>2, <1>3, ClearedFields, PlanSame DEF SameDisp
  <1>9. Sound => disp.present = sf.layers
    BY PresentsAll DEF Presented
  <1>10. Drawn'
    <2>1. ~Late' /\ ~Early'
      BY <1>1 DEF Late, Early, Validated, Locked
    <2> QED BY <1>1, <1>2, <1>3, <1>5, <1>6, <1>9, <2>1, ClearedFields DEF Drawn, SameSf, SameDisp
  <1>11. Clear \/ ~Owed => sf.layers = {}
    <2>1. ASSUME Clear \/ ~Owed
          PROVE  Sound /\ power.present
      BY <2>1 DEF Clear, Sound, Owed, Connected, Cleared
    <2> QED BY <1>9, <2>1 DEF Connected
  <1>12. Marked'
    BY <1>1, <1>6, <1>11 DEF Marked, SameSf
  <1>13. Composes' /\ TakenIn' /\ Drew'
    BY <1>1, <1>6, <1>11 DEF Composes, TakenIn, Drew, SameSf
  <1> QED BY <1>1, <1>4, <1>7, <1>8, <1>10, <1>12, <1>13

LEMMA PresentedScreen ==
  ASSUME TypeOK, TypeOK', Books, Screen, Presented, ~disp.skip
  PROVE  Screen'
  <1> USE DEF Screen
  <1>1. /\ SameSf /\ SameDisp /\ sf'.at = "commit" /\ disp'.target = disp.target
        /\ res' = res /\ power' = power /\ plane' = plane /\ kernel' = kernel /\ ev' = ev /\ svc' = svc
        /\ Asked' /\ InFrame' /\ Connected'
    BY PresentsAside
  <1>2. /\ layer' = layer /\ req' = NoFlip /\ dropped' = (dropped \/ req # NoFlip)
        /\ sf.at \notin {"idle", "flip"}
    BY DEF Presented, Presents, Frees
  <1>3. ~dropped' => ~dropped /\ \A p \in Plane : Soon(p)' = Soon(p)
    BY <1>1, <1>2 DEF Soon, Committed
  <1>4. InStep'
    BY <1>1, <1>2, <1>3 DEF InStep
  <1>5. (Sound' => Sound) /\ (Clear' => Clear) /\ (~Owed' => ~Owed)
    BY <1>1, <1>2 DEF Sound, Clear, Owed, SameSf, SameDisp
  <1>6. Live' = Live /\ Live \subseteq LayerId
    BY <1>2 DEF Live
  <1>7. Newest'
    BY <1>1, <1>2, <1>5, <1>6 DEF Newest, SameSf
  <1>8. Plan'
    BY <1>1, <1>2, PlanSame DEF SameDisp
  <1>9. Sound => disp.present = sf.layers /\ sf.layers \subseteq Live
    BY PresentsAll DEF Presented
  <1>10. Drawn'
    <2>1. ~Early'
      BY <1>1 DEF Early
    <2> QED BY <1>1, <1>5, <1>9, <2>1 DEF Drawn, SameSf, SameDisp
  <1>11. Marked'
    <2>1. Clear' => ~dropped'
      BY DEF Clear, Sound
    <2> QED BY <1>1, <1>2, <1>3, <1>5, <2>1 DEF Marked, SameSf
  <1>12. Composes'
    <2>1. SUFFICES ASSUME Sound, Clear, sf.layers # {}, GivesTarget
                   PROVE  disp.target.new /\ disp.target.px = TargetPx
      <3>1. GivesTarget' = GivesTarget /\ TargetPx' = TargetPx
        BY <1>1, <1>2 DEF GivesTarget, TargetPx, Composed, ForClient, SameSf, SameDisp
      <3> QED BY <1>1, <1>5, <2>1, <3>1 DEF Composes, SameSf
    <2>2. Covers
      BY <1>9, <2>1 DEF Plan, Clear
    <2>3. PICK l \in sf.layers : ForClient(l)
      BY <1>9, <2>1, <2>2 DEF Covers
    <2>4. sf.at = "present"
      BY <1>9, <2>1, <2>3, PresentsAll DEF Presented
    <2>5. sf.client = Composed /\ l \in Composed
      BY <2>1, <2>3, <2>4 DEF Composes, Composed
    <2> QED BY <2>1, <2>4, <2>5 DEF Composes
  <1>13. TakenIn'
    <2>1. disp.outside /\ ~Owed => sf.layers = {}
      BY PresentsAside
    <2> QED BY <1>1, <1>5, <2>1 DEF TakenIn, SameSf, SameDisp
  <1>14. Drew'
    BY <1>1 DEF Drew
  <1> QED BY <1>1, <1>4, <1>7, <1>8, <1>10, <1>11, <1>12, <1>13, <1>14

\* A display that has to be validated is not presented: presentOrValidate goes on to
\* validate, and presentDisplay fails, which only a hotplug can cause.
LEMMA RefusedScreen ==
  ASSUME TypeOK, TypeOK', Screen, presentOrValidate \/ presentDisplay,
         ~(~res.must /\ (disp.valid \/ presentSkipValidateCheck))
  PROVE  Screen'
  <1> USE DEF Screen
  <1> DEFINE to == IF sf.at = "try" THEN "calibrate" ELSE "idle"
  <1>1. /\ sf.at \in {"try", "present"} /\ sf'.at = to /\ SameSf /\ sf'.client = sf.client
    BY DEF TypeOK, SfState, presentOrValidate, presentDisplay, SameSf
  <1>2. /\ SameDisp /\ disp'.valid = disp.valid
    BY DEF TypeOK, DispState, presentOrValidate, presentDisplay, SameDisp
  <1>3. /\ SameLayers /\ layer' = layer /\ res' = res /\ power' = power /\ ev' = ev /\ svc' = svc
        /\ dropped' = dropped /\ KeepsPlanes
    BY DEF presentOrValidate, presentDisplay, SameLayers
  <1>4. /\ InStep' /\ InFrame' /\ Connected' /\ Newest' /\ Plan' /\ Marked'
        /\ Sound' = Sound /\ Owed' = Owed /\ Live' = Live
    BY <1>1, <1>2, <1>3, Onward
  <1>5. CASE sf.at = "try"
    <2>1. Asked'
      BY <1>1, <1>2, <1>3, <1>4, <1>5 DEF Asked, Validated
    <2>2. Same' = Same /\ Moved' = Moved /\ Early' /\ Early
      BY <1>1, <1>2, <1>3, <1>4, <1>5 DEF Same, Moved, SameSf, SameDisp, Early
    <2>3. Drawn'
      BY <1>1, <1>4, <1>5, <2>2 DEF Drawn, Late, Validated, Locked
    <2>4. Composes' /\ TakenIn' /\ Drew'
      BY <1>1, <1>5, <2>2 DEF Composes, TakenIn, Drew
    <2> QED BY <1>4, <2>1, <2>3, <2>4
  <1>6. CASE sf.at = "present"
    <2>1. disp.valid /\ res.must /\ ~Sound
      BY <1>6 DEF Asked, Validated
    <2>2. Asked'
      BY <1>1, <1>2, <1>3, <1>4, <1>6, <2>1 DEF Asked, Validated
    <2>3. Owed'
      BY <1>4, <2>1 DEF Sound, Owed, Cleared
    <2> QED BY <1>4, <2>1, <2>2, <2>3, Unsound, Excused
  <1> QED BY <1>1, <1>5, <1>6

LEMMA PresentScreen ==
  ASSUME TypeOK, TypeOK', Books, Screen, presentOrValidate \/ presentDisplay
  PROVE  Screen'
  <1>1. CASE ~res.must /\ (disp.valid \/ presentSkipValidateCheck)
    <2>1. Presented
      BY <1>1 DEF presentOrValidate, presentDisplay, Presented
    <2> QED BY <2>1, SkippedScreen, PresentedScreen
  <1> QED BY <1>1, RefusedScreen

----------------------------------------------------------------------------
(* The commit and the flip *)

\* What the commit takes of the layers and of the client target.
LEMMA CommitEffect ==
  ASSUME TypeOK, commit
  PROVE  /\ sf.at = "commit" /\ sf'.at = "flip" /\ SameSf /\ SameDisp /\ disp'.valid = disp.valid
         /\ SetPlanes(disp.pairs) /\ disp.pairs \in [Plane -> Fb]
         /\ \A l \in LayerId : /\ layer'[l].live = layer[l].live /\ layer'[l].buf = layer[l].buf
                               /\ layer'[l].updated = layer[l].updated /\ layer'[l].z = layer[l].z
                               /\ layer'[l].comp = layer[l].comp
         /\ res' = res /\ power' = power /\ kernel' = kernel /\ ev' = ev /\ svc' = svc
         /\ dropped' = dropped
  <1>1. sf.at = "commit" /\ sf'.at = "flip" /\ SameSf
    BY DEF TypeOK, SfState, commit, SameSf
  <1>2. SameDisp /\ disp'.valid = disp.valid
    <2>1. PICK b \in BOOLEAN : disp' = [disp EXCEPT !.target.new = b]
      BY DEF commit
    <2> QED BY <2>1 DEF TypeOK, DispState, SameDisp
  <1>3. ASSUME NEW l \in LayerId
        PROVE  /\ layer'[l].live = layer[l].live /\ layer'[l].buf = layer[l].buf
               /\ layer'[l].updated = layer[l].updated /\ layer'[l].z = layer[l].z
               /\ layer'[l].comp = layer[l].comp
    <2>1. layer'[l] = [layer[l] EXCEPT !.fresh = FALSE] \/ layer'[l] = layer[l]
      BY DEF commit
    <2> QED BY <2>1 DEF TypeOK, LayerState
  <1> QED BY <1>1, <1>2, <1>3 DEF commit, TypeOK, DispState

\* With the connector up and no outside change since the validate, every plane will
\* show what the strategy chose for it.
LEMMA CommitShows ==
  ASSUME TypeOK, Books, Screen, commit, Clear, sf.layers # {}, NEW p \in Plane
  PROVE  /\ disp.present = sf.layers
         /\ Soon(p)' = PairPx(p)
         /\ plane'[p].fb = disp.pairs[p]
  <1> USE DEF Screen
  <1>1. /\ sf.at = "commit" /\ SetPlanes(disp.pairs) /\ disp.pairs \in [Plane -> Fb] /\ kernel' = kernel
    BY CommitEffect
  <1>2. Sound /\ ~disp.outside /\ power.present /\ ~dropped
    BY DEF Clear, Sound
  <1>3. disp.present = sf.layers /\ sf.layers \subseteq Live /\ sf.layers \subseteq LayerId
    BY <1>1, <1>2, SoundBooks DEF Drawn, Late, Locked, Known, TypeOK, SfState
  <1>4. Covers
    BY <1>2, <1>3 DEF Plan
  <1>5. /\ Skips(p, disp.pairs[p]) => plane'[p] = plane[p] /\ Soon(p)' = Soon(p)
        /\ ~Skips(p, disp.pairs[p]) =>
              /\ plane'[p].fb = disp.pairs[p]
              /\ Soon(p)' = (IF disp.pairs[p] = None THEN Blank ELSE Pixels(disp.pairs[p])).px
    BY <1>1, PlaneSet
  <1>6. CASE disp.pairs[p] = None
    <2>1. PairPx(p) = {}
      BY <1>6 DEF PairPx
    <2>2. CASE Skips(p, None)
      <3>1. plane[p].blank /\ plane[p].fb = None /\ Soon(p) = {}
        BY <1>2, <2>2 DEF Skips, InStep
      <3> QED BY <1>3, <1>5, <1>6, <2>1, <2>2, <3>1
    <2>3. CASE ~Skips(p, None)
      BY <1>3, <1>5, <1>6, <2>1, <2>3, BlankShown
    <2> QED BY <2>2, <2>3
  <1>7. CASE disp.pairs[p] = Target
    <2>1. Target # None
      BY PresentAssumption
    <2>2. PairPx(p) = TargetPx
      BY <1>7, <2>1 DEF PairPx
    <2>3. GivesTarget /\ disp.target.new /\ disp.target.px = TargetPx
      <3>1. GivesTarget
        BY <1>7 DEF GivesTarget
      <3> QED BY <1>1, <1>2, <3>1 DEF Composes
    <2>4. TargetPx # {}
      <3>1. PICK l \in sf.layers : ForClient(l)
        BY <1>3, <1>4, <2>3 DEF Covers
      <3>2. <<l, sf.want[l]>> \in TargetPx
        BY <3>1 DEF TargetPx, Composed
      <3> QED BY <3>2
    <2>5. ~Skips(p, Target)
      BY <2>1, <2>3, <2>4 DEF Skips, FbUpdated, HasBuffer
    <2>6. Pixels(Target).px = TargetPx
      BY <2>3 DEF Pixels
    <2> QED BY <1>3, <1>5, <1>7, <2>1, <2>2, <2>5, <2>6
  <1>8. CASE disp.pairs[p] \in sf.layers
    <2> DEFINE l == disp.pairs[p]
    <2>1. l \in LayerId /\ l # None /\ l # Target
      BY <1>3, <1>8, PresentAssumption
    <2>2. layer[l].buf = sf.want[l] /\ sf.want[l] > 0
      BY <1>1, <1>2, <1>3, <1>8 DEF Newest, InFrame
    <2>3. PairPx(p) = {<<l, layer[l].buf>>}
      BY <2>1, <2>2 DEF PairPx
    <2>4. CASE Skips(p, l)
      <3>1. plane[p].fb = l /\ ~layer[l].updated /\ ~layer[l].fresh
        BY <2>1, <2>2, <2>4 DEF Skips, HasBuffer, FbUpdated
      <3>2. Soon(p) = {<<l, layer[l].buf>>}
        BY <1>8, <3>1 DEF Marked
      <3> QED BY <1>3, <1>5, <2>3, <2>4, <3>1, <3>2
    <2>5. CASE ~Skips(p, l)
      <3>1. Pixels(l).px = {<<l, layer[l].buf>>}
        BY <2>1 DEF Pixels
      <3> QED BY <1>3, <1>5, <2>1, <2>3, <2>5, <3>1
    <2> QED BY <2>4, <2>5
  <1> QED BY <1>3, <1>4, <1>6, <1>7, <1>8 DEF Covers

\* setPlane returns early or sets the plane: no plane without a framebuffer is lit.
LEMMA CommitInStep ==
  ASSUME TypeOK, Screen, commit
  PROVE  InStep'
  <1>1. /\ sf'.at = "flip" /\ SetPlanes(disp.pairs) /\ disp.pairs \in [Plane -> Fb]
        /\ kernel' = kernel /\ dropped' = dropped
    BY CommitEffect
  <1>2. ASSUME NEW p \in Plane
        PROVE  /\ plane'[p].blank <=> plane'[p].fb = None
               /\ ~dropped /\ plane'[p].fb = None => Soon(p)' = {}
    <2>1. CASE Skips(p, disp.pairs[p])
      BY <1>1, <2>1, PlaneSet DEF Screen, InStep
    <2>2. CASE ~Skips(p, disp.pairs[p])
      BY <1>1, <2>2, PlaneSet, BlankShown
    <2> QED BY <2>1, <2>2
  <1> QED BY <1>1, <1>2 DEF InStep

LEMMA CommitScreen ==
  ASSUME TypeOK, TypeOK', Books, Screen, commit
  PROVE  Screen'
  <1> USE DEF Screen
  <1>1. /\ sf.at = "commit" /\ sf'.at = "flip" /\ SameSf /\ SameDisp /\ disp'.valid = disp.valid
        /\ \A l \in LayerId : /\ layer'[l].live = layer[l].live /\ layer'[l].buf = layer[l].buf
                              /\ layer'[l].updated = layer[l].updated /\ layer'[l].z = layer[l].z
                              /\ layer'[l].comp = layer[l].comp
        /\ res' = res /\ power' = power /\ ev' = ev /\ svc' = svc /\ dropped' = dropped
    BY CommitEffect
  <1>2. /\ disp.present \subseteq LayerId /\ sf.layers \subseteq LayerId /\ Live \subseteq LayerId
        /\ Live' = Live
    BY <1>1, LiveKept DEF TypeOK, DispState, SfState, Live
  <1>3. InFrame' /\ Connected' /\ Asked'
    BY <1>1 DEF InFrame, Connected, Asked, Validated, SameSf, SameDisp
  <1>4. Sound' = Sound /\ Clear' = Clear /\ Owed' = Owed
    BY <1>1 DEF Sound, Clear, Owed, SameSf, SameDisp
  <1>5. Newest'
    BY <1>1, <1>2, <1>4 DEF Newest, SameSf
  <1>6. ~Early /\ ~Early' /\ Late /\ Late'
    BY <1>1 DEF Early, Late, Locked
  <1>7. Drawn'
    BY <1>1, <1>4, <1>6 DEF Drawn, SameSf, SameDisp
  <1>8. Plan'
    BY <1>1, <1>2, PlanSame DEF SameDisp
  <1>9. Composes' /\ TakenIn'
    BY <1>1, <1>4, <1>6, TakenStays DEF Composes, SameSf, SameDisp
  <1>11. Marked'
    <2>1. SUFFICES ASSUME Clear, NEW p \in Plane, NEW l \in sf.layers, plane'[p].fb = l
                   PROVE  Soon(p)' = {<<l, layer'[l].buf>>}
      BY <1>1, <1>4, <2>1 DEF Marked, SameSf
    <2>2. l \in LayerId /\ l # None /\ l # Target
      BY <1>2, PresentAssumption
    <2>3. disp.pairs[p] = l /\ Soon(p)' = PairPx(p)
      BY <2>1, CommitShows
    <2>4. PairPx(p) = {<<l, sf.want[l]>>}
      BY <2>2, <2>3 DEF PairPx
    <2>5. layer[l].buf = sf.want[l]
      BY <1>2, <2>1, SoundBooks DEF Newest, Clear, Known
    <2> QED BY <1>1, <2>2, <2>3, <2>4, <2>5
  <1>12. Drew'
    <2>1. SUFFICES ASSUME ~Owed, sf.layers # {}, ~sf.geo
                   PROVE  disp.present = sf.layers /\ \A p \in Plane : Soon(p)' = PairPx(p)'
      BY <1>1, <1>4, <2>1 DEF Drew, SameSf, SameDisp
    <2>2. Clear /\ disp.present = sf.layers
      BY <1>6, <2>1, QuietClear DEF Drawn, Clear
    <2>3. Composed' = Composed
      BY <1>1, <1>2 DEF Composed, ForClient, SameSf
    <2>4. \A p \in Plane : PairPx(p)' = PairPx(p)
      BY <1>1, <2>3 DEF PairPx, TargetPx, SameSf, SameDisp
    <2> QED BY <2>1, <2>2, <2>4, CommitShows
  <1> QED BY <1>3, <1>5, <1>7, <1>8, <1>9, <1>11, <1>12, CommitInStep

LEMMA FlipScreen ==
  ASSUME TypeOK, TypeOK', Screen, pageFlip
  PROVE  Screen'
  <1> USE DEF Screen
  <1>1. sf.at = "flip" /\ sf'.at = "idle" /\ SameSf
    BY DEF TypeOK, SfState, pageFlip, SameSf
  <1>2. /\ SameDisp /\ disp' = disp /\ res' = res /\ power' = power /\ ev' = ev /\ svc' = svc
        /\ dropped' = dropped /\ plane' = plane /\ kernel' = Committed(req) /\ req' = NoFlip
        /\ ClearUpdateFlags
    BY DEF pageFlip, SameDisp
  <1>3. /\ disp.present \subseteq LayerId /\ sf.layers \subseteq LayerId /\ Live \subseteq LayerId
        /\ Live' = Live
    BY <1>2, ClearedFields, LiveKept DEF TypeOK, DispState, SfState, Live
  <1>4. \A p \in Plane : Soon(p)' = Soon(p)
    BY <1>2, Flipped
  <1>5. InStep'
    BY <1>2, <1>4 DEF InStep
  <1>6. InFrame' /\ Connected' /\ Asked'
    BY <1>1, <1>2 DEF InFrame, Connected, Asked, Validated, SameSf
  <1>7. Sound' = Sound /\ Clear' = Clear /\ Owed' = Owed
    BY <1>1, <1>2 DEF Sound, Clear, Owed, SameSf
  <1>8. Newest'
    BY <1>1, <1>2, <1>3, <1>7, ClearedFields DEF Newest, SameSf
  <1>9. ~Early /\ ~Early' /\ Late /\ ~Late'
    BY <1>1 DEF Early, Late, Validated, Locked
  <1>10. Drawn'
    BY <1>1, <1>2, <1>3, <1>7, <1>9, ClearedFields DEF Drawn, SameSf
  <1>11. Plan'
    BY <1>2, <1>3, ClearedFields, PlanSame
  <1>12. Marked'
    BY <1>1, <1>2, <1>3, <1>4, <1>7, ClearedFields DEF Marked, SameSf
  <1>13. Composes' /\ TakenIn'
    BY <1>1, <1>2, <1>7, <1>9, TakenStays DEF Composes, SameSf
  <1>14. Drew'
    <2>1. Composed' = Composed
      BY <1>1, <1>2, <1>3, ClearedFields DEF Composed, ForClient, SameSf
    <2>2. \A p \in Plane : PairPx(p)' = PairPx(p)
      BY <1>1, <1>2, <2>1 DEF PairPx, TargetPx, SameSf
    <2> QED BY <1>1, <1>2, <1>4, <1>7, <2>2 DEF Drew, SameSf
  <1> QED BY <1>5, <1>6, <1>8, <1>10, <1>11, <1>12, <1>13, <1>14

LEMMA FlipRefusedScreen ==
  ASSUME TypeOK, TypeOK', Screen, FlipRefused
  PROVE  Screen'
  <1> USE DEF Screen
  <1>1. sf.at = "flip" /\ sf'.at \in {"calibrate", "idle"} /\ SameSf
    BY DEF TypeOK, SfState, FlipRefused, SameSf
  <1>2. /\ SameDisp /\ disp' = disp /\ layer' = layer /\ res' = res /\ power' = power /\ ev' = ev
        /\ svc' = svc /\ dropped' /\ plane' = plane /\ kernel' = kernel /\ req' = NoFlip
    BY DEF FlipRefused, SameDisp
  <1>3. InStep' /\ InFrame' /\ Connected' /\ Asked'
    BY <1>1, <1>2 DEF InStep, InFrame, Connected, Asked, Validated, SameSf
  <1>4. Plan'
    BY <1>2, PlanSame
  <1>5. ~Sound' /\ Owed'
    BY <1>2 DEF Sound, Owed
  <1> QED BY <1>3, <1>4, <1>5, Unsound, Excused

----------------------------------------------------------------------------
(* validateDisplay *)

\* What the choice does to each layer, to the display and to the power.
LEMMA ValidateEffect ==
  ASSUME TypeOK, validateDisplay
  PROVE  LET present == collectLayersForPresent
             dark == needBlankScreen(present # {})
             skip == Skipped(present)
         IN /\ sf.at = "validate" /\ sf'.at = "learn" /\ SameSf
            /\ res'.has = res.has /\ ~res'.must
            /\ ev' = ev /\ svc' = svc /\ dropped' = dropped /\ KeepsPlanes
            /\ disp'.present = present /\ disp'.skip = skip /\ disp'.valid
            /\ disp'.outside <=> disp.outside /\ (skip \/ present = {})
            /\ power'.present = power.present /\ power'.on = power.on
            /\ (power.mode = "OUT" => ~power.present) => (power'.mode = "OUT" => ~power.present)
            /\ \A l \in LayerId :
                  /\ layer'[l].live = layer[l].live /\ layer'[l].buf = layer[l].buf
                  /\ layer'[l].fresh = layer[l].fresh
                  /\ layer[l].updated => layer'[l].updated
                  /\ l \in present /\ ~skip /\ disp.outside => layer'[l].updated
            /\ ~dark => /\ disp'.pairs \in Choices(present)
                        /\ \A l \in present : layer'[l].comp = "CLIENT"
                                                <=> \A p \in Plane : disp'.pairs[p] # l
  <1> DEFINE present == collectLayersForPresent
             dark == needBlankScreen(present # {})
             skip == Skipped(present)
             typed(pairs) == [l \in LayerId |->
                    [layer[l] EXCEPT !.comp = CompType(l, pairs, present, dark)]]
  <1>1. PICK pairs \in IF dark THEN {NoPairs} ELSE Choices(present) :
               /\ layer' = [l \in LayerId |-> IF l \in present /\ ~skip
                               THEN [Adjusted(layer[l]) EXCEPT !.comp = typed(pairs)[l].comp]
                               ELSE typed(pairs)[l]]
               /\ power' = IF skip THEN power ELSE setScreenStatus(present = {} \/ dark)
               /\ disp' = [disp EXCEPT
                     !.present = present,
                     !.skip = skip, !.valid = TRUE,
                     !.pairs = IF skip THEN @ ELSE pairs,
                     !.calib = IF skip THEN @ ELSE disp.coords,
                     !.outside = @ /\ (skip \/ present = {})]
    BY DEF validateDisplay
  <1>2. /\ sf.at = "validate" /\ sf'.at = "learn" /\ SameSf
        /\ res'.has = res.has /\ ~res'.must
        /\ ev' = ev /\ svc' = svc /\ dropped' = dropped /\ KeepsPlanes
    BY DEF TypeOK, SfState, validateDisplay, SameSf
  <1>3. present \subseteq LayerId /\ (dark \in BOOLEAN) /\ (skip \in BOOLEAN) /\ (skip => dark)
    BY DEF collectLayersForPresent, Live, Skipped, needBlankScreen
  <1>4. /\ disp'.present = present /\ disp'.skip = skip /\ disp'.valid
        /\ disp'.outside <=> disp.outside /\ (skip \/ present = {})
        /\ ~skip => disp'.pairs = pairs
    <2>1. ASSUME NEW P, NEW b \in BOOLEAN, NEW c \in BOOLEAN, NEW q, NEW r,
                 disp' = [disp EXCEPT !.present = P, !.skip = b, !.valid = TRUE, !.pairs = q,
                                      !.calib = r, !.outside = c]
          PROVE  /\ disp'.present = P /\ disp'.skip = b /\ disp'.valid /\ disp'.outside = c
                 /\ disp'.pairs = q
      BY <2>1 DEF TypeOK, DispState
    <2> DEFINE q == IF skip THEN disp.pairs ELSE pairs
               r == IF skip THEN disp.calib ELSE disp.coords
               c == disp.outside /\ (skip \/ present = {})
    <2>2. c \in BOOLEAN
      OBVIOUS
    <2>3. disp' = [disp EXCEPT !.present = present, !.skip = skip, !.valid = TRUE, !.pairs = q,
                               !.calib = r, !.outside = c]
      BY <1>1
    <2>4. (c <=> disp.outside /\ (skip \/ present = {})) /\ (~skip => q = pairs)
      OBVIOUS
    <2> HIDE DEF present, skip, q, r, c
    <2>5. /\ disp'.present = present /\ disp'.skip = skip /\ disp'.valid /\ disp'.outside = c
          /\ disp'.pairs = q
      BY <1>3, <2>1, <2>2, <2>3
    <2> QED BY <2>4, <2>5
  <1>5. /\ power'.present = power.present /\ power'.on = power.on
        /\ (power.mode = "OUT" => ~power.present) => (power'.mode = "OUT" => ~power.present)
    <2>1. ASSUME NEW b \in BOOLEAN, power' = setScreenStatus(b)
          PROVE  /\ power'.present = power.present /\ power'.on = power.on
                 /\ (power.mode = "OUT" => ~power.present) => (power'.mode = "OUT" => ~power.present)
      BY <2>1 DEF TypeOK, PowerState, setScreenStatus
    <2>2. (present = {} \/ dark) \in BOOLEAN
      OBVIOUS
    <2> QED BY <1>1, <2>1, <2>2
  <1>6. ASSUME NEW l \in LayerId
        PROVE  /\ layer'[l].live = layer[l].live /\ layer'[l].buf = layer[l].buf
               /\ layer'[l].fresh = layer[l].fresh
               /\ layer[l].updated => layer'[l].updated
               /\ l \in present /\ ~skip /\ disp.outside => layer'[l].updated
               /\ layer'[l].comp = CompType(l, pairs, present, dark)
    <2> DEFINE c == CompType(l, pairs, present, dark)
               seen == layer[l].updated \/ disp.outside
    <2>1. layer[l] \in LayerState
      BY DEF TypeOK
    <2>2. ASSUME NEW L \in LayerState, NEW k
          PROVE  LET M == [L EXCEPT !.comp = k]
                 IN /\ M.live = L.live /\ M.buf = L.buf /\ M.fresh = L.fresh /\ M.updated = L.updated
                    /\ M.comp = k
      BY <2>2 DEF LayerState
    <2>3. ASSUME NEW b \in BOOLEAN
          PROVE  LET M == [layer[l] EXCEPT !.at = disp.coords, !.updated = b]
                 IN /\ M.live = layer[l].live /\ M.buf = layer[l].buf /\ M.fresh = layer[l].fresh
                    /\ M.updated = b /\ M \in LayerState
      BY <2>1 DEF TypeOK, DispState, LayerState
    <2>4. seen \in BOOLEAN
      OBVIOUS
    <2>5. Adjusted(layer[l]) = [layer[l] EXCEPT !.at = disp.coords, !.updated = seen]
      BY DEF Adjusted
    <2>6. typed(pairs)[l] = [layer[l] EXCEPT !.comp = c] /\ typed(pairs)[l].comp = c
      BY <2>1, <2>2
    <2>7. layer'[l] = IF l \in present /\ ~skip THEN [Adjusted(layer[l]) EXCEPT !.comp = c]
                      ELSE [layer[l] EXCEPT !.comp = c]
      BY <1>1, <2>6
    <2> HIDE DEF present, skip, c
    <2>8. CASE l \in present /\ ~skip
      <3>1. /\ Adjusted(layer[l]) \in LayerState
            /\ Adjusted(layer[l]).live = layer[l].live /\ Adjusted(layer[l]).buf = layer[l].buf
            /\ Adjusted(layer[l]).fresh = layer[l].fresh
            /\ Adjusted(layer[l]).updated = seen
        BY <2>3, <2>4, <2>5
      <3>2. layer'[l] = [Adjusted(layer[l]) EXCEPT !.comp = c]
        BY <2>7, <2>8
      <3>3. /\ layer'[l].live = layer[l].live /\ layer'[l].buf = layer[l].buf
            /\ layer'[l].fresh = layer[l].fresh /\ layer'[l].updated = seen /\ layer'[l].comp = c
        <4>1. ASSUME NEW L \in LayerState, layer'[l] = [L EXCEPT !.comp = c]
              PROVE  /\ layer'[l].live = L.live /\ layer'[l].buf = L.buf /\ layer'[l].fresh = L.fresh
                     /\ layer'[l].updated = L.updated /\ layer'[l].comp = c
          BY <2>2, <4>1
        <4> QED BY <3>1, <3>2, <4>1
      <3> QED BY <3>3 DEF c
    <2>9. CASE ~(l \in present /\ ~skip)
      <3>1. layer'[l] = [layer[l] EXCEPT !.comp = c]
        BY <2>7, <2>9
      <3> QED BY <2>1, <2>2, <2>9, <3>1 DEF c
    <2> QED BY <2>8, <2>9
  <1>7. ASSUME ~dark
        PROVE  /\ disp'.pairs \in Choices(present)
               /\ \A l \in present : layer'[l].comp = "CLIENT"
                                       <=> \A p \in Plane : disp'.pairs[p] # l
    <2>1. disp'.pairs = pairs /\ pairs \in Choices(present)
      BY <1>1, <1>3, <1>4, <1>7
    <2>2. ASSUME NEW l \in present
          PROVE  layer'[l].comp = "CLIENT" <=> \A p \in Plane : pairs[p] # l
      <3>1. layer'[l].comp = CompType(l, pairs, present, dark)
        BY <1>3, <1>6
      <3> QED BY <1>7, <3>1 DEF CompType
    <2> QED BY <2>1, <2>2
  <1> HIDE DEF present, dark, skip
  <1> QED BY <1>2, <1>4, <1>5, <1>6, <1>7 DEF present, dark, skip

\* Whether the geometry was sent or not, the layers collected are SurfaceFlinger's.
LEMMA Collected ==
  ASSUME TypeOK, Books, Drawn, Sound, Early
  PROVE  collectLayersForPresent = sf.layers
  <1>1. Live = sf.layers \cup sf.drop /\ Live \subseteq LayerId
    BY SoundBooks DEF Known, Live
  <1>2. CASE Same
    <2>1. collectLayersForPresent = Live
      BY <1>2 DEF Same, collectLayersForPresent
    <2> QED BY <1>1, <1>2, <2>1 DEF Same
  <1>3. CASE Moved
    <2>1. \E k \in Live : layer[k].z
      BY <1>1, <1>3 DEF Moved
    <2>2. collectLayersForPresent = {l \in Live : layer[l].z}
      BY <2>1 DEF collectLayersForPresent
    <2> QED BY <1>1, <1>3, <2>2 DEF Moved
  <1> QED BY <1>2, <1>3 DEF Drawn

\* With the power on and the connector up a layer is never blanked.
LEMMA LitWhenUp ==
  ASSUME TypeOK, Connected, power.on, power.present
  PROVE  ~needBlankScreen(TRUE)
  BY DEF Connected, needBlankScreen

LEMMA ValidateScreen ==
  ASSUME TypeOK, TypeOK', Books, Screen, validateDisplay
  PROVE  Screen'
  <1> USE DEF Screen
  <1> DEFINE P == collectLayersForPresent
             dark == needBlankScreen(P # {})
             skip == Skipped(P)
  <1>1. /\ sf.at = "validate" /\ sf'.at = "learn" /\ SameSf
        /\ res'.has = res.has /\ ~res'.must
        /\ ev' = ev /\ svc' = svc /\ dropped' = dropped /\ KeepsPlanes
        /\ disp'.present = P /\ disp'.skip = skip /\ disp'.valid
        /\ disp'.outside <=> disp.outside /\ (skip \/ P = {})
        /\ power'.present = power.present /\ power'.on = power.on
        /\ (power.mode = "OUT" => ~power.present) => (power'.mode = "OUT" => ~power.present)
        /\ \A l \in LayerId :
              /\ layer'[l].live = layer[l].live /\ layer'[l].buf = layer[l].buf
              /\ layer'[l].fresh = layer[l].fresh
              /\ layer[l].updated => layer'[l].updated
              /\ l \in P /\ ~skip /\ disp.outside => layer'[l].updated
        /\ ~dark => /\ disp'.pairs \in Choices(P)
                    /\ \A l \in P : layer'[l].comp = "CLIENT"
                                            <=> \A p \in Plane : disp'.pairs[p] # l
    BY ValidateEffect
  <1>2. Live' = Live /\ Live \subseteq LayerId /\ P \subseteq LayerId /\ sf.layers \subseteq LayerId
    BY <1>1, LiveKept DEF Live, collectLayersForPresent, TypeOK, SfState
  <1>3. P # {} /\ power.present => ~dark
    <2>1. power.on
      BY <1>1 DEF InFrame
    <2> QED BY <2>1, LitWhenUp
  <1>4. skip => dark
    BY DEF Skipped
  <1>a. Early /\ ~Early' /\ Late'
    BY <1>1 DEF Early, Late, Validated
  <1>5. Sound => P = sf.layers
    BY <1>a, Collected
  <1> HIDE DEF P, dark, skip
  <1>6. InStep' /\ \A p \in Plane : Soon(p)' = Soon(p)
    BY <1>1, InStepKept
  <1>7. InFrame'
    BY <1>1 DEF InFrame, SameSf
  <1>8. Connected'
    BY <1>1, <1>3, <1>4 DEF Connected
  <1>9. Sound' = Sound
    BY <1>1 DEF Sound, SameSf
  <1>10. Newest'
    BY <1>1, <1>2, <1>9 DEF Newest, SameSf
  <1>11. Asked'
    BY <1>1, <1>9 DEF Asked, Validated
  <1>12. Drawn'
    BY <1>1, <1>5, <1>9, <1>a DEF Drawn, SameSf
  <1>13. Plan'
    <2>1. SUFFICES ASSUME power.present, P # {}
                   PROVE  Covers'
      BY <1>1 DEF Plan
    <2>2. /\ disp'.pairs \in Choices(P)
          /\ \A l \in P : layer'[l].comp = "CLIENT" <=> \A p \in Plane : disp'.pairs[p] # l
      BY <1>1, <1>3, <2>1
    <2>3. \A p \in Plane : disp'.pairs[p] \in P \cup {Target, None}
      BY <2>2 DEF Choices
    <2>4. (\E p \in Plane : disp'.pairs[p] = Target) <=> {l \in P : \E p \in Plane : disp'.pairs[p] = l} # P
      BY <2>2 DEF Choices
    <2> QED BY <1>1, <2>2, <2>3, <2>4 DEF Covers, GivesTarget, ForClient
  <1>14. Marked'
    <2>1. SUFFICES ASSUME Clear', NEW p \in Plane, NEW l \in sf.layers, plane[p].fb = l
                   PROVE  Soon(p) = {<<l, layer[l].buf>>} \/ layer'[l].fresh \/ layer'[l].updated
      BY <1>1, <1>2, <1>6, <2>1 DEF Marked, SameSf, KeepsPlanes
    <2>2. Sound /\ power.present
      BY <1>1, <1>9, <2>1 DEF Clear
    <2>3. CASE disp.outside
      BY <1>1, <1>2, <1>5, <2>1, <2>2, <2>3 DEF Clear
    <2>4. CASE ~disp.outside
      <3>1. Soon(p) = {<<l, layer[l].buf>>} \/ layer[l].fresh \/ layer[l].updated
        BY <2>1, <2>2, <2>4 DEF Marked, Clear
      <3> QED BY <1>1, <1>2, <3>1
    <2> QED BY <2>3, <2>4
  <1>15. TakenIn'
    <2>1. SUFFICES ASSUME disp'.outside, ~Owed'
                   PROVE  sf.layers = {}
      BY <1>1, <2>1 DEF TakenIn, SameSf
    <2>2. Sound /\ power.present
      BY <1>1, <2>1 DEF Owed, Sound, Cleared, Connected, SameSf
    <2> QED BY <1>1, <1>3, <1>4, <1>5, <2>1, <2>2
  <1>16. Composes' /\ Drew'
    BY <1>1 DEF Composes, Drew
  <1> QED BY <1>6, <1>7, <1>8, <1>10, <1>11, <1>12, <1>13, <1>14, <1>15, <1>16

----------------------------------------------------------------------------
(* All steps together *)

LEMMA InitScreen == Init => Screen
  <1> SUFFICES ASSUME Init
               PROVE  Screen
    OBVIOUS
  <1>1. Live = {} /\ sf.layers = {} /\ sf.at = "idle"
    BY DEF Init, Live, NoLayer
  <1>2. InStep
    <2>1. ASSUME NEW p \in Plane
          PROVE  Soon(p) = {}
      <3>1. Soon(p) = kernel[p].px
        BY NoFlipRequest DEF Init, Soon, Committed
      <3> QED BY <3>1, BlankShown DEF Init
    <2> QED BY <2>1 DEF Init, InStep
  <1>3. InFrame /\ Connected /\ Newest /\ Asked
    BY <1>1 DEF Init, InFrame, Connected, Newest, Asked, Validated
  <1>4. Drawn
    BY <1>1 DEF Init, Drawn, Late, Early, Validated, Locked
  <1>5. Plan /\ Marked /\ Composes /\ TakenIn /\ Drew
    BY <1>1 DEF Init, Plan, Marked, Composes, TakenIn, Drew
  <1> QED BY <1>2, <1>3, <1>4, <1>5 DEF Screen

LEMMA NextScreen == TypeOK /\ TypeOK' /\ Books /\ Screen /\ [Next]_vars => Screen'
  <1> SUFFICES ASSUME TypeOK, TypeOK', Books, Screen, [Next]_vars
               PROVE  Screen'
    OBVIOUS
  <1>1. CASE UNCHANGED vars
    <2>1. /\ sf' = sf /\ res' = res /\ layer' = layer /\ disp' = disp /\ power' = power /\ plane' = plane
          /\ req' = req /\ kernel' = kernel /\ ev' = ev /\ svc' = svc /\ dropped' = dropped
      BY <1>1 DEF vars
    <2>2. SameFrame /\ NoBetter /\ (Clear' => Clear) /\ (~Owed' => ~Owed) /\ (Early' <=> Early)
      BY <2>1 DEF SameFrame, NoBetter, Sound, Clear, Owed, Early
    <2>3. InFrame' /\ Newest' /\ Drawn' /\ Plan' /\ Composes'
      BY <2>2, Beside DEF Screen
    <2>4. InStep' /\ \A p \in Plane : Soon(p)' = Soon(p)
      BY <2>1, InStepAside DEF Screen
    <2>5. Marked'
      BY <2>1, <2>2, <2>4, MarkedAside DEF Screen
    <2>6. Connected' /\ Asked' /\ TakenIn'
      BY <2>1, <2>2 DEF Screen, Connected, Asked, Validated, Sound, TakenIn
    <2>7. \A p \in Plane : PairPx(p)' = PairPx(p)
      BY <2>1 DEF PairPx, TargetPx, Composed, ForClient
    <2>8. Drew'
      BY <2>1, <2>2, <2>4, <2>7 DEF Screen, Drew
    <2> QED BY <2>3, <2>4, <2>5, <2>6, <2>8 DEF Screen
  <1>2. CASE EvSteps \/ SvcSteps \/ cleanupBeforeDestroy \/ cleanDisplayResources
    BY <1>2, BesideScreen
  <1>3. CASE \/ \E l \in LayerId : createLayer(l) \/ ContentFrame(l)
             \/ \E visible \in SUBSET LayerId : GeometryFrame(visible)
             \/ destroyLayer \/ OnHotplug \/ RefreshFrame
    BY <1>3, CreateScreen, ContentScreen, GeometryScreen, DestroyScreen, HotplugScreen, RefreshScreen
  <1>4. CASE \/ Calibrate \/ validateDisplay \/ getChangedCompositionTypes
             \/ acceptDisplayChanges \/ setClientTarget
    BY <1>4, CalibrateScreen, ValidateScreen, LearnScreen, AcceptScreen, TargetScreen
  <1>5. CASE presentOrValidate \/ presentDisplay \/ commit \/ pageFlip \/ FlipRefused
    BY <1>5, PresentScreen, CommitScreen, FlipScreen, FlipRefusedScreen
  <1> QED BY <1>1, <1>2, <1>3, <1>4, <1>5 DEF Next, EvSteps, SvcSteps

\* With nothing owed the kernel shows what is to come, and the last choice gives each
\* layer its plane or the client target, which the strategy gives one, too.
LEMMA QuietShows ==
  ASSUME TypeOK, Screen, Quiet, ~dropped
  PROVE  UNION {kernel[p].px : p \in Plane} = {<<l, sf.want[l]>> : l \in sf.layers}
  <1> USE DEF Screen
  <1>1. /\ sf.at = "idle" /\ ~Owed /\ sf.layers # {} /\ ~sf.geo /\ svc # "flip" /\ ~Early
    BY DEF Quiet, Settled, Owed, Early
  <1>2. req = NoFlip
    BY <1>1 DEF InStep
  <1>3. \A p \in Plane : kernel[p].px = PairPx(p)
    BY <1>1, <1>2, NoFlipRequest, SoonIs DEF Drew
  <1>4. Clear /\ disp.present = sf.layers
    BY <1>1, QuietClear DEF Drew
  <1>5. Covers
    BY <1>1, <1>4 DEF Plan, Clear
  <1>6. Target # None /\ sf.layers \subseteq LayerId /\ Target \notin LayerId /\ None \notin LayerId
    BY PresentAssumption DEF TypeOK, SfState
  <1>7. ASSUME NEW p \in Plane, NEW x \in PairPx(p)
        PROVE  x \in {<<l, sf.want[l]>> : l \in sf.layers}
    BY <1>4, <1>5, <1>6 DEF Covers, PairPx, TargetPx, Composed
  <1>8. ASSUME NEW l \in sf.layers
        PROVE  \E p \in Plane : <<l, sf.want[l]>> \in PairPx(p)
    <2>1. CASE ForClient(l)
      <3>1. PICK p \in Plane : disp.pairs[p] = Target
        BY <1>4, <1>5, <2>1 DEF Covers, GivesTarget
      <3>2. PairPx(p) = TargetPx
        BY <1>6, <3>1 DEF PairPx
      <3>3. <<l, sf.want[l]>> \in TargetPx
        BY <2>1 DEF TargetPx, Composed
      <3> QED BY <3>2, <3>3
    <2>2. CASE ~ForClient(l)
      <3>1. PICK p \in Plane : disp.pairs[p] = l
        BY <1>4, <1>5, <2>2 DEF Covers
      <3>2. l # None /\ l # Target
        BY <1>6
      <3> QED BY <3>1, <3>2 DEF PairPx
    <2> QED BY <2>1, <2>2
  <1> QED BY <1>3, <1>7, <1>8

LEMMA ScreenInvariance == Spec => []Screen
  <1>1. IInv /\ IInv' /\ Screen /\ [Next]_vars => Screen'
    BY NextScreen DEF IInv
  <1> QED BY InitScreen, Invariance, <1>1, PTL DEF Spec

\* Once every thread is at rest and the driver has refused nothing, the kernel shows
\* all of SurfaceFlinger's layers with their newest buffers and nothing else, for any
\* set of layers and planes and whatever frames, modes, plugs and blanks of the service
\* came before, in any order.
THEOREM StaysCurrent == Spec => []ScreenCurrent
  <1>1. IInv /\ Screen => ScreenCurrent
    BY QuietShows DEF IInv, ScreenCurrent
  <1> QED BY <1>1, Invariance, ScreenInvariance, PTL
=============================================================================
