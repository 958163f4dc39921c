---------------------------- MODULE MCComposition ----------------------------
(* One or two osd planes and one or two video planes.  The first frame has    *)
(* any layers of the kinds below at up to three z-orders, or up to four of    *)
(* the main kinds; a second frame is one of a few.  Beside it, each on its    *)
(* own, the display on the frame buffer drivers and the framebuffers of the   *)
(* drm planes: the side that moves is chosen at the start.                    *)
EXTENDS DrmPlanes, FbPlanes, TLC

CONSTANTS Target, Primary, LayerScenes, LaterScenes, Flags, OsdPlaneSeqs, VideoPlaneSeqs,
          MaxValidates

VARIABLES strategy, plan, screen, calls, phase, validates,
          side   \* "planes", "fb" or "drm"

Co == INSTANCE Composition WITH m <- plan, frames <- validates, Scenes <- LayerScenes,
                                MaxFrames <- MaxValidates

frameVars == <<strategy, plan, screen, calls, phase, validates>>

MCTarget == <<2, 2>>
MCOsdPlaneSeqs == {<<"osd1">>, <<"osd1", "osd2">>}
MCVideoPlaneSeqs == {<<"vd1">>, <<"vd1", "vd2">>}

Kind(type, comp, win) ==
    [type |-> type, comp |-> comp, buffer |-> TRUE, scan |-> type = "scanout",
     secure |-> FALSE, vt |-> type = "tunnel", afbc |-> TRUE, shrunk |-> FALSE,
     odd |-> FALSE, scale |-> <<2, 2>>, kinds |-> {}, win |-> win]

Full == {1, 2, 3, 4}
Ui == Kind("scanout", "undetermined", Full)
Client == Kind("render", "client", Full)
Small == [Ui EXCEPT !.scale = <<1, 1>>, !.odd = TRUE]
Shrunk == [Ui EXCEPT !.shrunk = TRUE, !.afbc = FALSE, !.scale = <<3, 3>>]
Secret == [Ui EXCEPT !.secure = TRUE]
NoBuffer == [Ui EXCEPT !.buffer = FALSE]
Video == Kind("uvm", "undetermined", {1})
Special == [Kind("dmabuf", "undetermined", {1, 2}) EXCEPT !.kinds = {"afbc"}]
Tunnel == Kind("tunnel", "undetermined", Full)
Sideband == Kind("sideband", "undetermined", Full)

Quarter(q) == [Kind("uvm", "undetermined", {q}) EXCEPT !.kinds = {"afbc"}]

Of(kinds, n) == UNION {[S -> kinds] : S \in SUBSET (1 .. n)}

MCScenes == Of({Ui, Client, Small, Shrunk, Secret, NoBuffer, Video, Special,
                Tunnel, Sideband}, 3)
            \cup Of({Ui, Client, Small, Video, Special, Sideband}, 4)
            \cup [1 .. 4 -> {Quarter(1), Quarter(4), Quarter(2)}]
MCLaterScenes == {1 :> Ui, (1 :> Ui) @@ (2 :> Small), 1 :> Video @@ 2 :> Ui}

(* No request; everything a chip or a connector may ask for; a test mode.     *)
Flag(gfcd, hide, force, fast, noSide) ==
    [gfcdOdd |-> gfcd, hideSecure |-> hide, forceClient |-> force, fast |-> fast,
     disableSideband |-> noSide, disablePost |-> force, mosaicPlane |-> TRUE]
MCFlags == {Flag(FALSE, FALSE, FALSE, FALSE, FALSE), Flag(TRUE, TRUE, FALSE, TRUE, FALSE),
            Flag(FALSE, FALSE, TRUE, FALSE, TRUE)}

-----------------------------------------------------------------------------
(* Two cursor images of two sizes, a video of each kind, shown and hidden.    *)
Arrow == [at |-> 1, rot |-> 0, size |-> 256, image |-> "arrow"]
Hand == [at |-> 2, rot |-> 90, size |-> 32, image |-> "hand"]
Clip == [type |-> "overlay", win |-> 1, rot |-> 0]
Film == [type |-> "omx", win |-> 2, rot |-> 90]
FbScene(cursor, video, hidden, hdr) ==
    [osd |-> Nothing, cursor |-> cursor, video |-> video, hidden |-> hidden, hdr |-> hdr]
MCFbScenes ==
    {FbScene(Nothing, Nothing, FALSE, Nothing), FbScene(Arrow, Clip, FALSE, Nothing),
     FbScene(Hand, Film, FALSE, "film"), FbScene(Nothing, Clip, TRUE, Nothing),
     FbScene(Nothing, [Film EXCEPT !.win = 1], FALSE, Nothing)}
MCKinds == {{}, {"afbc"}}

-----------------------------------------------------------------------------
(* Two displays that show a buffer both, or one alone whose driver may refuse.  *)
(* A plane has four framebuffer ids, taken in turn.                            *)
MCThread == {SF, EV}
MCFbId == {1, 2} \X (0 .. 3)
MCBrings(d, failing) == CASE d = 2 /\ failing # {} -> {}
                          [] d = 1 /\ failing = {} -> Buffer
                          [] OTHER -> {"b1"}
MCNewFbs(d, cache) ==
    LET real == SelectSeq(cache, LAMBDA f : f # Unmade)
    IN {<<d, IF real = <<>> THEN 0 ELSE (real[Len(real)][2] + 1) % 4>>}

-----------------------------------------------------------------------------
IdleDrm == Init({1, 2}, {})
IdlePlanes ==
    /\ strategy = "none" /\ plan = Nothing /\ screen = Nothing /\ calls = {} /\ phase = "none"
    /\ validates = 0
IdleFb == FbInit /\ ~afbc /\ ~keep /\ m.hdr = "zero" /\ ~m.video.mute

MCInit == \/ side = "planes" /\ Co!Init /\ IdleFb /\ IdleDrm
          \/ side = "fb" /\ FbInit /\ IdlePlanes /\ IdleDrm
          \/ side = "drm" /\ IdlePlanes /\ IdleFb
             /\ (Init({1, 2}, {}) \/ Init({1, 2}, {1}))
MCNext == \/ side = "planes" /\ Co!Next /\ UNCHANGED <<fbVars, drmVars, side>>
          \/ side = "fb" /\ FbNext /\ UNCHANGED <<frameVars, drmVars, side>>
          \/ side = "drm" /\ Next /\ UNCHANGED <<frameVars, fbVars, side>>
MCSpec == MCInit /\ [][MCNext]_<<frameVars, fbVars, drmVars, side>>

(* Of the strategies: see Composition.                                        *)
EveryPlaneSet == Co!EveryPlaneSet
Stacked == Co!Stacked
HolePunched == Co!HolePunched
ShownAsTold == Co!ShownAsTold
=============================================================================
