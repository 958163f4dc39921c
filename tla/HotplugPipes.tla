---------------------------- MODULE HotplugPipes ----------------------------
(***************************************************************************)
(* One display's hotplug and, beside it, the display pipes of the boards the  *)
(* code is made for.                                                          *)
(***************************************************************************)
EXTENDS Hotplug

CONSTANTS Boards, MaxMoves

VARIABLES board, plugged, used, queued, asleep, seen, hdmiConnected, eventState, post, stat,
          wiring, job, raced, moves

P == INSTANCE Pipes

PipesSpec == P!Init /\ [][P!Next]_(P!pipeVars)

-----------------------------------------------------------------------------
(* The boards                                                                *)

Kinds == {"fixed", "dual", "multi", "loopback"}
Wires == {"hdmi", "hdmi-cvbs", "tv", "panel"}

(* The connectors a display wired so may come to use: "virtual" is the dummy  *)
(* one, and hdmi-cvbs stands for two.                                         *)
Uses(wire) == CASE wire = "hdmi" -> {"hdmi", "virtual"}
                [] wire = "hdmi-cvbs" -> {"hdmi", "tv", "virtual"}
                [] OTHER -> {wire}

(* The pipelines of getPipeline with the number of displays they assert, two  *)
(* displays never on one connector; MultiDisplayDrmPipe on drm only; the      *)
(* dynamic viu, which DualDisplayPipe alone reads, for a panel and an hdmi;   *)
(* two crtcs, and planes for each pipe, as the constructor of HwcDisplayPipe  *)
(* means to assert.                                                           *)
ASSUME BoardsAssumption ==
    \A b \in Boards :
        /\ b.kind \in Kinds
        /\ b.drm \in BOOLEAN /\ b.dynViu \in BOOLEAN /\ b.always \in BOOLEAN
        /\ b.wired \in Seq(Wires)
        /\ Len(b.wired) = IF b.kind \in {"dual", "multi"} THEN 2 ELSE 1
        /\ b.kind \in {"dual", "multi"} => Uses(b.wired[1]) \cap Uses(b.wired[2]) = {}
        /\ b.kind = "multi" => b.drm
        /\ b.dynViu => b.kind = "dual" /\ \A d \in 1 .. 2 : b.wired[d] \in {"hdmi", "panel"}
        /\ b.masks \in Seq(SUBSET (1 .. 2))
        /\ \A p \in 1 .. P!PipesOf(b) : P!Planes(b)[p] # {}

-----------------------------------------------------------------------------
(* With no event under way, crtc, connector and planes of every display are   *)
(* bound to each other, and no two displays use one crtc or one connector.    *)
Bound == P!Bound /\ P!Apart

(* The hdmi display has the hdmi connector if and only if something is        *)
(* plugged in, every event handled.                                           *)
CableFollowed == P!CableFollowed
=============================================================================
