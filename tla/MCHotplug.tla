------------------------------ MODULE MCHotplug ------------------------------
(* Two displays that share a mode; two of the modes are of one vrr group.     *)
(* Beside it, each on its own, the mode managers and the display pipes: the   *)
(* side that moves is chosen at the start.                                    *)
EXTENDS HotplugPipes, Configs, TLC

VARIABLE side   \* "hotplug", "configs" or "pipes"

MCGroup == "2160p60" :> 1 @@ "1080p60" :> 2 @@ "1080p50" :> 2
MCTvs == {[modes |-> {"1080p60", "1080p50"}, hdr |-> "hlg"],
          [modes |-> {"2160p60", "1080p60"}, hdr |-> "dv"]}

-----------------------------------------------------------------------------
(* An interlaced mode, a mode in two halves, one with bars, one of a vrr      *)
(* group and one below 1080p, on three displays and two cvbs modes.           *)
Mode(name, w, h, rate, group) ==
    [name |-> name, w |-> w, h |-> h, rate |-> rate, group |-> group]
P1080p60 == Mode("1080p60hz", 1920, 1080, 60, 1)
P1080p50 == Mode("1080p50hz", 1920, 1080, 50, 1)
I1080i60 == Mode("1080i60hz", 1920, 1080, 60, 2)
P2160p60 == Mode("2160p60hz", 3840, 2160, 60, 3)
P720p50 == Mode("720p50hz", 1280, 720, 50, 4)
Dlg == Mode("3840x1080p120hz", 3840, 1080, 120, 8)
MCMarks ==
    [name \in {"1080p60hz", "1080p50hz", "720p50hz", "3840x1080p120hz"} |-> {"p"}]
    @@ "1080i60hz" :> {"i"} @@ "2160p60hz" :> {"p", "2160p"} @@ "768p60hz" :> {"p", "768p"}
    @@ [name \in {"576cvbs", "480cvbs"} |-> {"cvbs"}]
    @@ [name \in {"dummy_l", "FAKE_PREVIOUS_MODE", "FAKE_INITIAL_MODE"} |-> {}]
MCList == DOMAIN MCMarks \ {"1080i60hz", "dummy_l", "FAKE_PREVIOUS_MODE", "FAKE_INITIAL_MODE"}
MCDisplays ==
    {[type |-> "hdmi", modes |-> <<P1080p60, P1080p50, I1080i60>>],
     [type |-> "hdmi", modes |-> <<P2160p60, Dlg, P720p50>>],
     [type |-> "tv", modes |-> <<Mode("480cvbs", 720, 480, 60, 6),
                                 Mode("576cvbs", 720, 576, 50, 5)>>],
     [type |-> "panel", modes |-> <<Mode("768p60hz", 1366, 768, 60, 7)>>]}
MCFb == <<1920, 1080>>

-----------------------------------------------------------------------------
(* A box with one hdmi, two panels with hdmi on the side (N + 1 + 1 osd       *)
(* planes on drm, one to each crtc on fbdev), and the two loopbacks.          *)
Board(kind, drm, dynViu, always, wired, masks) ==
    [kind |-> kind, drm |-> drm, dynViu |-> dynViu, always |-> always, wired |-> wired,
     masks |-> masks]
Shared == <<{1, 2}, {1, 2}, {1, 2}>>
Own == <<{1}, {2}>>
MCBoards ==
    {Board("fixed", TRUE, FALSE, FALSE, <<"hdmi-cvbs">>, <<{1}, {1}>>),
     Board("dual", TRUE, FALSE, FALSE, <<"panel", "hdmi">>, Shared),
     Board("dual", FALSE, TRUE, FALSE, <<"panel", "hdmi">>, Own),
     Board("multi", TRUE, FALSE, FALSE, <<"hdmi", "panel">>, Shared),
     Board("loopback", TRUE, FALSE, TRUE, <<"hdmi">>, Shared),
     Board("loopback", FALSE, FALSE, FALSE, <<"panel">>, Own)}

pipes == <<board, plugged, used, queued, asleep, seen, hdmiConnected, eventState, post, stat,
           wiring, job, raced, moves>>

OneConfig == ConfigsInit /\ policy = "fixed" /\ connector.type = "panel" /\ ~dv
OnePipe == P!Init /\ board.kind = "fixed" /\ ~plugged /\ wiring = P!Booted("none")
Unplugged == Init /\ sink = NoTv

MCInit ==
    \/ side = "hotplug" /\ Init /\ OneConfig /\ OnePipe
    \/ side = "configs" /\ Unplugged /\ ConfigsInit /\ OnePipe
    \/ side = "pipes" /\ Unplugged /\ OneConfig /\ P!Init

HotplugStep == side = "hotplug" /\ Next /\ UNCHANGED <<configVars, pipes, side>>
ConfigsStep == side = "configs" /\ ConfigsNext /\ UNCHANGED <<vars, pipes, side>>
PipesStep == side = "pipes" /\ P!Next /\ UNCHANGED <<vars, configVars, side>>

MCNext == HotplugStep \/ ConfigsStep \/ PipesStep
MCSpec == MCInit /\ [][MCNext]_<<vars, configVars, pipes, side>>
=============================================================================
