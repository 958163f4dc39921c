------------------------------- MODULE MCModes -------------------------------
(* Three modes, two of them of one vrr group; a display with dolby vision in   *)
(* one of its modes, one with low latency and vrr, one that cannot be read.    *)
(* Beside the policy, on its own, the connectors: the side that moves is       *)
(* chosen at the start.                                                        *)
EXTENDS Modes, TLC

CONSTANTS Builds, Sinks, MaxReplugs, MaxAsks

VARIABLES build, display, conn, crtc, node, env, screen, mgr, known, thread, uevent, ask,
          asked, stray, replugs, asks,
          side   \* "policy" or "connectors"

MCRank == "2160p60" :> 3 @@ "1080p60" :> 2 @@ "1080p50" :> 1
MCGroup == "2160p60" :> 1 @@ "1080p60" :> 2 @@ "1080p50" :> 2
MCRate == "2160p60" :> 60 @@ "1080p60" :> 60 @@ "1080p50" :> 50

Tv(modes, dvModes, hdr, vrr) ==
    [on |-> TRUE, ok |-> TRUE, modes |-> modes, dvModes |-> dvModes, hdr |-> hdr,
     allm |-> vrr, vrr |-> vrr]
DvTv == Tv({"2160p60", "1080p60"}, {"1080p60"}, AllHdr, FALSE)
GameTv == Tv({"1080p60", "1080p50"}, {"1080p60", "1080p50"}, {"dv", "hdr10"}, TRUE)
PlainTv == Tv({"1080p60"}, {}, {}, FALSE)
MCTvs == {DvTv, GameTv, [PlainTv EXCEPT !.ok = FALSE]}

MCLibs == {[keeps |-> TRUE, plain |-> 0], [keeps |-> FALSE, plain |-> 1]}

Boot(mode, best, dv, pref) ==
    [mode |-> mode, best |-> best, color |-> "none", dv |-> dv, dvType |-> 1,
     policy |-> "sink", priority |-> AllHdr, frac |-> 0, pref |-> pref,
     allowed |-> {"unset"}, out |-> "none"]
MCBoots == {Boot("none", TRUE, TRUE, "system"), Boot("1080p50", FALSE, TRUE, "force")}
MCAllowed == {{}, {"dv"}, {"hlg"}}

-----------------------------------------------------------------------------
(* Every fraction mode on both back ends, and the connectors that are not     *)
(* hdmi; a display with qms, an interlaced mode ahead of the others of its      *)
(* size, ranges that overlap and a mode without a number in the edid, and one  *)
(* with none of these.                                                       *)
Build(back, type, frac, preferred, tablet) ==
    [back |-> back, type |-> type, frac |-> frac, preferred |-> preferred, tablet |-> tablet]
MCBuilds ==
    {Build(back, "hdmi", frac, frac # "non", FALSE) :
        back \in {"drm", "fbdev"}, frac \in {"all", "fraction", "non"}}
    \cup {Build("fbdev", type, "fraction", TRUE, FALSE) : type \in {"panel", "cvbs", "dummy"}}
    \cup {Build("drm", "panel", "fraction", TRUE, FALSE),
          Build("fbdev", "panel", "fraction", TRUE, TRUE)}
VrrRange(w, h, min, max) == [w |-> w, h |-> h, min |-> min * 1000, max |-> max * 1000]
QmsTv == [modes |-> <<"2160p60hz", "2160p30hz", "1080i60hz", "1080p60hz", "1080p50hz">>,
          vrr |-> TRUE, dv430 |-> TRUE, extra |-> {"2160p30hz"},
          ranges |-> <<VrrRange(3840, 2160, 24, 60), VrrRange(1920, 1080, 24, 50),
                       VrrRange(1920, 1080, 48, 60)>>]
RateTv == [modes |-> <<"1080p60hz", "1080p50hz", "3840x2160p100hz">>, vrr |-> FALSE,
           dv430 |-> FALSE, extra |-> {}, ranges |-> <<>>]
MCSinks == {QmsTv, RateTv}

K == INSTANCE Connectors WITH sink <- display, ev <- thread

connectors == <<build, display, conn, crtc, node, env, screen, mgr, known, thread, uevent,
                ask, asked, stray, replugs, asks>>

OneConnector ==
    K!ConnectorsInit /\ build.type = "dummy" /\ display = RateTv
OnePolicy == Init /\ sink = NoTv /\ p.env.mode = "none" /\ p.lib.keeps /\ ~p.drv.dv

MCInit ==
    \/ side = "policy" /\ Init /\ OneConnector
    \/ side = "connectors" /\ OnePolicy /\ K!ConnectorsInit

PolicyStep == side = "policy" /\ Next /\ UNCHANGED <<connectors, side>>
ConnectorsStep == side = "connectors" /\ K!ConnectorsNext /\ UNCHANGED <<vars, side>>

MCSpec == MCInit /\ [][PolicyStep \/ ConnectorsStep]_<<vars, connectors, side>>

CvbsBuilds == {b \in MCBuilds : b.type = "cvbs"}
CvbsInit == side = "connectors" /\ OnePolicy /\ K!ConnectorsInit
CvbsSpec == CvbsInit /\ [][ConnectorsStep]_<<vars, connectors, side>>

(* What the crtc reports is what the driver outputs, once all is handled.     *)
ReportedIsDriven == K!ReportedIsDriven

(* What SurfaceFlinger asked for last is what the driver outputs.             *)
AskedIsDriven == K!AskedIsDriven

(* Modes of one group are of one size and in a range with the first of them.  *)
GroupsSafe == K!GroupsSafe

(* "seamless mode switch, only vsync period change" (RealModeMgr.cpp:657).    *)
OnlyPeriod == K!OnlyPeriod
=============================================================================
