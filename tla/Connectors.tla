----------------------------- MODULE Connectors -----------------------------
(***************************************************************************)
(* The modes of a connector, and which of them a crtc says is driven.  Both   *)
(* back ends list a mode of a whole rate twice, or once, as the product wants *)
(* (HWC_HDMI_FRAC_MODE); which of the two the driver outputs is decided by a  *)
(* node of sysfs, written apart from the mode.  drm puts the modes a display  *)
(* can change between without a blank in one group; RealModeMgr hands a mode  *)
(* of the group in use to the crtc itself, and any other to ModePolicy.       *)
(***************************************************************************)
EXTENDS AmVinfo, Sequences, SequencesExt

CONSTANTS Builds,        \* back end, kind of connector, fraction mode, preferredFrac
          Sinks,         \* displays: names of their modes, vrr ranges, what the edid says
          MaxReplugs, MaxAsks   \* bounds

VARIABLES build, sink,
          conn,          \* the connector: its lists, and what it read of the display
          crtc,          \* mMesonMode, or mCurModeInfo
          node,          \* frac_rate_policy: the driver outputs fractions
          env,           \* the boot environment: mode and fraction
          screen,        \* the mode the driver outputs, and its rate
          mgr,           \* RealModeMgr: the list and mLatestRealMode
          known,         \* the list ModePolicy has read
          ev,            \* the event thread
          uevent,        \* "none", "mode" or "plug": the one that waits
          ask,           \* the binder call
          asked,         \* the mode SurfaceFlinger set, while nobody else set one
          stray,         \* the driver's mode was left to the framework, or refused
          replugs, asks

mvars == <<build, sink, conn, crtc, node, env, screen, mgr, known, ev, uevent, ask, asked,
           stray, replugs, asks>>

-----------------------------------------------------------------------------
(* What a drm driver lists: also modes of whole rates it has no table for,    *)
(* and a mode of a fraction, whose rate it cuts to 59.                        *)
drmModes == tv_info @@ "2160p59hz" :> Frames(3840, 2160, 59) @@ "panel" :> Frames(1920, 1080, 60)

Info(name) == drmModes[name]
Frac(rate) == (rate * 1000) \div 1001
Whole == {24000, 30000, 60000, 120000, 240000}
FracRates == IF build.back = "drm" THEN Whole \cup {48000} ELSE Whole
Fractions == build.frac \in {"all", "fraction"}

(* The rate a mode is driven at: whole rates as the node says (external).     *)
Cut(rate) == IF rate \in {59000, 119000} THEN Frac(rate + 1000) ELSE rate
DrivenRate(name, fraction) ==
    IF Info(name).rate \in FracRates /\ build.type = "hdmi" /\ fraction
    THEN Frac(Info(name).rate) ELSE Cut(Info(name).rate)

Nothing == [name |-> "", w |-> 0, h |-> 0, rate |-> 0, group |-> 0]
ModeInfo(name, rate) ==
    [name |-> name, w |-> Info(name).w, h |-> Info(name).h, rate |-> rate, group |-> 0]
InGroups(list) == [i \in DOMAIN list |-> [list[i] EXCEPT !.group = i - 1]]
SameSize(a, b) == a.w = b.w /\ a.h = b.h

-----------------------------------------------------------------------------
(* The lists of the connectors                                                *)

(* A mode of hdmi: of a whole rate as a fraction, as it is, or both.          *)
RatesOf(name) ==
    IF Info(name).rate \in FracRates
    THEN (IF Fractions THEN <<Frac(Info(name).rate)>> ELSE <<>>)
         \o (IF build.frac # "fraction" THEN <<Info(name).rate>> ELSE <<>>)
    ELSE <<Cut(Info(name).rate)>>

Listing(names) ==
    FlattenSeq([i \in DOMAIN names |->
                   [j \in DOMAIN RatesOf(names[i]) |-> ModeInfo(names[i], RatesOf(names[i])[j])]])

AsTheyAre(names) == [i \in DOMAIN names |-> ModeInfo(names[i], Cut(Info(names[i]).rate))]

(* fbdev: names without an entry in the table are left out, and every mode is *)
(* a group of its own; the other connectors have one group.                   *)
vmode_name_to_mode(name) == name \in DOMAIN tv_info

HdmiModes(names) == InGroups(Listing(SelectSeq(names, vmode_name_to_mode)))

cvbsModes == AsTheyAre(<<"576cvbs", "480cvbs", "pal_m", "pal_n", "ntsc_m">>)

dummyModes == <<[name |-> "dummy_panel", w |-> 1920, h |-> 1080, rate |-> 60000, group |-> 0]>>

(* A panel: the mode of its timing, or the one the driver has, the fraction   *)
(* beside it and the one of 50 Hz if it is one of 60 Hz.                      *)
At50(name) == IF name = "2160p60hz" THEN "2160p50hz" ELSE "1080p50hz"
PanelModes(mode) ==
    IF build.tablet THEN <<ModeInfo("panel", 60000)>>
    ELSE LET first == ModeInfo(mode, Info(mode).rate)
         IN IF mode \in {"1080p60hz", "2160p60hz"}
            THEN <<first, [first EXCEPT !.rate = Frac(first.rate)],
                   ModeInfo(At50(mode), Info(At50(mode)).rate)>>
            ELSE <<first>>

supportVrr(c) == build.back = "drm" /\ build.type = "hdmi" /\ c.vrr
isTvType == build.back = "drm" /\ build.type = "panel"

(* A range holds its lower bound as a fraction too.                           *)
InRange(mode, range) ==
    (mode.rate >= range.min \/ mode.rate = Frac(range.min)) /\ mode.rate <= range.max

(* The first range of the size that holds the mode decides.                   *)
InOneRange(c, mode, first) ==
    LET i == SelectInSeq(c.ranges, LAMBDA range : /\ SameSize(range, mode)
                                                  /\ SameSize(range, first)
                                                  /\ InRange(mode, range))
    IN i > 0 /\ InRange(first, c.ranges[i])

(* Mutant: the limit of dolby vision at 4k is not looked at.                  *)
RangeAlone(c, mode, first) == InOneRange(c, mode, first)

isSeamlessMode(c, mode, first) ==
    /\ c.dv430 /\ SameSize(mode, [w |-> 3840, h |-> 2160]) =>
           (mode.rate > 30000) = (first.rate > 30000)
    /\ InOneRange(c, mode, first)

Joins(c, mode, first) ==
    /\ ~Info(mode.name).inter /\ mode.w >= 1280 /\ mode.h >= 720
    /\ SameSize(mode, first) /\ isSeamlessMode(c, mode, first)

(* Every mode joins the first group whose first mode it fits, or starts one.  *)
Placed(c, done, mode) ==
    LET firsts == {i \in DOMAIN done : \A j \in 1..(i - 1) : done[j].group # done[i].group}
        fits == {done[i].group : i \in {k \in firsts : Joins(c, mode, done[k])}}
        next == {n \in 0..Len(done) : \A i \in firsts : done[i].group < n}
        lowest(ids) == CHOOSE id \in ids : \A other \in ids : id <= other
    IN Append(done, [mode EXCEPT !.group = lowest(IF fits # {} THEN fits ELSE next)])

groupDisplayModes(c, list) ==
    IF isTvType \/ supportVrr(c)
    THEN FoldLeft(LAMBDA done, mode : Placed(c, done, mode), <<>>, list)
    ELSE list

loadDisplayModes(c, names) ==
    LET list == InGroups(IF build.type = "hdmi" THEN Listing(names) ELSE AsTheyAre(names))
    IN [c EXCEPT !.modes = groupDisplayModes(c, list),
                 !.vic = SelectSeq(list, LAMBDA m : supportVrr(c) /\ c.noQms =>
                                                    m.name \notin c.extra),
                 !.fracs = {Frac(Info(n).rate) :
                            n \in {m \in ToSet(names) : Info(m).rate \in FracRates /\ Fractions}}]

(* update, with a display or a panel.                                         *)
Read(c) == [c EXCEPT !.vrr = sink.vrr, !.dv430 = sink.dv430, !.extra = sink.extra,
                     !.ranges = IF build.back = "drm" /\ (isTvType \/ sink.vrr)
                                THEN sink.ranges ELSE @]
FbdevModes(mode) ==
    CASE build.type = "hdmi" -> HdmiModes(sink.modes)
      [] build.type = "panel" -> PanelModes(mode)
      [] build.type = "cvbs" -> cvbsModes
      [] OTHER -> dummyModes
updateConnector ==
    IF build.back = "drm" THEN loadDisplayModes(Read(conn), sink.modes)
    ELSE [conn EXCEPT !.modes = FbdevModes(screen.name),
                      !.fracs = IF build.type = "hdmi" /\ Fractions
                                THEN {Frac(Info(n).rate) :
                                      n \in {m \in ToSet(sink.modes) : Info(m).rate \in FracRates}}
                                ELSE {}]

getModes(c) == IF supportVrr(c) /\ c.noQms THEN c.vic ELSE c.modes

-----------------------------------------------------------------------------
(* The crtcs.  drm keeps the mode it set, as an entry of the connector's list *)
(* that the node says it is; fbdev finds the mode of the driver in the list   *)
(* when the driver has changed it.                                            *)

(* Mutant: the first entry of the name is taken whatever the node says.       *)
NodeIgnored(c, name, fraction) ==
    LET fits == {i \in DOMAIN c.modes : c.modes[i].name = name}
    IN IF fits = {} THEN Nothing
       ELSE c.modes[CHOOSE i \in fits : \A j \in fits : i <= j]

DrmMode2Mode(c, name, fraction) ==
    LET whole == Info(name).rate
        other == IF fraction THEN whole ELSE Frac(whole)
        fits == {i \in DOMAIN c.modes :
                    /\ c.modes[i].name = name
                    /\ build.type = "hdmi" /\ Fractions /\ whole \in FracRates =>
                           c.modes[i].rate # other}
    IN IF fits = {} THEN Nothing
       ELSE c.modes[CHOOSE i \in fits : \A j \in fits : i <= j]

checkFracMode(c, mode) ==
    \/ build.type # "hdmi" \/ build.frac # "all" \/ mode.rate \in {25000, 50000}
    \/ node = (mode.rate \in c.fracs)

updateCrtc(c) ==
    LET fits == {i \in DOMAIN c.modes : /\ c.modes[i].name = screen.name
                                        /\ checkFracMode(c, c.modes[i])}
    IN IF build.back = "drm" THEN crtc
       ELSE IF fits = {} THEN Nothing
       ELSE c.modes[CHOOSE i \in fits : \A j \in fits : i <= j]

getMode(c, entry) ==
    IF build.back = "drm" /\ entry = Nothing THEN DrmMode2Mode(c, screen.name, node) ELSE entry

(* A mode for the driver, which latches the node with it.  A mode that is not *)
(* in the list is refused, and the change of one that is there is told.       *)
Latch(name, fraction) == screen' = [name |-> name, rate |-> DrivenRate(name, fraction)]
drmSetMode(name, seamless) ==
    IF \E i \in DOMAIN conn.modes : conn.modes[i].name = name
    THEN /\ Latch(name, node) /\ stray' = FALSE
         /\ LET entry == DrmMode2Mode(conn, name, node)
            IN crtc' = IF entry = Nothing THEN crtc ELSE entry
         /\ uevent' = IF seamless \/ uevent = "plug" THEN uevent ELSE "mode"
    ELSE stray' = TRUE /\ UNCHANGED <<screen, crtc, uevent>>

(* fbdev: the mode goes to a node of sysfs; a seamless one is a hint of a rate*)
(* alone.                                                                     *)
fbdevSetMode(name, seamless) ==
    /\ crtc' = crtc
    /\ IF seamless THEN stray' = TRUE /\ UNCHANGED <<screen, uevent>>
       ELSE /\ Latch(name, node) /\ stray' = FALSE
            /\ uevent' = IF uevent = "plug" THEN uevent ELSE "mode"

setMode(name, seamless) ==
    IF build.back = "drm" THEN drmSetMode(name, seamless) ELSE fbdevSetMode(name, seamless)

(* The adapter in between: the connector must list the mode.                  *)
setDisplayMode(name) ==
    IF \E i \in DOMAIN getModes(conn) : getModes(conn)[i].name = name
    THEN setMode(name, FALSE)
    ELSE stray' = TRUE /\ UNCHANGED <<screen, crtc, uevent>>

(* Mutant: the node stays set for a mode of a whole rate.                     *)
NodeRaised(mode) == node \/ mode.rate \in conn.fracs

setConnectorMode(mode) ==
    IF build.type # "hdmi" \/ (build.back = "drm" /\ build.frac = "non") THEN node
    ELSE mode.rate \in conn.fracs

-----------------------------------------------------------------------------
(* The event thread: what is plugged is read, ModePolicy decides and sets a   *)
(* mode, and the list is made again.                                          *)

Policy == ev.pc = "apply" \/ ask.pc = "apply"
kept == <<build, sink, conn, env, mgr, known, asked, replugs, asks>>

(* Another display; its predecessor was seen to go, or both were read at once.*)
Replug ==
    /\ build.type = "hdmi" /\ replugs < MaxReplugs /\ uevent = "none" /\ ev.pc = "idle"
    /\ ~Policy
    /\ sink' \in Sinks /\ sink' # sink
    /\ \E gone \in BOOLEAN :
        /\ gone => ask.pc = "idle"
        /\ mgr' = IF gone THEN [mgr EXCEPT !.modes = <<>>] ELSE mgr
        /\ screen' = IF gone THEN [name |-> "dummy_l", rate |-> 50000] ELSE screen
        /\ crtc' = CASE gone /\ build.back = "drm" -> ModeInfo("dummy_l", 50000)
                     [] gone /\ build.back = "fbdev" -> Nothing
                     [] OTHER -> crtc
    /\ uevent' = "plug" /\ asked' = Nothing /\ replugs' = replugs + 1
    /\ UNCHANGED <<build, conn, node, env, known, ev, ask, stray, asks>>

Update ==
    /\ ev.pc = "idle" /\ uevent # "none"
    /\ conn' = updateConnector
    /\ crtc' = updateCrtc(conn')
    /\ ev' = [ev EXCEPT !.pc = IF uevent = "mode" THEN "list" ELSE "policy"]
    /\ uevent' = "none"
    /\ UNCHANGED <<build, sink, node, env, screen, mgr, known, ask, asked, stray, replugs, asks>>

(* The mode of the boot environment, or one the library chooses.              *)
Candidates(list) ==
    LET names == {list[i].name : i \in DOMAIN list}
    IN IF env.mode \in names THEN {env.mode} ELSE names

(* The fraction: the user's for the mode he asked for, else the product's.    *)
preferredFrac == build.preferred /\ ~supportVrr(conn)
FracPolicy(mode) == IF env.mode # mode THEN preferredFrac ELSE env.frac

(* The last entry of each name; a mode of the same group is left to the       *)
(* framework while the box starts.                                            *)
isSameGroup(list, a, b) ==
    LET i == SelectLastInSeq(list, LAMBDA m : m.name = a)
        j == SelectLastInSeq(list, LAMBDA m : m.name = b)
    IN i > 0 /\ j > 0 /\ list[i].group = list[j].group
LeftAlone(list, mode, fraction) ==
    /\ ev.init /\ supportVrr(conn)
    /\ \/ mode = screen.name /\ fraction # node
       \/ mode # screen.name /\ isSameGroup(list, screen.name, mode)

Decide ==
    /\ ev.pc = "policy" /\ ~Policy
    /\ known' = getModes(conn)
    /\ \E mode \in Candidates(known') :
        LET fraction == FracPolicy(mode)
            left == LeftAlone(known', mode, fraction)
            set == ~left /\ (mode # screen.name \/ fraction # node \/ ~ev.init)
        IN /\ node' = fraction
           /\ stray' = (stray \/ left)
           /\ ev' = [pc |-> IF set THEN "apply" ELSE "list", mode |-> mode, init |-> FALSE]
    /\ asked' = Nothing
    /\ UNCHANGED <<build, sink, conn, crtc, env, screen, mgr, uevent, ask, replugs, asks>>

Apply ==
    /\ ev.pc = "apply"
    /\ setDisplayMode(ev.mode)
    /\ ev' = [ev EXCEPT !.pc = "list"] /\ asked' = Nothing
    /\ UNCHANGED <<build, sink, conn, env, mgr, known, replugs, asks, node, ask>>

(* RealModeMgr::update, while no call is in it.                               *)
List ==
    /\ ev.pc = "list" /\ ask.pc = "idle"
    /\ crtc' = getMode(conn, crtc)
    /\ mgr' = IF crtc' = Nothing THEN [modes |-> <<>>, latest |-> mgr.latest]
              ELSE [modes |-> getModes(conn), latest |-> crtc']
    /\ ev' = [ev EXCEPT !.pc = "idle"]
    /\ known' = IF ask.qms THEN getModes(conn) ELSE known
    /\ ask' = [ask EXCEPT !.qms = FALSE]
    /\ UNCHANGED <<build, sink, conn, node, env, screen, uevent, asked, stray, replugs, asks>>

-----------------------------------------------------------------------------
(* The binder: SurfaceFlinger sets a mode of the list.  One of the group in   *)
(* use goes to connector and crtc, another to ModePolicy by its name.         *)
SetSeamless ==
    /\ ask.pc = "idle" /\ asks < MaxAsks
    /\ \E mode \in ToSet(mgr.modes) :
        /\ mode.group = mgr.latest.group
        /\ mgr' = [mgr EXCEPT !.latest = mode]
        /\ node' = setConnectorMode(mode)
        /\ ask' = [ask EXCEPT !.pc = "seamless", !.mode = mode]
        /\ asked' = mode
    /\ asks' = asks + 1
    /\ UNCHANGED <<build, sink, conn, crtc, env, screen, known, ev, uevent, stray, replugs>>

SeamlessCrtc ==
    /\ ask.pc = "seamless"
    /\ setMode(ask.mode.name, TRUE)
    /\ ask' = [ask EXCEPT !.pc = "idle"]
    /\ UNCHANGED <<kept, node, ev>>

SetActive ==
    /\ ask.pc = "idle" /\ asks < MaxAsks
    /\ \E mode \in ToSet(mgr.modes) :
        /\ mode.group # mgr.latest.group
        /\ mgr' = [mgr EXCEPT !.latest = mode]
        /\ ask' = [ask EXCEPT !.pc = "policy", !.mode = mode]
        /\ asked' = mode
    /\ asks' = asks + 1
    /\ UNCHANGED <<build, sink, conn, crtc, node, env, screen, known, ev, uevent, stray, replugs>>

IsFraction(mode) == mode.rate % 1000 > 10

PolicyActive ==
    /\ ask.pc = "policy" /\ ~Policy
    /\ node' = IsFraction(ask.mode)
    /\ ask' = [ask EXCEPT !.pc = IF ask.mode.name = screen.name /\ node' = node
                                 THEN "idle" ELSE "apply"]
    /\ UNCHANGED <<kept, crtc, screen, ev, uevent, stray>>

ApplyActive ==
    /\ ask.pc = "apply"
    /\ setDisplayMode(ask.mode.name)
    /\ ask' = [ask EXCEPT !.pc = "idle"]
    /\ UNCHANGED <<kept, node, ev>>

setBootConfig ==
    /\ ask.pc = "idle" /\ asks < MaxAsks /\ build.type = "hdmi"
    /\ \E mode \in ToSet(mgr.modes) :
        env' = [mode |-> mode.name, frac |-> IsFraction(mode)]
    /\ asks' = asks + 1
    /\ UNCHANGED <<build, sink, conn, crtc, node, screen, mgr, known, ev, uevent, ask, asked,
                   stray, replugs>>

clearBootConfig ==
    /\ ask.pc = "idle" /\ asks < MaxAsks /\ env.mode # "none"
    /\ env' = [mode |-> "none", frac |-> preferredFrac]
    /\ asks' = asks + 1
    /\ UNCHANGED <<build, sink, conn, crtc, node, screen, mgr, known, ev, uevent, ask, asked,
                   stray, replugs>>

(* disableQms: the fastest mode of the group ModePolicy knows, set again; its *)
(* list is read after the change, or after three seconds without one.         *)
findBrrMode(mode) ==
    LET same == {m \in ToSet(known) : m.group = mode.group /\ m.rate > mode.rate}
    IN IF ~supportVrr(conn) \/ same = {} THEN mode
       ELSE CHOOSE m \in same : \A other \in same : m.rate >= other.rate

disableQms ==
    /\ ask.pc = "idle" /\ asks < MaxAsks /\ build.back = "drm" /\ build.type = "hdmi"
    /\ crtc # Nothing /\ ev.pc = "idle" /\ uevent = "none"
    /\ conn' = [conn EXCEPT !.noQms = ~@]
    /\ setMode(findBrrMode(crtc).name, FALSE)
    /\ ask' = [ask EXCEPT !.qms = TRUE]
    /\ asked' = Nothing /\ asks' = asks + 1
    /\ UNCHANGED <<build, sink, node, env, mgr, known, ev, replugs>>

-----------------------------------------------------------------------------
(* A box that starts: the boot loader has set a mode, and the node.           *)
LoaderModes ==
    CASE build.type = "hdmi" \/ build.back = "drm" -> ToSet(sink.modes)
      [] build.type = "cvbs" -> {"480cvbs", "576cvbs"}
      [] build.type = "panel" -> IF build.tablet THEN {"panel"} ELSE {"1080p60hz", "2160p50hz"}
      [] OTHER -> {"dummy_l"}

ConnectorsInit ==
    /\ build \in Builds /\ sink \in Sinks
    /\ env \in {[mode |-> "none", frac |-> build.preferred /\ ~(build.back = "drm" /\ sink.vrr)]}
    /\ node = env.frac
    /\ \E mode \in LoaderModes : screen = [name |-> mode, rate |-> DrivenRate(mode, node)]
    /\ conn \in {[modes |-> <<>>, vic |-> <<>>, fracs |-> {}, ranges |-> <<>>, vrr |-> FALSE,
                  dv430 |-> FALSE, extra |-> {}, noQms |-> noQms] :
                  noQms \in {n \in BOOLEAN : n => build.back = "drm" /\ build.type = "hdmi"}}
    /\ crtc = Nothing /\ mgr = [modes |-> <<>>, latest |-> Nothing] /\ known = <<>>
    /\ ev = [pc |-> "idle", mode |-> "", init |-> TRUE]
    /\ uevent = IF build.type = "hdmi" THEN "plug" ELSE "mode"
    /\ ask = [pc |-> "idle", mode |-> Nothing, qms |-> FALSE]
    /\ asked = Nothing /\ stray = FALSE /\ replugs = 0 /\ asks = 0

EventThread == Update \/ Decide \/ Apply \/ List
Binder ==
    \/ SetSeamless \/ SeamlessCrtc \/ SetActive \/ PolicyActive \/ ApplyActive
    \/ setBootConfig \/ clearBootConfig \/ disableQms
ConnectorsNext == Replug \/ EventThread \/ Binder
ConnectorsSpec == ConnectorsInit /\ [][ConnectorsNext]_mvars

-----------------------------------------------------------------------------
Settled == uevent = "none" /\ ev.pc = "idle" /\ ask.pc = "idle"
Driven(mode) == mode.name = screen.name /\ mode.rate = screen.rate
Hdmi == build.type = "hdmi"

(* Once everything has been handled, the crtc reports the mode and the rate   *)
(* the driver outputs, if the connector lists it at all, whichever of the two *)
(* rates of the mode was in the node when it was set.  Exempt: a mode left to *)
(* the framework at boot, a refused one, and the modes fbdev overlooks: those *)
(* of 100 Hz, say, of which there is no fraction, while the node asks for one.*)
Overlooked == build.back = "fbdev" /\ build.frac = "all" /\ node
              /\ Info(screen.name).rate \notin FracRates \cup {25000, 50000}
ReportedIsDriven ==
    Settled /\ ~stray /\ Hdmi /\ ~Overlooked /\ (\E m \in ToSet(conn.modes) : Driven(m)) =>
        Driven(getMode(conn, crtc))

(* The mode SurfaceFlinger set last, if nobody else set one, is the one the   *)
(* driver outputs, at the rate of the entry chosen.                           *)
AskedIsDriven == Settled /\ ~stray /\ Hdmi /\ asked # Nothing => Driven(asked)

(* The modes of a group are of one size and, where dolby vision at 4k asks for *)
(* it, on one side of 30 Hz; each is in one range of the display with the      *)
(* first of the group, and none but the first is interlaced.  The first is     *)
(* compared with none, so it may be, though "interlace mode does not support   *)
(* vrr" (DrmConnector.cpp:360); and two others may share no range.  Without    *)
(* qms there are no groups.                                                  *)
Together(a, b) ==
    /\ SameSize(a, b) /\ a.w >= 1280
    /\ sink.dv430 /\ a.w = 3840 => (a.rate > 30000) = (b.rate > 30000)
FitsFirst(mode, first) ==
    /\ ~Info(mode.name).inter
    /\ \E range \in ToSet(sink.ranges) : SameSize(range, mode) /\ InRange(mode, range)
                                         /\ InRange(first, range)
GroupsSafe ==
    build.back = "drm" /\ Settled =>
        LET list == getModes(conn)
            Mates(i) == {j \in DOMAIN list : j # i /\ list[j].group = list[i].group}
        IN \A i \in DOMAIN list :
               /\ Mates(i) # {} => ~conn.noQms
               /\ \A j \in Mates(i) : Together(list[i], list[j])
               /\ (\A j \in Mates(i) : i < j) => \A j \in Mates(i) : FitsFirst(list[j], list[i])

(* A seamless switch changes the vsync period alone (RealModeMgr.cpp:657).    *)
OnlyPeriod ==
    [][ask.pc = "seamless" /\ ask'.pc = "idle" =>
           Info(ask.mode.name).w = Info(screen.name).w
           /\ Info(ask.mode.name).h = Info(screen.name).h]_mvars
=============================================================================
