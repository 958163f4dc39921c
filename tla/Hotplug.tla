------------------------------- MODULE Hotplug -------------------------------
(***************************************************************************)
(* One display behind FixedDisplayPipe on drm: the event thread, which turns  *)
(* uevents into connector, mode list and callbacks, and a binder thread, in   *)
(* which SurfaceFlinger sets a configuration, a conversion or the low latency *)
(* mode.  With nothing plugged the pipe uses the virtual connector, which     *)
(* has the mode dummy_l alone.  What ModePolicy decides is Modes; here it     *)
(* sets some mode of the display, or leaves the driver as it is.              *)
(***************************************************************************)
EXTENDS Naturals, Sequences, SequencesExt

CONSTANTS Group,          \* modes to their vrr groups
          Tvs,            \* displays: their modes and hdr capabilities
          Calls,          \* the calls of the binder thread
          MaxPlugs, MaxCalls   \* bounds

VARIABLES sink,           \* what is plugged
          uevents,        \* uevents not handled yet
          ev,             \* where the event thread is, and in which event
          hdmi,           \* the hdmi connector, as last read from drm
          conn,           \* the connector of the pipe
          crtc,           \* mode, mHotplugStatus, last of mPendingModes
          mgr,            \* RealModeMgr
          disp,           \* Hwc2Display
          sf,             \* SurfaceFlinger: the configurations it knows
          bc,             \* the binder call
          plugs, calls

vars == <<sink, uevents, ev, hdmi, conn, crtc, mgr, disp, sf, bc, plugs, calls>>

Dummy == "dummy_l"
Fake == "FAKE_PREVIOUS_MODE"
NoTv == [modes |-> {}, hdr |-> "none"]

(* A display has modes, none of which is the dummy connector's or made up.    *)
ASSUME TvsAssumption == \A tv \in Tvs : tv.modes # {} /\ {Dummy, Fake} \cap tv.modes = {}

-----------------------------------------------------------------------------
(* The drm back end                                                          *)

Connected == conn = "virtual" \/ hdmi.on

(* DrmConnector::update: the modes and capabilities of a display that is gone*)
(* stay until another one is read, but for the hdr capabilities.              *)
Reread == IF sink = NoTv THEN [hdmi EXCEPT !.on = FALSE, !.hdr = "none"]
          ELSE [on |-> TRUE, modes |-> sink.modes, hdr |-> sink.hdr]

ConnectorModes == IF conn = "virtual" THEN {Dummy} ELSE hdmi.modes

(* getMode: during a hotplug, the mode that is pending.                       *)
getMode == IF crtc.busy /\ crtc.pending # "none" THEN crtc.pending ELSE crtc.mode

Takes(mode) == ~crtc.busy /\ mode \in ConnectorModes

(* setMode: during a hotplug kept for later; else committed, which the kernel *)
(* tells in two uevents unless the switch is seamless.                       *)
SetMode(mode, seamless) ==
    /\ crtc' = IF crtc.busy THEN [crtc EXCEPT !.pending = mode]
               ELSE IF Takes(mode) THEN [crtc EXCEPT !.mode = mode] ELSE crtc
    /\ uevents' = IF Takes(mode) /\ ~seamless
                  THEN uevents \o <<"begin", "complete">> ELSE uevents

KeepsMode == UNCHANGED <<crtc, uevents>>

-----------------------------------------------------------------------------
(* RealModeMgr.  A configuration is the number of the list and a mode: ids    *)
(* go on from the largest one, so that none is used for two lists.            *)

Reported ==
    IF ~Connected THEN {}
    ELSE IF mgr.allm THEN {getMode}
    ELSE IF getMode = Dummy THEN {} ELSE ConnectorModes \ {Dummy}

(* A mode made up keeps the group of the one it stands for.                   *)
GroupOf(mode) ==
    IF mode = Fake THEN mgr.fakeGroup ELSE IF mode \in DOMAIN Group THEN Group[mode] ELSE 0

update ==
    LET fake == getMode \notin Reported
        latest == IF fake THEN Fake ELSE getMode
        gen == mgr.gen + 1
        names == Reported \cup {latest}
    IN [mgr EXCEPT !.gen = gen, !.modes = {<<gen, n>> : n \in names},
                   !.latest = latest, !.active = <<gen, latest>>,
                 !.fakeGroup = IF fake THEN GroupOf(mgr.latest) ELSE @]

isSeamlessSwitch(config) ==
    config \in mgr.modes /\ GroupOf(config[2]) = GroupOf(mgr.latest)

-----------------------------------------------------------------------------
(* Uevents                                                                   *)

Plug ==
    /\ plugs < MaxPlugs /\ plugs' = plugs + 1
    /\ \E tv \in Tvs \cup {NoTv} :
        /\ (tv = NoTv) # (sink = NoTv)
        /\ sink' = tv
        /\ uevents' = Append(uevents, IF tv = NoTv THEN "out" ELSE "in")
    /\ UNCHANGED <<ev, hdmi, conn, crtc, mgr, disp, sf, bc, calls>>

(* A resume is handled as a hotplug; another display may be there.            *)
Resume ==
    /\ plugs < MaxPlugs /\ plugs' = plugs + 1
    /\ sink' \in Tvs \cup {NoTv}
    /\ uevents' = Append(uevents, "resume")
    /\ UNCHANGED <<ev, hdmi, conn, crtc, mgr, disp, sf, bc, calls>>

At(pc, events) == ev.pc = pc /\ ev.event \in events
Goto(pc) == ev' = [ev EXCEPT !.pc = pc]
Done == ev' = [ev EXCEPT !.pc = "idle"]

NextEvent ==
    /\ ev.pc = "idle" /\ uevents # <<>>
    /\ ev' = [ev EXCEPT !.pc = "start", !.event = Head(uevents)]
    /\ uevents' = Tail(uevents)
    /\ UNCHANGED <<sink, hdmi, conn, crtc, mgr, disp, sf, bc, plugs, calls>>

(* Two threads in RealModeMgr.                                                *)
MgrFree == bc.pc # "policy" \/ bc.op # "active"

(* handleEvent: connectors read again, the one to use chosen.                 *)
TargetConnector(event, on) ==
    IF event = "out" THEN "virtual"
    ELSE IF event = "in" \/ on THEN "hdmi" ELSE "virtual"

HotplugStart ==
    /\ At("start", {"in", "out", "resume"})
    /\ crtc' = [crtc EXCEPT !.busy = TRUE]
    /\ LET target == TargetConnector(ev.event, Reread.on)
           reads == conn = "hdmi" \/ target = "hdmi" \/ ev.event = "resume"
       IN /\ hdmi' = IF reads THEN Reread ELSE hdmi
          /\ conn' = target
          /\ Goto(IF target # conn /\ mgr.callOnHotPlug THEN "pipe" ELSE "mode")
    /\ UNCHANGED <<sink, uevents, mgr, disp, sf, bc, plugs, calls>>

(* updatePipe: the mode list for the new connector.                           *)
PipeUpdate ==
    /\ At("pipe", {"in", "out", "resume"}) /\ MgrFree
    /\ mgr' = update /\ Goto("mode")
    /\ UNCHANGED <<sink, uevents, hdmi, conn, crtc, disp, sf, bc, plugs, calls>>

(* setHotplugStatus: from here on modes go to the driver again.               *)
ConnectorSettled ==
    /\ At("mode", {"in", "out", "resume"})
    /\ crtc' = [crtc EXCEPT !.busy = FALSE] /\ Goto("pending")
    /\ UNCHANGED <<sink, uevents, hdmi, conn, mgr, disp, sf, bc, plugs, calls>>

(* initDisplayMode: the mode somebody set in between, on the new connector.   *)
PendingMode ==
    /\ At("pending", {"in", "out", "resume"})
    /\ LET mode == crtc.pending
           taken == mode \in ConnectorModes
       IN /\ crtc' = [crtc EXCEPT !.mode = IF taken THEN mode ELSE @, !.pending = "none"]
          /\ uevents' = IF taken THEN uevents \o <<"begin", "complete">> ELSE uevents
    /\ Goto("policy")
    /\ UNCHANGED <<sink, hdmi, conn, mgr, disp, sf, bc, plugs, calls>>

(* Hwc2Display::onHotplug: the mode policy first.                             *)
HotplugPolicy ==
    /\ At("policy", {"in", "out", "resume"})
    /\ mgr' = [mgr EXCEPT !.allm = FALSE]
    /\ IF conn = "virtual" \/ ~hdmi.on
       THEN IF getMode = Dummy /\ conn = "virtual" THEN KeepsMode ELSE SetMode(Dummy, FALSE)
       ELSE \E mode \in hdmi.modes :
                IF mode = getMode THEN KeepsMode \/ SetMode(mode, FALSE)
                ELSE SetMode(mode, FALSE)
    /\ Goto("display")
    /\ UNCHANGED <<sink, hdmi, conn, disp, sf, bc, plugs, calls>>

(* Mutant: a display is composed for as soon as it is plugged in.             *)
ComposesAtOnce ==
    IF ev.event # "out"
    THEN [disp EXCEPT !.hpd = TRUE, !.skip = FALSE]
    ELSE [disp EXCEPT !.connected = FALSE, !.skip = TRUE]

(* Mutant: a resume is no plug in.                                            *)
HpdOnPlugIn ==
    IF ev.event # "out"
    THEN [disp EXCEPT !.hpd = @ \/ ev.event = "in", !.connected = @ \/ conn # "hdmi"]
    ELSE [disp EXCEPT !.connected = FALSE, !.skip = TRUE]

AfterHotplug ==
    IF ev.event # "out"
    THEN [disp EXCEPT !.hpd = TRUE, !.connected = @ \/ conn # "hdmi"]
    ELSE [disp EXCEPT !.connected = FALSE, !.skip = TRUE]

HotplugDisplay ==
    /\ At("display", {"in", "out", "resume"})
    /\ disp' = AfterHotplug
    /\ IF ev.event # "out" THEN Done ELSE Goto(IF mgr.callOnHotPlug THEN "list" ELSE "tell")
    /\ UNCHANGED <<sink, uevents, hdmi, conn, crtc, mgr, sf, bc, plugs, calls>>

HotplugList ==
    /\ At("list", {"out"}) /\ MgrFree
    /\ mgr' = update /\ Goto("tell")
    /\ UNCHANGED <<sink, uevents, hdmi, conn, crtc, disp, sf, bc, plugs, calls>>

(* The observer, told out of the locks; for the primary display the message   *)
(* is a CONNECT, and SurfaceFlinger reads the configurations again.           *)
HotplugTell ==
    /\ At("tell", {"out"})
    /\ sf' = [sf EXCEPT !.told = TRUE] /\ Goto("wake")
    /\ UNCHANGED <<sink, uevents, hdmi, conn, crtc, mgr, disp, bc, plugs, calls>>

(* The state lock is free: no call holds it, or the one that does is waiting. *)
StateFree == bc.pc \in {"idle", "wait", "hdrWait"}

Wakes ==
    /\ StateFree
    /\ disp' = [disp EXCEPT !.changed = FALSE]
    /\ bc' = CASE bc.pc = "wait" -> [bc EXCEPT !.pc = "idle"]
               [] bc.pc = "hdrWait" -> [bc EXCEPT !.pc = "hdrDone"]
               [] OTHER -> bc

HotplugWake ==
    /\ At("wake", {"out"}) /\ Wakes /\ Done
    /\ UNCHANGED <<sink, uevents, hdmi, conn, crtc, mgr, sf, plugs, calls>>

-----------------------------------------------------------------------------
(* A mode change, begun: nothing is composed until it is complete.            *)
ModeBegin ==
    /\ At("start", {"begin"})
    /\ disp' = [disp EXCEPT !.connected = FALSE, !.skip = TRUE] /\ Done
    /\ UNCHANGED <<sink, uevents, hdmi, conn, crtc, mgr, sf, bc, plugs, calls>>

(* Complete: connector and list read again, unless a call changed the mode.   *)
ModeStart ==
    /\ At("start", {"complete"})
    /\ hdmi' = IF conn = "hdmi" THEN Reread ELSE hdmi
    /\ Goto(IF mgr.callOnHotPlug THEN "list" ELSE "display")
    /\ UNCHANGED <<sink, uevents, conn, crtc, mgr, disp, sf, bc, plugs, calls>>

ModeList ==
    /\ At("list", {"complete"}) /\ MgrFree
    /\ mgr' = update /\ Goto("display")
    /\ UNCHANGED <<sink, uevents, hdmi, conn, crtc, disp, sf, bc, plugs, calls>>

ModeDisplay ==
    /\ At("display", {"complete"})
    /\ LET shown == getMode # Dummy
           caps == IF disp.hpd THEN hdmi.hdr ELSE disp.hdr
       IN /\ disp' = IF shown THEN [disp EXCEPT !.connected = TRUE, !.skip = FALSE,
                                                !.mode = getMode, !.hpd = FALSE, !.hdr = caps]
                     ELSE [disp EXCEPT !.mode = getMode, !.hdr = caps]
          /\ ev' = [ev EXCEPT !.pc = "tell", !.sends = shown, !.caps = caps # disp.hdr]
    /\ UNCHANGED <<sink, uevents, hdmi, conn, crtc, mgr, sf, bc, plugs, calls>>

TellOrReset ==
    IF ev.sends /\ (mgr.callOnHotPlug \/ ev.caps)
    THEN sf' = [sf EXCEPT !.told = TRUE] /\ UNCHANGED mgr
    ELSE mgr' = [mgr EXCEPT !.callOnHotPlug = TRUE] /\ UNCHANGED sf

ModeTell ==
    /\ At("tell", {"complete"}) /\ MgrFree
    /\ TellOrReset
    /\ Goto("wake")
    /\ UNCHANGED <<sink, uevents, hdmi, conn, crtc, disp, bc, plugs, calls>>

ModeWake ==
    /\ At("wake", {"complete"}) /\ Wakes /\ Done
    /\ UNCHANGED <<sink, uevents, hdmi, conn, crtc, mgr, sf, plugs, calls>>

-----------------------------------------------------------------------------
(* SurfaceFlinger                                                            *)

ReadConfigs ==
    /\ sf.told /\ bc.pc = "idle"
    /\ sf' = [told |-> FALSE, configs |-> mgr.modes]
    /\ UNCHANGED <<sink, uevents, ev, hdmi, conn, crtc, mgr, disp, bc, plugs, calls>>

Begin(op, pc, config, seamless) ==
    /\ bc.pc = "idle" /\ op \in Calls
    /\ calls < MaxCalls /\ calls' = calls + 1
    /\ bc' = [op |-> op, pc |-> pc, config |-> config, seamless |-> seamless]
    /\ UNCHANGED <<sink, hdmi, conn, sf, ev, plugs>>

(* setActiveConfig: from here on the state lock is held.                      *)
SetActiveConfig ==
    \E config \in sf.configs :
        /\ config # mgr.active
        /\ Begin("active", "set", config, isSeamlessSwitch(config))
        /\ disp' = [disp EXCEPT !.changed = TRUE]
        /\ UNCHANGED <<uevents, crtc, mgr>>

(* A configuration of an older list is refused, and waited for all the same.  *)
AfterSet == IF bc.seamless THEN "idle" ELSE IF disp.changed THEN "wait" ELSE "idle"

(* setModeLocked, with the lock of RealModeMgr: a seamless mode goes to the   *)
(* driver, another one to the policy, and the list is kept.                   *)
SetModeLocked ==
    /\ bc.pc = "set"
    /\ IF bc.config \notin mgr.modes
       THEN bc' = [bc EXCEPT !.pc = AfterSet] /\ UNCHANGED mgr /\ KeepsMode
       ELSE IF isSeamlessSwitch(bc.config)
       THEN /\ mgr' = [mgr EXCEPT !.latest = bc.config[2], !.active = bc.config]
            /\ SetMode(bc.config[2], TRUE)
            /\ bc' = [bc EXCEPT !.pc = AfterSet]
       ELSE /\ mgr' = [mgr EXCEPT !.latest = bc.config[2], !.active = bc.config,
                                  !.callOnHotPlug = FALSE]
            /\ KeepsMode /\ bc' = [bc EXCEPT !.pc = "policy"]
    /\ UNCHANGED <<sink, ev, hdmi, conn, disp, sf, plugs, calls>>

(* ModePolicy::setActiveConfig: the mode is set, or the driver refuses it.    *)
PolicySets ==
    /\ bc.pc = "policy" /\ bc.op = "active"
    /\ SetMode(bc.config[2], FALSE) \/ KeepsMode
    /\ bc' = [bc EXCEPT !.pc = AfterSet]
    /\ UNCHANGED <<sink, ev, hdmi, conn, mgr, disp, sf, plugs, calls>>

(* setHdrConversionStrategy: the mode is set again, without a hotplug.        *)
SetHdrStrategy ==
    /\ Begin("hdr", "policy", <<0, getMode>>, FALSE)
    /\ mgr' = [mgr EXCEPT !.callOnHotPlug = FALSE]
    /\ UNCHANGED <<uevents, crtc, disp>>

HdrPolicy ==
    /\ bc.pc = "policy" /\ bc.op = "hdr"
    /\ \/ SetMode(bc.config[2], FALSE) /\ bc' = [bc EXCEPT !.pc = "hdrWait"]
       \/ KeepsMode /\ bc' = [bc EXCEPT !.pc = "hdrWait"]
       \/ KeepsMode /\ bc' = [bc EXCEPT !.pc = "hdrDone"]
    /\ UNCHANGED <<sink, ev, hdmi, conn, mgr, disp, sf, plugs, calls>>

HdrDone ==
    /\ bc.pc = "hdrDone"
    /\ mgr' = [mgr EXCEPT !.callOnHotPlug = TRUE] /\ bc' = [bc EXCEPT !.pc = "idle"]
    /\ UNCHANGED <<sink, uevents, ev, hdmi, conn, crtc, disp, sf, plugs, calls>>

(* The waits end after one and three seconds.                                 *)
Timeout ==
    /\ bc.pc \in {"wait", "hdrWait"}
    /\ bc' = [bc EXCEPT !.pc = IF bc.pc = "wait" THEN "idle" ELSE "hdrDone"]
    /\ UNCHANGED <<sink, uevents, ev, hdmi, conn, crtc, mgr, disp, sf, plugs, calls>>

(* setAutoLowLatencyMode of a vrr display: the list shrinks to the mode set,  *)
(* or grows again.                                                            *)
SetAllm ==
    /\ hdmi.on /\ conn = "hdmi"
    /\ \E on \in BOOLEAN, mode \in hdmi.modes :
        /\ Begin("allm", "policy", <<0, mode>>, FALSE)
        /\ mgr' = [mgr EXCEPT !.callOnHotPlug = TRUE, !.allm = on]
    /\ UNCHANGED <<uevents, crtc, disp>>

AllmPolicy ==
    /\ bc.pc = "policy" /\ bc.op = "allm"
    /\ SetMode(bc.config[2], FALSE)
    /\ bc' = [bc EXCEPT !.pc = "idle"]
    /\ UNCHANGED <<sink, ev, hdmi, conn, mgr, disp, sf, plugs, calls>>

-----------------------------------------------------------------------------
(* A display that was plugged when the box started, or none.                  *)
Init ==
    \E tv \in Tvs \cup {NoTv} :
        LET on == tv # NoTv
            mode == IF on THEN CHOOSE m \in tv.modes : TRUE ELSE Dummy
            latest == IF on THEN mode ELSE Fake
            modes == {<<1, n>> : n \in tv.modes \cup {latest}}
        IN /\ sink = tv
           /\ hdmi = [on |-> on, modes |-> tv.modes, hdr |-> tv.hdr]
           /\ conn = IF on THEN "hdmi" ELSE "virtual"
           /\ crtc = [mode |-> mode, busy |-> FALSE, pending |-> "none"]
           /\ mgr = [gen |-> 1, modes |-> modes, latest |-> latest,
                     active |-> <<1, latest>>, callOnHotPlug |-> TRUE, allm |-> FALSE,
                     fakeGroup |-> 0]
           /\ disp = [connected |-> on, skip |-> ~on, hpd |-> FALSE, changed |-> FALSE,
                      mode |-> mode, hdr |-> tv.hdr]
           /\ sf = [told |-> FALSE, configs |-> modes]
    /\ uevents = <<>>
    /\ ev = [pc |-> "idle", event |-> "none", sends |-> FALSE, caps |-> FALSE]
    /\ bc = [op |-> "none", pc |-> "idle", config |-> <<0, Dummy>>, seamless |-> FALSE]
    /\ plugs = 0 /\ calls = 0

Next == \/ Plug \/ Resume \/ NextEvent
        \/ HotplugStart \/ PipeUpdate \/ ConnectorSettled \/ PendingMode
        \/ HotplugPolicy \/ HotplugDisplay \/ HotplugList \/ HotplugTell \/ HotplugWake
        \/ ModeBegin \/ ModeStart \/ ModeList \/ ModeDisplay \/ ModeTell \/ ModeWake
        \/ ReadConfigs \/ SetActiveConfig \/ SetModeLocked \/ PolicySets
        \/ SetHdrStrategy \/ HdrPolicy \/ HdrDone \/ Timeout \/ SetAllm \/ AllmPolicy

Spec == Init /\ [][Next]_vars

-----------------------------------------------------------------------------
Quiet == ev.pc = "idle" /\ uevents = <<>> /\ bc.pc = "idle"

(* Whatever is plugged, unplugged and woken up, and whatever modes the policy *)
(* and the calls set in between, once every event is handled the display is   *)
(* composed for if something is plugged, and for nothing else.                *)
Composed == Quiet => disp.skip = (sink = NoTv)

(* Once a mode has been set on a display that was plugged in, the hdr         *)
(* capabilities told to SurfaceFlinger are those of that display, never those *)
(* of one that was there before.                                              *)
CapsOfSink == Quiet /\ sink # NoTv /\ ~disp.hpd => disp.hdr = sink.hdr
=============================================================================
