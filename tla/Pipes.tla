-------------------------------- MODULE Pipes --------------------------------
(***************************************************************************)
(* The display pipes: which crtc, connector and planes each display uses, and *)
(* how the back end binds them.  FixedDisplayPipe has one display,            *)
(* DualDisplayPipe and MultiDisplayDrmPipe two, LoopbackDisplayPipe one whose *)
(* picture goes through vdin to a second crtc.  Events come from the uevent   *)
(* thread and, at power off, from a binder thread; requests from the thread   *)
(* that presents.  All hold mMutex but MultiDisplayDrmPipe's.  What the modes *)
(* are is in Modes and Configs; the switch of connectors under                *)
(* dynamicSwitchConnectorEnabled is left out.                                 *)
(***************************************************************************)
EXTENDS Naturals, Sequences, FiniteSets, SequencesExt, FiniteSetsExt

CONSTANTS Boards,         \* kind, drm, dynViu, always: through vdin, wired: the
                          \* connectors of its displays, masks: the possible crtcs of
                          \* its planes
          MaxMoves        \* bound: cables, sleeps and requests

VARIABLES board,
          plugged, used,  \* the cable, and hdmi_used, which stays
          queued, asleep,      \* HwDisplayEventListener: mSuspendState
          seen,           \* isConnected of the hdmi connector, as last read
          hdmiConnected,  \* mHdmi_connected
          eventState,     \* mEventState
          post,           \* mPostProcessor of the loopback
          stat,           \* mPipeStats: the configurations
          wiring,         \* pipes: mPipes of DrmDevice; conn of the crtcs; crtc of the
                          \* connectors and of the planes
          job,            \* where each thread is in handleEvent or init
          raced,          \* two threads in MultiDisplayDrmPipe at once
          moves

pipeVars == <<board, plugged, used, queued, asleep, seen, hdmiConnected, eventState, post,
              stat, wiring, job, raced, moves>>

None == "none"
Threads == {"main", "uevent", "binder"}
HdmiTypes == {"hdmi", "virtual", "tv"}

DisplayIds == DOMAIN board.wired

-----------------------------------------------------------------------------
(* The planes of a pipe: those that go to its crtc alone; the others from the *)
(* last one, one to each pipe from the last, the rest to the first.           *)
PipesOf(b) == IF b.kind = "loopback" THEN 2 ELSE Len(b.wired)

Planes(b) ==
    LET n == Len(b.masks)
        takes(i, p) == Cardinality(b.masks[i]) # 1 /\ p \in b.masks[i]
        cursor[i \in 1 .. n] ==
            IF i = n THEN PipesOf(b)
            ELSE IF takes(i + 1, cursor[i + 1]) THEN Max({1, cursor[i + 1] - 1})
            ELSE cursor[i + 1]
    IN [p \in 1 .. PipesOf(b) |->
           {i \in 1 .. n : b.masks[i] = {p} \/ (takes(i, p) /\ cursor[i] = p)}]

planesOf == Planes(board)

-----------------------------------------------------------------------------
(* The back ends                                                             *)

fbdevUnbind(w, p) ==
    IF w.conn[p] = None THEN w ELSE [w EXCEPT !.crtc[w.conn[p]] = 0, !.conn[p] = None]

fbdevBind(w, p, c) == [fbdevUnbind(w, p) EXCEPT !.crtc[c] = p, !.conn[p] = c]

(* DrmDevice::bind: nothing for the pipe it has; an entry is not overwritten. *)
drmBind(w, p, c) ==
    IF w.pipes[p] = c THEN w
    ELSE [w EXCEPT !.pipes[p] = IF @ = None THEN c ELSE @,
                   !.conn[p] = c,
                   !.crtc[c] = p,
                   !.plane = [i \in DOMAIN @ |-> IF i \in planesOf[p] THEN p ELSE @[i]]]

unbind(w, p) == IF board.drm THEN [w EXCEPT !.pipes[p] = None] ELSE fbdevUnbind(w, p)
bind(w, p, c) == IF board.drm THEN drmBind(w, p, c) ELSE fbdevBind(w, p, c)

(* Before a loopback starts or stops both crtcs lose their mode, and on drm   *)
(* their connectors the crtc.                                                 *)
clearMode(w, p) ==
    IF board.drm /\ w.conn[p] # None THEN [w EXCEPT !.crtc[w.conn[p]] = 0] ELSE w

-----------------------------------------------------------------------------
(* getPipeCfg                                                                *)

hasDummyConnector == board.drm
Dummy(connector) == IF hasDummyConnector THEN "virtual" ELSE connector

(* HWC_HDMI_CVBS                                                              *)
ConnectorCfg(d) ==
    IF board.wired[d] # "hdmi-cvbs" THEN board.wired[d]
    ELSE IF seen THEN "hdmi" ELSE "tv"

(* Mutant: a resume handled as a plug in.                                     *)
ResumesPlugged(connector) ==
    IF connector # "hdmi" THEN connector
    ELSE CASE eventState \in {"out", "suspend"} -> Dummy("hdmi")
           [] eventState \in {"in", "resume"} -> "hdmi"
           [] OTHER -> IF seen THEN "hdmi" ELSE Dummy("hdmi")

(* DualDisplayPipe and MultiDisplayDrmPipe                                    *)
SwitchedHdmi(connector) ==
    IF connector # "hdmi" THEN connector
    ELSE CASE eventState \in {"out", "suspend"} -> Dummy("hdmi")
           [] eventState = "in" -> "hdmi"
           [] OTHER -> IF seen THEN "hdmi" ELSE Dummy("hdmi")

(* FixedDisplayPipe                                                           *)
FixedConnector(connector) ==
    LET absent == IF ~used /\ connector # "hdmi" THEN "tv" ELSE Dummy("hdmi")
    IN IF connector \notin {"hdmi", "tv"} THEN connector
       ELSE CASE eventState = "out" -> Dummy("hdmi")
              [] eventState = "in" -> "hdmi"
              [] eventState = "suspend" -> IF seen THEN Dummy("hdmi") ELSE absent
              [] OTHER -> IF seen THEN "hdmi" ELSE absent

Straight(p, c) == [pipe |-> p, conn |-> c, modePipe |-> p, modeConn |-> c, post |-> FALSE]

(* With a dynamic viu the hdmi display takes the first crtc while plugged.    *)
DualPipe(d, connector) ==
    LET swapped == board.dynViu /\ hdmiConnected
    IN IF d = 1 THEN (IF swapped /\ connector = "panel" THEN 2 ELSE 1)
       ELSE IF swapped /\ connector = "hdmi" THEN 1 ELSE 2

LoopbackCfg(connector, on) ==
    IF on THEN [pipe |-> 1, conn |-> "virtual", modePipe |-> 2, modeConn |-> connector,
                post |-> TRUE]
    ELSE Straight(1, connector)

getPipeCfg(d) ==
    LET connector == ConnectorCfg(d)
    IN CASE board.kind = "fixed" -> Straight(1, FixedConnector(connector))
         [] board.kind = "dual" ->
              LET switched == SwitchedHdmi(connector)
              IN Straight(DualPipe(d, switched), switched)
         [] board.kind = "multi" -> Straight(d, SwitchedHdmi(connector))
         [] board.kind = "loopback" -> LoopbackCfg(connector, post)

-----------------------------------------------------------------------------
(* Mutant: bound without being unbound first.                                 *)
NoUnbind(w, cfg) ==
    LET first == bind(w, cfg.pipe, cfg.conn)
    IN IF cfg.modePipe = cfg.pipe THEN first ELSE bind(first, cfg.modePipe, cfg.modeConn)

(* updatePipe, in two parts: getPipeCfg, and the rewiring when it differs.    *)
(* The crtc of the mode, when it is another one, is bound after the first.    *)
Rewire(w, cfg) ==
    LET first == bind(unbind(w, cfg.pipe), cfg.pipe, cfg.conn)
        freed == IF board.drm THEN unbind(first, cfg.modePipe) ELSE first
    IN IF cfg.modePipe = cfg.pipe THEN first
       ELSE bind(freed, cfg.modePipe, cfg.modeConn)

(* A connector that is updated is read again.                                 *)
ReadBy(connectors) == seen' = IF "hdmi" \in connectors THEN plugged ELSE seen

At(t, pc) == job[t].pc = pc
Idle(t) == At(t, "idle")
Free(t) == board.kind = "multi" \/ \A u \in Threads \ {t} : Idle(u)

Races(t) == raced' = (raced \/ \E u \in Threads \ {t} : ~Idle(u))

(* FixedDisplayPipe reads the connector it is to change to before it asks     *)
(* which one to use again.                                                    *)
FixedTarget(t) ==
    /\ At(t, "target")
    /\ LET target == FixedConnector(ConnectorCfg(1))
       IN IF target = stat[1].conn
          THEN job' = [job EXCEPT ![t].pc = "tell"] /\ UNCHANGED seen
          ELSE job' = [job EXCEPT ![t].pc = "plan"] /\ ReadBy({target})
    /\ UNCHANGED <<board, plugged, used, queued, asleep, hdmiConnected, eventState, post,
                   stat, wiring, raced, moves>>

PlanPipe(t) ==
    /\ At(t, "plan")
    /\ job' = [job EXCEPT ![t].pc = "wire", ![t].cfg = getPipeCfg(job[t].d)]
    /\ UNCHANGED <<board, plugged, used, queued, asleep, seen, hdmiConnected, eventState,
                   post, stat, wiring, raced, moves>>

WirePipe(t) ==
    /\ At(t, "wire")
    /\ LET d == job[t].d
           cfg == job[t].cfg
       IN /\ IF cfg = stat[d] THEN UNCHANGED <<stat, wiring, seen>>
             ELSE /\ stat' = [stat EXCEPT ![d] = cfg]
                  /\ wiring' = Rewire(wiring, cfg)
                  /\ ReadBy({cfg.conn, cfg.modeConn})
          /\ job' = [job EXCEPT ![t].pc = IF d < Len(board.wired) THEN "plan"
                                          ELSE IF t = "main" THEN "idle" ELSE "tell",
                                ![t].d = IF d < Len(board.wired) THEN d + 1 ELSE 1]
    /\ UNCHANGED <<board, plugged, used, queued, asleep, hdmiConnected, eventState, post,
                   raced, moves>>

(* The displays on hdmi, or on the connector in its place, are told; dual and *)
(* multi read the connector once more.                                        *)
TellDisplays(t) ==
    /\ At(t, "tell")
    /\ IF board.kind = "fixed" THEN UNCHANGED seen
       ELSE ReadBy({stat[d].modeConn : d \in DisplayIds})
    /\ job' = [job EXCEPT ![t].pc = "idle"]
    /\ UNCHANGED <<board, plugged, used, queued, asleep, hdmiConnected, eventState, post,
                   stat, wiring, raced, moves>>

-----------------------------------------------------------------------------
(* handleEvent for DRM_EVENT_HDMITX_HOTPLUG                                   *)

FixedReads(event) ==
    IF event = "resume" THEN {"hdmi"} ELSE {stat[1].modeConn}

(* LoopbackDisplayPipe leaves the pipe as it is.                              *)
HotplugEvent(t, event) ==
    /\ Idle(t) /\ Free(t) /\ Races(t)
    /\ IF board.kind = "loopback"
       THEN /\ ReadBy({stat[1].modeConn})
            /\ UNCHANGED <<eventState, hdmiConnected, job>>
       ELSE /\ eventState' = event
            /\ CASE board.kind = "fixed" -> ReadBy(FixedReads(event))
                 [] OTHER -> ReadBy({"hdmi"})
            /\ hdmiConnected' = plugged
            /\ job' = [job EXCEPT ![t].pc = IF board.kind = "fixed" THEN "target" ELSE "plan",
                                  ![t].d = 1]
    /\ UNCHANGED <<board, plugged, used, post, stat, wiring>>

(* A hotplug in the time the driver is suspended is not handled; nor is the   *)
(* suspend itself, for which setPowerMode stands.                             *)
HandleUevent ==
    /\ queued # <<>> /\ Idle("uevent")
    /\ queued' = Tail(queued)
    /\ LET event == Head(queued)
       IN \/ /\ event = "sleep" /\ asleep' = TRUE
             /\ UNCHANGED <<board, plugged, used, seen, hdmiConnected, eventState, post, stat,
                            wiring, job, raced>>
          \/ /\ event \in {"in", "out"} /\ asleep /\ asleep' = TRUE
             /\ UNCHANGED <<board, plugged, used, seen, hdmiConnected, eventState, post, stat,
                            wiring, job, raced>>
          \/ /\ event = "resume" \/ (event \in {"in", "out"} /\ ~asleep)
             /\ asleep' = FALSE /\ HotplugEvent("uevent", event)
    /\ UNCHANGED moves

(* needSwitchConnector of the display that is powered off.                    *)
setPowerMode ==
    /\ moves < MaxMoves /\ moves' = moves + 1
    /\ \E d \in DisplayIds : stat[d].conn \in HdmiTypes
    /\ HotplugEvent("binder", "suspend")
    /\ UNCHANGED <<queued, asleep>>

-----------------------------------------------------------------------------
(* LoopbackDisplayPipe::handleRequest: the post processor starts or stops.    *)
handleRequest ==
    /\ board.kind = "loopback" /\ moves < MaxMoves /\ moves' = moves + 1
    /\ Idle("main") /\ Free("main")
    /\ post' = ~post
    /\ LET old == stat[1]
           cleared == clearMode(clearMode(wiring, old.pipe), old.modePipe)
           cfg == LoopbackCfg(ConnectorCfg(1), post')
       IN /\ stat' = [stat EXCEPT ![1] = cfg]
          /\ wiring' = Rewire(unbind(unbind(cleared, old.pipe), old.modePipe), cfg)
          /\ ReadBy({cfg.conn, cfg.modeConn})
    /\ UNCHANGED <<board, plugged, used, queued, asleep, hdmiConnected, eventState, job, raced>>

(* The cable, and a suspend or resume of the driver.                          *)
Cable ==
    /\ moves < MaxMoves /\ moves' = moves + 1
    /\ plugged' = ~plugged /\ used' = (used \/ ~plugged)
    /\ queued' = Append(queued, IF plugged THEN "out" ELSE "in")
    /\ UNCHANGED <<board, asleep, seen, hdmiConnected, eventState, post, stat, wiring, job, raced>>

Sleeping == LET told == SelectSeq(queued, LAMBDA e : e \in {"sleep", "resume"})
            IN IF told = <<>> THEN asleep ELSE Last(told) = "sleep"

Sleep ==
    /\ moves < MaxMoves /\ moves' = moves + 1
    /\ queued' = Append(queued, IF Sleeping THEN "resume" ELSE "sleep")
    /\ UNCHANGED <<board, plugged, used, asleep, seen, hdmiConnected, eventState, post, stat,
                   wiring, job, raced>>

(* loadPipe: the crtc and connector the boot loader left bound.               *)
Booted(c) ==
    [pipes |-> [p \in 1 .. 2 |-> IF board.drm /\ p = 1 THEN c ELSE None],
     conn |-> [p \in 1 .. 2 |-> IF board.drm /\ p = 1 THEN c ELSE None],
     crtc |-> [x \in {"hdmi", "tv", "virtual", "panel"} |->
                 IF board.drm /\ x = c THEN 1 ELSE 0],
     plane |-> [i \in DOMAIN board.masks |-> 0]]

Init ==
    /\ board \in Boards
    /\ plugged \in BOOLEAN /\ used = plugged
    /\ queued = <<>> /\ asleep = FALSE
    /\ seen = plugged /\ hdmiConnected = plugged
    /\ eventState = None
    /\ post = board.always
    /\ stat = [d \in DisplayIds |-> [pipe |-> 0, conn |-> None, modePipe |-> 0,
                                   modeConn |-> None, post |-> FALSE]]
    /\ \E c \in {None, "hdmi", "panel"} : wiring = Booted(c)
    /\ job = [t \in Threads |-> [pc |-> IF t = "main" THEN "plan" ELSE "idle", d |-> 1,
                                 cfg |-> Straight(0, None)]]
    /\ raced = FALSE /\ moves = 0

Next ==
    \/ \E t \in Threads : FixedTarget(t) \/ PlanPipe(t) \/ WirePipe(t) \/ TellDisplays(t)
    \/ HandleUevent \/ setPowerMode \/ handleRequest \/ Cable \/ Sleep

-----------------------------------------------------------------------------
(* Properties                                                                *)

Quiet == (\A t \in Threads : Idle(t)) /\ ~raced

(* With no event under way, the crtc, the connector and the planes of every   *)
(* display are bound to each other: a mode can be set (the assertion in       *)
(* DrmCrtc::setModeLocked) and the planes show on the display's crtc.  Not    *)
(* with a dynamic viu: see the hazards.                                       *)
Bound ==
    Quiet /\ ~board.dynViu =>
        \A d \in DisplayIds :
            LET cfg == stat[d]
            IN /\ wiring.conn[cfg.pipe] = cfg.conn /\ wiring.crtc[cfg.conn] = cfg.pipe
               /\ wiring.conn[cfg.modePipe] = cfg.modeConn
               /\ wiring.crtc[cfg.modeConn] = cfg.modePipe
               /\ planesOf[cfg.pipe] # {}
               /\ board.drm => \A i \in planesOf[cfg.pipe] : wiring.plane[i] = cfg.pipe

(* No two displays use one crtc or one connector, whichever way the cable     *)
(* went during the event.                                                     *)
Apart ==
    Quiet => \A d, e \in DisplayIds : d # e =>
        stat[d].pipe # stat[e].pipe /\ stat[d].conn # stat[e].conn

(* Every uevent handled and the last of them not a suspend, a display on hdmi *)
(* has the hdmi connector if and only if something is plugged, even when the  *)
(* cable went in or out while events were being handled or the driver slept.  *)
CableFollowed ==
    Quiet /\ queued = <<>> /\ ~asleep /\ eventState # "suspend" /\ board.drm
        /\ board.kind # "loopback" =>
        \A d \in DisplayIds : board.wired[d] \in {"hdmi", "hdmi-cvbs"} =>
            (stat[d].conn = "hdmi") = plugged
=============================================================================
