-------------------------------- MODULE Vsync --------------------------------
(***************************************************************************)
(* The clock of a display, HwcVsync, and the thread it drives.  A pipe makes  *)
(* three clocks; they share nothing but the crtc, so that one behaviour has   *)
(* one of them: "default" tells SurfaceFlinger, "vt" drives VtDisplayThread,  *)
(* "wb" drives WBDisplayThread.  The setters run in other threads, under the  *)
(* clock's lock; the clock's thread reads mode and period without it.         *)
(***************************************************************************)
EXTENDS Naturals

CONSTANTS Layer,          \* the layers of the display
          SoftwareVsync   \* HwcConfig::softwareVsyncEnabled

VARIABLES kind,           \* which clock
          clock,          \* HwcVsync
          scans,          \* the crtc scans out: vblanks come
          layers,         \* mLayers and their types
          binder,         \* a setLayerBuffer or setLayerSidebandStream
          vtOn,           \* mVtVsyncStatus
          wb,             \* the white board and the virtual display
          video,          \* mHasVideoPresent
          worker          \* VtDisplayThread or WBDisplayThread

vars == <<kind, clock, scans, layers, binder, vtOn, wb, video, worker>>

display == <<scans, layers, binder, vtOn, wb, video>>

-----------------------------------------------------------------------------
(* The setters: each takes the lock and wakes the thread.                    *)

Notified(c) == [c EXCEPT !.at = IF @ = "wait" THEN "top" ELSE @]

setSoftwareMode(c) ==
    Notified([c EXCEPT !.soft = TRUE, !.mix = FALSE, !.crtc = FALSE])

setMixMode(c) ==
    Notified([c EXCEPT !.soft = FALSE, !.mix = TRUE, !.rebase = TRUE, !.crtc = TRUE])

setHwMode(c) == Notified([c EXCEPT !.soft = FALSE, !.mix = FALSE, !.crtc = TRUE])

(* setPeriod; a mix clock knows by `stale` that the period is another one.    *)
setPeriod(c, changed) == Notified([c EXCEPT !.stale = changed])

setEnabled(c, on) ==
    Notified([c EXCEPT !.enabled = on, !.rebase = @ \/ (kind = "vt" /\ c.mix)])

-----------------------------------------------------------------------------
(* The thread of the clock                                                   *)

At(pc) == clock.at = pc
Goto(pc) == clock' = [clock EXCEPT !.at = pc]
ClockOnly == UNCHANGED <<kind, display, worker>>

(* The wait for mEnabled.                                                    *)
CheckEnabled ==
    /\ At("top")
    /\ Goto(IF clock.enabled THEN "soft?" ELSE "wait")
    /\ ClockOnly

ReadSoft ==
    /\ At("soft?")
    /\ Goto(IF clock.soft THEN "sleep" ELSE "mix?")
    /\ ClockOnly

ReadMix ==
    /\ At("mix?")
    /\ Goto(CASE ~clock.mix -> "hw"
              [] clock.mix /\ (clock.stale \/ clock.rebase) -> "rebase"
              [] OTHER -> "sleep")
    /\ ClockOnly

(* waitHwVsync and waitMixVsync take their own reference to the crtc.         *)
TakeCrtc ==
    /\ clock.at \in {"hw", "rebase"}
    /\ Goto(IF ~clock.crtc THEN "error"
            ELSE IF At("hw") THEN "hwVblank" ELSE "mixVblank")
    /\ ClockOnly

HwVblank ==
    /\ At("hwVblank")
    /\ Goto(IF scans THEN "tell" ELSE "error")
    /\ ClockOnly

(* A mix clock goes on whatever the vblank returned, and forgets a rebase    *)
(* that was asked for while it waited.                                        *)
MixVblank ==
    /\ At("mixVblank")
    /\ clock' = [clock EXCEPT !.stale = FALSE, !.rebase = FALSE, !.at = "tell"]
    /\ ClockOnly

(* clock_nanosleep to the next tick, and the 16 ms after an error.            *)
Sleep ==
    /\ clock.at \in {"sleep", "error"}
    /\ Goto(IF At("sleep") THEN "tell" ELSE "top")
    /\ ClockOnly

(* Mutant: onVtVsync without its notify.                             *)
TicksSilently ==
    IF kind # "default" /\ worker.thread THEN [worker EXCEPT !.refresh = TRUE] ELSE worker

(* onVsync; for a display thread needRefresh and a notify under its lock.     *)
onVsync ==
    IF kind # "default" /\ worker.thread
    THEN [worker EXCEPT !.refresh = TRUE,
                        !.at = IF @ = "asleep" THEN "wait" ELSE @]
    ELSE worker

Deliver ==
    /\ At("tell") /\ clock.enabled
    /\ Goto("top")
    /\ worker' = onVsync
    /\ UNCHANGED <<kind, display>>

KeepsQuiet ==
    /\ At("tell") /\ ~clock.enabled
    /\ Goto("top")
    /\ ClockOnly

-----------------------------------------------------------------------------
(* The pipe, SurfaceFlinger and the crtc                                     *)

SetsClock(c) == clock' = c /\ UNCHANGED <<kind, scans, layers, binder, vtOn, wb, worker>>

setVsyncEnable ==
    /\ kind = "default"
    /\ \E on \in BOOLEAN : SetsClock(setEnabled(clock, on))
    /\ UNCHANGED video

(* setFrameRateHint, a seamless setActiveConfig, the low latency mode.        *)
SetPeriod ==
    /\ \E changed \in BOOLEAN : SetsClock(setPeriod(clock, changed))
    /\ UNCHANGED video

DefaultClock(connected) ==
    IF SoftwareVsync \/ ~connected THEN setSoftwareMode(clock) ELSE setHwMode(clock)

PipeMode(connected) ==
    CASE kind = "default" -> DefaultClock(connected)
      [] kind = "vt" -> setMixMode(clock)
      [] kind = "wb" -> setHwMode(clock)

(* HwcDisplayPipe::updatePipe; the period is set when there is a mode.        *)
updatePipe ==
    /\ \E connected, changed \in BOOLEAN : SetsClock(setPeriod(PipeMode(connected), changed))
    /\ UNCHANGED video

(* A mode change is complete: as above, or all in software without a mode.    *)
ModeChanged ==
    /\ \E known, changed \in BOOLEAN :
        SetsClock(setPeriod(IF known THEN PipeMode(TRUE) ELSE setSoftwareMode(clock), changed))
    /\ UNCHANGED video

(* onHotplug(false), and handleRequest when a 3d mode begins.                 *)
PlugOut ==
    /\ kind = "default"
    /\ SetsClock(setSoftwareMode(clock))
    /\ UNCHANGED video

Set3D ==
    /\ kind = "default"
    /\ \E enable, changed \in BOOLEAN :
        SetsClock(setPeriod(IF enable THEN setSoftwareMode(clock) ELSE setHwMode(clock), changed))
    /\ UNCHANGED video

(* adjustVsyncMode, at the end of every validateDisplay.                      *)
adjustVsyncMode ==
    /\ kind = "default"
    /\ \E present \in BOOLEAN :
        /\ video' = present
        /\ SetsClock(CASE present /\ ~video -> setMixMode(clock)
                       [] ~present /\ video -> DefaultClock(TRUE)
                       [] OTHER -> clock)

(* The crtc starts or stops scanning.                                         *)
Scan ==
    /\ scans' = ~scans
    /\ UNCHANGED <<kind, clock, layers, binder, vtOn, wb, video, worker>>

-----------------------------------------------------------------------------
(* The tunnel layers                                                         *)

HasVtLayer(ls) == \E l \in Layer : ls[l] = "vt"

(* Mutant: handleVtThreadLocked with the clock enabled for a new thread only.          *)
EnablesOnce(ls) ==
    IF HasVtLayer(ls)
    THEN /\ worker' = [worker EXCEPT !.thread = TRUE]
         /\ clock' = IF worker.thread THEN clock ELSE setEnabled(clock, TRUE)
         /\ vtOn' = TRUE
    ELSE /\ clock' = IF worker.thread /\ vtOn THEN setEnabled(clock, FALSE) ELSE clock
         /\ vtOn' = (vtOn /\ ~worker.thread)
         /\ UNCHANGED worker

(* handleVtThreadLocked over the layers ls.                                   *)
handleVtThreadLocked(ls) ==
    IF HasVtLayer(ls)
    THEN /\ worker' = [worker EXCEPT !.thread = TRUE]
         /\ clock' = IF vtOn THEN clock ELSE setEnabled(clock, TRUE)
         /\ vtOn' = TRUE
    ELSE /\ clock' = IF worker.thread /\ vtOn THEN setEnabled(clock, FALSE) ELSE clock
         /\ vtOn' = (vtOn /\ ~worker.thread)
         /\ UNCHANGED worker

createLayer ==
    /\ kind = "vt"
    /\ \E l \in Layer :
        /\ layers[l] = "none"
        /\ layers' = [layers EXCEPT ![l] = "ui"]
    /\ UNCHANGED <<kind, clock, scans, binder, vtOn, wb, video, worker>>

destroyLayer ==
    /\ kind = "vt"
    /\ \E l \in Layer :
        /\ layers[l] # "none" /\ (binder.at = "set" => binder.layer # l)
        /\ layers' = [layers EXCEPT ![l] = "none"]
    /\ handleVtThreadLocked(layers')
    /\ UNCHANGED <<kind, scans, binder, wb, video>>

(* The event thread clears the layers at any point of a binder call.          *)
cleanupBeforeDestroy ==
    /\ kind = "vt"
    /\ layers' = [l \in Layer |-> "none"]
    /\ handleVtThreadLocked(layers')
    /\ UNCHANGED <<kind, scans, binder, wb, video>>

(* setLayerBuffer and setLayerSidebandStream: find the layer, set it, then    *)
(* handleVtThread.                                                            *)
FindLayer ==
    /\ kind = "vt" /\ binder.at = "idle"
    /\ \E l \in Layer :
        /\ layers[l] # "none"
        /\ binder' = [at |-> "set", layer |-> l]
    /\ UNCHANGED <<kind, clock, scans, layers, vtOn, wb, video, worker>>

SetLayer ==
    /\ binder.at = "set"
    /\ \E type \in {"ui", "vt"} :
        layers' = IF layers[binder.layer] = "none" THEN layers
                  ELSE [layers EXCEPT ![binder.layer] = type]
    /\ binder' = [binder EXCEPT !.at = "handle"]
    /\ UNCHANGED <<kind, clock, scans, vtOn, wb, video, worker>>

handleVtThread ==
    /\ binder.at = "handle"
    /\ binder' = [binder EXCEPT !.at = "idle"]
    /\ handleVtThreadLocked(layers)
    /\ UNCHANGED <<kind, scans, layers, wb, video>>

(* setLayerColor makes another layer of it and tells nobody.                  *)
setLayerColor ==
    /\ kind = "vt" /\ binder.at = "idle"
    /\ \E l \in Layer :
        /\ layers[l] = "vt"
        /\ layers' = [layers EXCEPT ![l] = "ui"]
    /\ UNCHANGED <<kind, clock, scans, binder, vtOn, wb, video, worker>>

-----------------------------------------------------------------------------
(* The white board and the virtual display                                   *)

handleWBThread(mode, callback) ==
    [worker EXCEPT !.thread = @ \/ (~wb.init /\ (mode \/ callback))]

setWhiteBoardMode ==
    /\ kind = "wb"
    /\ \E mode \in BOOLEAN :
        /\ worker' = handleWBThread(mode, wb.callback)
        /\ wb' = [wb EXCEPT !.mode = mode, !.client = mode, !.init = TRUE]
        /\ clock' = setEnabled(clock, mode)
    /\ UNCHANGED <<kind, scans, layers, binder, vtOn, video>>

(* createVirtualDisplay and destroyVirtualDisplay                             *)
createCallbackThread ==
    /\ kind = "wb"
    /\ \E mode \in BOOLEAN :
        /\ worker' = handleWBThread(wb.mode, mode)
        /\ wb' = [wb EXCEPT !.callback = mode, !.init = TRUE]
        /\ clock' = setEnabled(clock, mode)
    /\ UNCHANGED <<kind, scans, layers, binder, vtOn, video>>

(* The process that asked for the white board dies.                          *)
ClientDies ==
    /\ wb.client
    /\ wb' = [wb EXCEPT !.client = FALSE]
    /\ UNCHANGED <<kind, clock, scans, layers, binder, vtOn, video, worker>>

-----------------------------------------------------------------------------
(* The display thread                                                        *)

(* The wait for needRefresh, which it clears before its work.                *)
Pick ==
    /\ worker.thread /\ worker.at = "wait"
    /\ worker' = IF worker.refresh THEN [worker EXCEPT !.refresh = FALSE, !.at = "busy"]
                 ELSE [worker EXCEPT !.at = "asleep"]
    /\ UNCHANGED <<kind, clock, display>>

(* handleVtDisplay's work, or the refresh asked of SurfaceFlinger; the latter *)
(* ends the white board mode of a process that is gone.                      *)
Handle ==
    /\ worker.at = "busy"
    /\ worker' = [worker EXCEPT !.at = "wait"]
    /\ IF wb.mode /\ ~wb.client
       THEN /\ wb' = [wb EXCEPT !.mode = FALSE]
            /\ clock' = setEnabled(clock, FALSE)
       ELSE UNCHANGED <<wb, clock>>
    /\ UNCHANGED <<kind, scans, layers, binder, vtOn, video>>

(* onFrameAvailableForGameMode                                                *)
GameFrame ==
    /\ kind = "vt" /\ worker.thread
    /\ worker' = onVsync
    /\ UNCHANGED <<kind, clock, display>>

-----------------------------------------------------------------------------

NewClock == [soft |-> TRUE, mix |-> FALSE, crtc |-> FALSE, enabled |-> FALSE,
             rebase |-> FALSE, stale |-> TRUE, at |-> "top"]

Init ==
    /\ kind \in {"default", "vt", "wb"}
    /\ clock = NewClock
    /\ scans \in BOOLEAN
    /\ layers = [l \in Layer |-> "none"]
    /\ binder \in [at : {"idle"}, layer : Layer]
    /\ vtOn = FALSE
    /\ wb = [mode |-> FALSE, callback |-> FALSE, init |-> FALSE, client |-> FALSE]
    /\ video = FALSE
    /\ worker = [thread |-> FALSE, refresh |-> FALSE, at |-> "wait"]

Setters ==
    setVsyncEnable \/ SetPeriod \/ updatePipe \/ ModeChanged \/ PlugOut \/ Set3D
    \/ adjustVsyncMode \/ Scan \/ createLayer \/ destroyLayer \/ cleanupBeforeDestroy
    \/ FindLayer \/ setLayerColor \/ setWhiteBoardMode \/ createCallbackThread
    \/ ClientDies \/ GameFrame

Clock ==
    CheckEnabled \/ ReadSoft \/ ReadMix \/ TakeCrtc \/ HwVblank \/ MixVblank \/ Sleep
    \/ Deliver \/ KeepsQuiet

Worker == Pick \/ Handle

Binder == SetLayer \/ handleVtThread

Next == Setters \/ Clock \/ Worker \/ Binder

(* A thread that can run runs: no lock is held over a wait.                   *)
Fairness ==
    /\ WF_vars(Clock)
    /\ WF_vars(Worker)
    /\ WF_vars(Binder)

Spec == Init /\ [][Next]_vars /\ Fairness

-----------------------------------------------------------------------------
(* What the clock can tick by, in mode m.                                     *)
Ticking(m) ==
    /\ clock.enabled
    /\ CASE m = "soft" -> clock.soft
         [] m = "mix"  -> ~clock.soft /\ clock.mix /\ clock.crtc
         [] m = "hw"   -> ~clock.soft /\ ~clock.mix /\ clock.crtc /\ scans

(* A clock that stays enabled in one mode, with a scanning crtc when it needs *)
(* vblanks, goes on telling its display, however often others set the period, *)
(* rebase it or enable it again: neither the wait for mEnabled nor the modes  *)
(* read without the lock lose it for good.                                    *)
Ticks == \A m \in {"soft", "mix", "hw"} : <>[]Ticking(m) => []<><<Deliver>>_vars

(* handleVtThreadLocked: outside of a setLayerBuffer, a display with a tunnel *)
(* layer has its thread and its clock enabled, also when the event thread     *)
(* clears the layers in the middle of such a call.                            *)
TunnelOn ==
    kind = "vt" /\ binder.at # "handle" /\ HasVtLayer(layers) =>
        worker.thread /\ vtOn /\ clock.enabled

(* A tunnel layer that stays is served: while the clock can tick its display  *)
(* thread composes again and again, from clock to thread without a lost       *)
(* wake-up.                                                                   *)
TunnelServed ==
    \A m \in {"mix", "soft"} :
        <>[](kind = "vt" /\ HasVtLayer(layers) /\ Ticking(m)) => []<><<Handle>>_vars

(* From the clock to the picture nothing is lost.                             *)
Delivers == Ticks /\ TunnelServed
=============================================================================
