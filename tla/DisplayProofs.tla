--------------------------- MODULE DisplayProofs ---------------------------
(***************************************************************************)
(* What holds of the parts of a display.  Vsync, for every set of layers: the *)
(* types of the state, and that a display with a tunnel layer has its clock   *)
(* and its thread on.  Configs under RealModeMgr, for any displays, changes   *)
(* and calls: an id that SurfaceFlinger knows never means another mode, and   *)
(* the active configuration is one of the list.                               *)
(***************************************************************************)
EXTENDS Vsync, Configs, FiniteSetTheorems, WellFoundedInduction, TLAPS

\* The types of the clock, the layers and the threads it drives.
ClockState ==
    [soft : BOOLEAN, mix : BOOLEAN, crtc : BOOLEAN, enabled : BOOLEAN, rebase : BOOLEAN,
     stale : BOOLEAN, at : {"top", "wait", "soft?", "mix?", "sleep", "hw", "rebase", "error",
                            "hwVblank", "mixVblank", "tell"}]
TypeOK ==
    /\ kind \in {"default", "vt", "wb"}
    /\ clock \in ClockState
    /\ scans \in BOOLEAN
    /\ layers \in [Layer -> {"none", "ui", "vt"}]
    /\ binder \in [at : {"idle", "set", "handle"}, layer : Layer]
    /\ vtOn \in BOOLEAN
    /\ wb \in [mode : BOOLEAN, callback : BOOLEAN, init : BOOLEAN, client : BOOLEAN]
    /\ video \in BOOLEAN
    /\ worker \in [thread : BOOLEAN, refresh : BOOLEAN, at : {"wait", "busy", "asleep"}]

\* mVtVsyncStatus is what the clock of the tunnels was last told, it is only set
\* with a thread, the clock of the tunnels never meets the white board, and only
\* tunnel layers are set.
VtClock ==
    /\ kind = "vt" => /\ clock.enabled = vtOn
                      /\ vtOn => worker.thread
                      /\ ~wb.mode
    /\ binder.at # "idle" => kind = "vt"

IInv == TypeOK /\ VtClock /\ TunnelOn

----------------------------------------------------------------------------
(* The setters *)

LEMMA SetterTypes ==
  ASSUME NEW c \in ClockState, NEW b \in BOOLEAN, TypeOK
  PROVE  /\ setSoftwareMode(c) \in ClockState /\ setSoftwareMode(c).enabled = c.enabled
         /\ setMixMode(c) \in ClockState /\ setMixMode(c).enabled = c.enabled
         /\ setHwMode(c) \in ClockState /\ setHwMode(c).enabled = c.enabled
         /\ setPeriod(c, b) \in ClockState /\ setPeriod(c, b).enabled = c.enabled
         /\ setEnabled(c, b) \in ClockState /\ setEnabled(c, b).enabled = b
  BY ZenonT(60) DEF setSoftwareMode, setMixMode, setHwMode, setPeriod, setEnabled, Notified,
         ClockState, TypeOK

LEMMA ModeTypes ==
  ASSUME TypeOK, NEW b \in BOOLEAN
  PROVE  PipeMode(b) \in ClockState /\ PipeMode(b).enabled = clock.enabled
  BY SetterTypes DEF PipeMode, DefaultClock, TypeOK

\* onVsync wakes a thread, it never makes or ends one.
LEMMA WakeTypes ==
  ASSUME TypeOK
  PROVE  /\ onVsync \in [thread : BOOLEAN, refresh : BOOLEAN, at : {"wait", "busy", "asleep"}]
         /\ onVsync.thread = worker.thread
  BY DEF onVsync, TypeOK

\* After handleVtThreadLocked the clock is on if and only if some layer is a tunnel
\* layer, or no thread was ever made.
LEMMA HandleVt ==
  ASSUME TypeOK, VtClock, kind = "vt", NEW ls, handleVtThreadLocked(ls)
  PROVE  /\ clock' \in ClockState
         /\ vtOn' \in BOOLEAN
         /\ worker' \in [thread : BOOLEAN, refresh : BOOLEAN, at : {"wait", "busy", "asleep"}]
         /\ clock'.enabled = vtOn'
         /\ vtOn' => worker'.thread
         /\ HasVtLayer(ls) => vtOn'
  <1>1. /\ setEnabled(clock, TRUE) \in ClockState /\ setEnabled(clock, TRUE).enabled = TRUE
        /\ setEnabled(clock, FALSE) \in ClockState /\ setEnabled(clock, FALSE).enabled = FALSE
    BY SetterTypes DEF TypeOK
  <1>2. CASE HasVtLayer(ls)
    <2>1. /\ worker' = [worker EXCEPT !.thread = TRUE]
          /\ clock' = IF vtOn THEN clock ELSE setEnabled(clock, TRUE)
          /\ vtOn' = TRUE
      BY <1>2 DEF handleVtThreadLocked
    <2>2. clock' \in ClockState /\ clock'.enabled = TRUE
      BY <1>1, <2>1 DEF TypeOK, VtClock
    <2>3. /\ worker' \in [thread : BOOLEAN, refresh : BOOLEAN, at : {"wait", "busy", "asleep"}]
          /\ worker'.thread
      BY <2>1 DEF TypeOK
    <2> QED BY <2>1, <2>2, <2>3
  <1>3. CASE ~HasVtLayer(ls)
    <2>1. /\ worker' = worker
          /\ clock' = IF worker.thread /\ vtOn THEN setEnabled(clock, FALSE) ELSE clock
          /\ vtOn' = (vtOn /\ ~worker.thread)
      BY <1>3 DEF handleVtThreadLocked
    <2>2. vtOn' = FALSE
      BY <2>1 DEF TypeOK, VtClock
    <2>3. clock' \in ClockState /\ clock'.enabled = FALSE
      BY <1>1, <2>1 DEF TypeOK, VtClock
    <2> QED BY <1>3, <2>1, <2>2, <2>3 DEF TypeOK
  <1> QED BY <1>2, <1>3

----------------------------------------------------------------------------
(* One step per group of actions *)

\* A step that leaves the layers, the binder call and mVtVsyncStatus alone and does
\* not turn the clock of the tunnels, or their thread, off.
LEMMA Aside ==
  ASSUME IInv, TypeOK', kind' = kind,
         UNCHANGED <<layers, binder, vtOn>>,
         kind = "vt" => /\ clock'.enabled = clock.enabled
                        /\ worker'.thread = worker.thread
                        /\ ~wb'.mode
  PROVE  IInv'
  BY DEF IInv, VtClock, TunnelOn, HasVtLayer

\* handleVtThreadLocked leaves clock and thread as the layers it looked at want them.
LEMMA SetsLayers ==
  ASSUME IInv, kind = "vt",
         NEW ls, layers' = ls, handleVtThreadLocked(ls),
         ls \in [Layer -> {"none", "ui", "vt"}],
         binder' \in [at : {"idle", "set", "handle"}, layer : Layer],
         UNCHANGED <<kind, scans, wb, video>>
  PROVE  IInv'
  <1>1. /\ clock' \in ClockState
        /\ vtOn' \in BOOLEAN
        /\ worker' \in [thread : BOOLEAN, refresh : BOOLEAN, at : {"wait", "busy", "asleep"}]
        /\ clock'.enabled = vtOn'
        /\ vtOn' => worker'.thread
        /\ HasVtLayer(ls) => vtOn'
    BY HandleVt DEF IInv
  <1>2. TypeOK'
    BY <1>1 DEF IInv, TypeOK
  <1>3. VtClock'
    BY <1>1 DEF IInv, VtClock
  <1>4. HasVtLayer(layers)' => HasVtLayer(ls)
    BY DEF HasVtLayer
  <1>5. TunnelOn'
    BY <1>1, <1>4 DEF TunnelOn
  <1> QED BY <1>2, <1>3, <1>5 DEF IInv

LEMMA ClockKeeps ==
  ASSUME IInv, Clock
  PROVE  IInv'
  <1>a. PICK at \in {"top", "wait", "soft?", "mix?", "sleep", "hw", "rebase", "error",
                     "hwVblank", "mixVblank", "tell"} :
           \/ clock' = [clock EXCEPT !.at = at]
           \/ clock' = [clock EXCEPT !.stale = FALSE, !.rebase = FALSE, !.at = at]
    BY DEF Clock, CheckEnabled, ReadSoft, ReadMix, TakeCrtc, HwVblank, MixVblank, Sleep, Deliver,
       KeepsQuiet, Goto
  <1>b. worker' = worker \/ worker' = onVsync
    BY DEF Clock, CheckEnabled, ReadSoft, ReadMix, TakeCrtc, HwVblank, MixVblank, Sleep, Deliver,
       KeepsQuiet, ClockOnly
  <1>2. kind' = kind /\ UNCHANGED <<layers, binder, vtOn, wb>>
    BY DEF Clock, CheckEnabled, ReadSoft, ReadMix, TakeCrtc,
       HwVblank, MixVblank, Sleep, Deliver, KeepsQuiet, ClockOnly, display
  <1>s. scans' = scans /\ video' = video
    BY DEF Clock, CheckEnabled, ReadSoft, ReadMix, TakeCrtc, HwVblank, MixVblank, Sleep, Deliver,
       KeepsQuiet, ClockOnly, display
  <1>3. clock' \in ClockState /\ clock'.enabled = clock.enabled
    BY <1>a DEF IInv, TypeOK, ClockState
  <1>4. /\ worker' \in [thread : BOOLEAN, refresh : BOOLEAN, at : {"wait", "busy", "asleep"}]
        /\ worker'.thread = worker.thread
    BY <1>b, WakeTypes DEF IInv, TypeOK
  <1>1. TypeOK'
    BY <1>2, <1>s, <1>3, <1>4 DEF IInv, TypeOK
  <1> QED BY <1>1, <1>2, <1>3, <1>4, Aside DEF IInv, VtClock

LEMMA WorkerKeeps ==
  ASSUME IInv, Worker
  PROVE  IInv'
  <1>1. CASE Pick
    <2>1. /\ worker' \in [thread : BOOLEAN, refresh : BOOLEAN, at : {"wait", "busy", "asleep"}]
          /\ worker'.thread = worker.thread
          /\ UNCHANGED <<kind, clock, display>>
      BY <1>1 DEF Pick, IInv, TypeOK
    <2>2. TypeOK'
      BY <2>1 DEF IInv, TypeOK, display
    <2> QED BY <2>1, <2>2, Aside DEF IInv, VtClock, display
  <1>2. CASE Handle
    <2>1. /\ worker' = [worker EXCEPT !.at = "wait"]
          /\ UNCHANGED <<kind, scans, layers, binder, vtOn, video>>
          /\ \/ wb.mode /\ wb' = [wb EXCEPT !.mode = FALSE] /\ clock' = setEnabled(clock, FALSE)
             \/ UNCHANGED <<wb, clock>>
      BY <1>2 DEF Handle
    <2>2. /\ clock' \in ClockState
          /\ wb' \in [mode : BOOLEAN, callback : BOOLEAN, init : BOOLEAN, client : BOOLEAN]
          /\ worker' \in [thread : BOOLEAN, refresh : BOOLEAN, at : {"wait", "busy", "asleep"}]
          /\ worker'.thread = worker.thread
      <3>1. setEnabled(clock, FALSE) \in ClockState
        BY SetterTypes DEF IInv, TypeOK
      <3> QED BY <2>1, <3>1 DEF IInv, TypeOK
    <2>3. TypeOK'
      BY <2>1, <2>2 DEF IInv, TypeOK
    <2>4. kind = "vt" => clock' = clock /\ wb' = wb
      BY <2>1 DEF IInv, VtClock
    <2> QED BY <2>1, <2>2, <2>3, <2>4, Aside DEF IInv, VtClock
  <1> QED BY <1>1, <1>2 DEF Worker

LEMMA BinderKeeps ==
  ASSUME IInv, Binder
  PROVE  IInv'
  <1>1. CASE SetLayer
    <2>1. /\ binder' = [binder EXCEPT !.at = "handle"] /\ binder.at = "set"
          /\ UNCHANGED <<kind, clock, scans, vtOn, wb, video, worker>>
      BY <1>1 DEF SetLayer
    <2>2. layers' \in [Layer -> {"none", "ui", "vt"}]
      BY <1>1 DEF SetLayer, IInv, TypeOK
    <2> QED BY <2>1, <2>2 DEF IInv, TypeOK, VtClock, TunnelOn
  <1>2. CASE handleVtThread
    <2>1. /\ handleVtThreadLocked(layers) /\ binder' = [binder EXCEPT !.at = "idle"]
          /\ UNCHANGED <<kind, scans, layers, wb, video>>
      BY <1>2 DEF handleVtThread
    <2>2. binder' \in [at : {"idle", "set", "handle"}, layer : Layer]
      BY <2>1 DEF IInv, TypeOK
    <2>3. kind = "vt" /\ layers \in [Layer -> {"none", "ui", "vt"}]
      BY <1>2 DEF handleVtThread, IInv, TypeOK, VtClock
    <2> QED BY <2>1, <2>2, <2>3, SetsLayers
  <1> QED BY <1>1, <1>2 DEF Binder

\* The setters that change only the clock, the crtc or what SurfaceFlinger shows.
LEMMA ModeKeeps ==
  ASSUME IInv,
         setVsyncEnable \/ SetPeriod \/ updatePipe \/ ModeChanged \/ PlugOut \/ Set3D
         \/ adjustVsyncMode
  PROVE  IInv'
  <1>1. /\ clock' \in ClockState
        /\ kind = "vt" => clock'.enabled = clock.enabled
    <2>1. CASE setVsyncEnable
      BY <2>1, SetterTypes DEF setVsyncEnable, SetsClock, IInv, TypeOK
    <2>2. CASE SetPeriod
      BY <2>2, SetterTypes DEF SetPeriod, SetsClock, IInv, TypeOK
    <2>3. CASE updatePipe
      <3>1. PICK connected \in BOOLEAN, changed \in BOOLEAN :
               clock' = setPeriod(PipeMode(connected), changed)
        BY <2>3 DEF updatePipe, SetsClock
      <3> QED BY <3>1, ModeTypes, SetterTypes DEF IInv
    <2>4. CASE ModeChanged
      <3>1. PICK known \in BOOLEAN, changed \in BOOLEAN :
               clock' = setPeriod(IF known THEN PipeMode(TRUE) ELSE setSoftwareMode(clock), changed)
        BY <2>4 DEF ModeChanged, SetsClock
      <3>2. /\ PipeMode(TRUE) \in ClockState /\ PipeMode(TRUE).enabled = clock.enabled
            /\ setSoftwareMode(clock) \in ClockState
            /\ setSoftwareMode(clock).enabled = clock.enabled
        BY ModeTypes, SetterTypes DEF IInv, TypeOK
      <3> QED BY ZenonT(60), <3>1, <3>2, SetterTypes DEF IInv
    <2>5. CASE PlugOut
      BY <2>5, SetterTypes DEF PlugOut, SetsClock, IInv, TypeOK
    <2>6. CASE Set3D
      <3>1. PICK enable \in BOOLEAN, changed \in BOOLEAN :
               clock' = setPeriod(IF enable THEN setSoftwareMode(clock) ELSE setHwMode(clock),
                                  changed)
        BY <2>6 DEF Set3D, SetsClock
      <3>2. kind # "vt"
        BY <2>6 DEF Set3D
      <3>3. setSoftwareMode(clock) \in ClockState /\ setHwMode(clock) \in ClockState
        BY SetterTypes DEF IInv, TypeOK
      <3> QED BY <3>1, <3>2, <3>3, SetterTypes DEF IInv
    <2>7. CASE adjustVsyncMode
      <3>1. PICK present \in BOOLEAN :
               clock' = CASE present /\ ~video -> setMixMode(clock)
                          [] ~present /\ video -> DefaultClock(TRUE)
                          [] OTHER -> clock
        BY <2>7 DEF adjustVsyncMode, SetsClock
      <3> QED BY <3>1, SetterTypes DEF DefaultClock, IInv, TypeOK
    <2> QED BY <2>1, <2>2, <2>3, <2>4, <2>5, <2>6, <2>7
  <1>2. UNCHANGED <<kind, scans, layers, binder, vtOn, wb, worker>>
    BY DEF setVsyncEnable, SetPeriod, updatePipe, ModeChanged, PlugOut, Set3D, adjustVsyncMode,
           SetsClock
  <1>3. video' \in BOOLEAN
    BY DEF setVsyncEnable, SetPeriod, updatePipe, ModeChanged, PlugOut, Set3D, adjustVsyncMode,
           IInv, TypeOK
  <1>4. TypeOK'
    BY <1>1, <1>2, <1>3 DEF IInv, TypeOK
  <1> QED BY <1>1, <1>2, <1>4, Aside DEF IInv, VtClock

LEMMA ThreadKeeps ==
  ASSUME IInv, Scan \/ setWhiteBoardMode \/ createCallbackThread \/ ClientDies \/ GameFrame
  PROVE  IInv'
  <1>1. CASE Scan
    <2>1. TypeOK'
      BY <1>1 DEF Scan, IInv, TypeOK
    <2> QED BY <1>1, <2>1, Aside DEF Scan, IInv, VtClock
  <1>2. CASE setWhiteBoardMode
    <2>1. PICK mode \in BOOLEAN :
            /\ worker' = handleWBThread(mode, wb.callback)
            /\ wb' = [wb EXCEPT !.mode = mode, !.client = mode, !.init = TRUE]
            /\ clock' = setEnabled(clock, mode)
      BY <1>2 DEF setWhiteBoardMode
    <2>2. clock' \in ClockState
      BY <2>1, SetterTypes DEF IInv, TypeOK
    <2>3. TypeOK'
      BY <1>2, <2>1, <2>2 DEF setWhiteBoardMode, handleWBThread, IInv, TypeOK
    <2> QED BY <1>2, <2>3, Aside DEF setWhiteBoardMode, IInv
  <1>3. CASE createCallbackThread
    <2>1. PICK mode \in BOOLEAN :
            /\ worker' = handleWBThread(wb.mode, mode)
            /\ wb' = [wb EXCEPT !.callback = mode, !.init = TRUE]
            /\ clock' = setEnabled(clock, mode)
      BY <1>3 DEF createCallbackThread
    <2>2. clock' \in ClockState
      BY <2>1, SetterTypes DEF IInv, TypeOK
    <2>3. TypeOK'
      BY <1>3, <2>1, <2>2 DEF createCallbackThread, handleWBThread, IInv, TypeOK
    <2> QED BY <1>3, <2>3, Aside DEF createCallbackThread, IInv
  <1>4. CASE ClientDies
    <2>1. TypeOK'
      BY <1>4 DEF ClientDies, IInv, TypeOK
    <2>2. wb'.mode = wb.mode
      BY <1>4 DEF ClientDies, IInv, TypeOK
    <2> QED BY <1>4, <2>1, <2>2, Aside DEF ClientDies, IInv, VtClock
  <1>5. CASE GameFrame
    <2>1. TypeOK'
      BY ZenonT(60), <1>5, WakeTypes DEF GameFrame, display, IInv, TypeOK
    <2> QED BY <1>5, <2>1, WakeTypes, Aside DEF GameFrame, display, IInv, VtClock
  <1> QED BY <1>1, <1>2, <1>3, <1>4, <1>5

LEMMA LayerKeeps ==
  ASSUME IInv,
         createLayer \/ destroyLayer \/ cleanupBeforeDestroy \/ FindLayer \/ setLayerColor
  PROVE  IInv'
  <1>1. CASE createLayer
    <2>1. PICK l \in Layer : layers[l] = "none" /\ layers' = [layers EXCEPT ![l] = "ui"]
      BY <1>1 DEF createLayer
    <2>2. HasVtLayer(layers)' => HasVtLayer(layers)
      BY <2>1 DEF HasVtLayer, IInv, TypeOK
    <2> QED BY <1>1, <2>1, <2>2 DEF createLayer, IInv, TypeOK, VtClock, TunnelOn
  <1>2. CASE destroyLayer
    <2>1. layers' \in [Layer -> {"none", "ui", "vt"}]
      BY <1>2 DEF destroyLayer, IInv, TypeOK
    <2> QED BY <1>2, <2>1, SetsLayers DEF destroyLayer, IInv, TypeOK
  <1>3. CASE cleanupBeforeDestroy
    BY <1>3, SetsLayers DEF cleanupBeforeDestroy, IInv, TypeOK
  <1>4. CASE FindLayer
    BY <1>4 DEF FindLayer, IInv, TypeOK, VtClock, TunnelOn, HasVtLayer
  <1>5. CASE setLayerColor
    <2>1. PICK l \in Layer : layers[l] = "vt" /\ layers' = [layers EXCEPT ![l] = "ui"]
      BY <1>5 DEF setLayerColor
    <2>2. HasVtLayer(layers)' => HasVtLayer(layers)
      BY <2>1 DEF HasVtLayer, IInv, TypeOK
    <2> QED BY <1>5, <2>1, <2>2 DEF setLayerColor, IInv, TypeOK, VtClock, TunnelOn
  <1> QED BY <1>1, <1>2, <1>3, <1>4, <1>5

----------------------------------------------------------------------------
(* The theorems *)

LEMMA InitKeeps == Init => IInv
  <1> SUFFICES ASSUME Init
               PROVE  IInv
    OBVIOUS
  <1>1. binder \in [at : {"idle", "set", "handle"}, layer : Layer] /\ binder.at = "idle"
    BY DEF Init
  <1>2. clock \in ClockState
    BY DEF Init, NewClock, ClockState
  <1>3. TypeOK
    BY <1>1, <1>2 DEF Init, TypeOK
  <1>4. VtClock
    BY <1>1 DEF Init, NewClock, VtClock
  <1>5. TunnelOn
    BY DEF Init, TunnelOn, HasVtLayer
  <1> QED BY <1>3, <1>4, <1>5 DEF IInv

LEMMA NextKeeps == IInv /\ [Next]_vars => IInv'
  <1> SUFFICES ASSUME IInv, [Next]_vars
               PROVE  IInv'
    OBVIOUS
  <1>1. CASE Setters
    BY <1>1, ModeKeeps, ThreadKeeps, LayerKeeps DEF Setters
  <1>2. CASE UNCHANGED vars
    BY <1>2 DEF vars, IInv, TypeOK, VtClock, TunnelOn, HasVtLayer
  <1> QED BY <1>1, <1>2, ClockKeeps, WorkerKeeps, BinderKeeps DEF Next

LEMMA Invariance == Spec => []IInv
  BY InitKeeps, NextKeeps, PTL DEF Spec

\* Whatever the layers, the setters and the plugs: the clock, the threads and the
\* books on the layers keep their types.
THEOREM TypeCorrect == Spec => []TypeOK
  BY Invariance, PTL DEF IInv

\* For any number of layers: outside of a setLayerBuffer, a display with a tunnel
\* layer has its VtDisplayThread and the clock of the tunnels enabled
\* (handleVtThreadLocked), also when the event thread clears the layers half-way.
THEOREM TunnelsOn == Spec => []TunnelOn
  BY Invariance, PTL DEF IInv

-----------------------------------------------------------------------------
(* The configurations under RealModeMgr                                      *)

Modes == [name : DOMAIN Marks, w : Nat, h : Nat, rate : Nat, group : Nat]

(* The lists a manager can make: modes on an interval of ids.                 *)
Lists == UNION {[lo..hi -> Modes] : lo, hi \in Nat}
Manager == [modes : Lists, active : Nat, latest : Modes, callOnHotPlug : BOOLEAN,
            allm : BOOLEAN]
ManagerOK(r) == r \in Manager /\ r.active \in DOMAIN r.modes

(* A sink whose current mode is interlaced has another mode to report.        *)
ReportsMore(modes, type) ==
    \A place \in DOMAIN modes :
        Real!Scanned(modes[place]) =>
            LET listed == Real!processModeList(modes, modes[place], type)
            IN \E i \in DOMAIN listed : Real!Reported(listed[i], modes[place])

(* Of the constants: every name has its substrings; displays have modes, and  *)
(* one to report beside an interlaced one; ids go on from the largest one.    *)
RealAssumption ==
    /\ {DummyL.name, Real!FakePrevious, Real!FakeInitial.name} \subseteq DOMAIN Marks
    /\ Fb \in Nat \X Nat /\ PrimaryHotplug
    /\ \A d \in Displays : /\ d.type \in STRING /\ d.modes \in Seq(Modes)
                           /\ ReportsMore(d.modes, d.type)

(* The driver has a mode of the sink, or none.                                *)
DriverOK ==
    /\ connector \in [on : BOOLEAN, type : STRING, modes : Seq(Modes)]
    /\ ReportsMore(connector.modes, connector.type)
    /\ driver = DummyL \/ driver \in ModesOf(connector)
    /\ connector.on => driver \in ModesOf(connector)

(* No list is behind an id that SurfaceFlinger knows.                         *)
KnownOK ==
    \A id \in DOMAIN knows :
        /\ id \in Nat
        /\ \E other \in DOMAIN manager.modes : id <= other
        /\ id \in DOMAIN manager.modes =>
              knows[id] = [w |-> manager.modes[id].w, rate |-> manager.modes[id].rate]

RealInv == policy = "real" => ManagerOK(manager) /\ DriverOK /\ KnownOK

(* One list after another: its ids are the same modes, or new.                *)
Follows(r, s) ==
    /\ \A other \in DOMAIN r.modes : \E id \in DOMAIN s.modes : other <= id
    /\ \A id \in DOMAIN s.modes :
          \/ /\ id \in DOMAIN r.modes
             /\ s.modes[id].w = r.modes[id].w /\ s.modes[id].rate = r.modes[id].rate
          \/ \A other \in DOMAIN r.modes : other < id

-----------------------------------------------------------------------------
(* Lists                                                                     *)

LEMMA ListIs ==
    ASSUME NEW f \in Lists
    PROVE  \E lo, hi \in Nat : f \in [lo..hi -> Modes]
BY DEF Lists

LEMMA IsList ==
    ASSUME NEW lo \in Nat, NEW hi \in Nat, NEW f \in [lo..hi -> Modes]
    PROVE  f \in Lists
<1>. DEFINE all == {[i..j -> Modes] : i, j \in Nat}
<1>1. [lo..hi -> Modes] \in all
  OBVIOUS
<1>2. Lists = UNION all
  BY DEF Lists
<1>. HIDE DEF all
<1>. QED
  BY <1>1, <1>2

LEMMA LongList ==
    ASSUME NEW lo \in Nat, NEW n \in Nat
    PROVE  \E from, hi \in Nat : lo..(lo + n - 1) = from..hi
<1>1. CASE lo + n - 1 \in Nat
  BY <1>1
<1>2. CASE lo + n - 1 \notin Nat
  <2>1. lo..(lo + n - 1) = 1..0
    BY <1>2
  <2>. QED
    BY <2>1
<1>. QED
  BY <1>1, <1>2

LEMMA Largest ==
    ASSUME NEW lo \in Nat, NEW hi \in Nat, lo <= hi, NEW f \in [lo..hi -> Modes]
    PROVE  Real!LargestId(f) = hi
<1>1. DOMAIN f = lo..hi /\ hi \in DOMAIN f \cup {-1} /\ \A other \in DOMAIN f : other <= hi
  OBVIOUS
<1>2. \A id \in DOMAIN f \cup {-1} : (\A other \in DOMAIN f : other <= id) => id = hi
  BY <1>1
<1>. QED
  BY <1>1, <1>2 DEF Real!LargestId

(* The ids of a list that is made again are new.                              *)
LEMMA FirstIsNew ==
    ASSUME NEW r \in Manager, PrimaryHotplug
    PROVE  Real!FirstId(r) \in Nat /\ \A id \in DOMAIN r.modes : id < Real!FirstId(r)
<1>1. PICK lo, hi \in Nat : r.modes \in [lo..hi -> Modes]
  BY ListIs DEF Manager
<1>2. CASE lo <= hi
  <2>1. Real!FirstId(r) = hi + 1
    BY <1>1, <1>2, Largest DEF Real!FirstId
  <2>. QED
    BY <2>1, <1>1
<1>3. CASE ~(lo <= hi)
  <2>1. DOMAIN r.modes = {}
    BY <1>1, <1>3
  <2>2. Real!LargestId(r.modes) = -1
    BY <2>1 DEF Real!LargestId
  <2>. QED
    BY <2>1, <2>2 DEF Real!FirstId
<1>. QED
  BY <1>2, <1>3

LEMMA FollowsSelf ==
    ASSUME NEW r \in Manager
    PROVE  Follows(r, r)
<1>1. PICK lo, hi \in Nat : r.modes \in [lo..hi -> Modes]
  BY ListIs DEF Manager
<1>. QED
  BY <1>1 DEF Follows

LEMMA FollowsOn ==
    ASSUME NEW r \in Manager, NEW s \in Manager, NEW t \in Manager,
           Follows(r, s), Follows(s, t)
    PROVE  Follows(r, t)
<1>1. DOMAIN r.modes \subseteq Nat /\ DOMAIN s.modes \subseteq Nat /\ DOMAIN t.modes \subseteq Nat
  BY ListIs DEF Manager
<1>2. ASSUME NEW other \in DOMAIN r.modes
      PROVE  \E id \in DOMAIN t.modes : other <= id
  <2>1. PICK i \in DOMAIN s.modes : other <= i
    BY DEF Follows
  <2>2. PICK j \in DOMAIN t.modes : i <= j
    BY DEF Follows
  <2>. QED
    BY <1>1, <2>1, <2>2
<1>3. ASSUME NEW id \in DOMAIN t.modes, NEW other \in DOMAIN r.modes, ~(other < id)
      PROVE  /\ id \in DOMAIN r.modes
             /\ t.modes[id].w = r.modes[id].w /\ t.modes[id].rate = r.modes[id].rate
  <2>1. PICK i \in DOMAIN s.modes : other <= i
    BY DEF Follows
  <2>2. ~(i < id)
    BY <1>1, <1>3, <2>1
  <2>3. /\ id \in DOMAIN s.modes
        /\ t.modes[id].w = s.modes[id].w /\ t.modes[id].rate = s.modes[id].rate
    BY <2>2 DEF Follows
  <2>4. /\ id \in DOMAIN r.modes
        /\ s.modes[id].w = r.modes[id].w /\ s.modes[id].rate = r.modes[id].rate
    BY <1>3, <2>3 DEF Follows
  <2>. QED
    BY <2>3, <2>4
<1>. QED
  BY <1>2, <1>3 DEF Follows

LessThan == {p \in Nat \X Nat : p[1] < p[2]}

LEMMA LeastNat ==
    ASSUME NEW T, T \subseteq Nat, T # {}
    PROVE  \E s \in T : \A r \in T : s <= r
<1>1. IsWellFoundedOn(LessThan, Nat)
  BY NatLessThanWellFounded DEF OpToRel, LessThan
<1>2. PICK s \in T : \A r \in T : ~(<<r, s>> \in LessThan)
  BY <1>1, WFMin
<1>3. ASSUME NEW r \in T PROVE s <= r
  <2>1. <<r, s>> \in Nat \X Nat /\ <<r, s>>[1] = r /\ <<r, s>>[2] = s
    OBVIOUS
  <2>2. ~(r < s)
    BY <2>1, <1>2 DEF LessThan
  <2>. QED
    BY <2>2
<1>. QED
  BY <1>3

(* Modes put into the list of the manager.                                   *)
LEMMA ModesPut ==
    ASSUME NEW r \in Manager, NEW f \in Lists, NEW latest \in Modes
    PROVE  /\ [r EXCEPT !.modes = f] \in Manager
           /\ [r EXCEPT !.modes = f].modes = f
           /\ [r EXCEPT !.modes = f, !.latest = latest] \in Manager
           /\ [r EXCEPT !.modes = f, !.latest = latest].modes = f
           /\ [r EXCEPT !.latest = latest] \in Manager
           /\ [r EXCEPT !.latest = latest].modes = r.modes
BY DEF Manager

LEMMA WithPut ==
    ASSUME NEW lo \in Nat, NEW end \in Nat, lo <= end, NEW f \in [lo..(end - 1) -> Modes],
           NEW mode \in Modes
    PROVE  /\ Real!With(f, end, mode) \in [lo..end -> Modes]
           /\ \A id \in lo..(end - 1) : Real!With(f, end, mode)[id] = f[id]
           /\ Real!With(f, end, mode)[end] = mode
<1>1. DOMAIN f \cup {end} = lo..end /\ end \notin DOMAIN f
  OBVIOUS
<1>. QED
  BY <1>1 DEF Real!With

(* updateActiveConfig keeps a list that is not empty, but for a mode added.   *)
LEMMA UpdateActive ==
    ASSUME NEW r \in Manager, NEW lo \in Nat, NEW hi \in Nat, lo <= hi,
           r.modes \in [lo..hi -> Modes], NEW mode \in Modes
    PROVE  LET s == Real!updateActiveConfig(r, mode)
           IN /\ ManagerOK(s) /\ Follows(r, s)
              /\ s.modes \in [lo..hi -> Modes] \/ s.modes \in [lo..(hi + 1) -> Modes]
<1>. DEFINE found == {id \in DOMAIN r.modes : Real!SameMode(r.modes[id], mode)}
            id == IF found # {} THEN CHOOSE i \in found : \A j \in found : i <= j
                  ELSE Real!LargestId(r.modes) + 1
            list == IF found # {} THEN r.modes ELSE Real!With(r.modes, id, mode)
            s == [r EXCEPT !.active = id,
                           !.modes = IF found # {} THEN @ ELSE Real!With(@, id, mode)]
<1>1. found \subseteq lo..hi /\ found \subseteq Nat
  OBVIOUS
<1>0. Real!updateActiveConfig(r, mode) = s /\ s = [r EXCEPT !.active = id, !.modes = list]
  BY DEF Real!updateActiveConfig
<1>. HIDE DEF found
<1>2. CASE found # {}
  <2>1. \E i \in found : \A j \in found : i <= j
    BY <1>1, <1>2, LeastNat
  <2>2. id \in found
    BY <1>2, <2>1
  <2>3. id \in lo..hi /\ id \in Nat
    BY <2>2, <1>1
  <2>. HIDE DEF id
  <2>4. s \in Manager /\ s.modes = r.modes /\ s.active = id
    BY <1>0, <1>2, <2>3 DEF Manager
  <2>5. Follows(r, s)
    BY <2>4 DEF Follows
  <2>. QED
    BY <1>0, <2>3, <2>4, <2>5 DEF ManagerOK
<1>3. CASE found = {}
  <2>1. id = hi + 1 /\ id \in Nat
    BY <1>3, Largest
  <2>. HIDE DEF id
  <2>. DEFINE put == Real!With(r.modes, id, mode)
  <2>2. put \in [lo..(hi + 1) -> Modes] /\ \A i \in lo..hi : put[i] = r.modes[i]
    <3>1. (hi + 1) - 1 = hi /\ lo <= hi + 1 /\ hi + 1 \in Nat
      OBVIOUS
    <3>2. r.modes \in [lo..((hi + 1) - 1) -> Modes]
      BY <3>1
    <3>3. /\ Real!With(r.modes, hi + 1, mode) \in [lo..(hi + 1) -> Modes]
          /\ \A i \in lo..((hi + 1) - 1) : Real!With(r.modes, hi + 1, mode)[i] = r.modes[i]
      BY <3>1, <3>2, WithPut
    <3>. QED
      BY <2>1, <3>1, <3>3
  <2>. HIDE DEF put
  <2>3. put \in Lists
    BY <2>2, IsList
  <2>4. list = put
    BY <1>3 DEF put
  <2>. HIDE DEF list, s
  <2>5. s \in Manager /\ s.modes = put /\ s.active = id
    BY <1>0, <2>1, <2>3, <2>4 DEF Manager
  <2>6. Follows(r, s)
    <3>1. DOMAIN r.modes = lo..hi /\ DOMAIN s.modes = lo..(hi + 1)
      BY <2>2, <2>5
    <3>2. lo..(hi + 1) = (lo..hi) \cup {hi + 1} /\ \A other \in lo..hi : other < hi + 1
      OBVIOUS
    <3>3. \A i \in lo..hi : i <= i
      OBVIOUS
    <3>. QED
      BY <2>2, <2>5, <3>1, <3>2, <3>3 DEF Follows
  <2>. QED
    BY <1>0, <2>1, <2>2, <2>5, <2>6 DEF ManagerOK
<1>. QED
  BY <1>2, <1>3

(* dynamicMapMode renames modes: their ids, sizes and rates stay.             *)
LEMMA MapKeeps ==
    ASSUME NEW r \in Manager, NEW name, NEW modes \in Seq(Modes)
    PROVE  LET s == Real!dynamicMapMode(r, name, modes)
           IN /\ s \in Manager /\ s.modes \in [DOMAIN r.modes -> Modes] /\ Follows(r, s)
              /\ s.active = r.active
<1>. DEFINE fits(entry) ==
                {i \in DOMAIN modes : /\ modes[i].rate = entry.rate
                                     /\ <<modes[i].w, modes[i].h>> = Real!TrueSize(entry)
                                     /\ Real!Has(modes[i], Real!ScanOf(name))}
            first(entry) == modes[CHOOSE i \in fits(entry) : \A j \in fits(entry) : i <= j]
            renamed(entry) == IF fits(entry) = {} THEN entry
                              ELSE [entry EXCEPT !.name = first(entry).name,
                                                 !.group = first(entry).group]
            f == [id \in DOMAIN r.modes |-> renamed(r.modes[id])]
            s == [r EXCEPT !.modes = f]
<1>1. Real!dynamicMapMode(r, name, modes) = s
  BY DEF Real!dynamicMapMode
<1>2. ASSUME NEW entry \in Modes
      PROVE  /\ renamed(entry) \in Modes
             /\ renamed(entry).w = entry.w /\ renamed(entry).rate = entry.rate
  <2>1. fits(entry) \subseteq DOMAIN modes /\ DOMAIN modes \subseteq Nat
    OBVIOUS
  <2>. HIDE DEF fits
  <2>2. CASE fits(entry) = {}
    BY <2>2
  <2>3. CASE fits(entry) # {}
    <3>1. \E i \in fits(entry) : \A j \in fits(entry) : i <= j
      BY <2>1, <2>3, LeastNat
    <3>2. first(entry) \in Modes
      BY <2>1, <3>1
    <3>3. renamed(entry) = [entry EXCEPT !.name = first(entry).name,
                                         !.group = first(entry).group]
      BY <2>3
    <3>. HIDE DEF first, renamed
    <3>. QED
      BY <3>2, <3>3 DEF Modes
  <2>. QED
    BY <2>2, <2>3
<1>. HIDE DEF renamed
<1>0. PICK lo, hi \in Nat : r.modes \in [lo..hi -> Modes]
  BY ListIs DEF Manager
<1>3. /\ f \in [lo..hi -> Modes]
      /\ \A id \in lo..hi : f[id].w = r.modes[id].w /\ f[id].rate = r.modes[id].rate
  BY <1>0, <1>2
<1>. HIDE DEF f
<1>4. f \in Lists
  BY <1>3, IsList
<1>5. s \in Manager /\ s.modes = f /\ s.active = r.active
  BY <1>4 DEF Manager
<1>6. Follows(r, s)
  <2>1. \A i \in lo..hi : i <= i
    OBVIOUS
  <2>. QED
    BY <1>0, <1>3, <1>5, <2>1 DEF Follows
<1>. QED
  BY <1>0, <1>1, <1>3, <1>5, <1>6

(* setActiveConfig sets a mode of the list.                                   *)
LEMMA SetActiveKeeps ==
    ASSUME NEW r, ManagerOK(r), NEW config
    PROVE  LET s == Real!setActiveReal(r, config) IN ManagerOK(s) /\ Follows(r, s)
<1>1. PICK lo, hi \in Nat : r.modes \in [lo..hi -> Modes]
  BY ListIs DEF ManagerOK, Manager
<1>2. r \in Manager /\ lo <= hi
  BY <1>1 DEF ManagerOK
<1>3. CASE config \notin DOMAIN r.modes \/ r.modes[config].name = Real!FakeInitial.name
  BY <1>2, <1>3, FollowsSelf DEF Real!setActiveReal
<1>4. CASE ~(config \notin DOMAIN r.modes \/ r.modes[config].name = Real!FakeInitial.name)
  <2>. DEFINE mode == r.modes[config]
              before == [r EXCEPT !.latest = mode]
              set == Real!updateActiveConfig(before, mode)
  <2>1. mode \in Modes
    BY <1>1, <1>4
  <2>2. before \in Manager /\ before.modes = r.modes
    BY <1>2, <2>1 DEF Manager
  <2>. HIDE DEF before
  <2>3. ManagerOK(set) /\ Follows(before, set)
    BY <1>1, <1>2, <2>1, <2>2, UpdateActive
  <2>. HIDE DEF set
  <2>4. Follows(r, set)
    BY <2>2, <2>3 DEF Follows
  <2>. DEFINE off == [set EXCEPT !.callOnHotPlug = FALSE]
  <2>5. ManagerOK(off) /\ off.modes = set.modes
    BY <2>3 DEF ManagerOK, Manager
  <2>6. Follows(r, off)
    BY <2>4, <2>5 DEF Follows
  <2>7. Real!setActiveReal(r, config) \in {set, off}
    BY <1>4 DEF Real!setActiveReal, Real!setModeLocked, set, before
  <2>. QED
    BY <2>3, <2>4, <2>5, <2>6, <2>7
<1>. QED
  BY <1>3, <1>4

-----------------------------------------------------------------------------
(* RealModeMgr::update                                                       *)

(* The places of a list, counted from the first: each rank is some place's.   *)
LEMMA RankHit ==
    ASSUME NEW kept, kept \subseteq Nat, IsFiniteSet(kept), NEW k \in Nat, k < Cardinality(kept)
    PROVE  \E i \in kept : Cardinality({j \in kept : j < i}) = k
<1>. DEFINE n == Cardinality(kept)
            below(i) == {j \in kept : j < i}
            rank == [i \in kept |-> Cardinality(below(i))]
<1>1. n \in Nat
  BY FS_CardinalityType
<1>2. ASSUME NEW i \in kept
      PROVE  IsFiniteSet(below(i)) /\ Cardinality(below(i)) \in 0..(n - 1)
  <2>1. below(i) \in SUBSET kept /\ i \notin below(i)
    BY <1>1
  <2>2. /\ IsFiniteSet(below(i)) /\ Cardinality(below(i)) <= n
        /\ Cardinality(below(i)) # n
    BY <2>1, FS_Subset
  <2>. HIDE DEF below, n
  <2>. QED
    BY <2>2, <1>1, FS_CardinalityType
<1>3. ASSUME NEW i \in kept, NEW j \in kept, i < j
      PROVE  Cardinality(below(i)) # Cardinality(below(j))
  <2>1. i \in Nat /\ j \in Nat /\ \A x \in Nat : x < i => x < j
    BY <1>3
  <2>2. below(i) \in SUBSET below(j) /\ i \in below(j) /\ i \notin below(i)
    <3>1. \A x \in below(i) : x \in kept /\ x < j
      BY <2>1
    <3>2. i \notin below(i)
      BY <2>1
    <3>. QED
      BY <1>3, <3>1, <3>2
  <2>. HIDE DEF below
  <2>. QED
    BY <2>2, <1>2, FS_Subset
<1>. SUFFICES ASSUME \A i \in kept : rank[i] # k
              PROVE  FALSE
  OBVIOUS
<1>. DEFINE T == 0..(n - 1) \ {k}
<1>4. IsFiniteSet(T) /\ Cardinality(T) < n
  <2>. HIDE DEF n
  <2>1. IsFiniteSet(0..(n - 1)) /\ Cardinality(0..(n - 1)) = n
    <3>1. n - 1 \in Int /\ 0 \in Int /\ (IF 0 > n - 1 THEN 0 ELSE (n - 1) - 0 + 1) = n
      BY <1>1
    <3>. QED
      BY <3>1, FS_Interval
  <2>2. IsFiniteSet(T) /\ Cardinality(T) = n - 1
    <3>1. k \in 0..(n - 1)
      BY <1>1 DEF n
    <3>. QED
      BY <2>1, <3>1, FS_RemoveElement
  <2>. QED
    BY <2>2, <1>1
<1>. HIDE DEF below
<1>5. rank \in [kept -> T]
  BY <1>2
<1>. HIDE DEF rank, T
<1>6. PICK x, y \in kept : x # y /\ rank[x] = rank[y]
  BY <1>4, <1>5, FS_PigeonHole DEF n
<1>7. x < y \/ y < x
  BY <1>6
<1>. QED
  BY <1>3, <1>6, <1>7 DEF rank

LEMMA SameCardinality ==
    ASSUME NEW S
    PROVE  Real!Cardinality(S) = Cardinality(S)
BY DEF Real!Cardinality, Cardinality

LEMMA NthIn ==
    ASSUME NEW kept, kept \subseteq Nat, IsFiniteSet(kept), NEW k \in Nat, k < Cardinality(kept)
    PROVE  Real!Nth(kept, k) \in kept
<1>. DEFINE is(i) == Real!Cardinality({j \in kept : j < i}) = k
<1>1. \E i \in kept : is(i)
  BY RankHit, SameCardinality
<1>2. Real!Nth(kept, k) = CHOOSE i \in kept : is(i)
  BY DEF Real!Nth
<1>. HIDE DEF is
<1>. QED
  BY <1>1, <1>2

LEMMA NumberedIs ==
    ASSUME NEW first \in Nat, NEW list, NEW kept, kept \subseteq Nat, IsFiniteSet(kept),
           \A i \in kept : list[i] \in Modes
    PROVE  /\ Cardinality(kept) \in Nat
           /\ Real!Numbered(first, list, kept)
                 \in [first..(first + Cardinality(kept) - 1) -> Modes]
<1>. DEFINE n == Cardinality(kept)
<1>1. n \in Nat
  BY FS_CardinalityType
<1>2. ASSUME NEW id \in first..(first + n - 1)
      PROVE  list[Real!Nth(kept, id - first)] \in Modes
  <2>1. id - first \in Nat /\ id - first < n
    BY <1>1
  <2>2. Real!Nth(kept, id - first) \in kept
    BY <2>1, NthIn
  <2>. QED
    BY <2>2
<1>3. Real!Numbered(first, list, kept)
        = [id \in first..(first + n - 1) |-> list[Real!Nth(kept, id - first)]]
  BY SameCardinality DEF Real!Numbered
<1>. QED
  BY <1>1, <1>2, <1>3

(* processModeList keeps places of the list, and maps sizes.                  *)
LEMMA ShownModes ==
    ASSUME Fb \in Nat \X Nat, NEW modes \in Seq(Modes), NEW real, NEW type
    PROVE  LET listed == Real!processModeList(modes, real, type)
           IN /\ DOMAIN listed \subseteq DOMAIN modes
              /\ \A i \in DOMAIN listed : listed[i] \in Modes
<1>. DEFINE listed == Real!processModeList(modes, real, type)
<1>1. ASSUME NEW mode \in Modes
      PROVE  Real!mapToFakeSizeMode(mode, type) \in Modes
  <2>. DEFINE size == CASE type = "tv" -> <<1280, 720>>
                        [] type # "tv" /\ Real!isDlgMode(mode) -> <<3840, 2160>>
                        [] OTHER -> Fb
  <2>0. <<1280, 720>> \in Nat \X Nat /\ <<3840, 2160>> \in Nat \X Nat
    OBVIOUS
  <2>. HIDE DEF size
  <2>1. size[1] \in Nat /\ size[2] \in Nat
    <3>1. size \in {<<1280, 720>>, <<3840, 2160>>, Fb}
      <4>1. CASE type = "tv"
        BY <4>1 DEF size
      <4>2. CASE type # "tv" /\ Real!isDlgMode(mode)
        BY <4>2 DEF size
      <4>3. CASE type # "tv" /\ ~Real!isDlgMode(mode)
        BY <4>3 DEF size
      <4>. QED
        BY <4>1, <4>2, <4>3
    <3>. QED
      BY <2>0, <3>1
  <2>2. Real!mapToFakeSizeMode(mode, type) = [mode EXCEPT !.w = size[1], !.h = size[2]]
    BY DEF Real!mapToFakeSizeMode, size
  <2>. QED
    BY <2>1, <2>2 DEF Modes
<1>. QED
  BY <1>1 DEF Real!processModeList

(* Another sink, or none: the list is made again with new ids, at least one.  *)
LEMMA UpdateKeeps ==
    ASSUME RealAssumption, NEW r \in Manager, NEW con, NEW real \in Modes,
           con \in [on : BOOLEAN, type : STRING, modes : Seq(Modes)],
           ReportsMore(con.modes, con.type),
           con.on => \E i \in DOMAIN con.modes : con.modes[i] = real
    PROVE  LET s == Real!updateReal(r, con, real)
           IN (r.callOnHotPlug \/ ManagerOK(r)) => (ManagerOK(s) /\ Follows(r, s))
<1>. DEFINE shownList == Real!processModeList(con.modes, real, con.type)
            reported == IF ~con.on \/ real.name = "dummy_l" THEN {}
                        ELSE {i \in DOMAIN shownList : Real!Reported(shownList[i], real)}
            alone == con.on /\ r.allm
            current == con.on /\ (r.allm \/ \E i \in DOMAIN shownList :
                                                /\ shownList[i].name = real.name
                                                /\ real.name # "dummy_l")
            sized == IF r.allm \/ ~\E i \in DOMAIN shownList : Real!SameMode(shownList[i], real)
                     THEN real
                     ELSE shownList[CHOOSE i \in DOMAIN shownList :
                                        Real!SameMode(shownList[i], real)]
            latest == IF current THEN sized ELSE [r.latest EXCEPT !.name = Real!FakePrevious]
            first == Real!FirstId(r)
            list == IF alone THEN [id \in {first} |-> real]
                    ELSE Real!Numbered(first, shownList, reported)
            made == [r EXCEPT !.modes = list, !.latest = latest]
            named == IF con.on /\ ~r.allm /\ Real!Scanned(real)
                     THEN Real!dynamicMapMode(made, real.name, con.modes) ELSE made
            next == first + Real!Cardinality(reported)
            base == IF current THEN named
                    ELSE [named EXCEPT !.modes = Real!With(@, next, latest)]
            s == Real!updateActiveConfig(base, latest)
<1>1. Real!updateReal(r, con, real) = IF ~r.callOnHotPlug THEN r ELSE s
  BY Zenon DEF Real!updateReal
<1>2. first \in Nat /\ \A id \in DOMAIN r.modes : id < first
  BY FirstIsNew DEF RealAssumption
<1>3. /\ DOMAIN shownList \subseteq DOMAIN con.modes
      /\ \A i \in DOMAIN shownList : shownList[i] \in Modes
  BY ShownModes DEF RealAssumption
<1>4. con.modes \in Seq(Modes) /\ con.on \in BOOLEAN
  OBVIOUS
<1>. HIDE DEF shownList, first
<1>5. reported \subseteq DOMAIN shownList
  OBVIOUS
<1>6. reported \subseteq Nat /\ IsFiniteSet(reported) /\ \A i \in reported : shownList[i] \in Modes
  <2>1. DOMAIN con.modes = 1..Len(con.modes) /\ Len(con.modes) \in Nat
    BY <1>4
  <2>2. IsFiniteSet(1..Len(con.modes))
    BY <2>1, FS_Interval
  <2>3. reported \in SUBSET (1..Len(con.modes)) /\ 1..Len(con.modes) \subseteq Nat
    BY <1>3, <1>5, <2>1
  <2>. HIDE DEF reported
  <2>. QED
    BY <1>3, <1>5, <2>2, <2>3, FS_Subset
<1>7. current /\ ~alone => reported # {}
  <2>1. CASE ~Real!Scanned(real)
    BY <2>1 DEF Real!Reported
  <2>2. CASE Real!Scanned(real)
    <3>. SUFFICES ASSUME current, ~alone
                  PROVE  reported # {}
      OBVIOUS
    <3>1. con.on /\ real.name # "dummy_l"
      OBVIOUS
    <3>2. PICK place \in DOMAIN con.modes : con.modes[place] = real
      BY <3>1
    <3>3. \E i \in DOMAIN shownList : Real!Reported(shownList[i], real)
      BY <2>2, <3>2 DEF ReportsMore, shownList
    <3>. QED
      BY <3>1, <3>3
  <2>. QED
    BY <2>1, <2>2
<1>8. latest \in Modes
  <2>1. r.latest \in Modes
    BY DEF Manager
  <2>2. [r.latest EXCEPT !.name = Real!FakePrevious] \in Modes
    <3>1. Real!FakePrevious \in DOMAIN Marks
      BY DEF RealAssumption
    <3>2. \A text \in DOMAIN Marks : \A m \in Modes : [m EXCEPT !.name = text] \in Modes
      BY DEF Modes
    <3>. QED
      BY <2>1, <3>1, <3>2
  <2>3. sized \in Modes
    BY <1>3
  <2>. HIDE DEF sized, current
  <2>. QED
    BY <2>2, <2>3
<1>9. r.allm \in BOOLEAN /\ (alone => current)
  BY DEF Manager
<1>. DEFINE n == IF alone THEN 1 ELSE Cardinality(reported)
<1>10. Cardinality(reported) \in Nat /\ next = first + Cardinality(reported)
       /\ (reported # {} => Cardinality(reported) >= 1)
  <2>1. Cardinality(reported) \in Nat /\ (Cardinality(reported) = 0 <=> reported = {})
    BY <1>6, FS_CardinalityType, FS_EmptySet
  <2>. QED
    BY <2>1, SameCardinality
<1>11. n \in Nat /\ list \in [first..(first + n - 1) -> Modes] /\ (current => n >= 1)
       /\ (~current => next = first + n)
  <2>1. CASE alone
    <3>1. first..(first + 1 - 1) = {first}
      BY <1>2
    <3>2. n = 1 /\ list = [id \in {first} |-> real]
      BY <2>1
    <3>. HIDE DEF alone, n, list, current
    <3>. QED
      BY <1>9, <2>1, <3>1, <3>2
  <2>2. CASE ~alone
    <3>1. n = Cardinality(reported) /\ list = Real!Numbered(first, shownList, reported)
      BY <2>2
    <3>. HIDE DEF alone, n, list, current, reported, next
    <3>. QED
      BY <1>2, <1>6, <1>7, <1>10, <2>2, <3>1, NumberedIs
  <2>. QED
    BY <2>1, <2>2
<1>. HIDE DEF alone, n, list, current, reported, next, latest, sized
<1>12. list \in Lists
  <2>1. PICK from, end \in Nat : first..(first + n - 1) = from..end
    BY <1>2, <1>11, LongList
  <2>2. list \in [from..end -> Modes]
    BY <1>11, <2>1
  <2>. QED
    BY <2>2, IsList
<1>13. made \in Manager /\ made.modes = list
  BY <1>8, <1>12 DEF Manager
<1>. HIDE DEF made
<1>14. named \in Manager /\ named.modes \in [first..(first + n - 1) -> Modes]
  <2>1. CASE con.on /\ ~r.allm /\ Real!Scanned(real)
    <3>1. named = Real!dynamicMapMode(made, real.name, con.modes)
      BY <2>1
    <3>. QED
      BY <1>4, <1>11, <1>13, <3>1, MapKeeps
  <2>2. CASE ~(con.on /\ ~r.allm /\ Real!Scanned(real))
    BY <1>11, <1>13, <2>2
  <2>. QED
    BY <2>1, <2>2
<1>. HIDE DEF named
(* With the previous mode, or not: there is a mode.                           *)
<1>15. \E end \in Nat : first <= end /\ base \in Manager /\ base.modes \in [first..end -> Modes]
  <2>1. CASE current
    <3>1. base = named /\ n >= 1
      BY <1>11, <2>1
    <3>2. first + n - 1 \in Nat /\ first <= first + n - 1
      BY <1>2, <1>11, <3>1
    <3>. QED
      BY <1>14, <3>1, <3>2
  <2>2. CASE ~current
    <3>. DEFINE put == Real!With(named.modes, next, latest)
    <3>1. base = [named EXCEPT !.modes = put] /\ next = first + n
      BY <1>11, <2>2
    <3>2. next \in Nat /\ first <= next /\ next - 1 = first + n - 1
      BY <1>2, <1>11, <3>1
    <3>3. put \in [first..next -> Modes]
      BY <1>2, <1>8, <1>14, <3>2, WithPut
    <3>. HIDE DEF put, base
    <3>4. put \in Lists
      BY <1>2, <3>2, <3>3, IsList
    <3>5. base \in Manager /\ base.modes = put
      BY <1>14, <3>1, <3>4 DEF Manager
    <3>. QED
      BY <3>2, <3>3, <3>5
  <2>. QED
    BY <2>1, <2>2
<1>. HIDE DEF base
<1>16. PICK end \in Nat : first <= end /\ base \in Manager /\ base.modes \in [first..end -> Modes]
  BY <1>15
<1>17. /\ ManagerOK(s)
       /\ s.modes \in [first..end -> Modes] \/ s.modes \in [first..(end + 1) -> Modes]
  BY <1>2, <1>8, <1>16, UpdateActive
<1>. HIDE DEF s
<1>18. Follows(r, s)
  <2>1. DOMAIN r.modes \subseteq Nat
    BY ListIs DEF Manager
  <2>2. first \in DOMAIN s.modes /\ \A id \in DOMAIN s.modes : id \in Nat /\ first <= id
    BY <1>2, <1>16, <1>17
  <2>3. \A other \in DOMAIN r.modes : other <= first
    BY <1>2, <2>1
  <2>4. \A id \in DOMAIN s.modes : \A other \in DOMAIN r.modes : other < id
    BY <1>2, <2>1, <2>2
  <2>. QED
    BY <2>2, <2>3, <2>4 DEF Follows
<1>19. CASE r.callOnHotPlug
  BY <1>1, <1>17, <1>18, <1>19
<1>20. CASE ~r.callOnHotPlug
  BY <1>1, <1>20, FollowsSelf
<1>. QED
  BY <1>19, <1>20

-----------------------------------------------------------------------------
(* The steps                                                                 *)

LEMMA DummyIsMode ==
    ASSUME RealAssumption
    PROVE  DummyL \in Modes
BY DEF RealAssumption, Modes, DummyL

LEMMA NewIsManager ==
    ASSUME RealAssumption
    PROVE  Real!NewReal \in Manager /\ Real!NewReal.callOnHotPlug
<1>1. Real!FakeInitial \in Modes
  BY DEF RealAssumption, Modes, Real!FakeInitial
<1>2. [id \in {} |-> Real!FakeInitial] \in [1..0 -> Modes]
  OBVIOUS
<1>3. [id \in {} |-> Real!FakeInitial] \in Lists
  BY <1>2, IsList
<1>. HIDE DEF Lists, Real!FakeInitial
<1>. QED
  BY <1>1, <1>3 DEF Real!NewReal, Manager

LEMMA DriverIsMode ==
    ASSUME RealAssumption, DriverOK
    PROVE  /\ driver \in Modes
           /\ connector.on => \E i \in DOMAIN connector.modes : connector.modes[i] = driver
<1>1. connector.modes \in Seq(Modes)
  BY DEF DriverOK
<1>2. driver \in ModesOf(connector) =>
          \E i \in DOMAIN connector.modes : connector.modes[i] = driver
  BY DEF ModesOf
<1>3. ModesOf(connector) \subseteq Modes
  BY <1>1 DEF ModesOf
<1>. QED
  BY <1>2, <1>3, DummyIsMode DEF DriverOK

(* What is known stays known of a list that follows.                          *)
LEMMA KnownFollows ==
    ASSUME ManagerOK(manager), KnownOK, knows' = knows, Follows(manager, manager'),
           ManagerOK(manager')
    PROVE  KnownOK'
<1>1. DOMAIN manager.modes \subseteq Nat /\ DOMAIN manager'.modes \subseteq Nat
  BY ListIs DEF ManagerOK, Manager
<1>. SUFFICES ASSUME NEW id \in DOMAIN knows
              PROVE  /\ id \in Nat
                     /\ \E other \in DOMAIN manager'.modes : id <= other
                     /\ id \in DOMAIN manager'.modes =>
                           knows[id] = [w |-> manager'.modes[id].w,
                                        rate |-> manager'.modes[id].rate]
  BY DEF KnownOK
<1>2. id \in Nat
  BY DEF KnownOK
<1>3. PICK other \in DOMAIN manager.modes : id <= other
  BY DEF KnownOK
<1>4. PICK last \in DOMAIN manager'.modes : other <= last
  BY DEF Follows
<1>5. ASSUME id \in DOMAIN manager'.modes
      PROVE  knows[id] = [w |-> manager'.modes[id].w, rate |-> manager'.modes[id].rate]
  <2>1. ~(other < id)
    BY <1>1, <1>2, <1>3
  <2>2. /\ id \in DOMAIN manager.modes
        /\ manager'.modes[id].w = manager.modes[id].w
        /\ manager'.modes[id].rate = manager.modes[id].rate
    BY <1>5, <2>1 DEF Follows
  <2>. QED
    BY <2>2 DEF KnownOK
<1>. QED
  BY <1>1, <1>2, <1>3, <1>4, <1>5

(* A mode the driver takes is one of the connector's.                         *)
LEMMA SetsDriver ==
    ASSUME NEW mode, NEW seamless, Sets(mode, seamless), DriverOK, connector' = connector
    PROVE  DriverOK'
BY DEF Sets, Taken, DriverOK, ModesOf

(* The event thread.                                                          *)
LEMMA PlugKeeps ==
    ASSUME RealAssumption, RealInv, policy = "real",
           HotplugOut \/ HotplugIn \/ setDisplayMode
    PROVE  RealInv'
<1>1. manager' = manager /\ knows' = knows
  BY DEF HotplugOut, HotplugIn, setDisplayMode
<1>2. ManagerOK(manager') /\ KnownOK'
  BY <1>1 DEF RealInv, ManagerOK, KnownOK
<1>3. CASE HotplugOut
  <2>1. /\ connector' = [connector EXCEPT !.on = FALSE] /\ driver' = DummyL
        /\ connector \in [on : BOOLEAN, type : STRING, modes : Seq(Modes)]
        /\ ReportsMore(connector.modes, connector.type)
    BY <1>3 DEF HotplugOut, RealInv, DriverOK
  <2>2. /\ connector' \in [on : BOOLEAN, type : STRING, modes : Seq(Modes)]
        /\ connector'.modes = connector.modes /\ connector'.type = connector.type
        /\ connector'.on = FALSE
    BY <2>1
  <2>. QED
    BY <1>2, <2>1, <2>2 DEF RealInv, DriverOK, DummyL
<1>4. CASE HotplugIn
  <2>1. PICK d \in Displays : /\ connector' = [on |-> TRUE, type |-> d.type, modes |-> d.modes]
                              /\ driver' \in ModesOf(d)
    BY <1>4 DEF HotplugIn
  <2>2. /\ connector'.modes = d.modes /\ connector'.type = d.type
        /\ connector' \in [on : BOOLEAN, type : STRING, modes : Seq(Modes)]
        /\ ReportsMore(d.modes, d.type)
    BY <2>1 DEF RealAssumption
  <2>3. driver' \in ModesOf(connector')
    BY <2>1, <2>2 DEF ModesOf
  <2>. QED
    BY <1>2, <2>2, <2>3 DEF RealInv, DriverOK, ModesOf
<1>5. CASE setDisplayMode
  BY <1>2, <1>5 DEF setDisplayMode, RealInv, DriverOK, ModesOf
<1>. QED
  BY <1>3, <1>4, <1>5

LEMMA UpdateStep ==
    ASSUME RealAssumption, RealInv, policy = "real",
           manager' = updateManager(manager, connector, driver), UNCHANGED <<policy, connector, driver, knows>>
    PROVE  RealInv'
<1>1. /\ manager \in Manager /\ ManagerOK(manager) /\ driver \in Modes
      /\ connector \in [on : BOOLEAN, type : STRING, modes : Seq(Modes)]
      /\ ReportsMore(connector.modes, connector.type)
      /\ connector.on => \E i \in DOMAIN connector.modes : connector.modes[i] = driver
  BY DriverIsMode DEF RealInv, ManagerOK, DriverOK
<1>2. manager' = Real!updateReal(manager, connector, driver)
  BY DEF updateManager
<1>3. ManagerOK(manager') /\ Follows(manager, manager')
  BY <1>1, <1>2, UpdateKeeps
<1>4. KnownOK'
  BY <1>1, <1>3, KnownFollows DEF RealInv
<1>. QED
  BY <1>3, <1>4 DEF RealInv, DriverOK, ModesOf

LEMMA EventKeeps ==
    ASSUME RealAssumption, RealInv, policy = "real",
           OutList \/ OutTell \/ UpdateList \/ TellChange \/ ModePeriod
    PROVE  RealInv'
<1>1. CASE OutList \/ UpdateList
  BY <1>1, UpdateStep DEF OutList, UpdateList
<1>2. CASE OutTell \/ ModePeriod
  BY <1>2 DEF OutTell, ModePeriod, RealInv, ManagerOK, DriverOK, KnownOK, ModesOf
<1>3. CASE TellChange
  <2>1. manager' = manager \/ manager' = [manager EXCEPT !.callOnHotPlug = TRUE]
    BY <1>3 DEF TellChange
  <2>2. ManagerOK(manager') /\ manager'.modes = manager.modes
    BY <2>1 DEF RealInv, ManagerOK, Manager
  <2>3. UNCHANGED <<policy, connector, driver, knows>>
    BY <1>3 DEF TellChange
  <2>. QED
    BY <2>2, <2>3 DEF RealInv, DriverOK, KnownOK, ModesOf
<1>. QED
  BY <1>1, <1>2, <1>3

(* SurfaceFlinger.                                                            *)
LEMMA ReadKeeps ==
    ASSUME RealInv, policy = "real",
           CountConfigs \/ FillConfigs \/ getDisplayAttribute \/ setActiveConfig
           \/ getDisplayVsyncPeriod
    PROVE  RealInv'
<1>1. UNCHANGED <<policy, manager, connector, driver>>
  BY DEF CountConfigs, FillConfigs, getDisplayAttribute, setActiveConfig,
         getDisplayVsyncPeriod, FilledBy
<1>2. CASE getDisplayAttribute
  <2>1. knows' = [id \in reading.ids \cap DOMAIN manager.modes |->
                     [w |-> manager.modes[id].w, rate |-> manager.modes[id].rate]]
    BY <1>2 DEF getDisplayAttribute, Attributes, Counted, Width, Rate
  <2>2. DOMAIN manager.modes \subseteq Nat /\ \A id \in DOMAIN manager.modes : id <= id
    BY ListIs DEF RealInv, ManagerOK, Manager
  <2>3. KnownOK'
    BY <1>1, <2>1, <2>2 DEF KnownOK
  <2>. QED
    BY <1>1, <2>3 DEF RealInv, ManagerOK, DriverOK, ModesOf
<1>3. CASE ~getDisplayAttribute
  <2>1. UNCHANGED knows
    BY <1>3 DEF CountConfigs, FillConfigs, setActiveConfig, getDisplayVsyncPeriod
  <2>. QED
    BY <1>1, <2>1 DEF RealInv, ManagerOK, DriverOK, KnownOK, ModesOf
<1>. QED
  BY <1>2, <1>3

LEMMA SetKeeps ==
    ASSUME RealInv, policy = "real", SetConfig
    PROVE  RealInv'
<1>1. manager' = Real!setActiveReal(manager, ask.config)
  BY DEF SetConfig, SetByManager
<1>2. UNCHANGED <<policy, connector, knows>>
  BY DEF SetConfig
<1>3. \/ UNCHANGED driver
      \/ Sets(manager.modes[ask.config], isSeamlessTo(ask.config))
  BY DEF SetConfig, SetByManager
<1>4. DriverOK'
  <2>1. CASE UNCHANGED driver
    BY <1>2, <2>1 DEF RealInv, DriverOK, ModesOf
  <2>2. CASE Sets(manager.modes[ask.config], isSeamlessTo(ask.config))
    BY <1>2, <2>2, SetsDriver DEF RealInv
  <2>. QED
    BY <1>3, <2>1, <2>2
<1>5. ManagerOK(manager') /\ Follows(manager, manager')
  BY <1>1, SetActiveKeeps DEF RealInv
<1>6. KnownOK'
  BY <1>2, <1>5, KnownFollows DEF RealInv
<1>. QED
  BY <1>4, <1>5, <1>6 DEF RealInv

(* The display service.                                                       *)
LEMMA PreferKeeps ==
    ASSUME RealInv, policy = "real", setPerferredMode
    PROVE  RealInv'
<1>1. PICK mode \in ModesOf(connector) :
        LET result == Real!setPerferredMode(manager, mode.name, connector, driver)
            mapped == result.mgr
        IN IF result.again /\ mapped.active \in DOMAIN mapped.modes
           THEN /\ manager' = Real!setActiveReal(mapped, mapped.active)
                /\ Sets(mapped.modes[mapped.active], Real!seamlessReal(mapped, mapped.active))
           ELSE manager' = mapped /\ UNCHANGED <<driver, queue>>
  BY DEF setPerferredMode
<1>. DEFINE mapped == Real!dynamicMapMode(manager, mode.name, connector.modes)
<1>2. Real!setPerferredMode(manager, mode.name, connector, driver).mgr = mapped
  BY DEF Real!setPerferredMode
<1>. HIDE DEF mapped
<1>3. \/ /\ manager' = Real!setActiveReal(mapped, mapped.active)
         /\ Sets(mapped.modes[mapped.active], Real!seamlessReal(mapped, mapped.active))
      \/ manager' = mapped /\ UNCHANGED driver
  BY <1>1, <1>2
<1>4. UNCHANGED <<policy, connector, knows>>
  BY DEF setPerferredMode
<1>5. manager \in Manager /\ ManagerOK(manager) /\ DriverOK /\ KnownOK
      /\ connector.modes \in Seq(Modes)
  BY DEF RealInv, ManagerOK, DriverOK
<1>6. mapped \in Manager /\ ManagerOK(mapped) /\ Follows(manager, mapped)
  BY <1>5, MapKeeps DEF mapped, ManagerOK
<1>7. ManagerOK(manager') /\ Follows(manager, manager')
  <2>1. CASE manager' = mapped
    BY <1>6, <2>1
  <2>2. CASE manager' = Real!setActiveReal(mapped, mapped.active)
    <3>1. ManagerOK(manager') /\ Follows(mapped, manager')
      BY <1>6, <2>2, SetActiveKeeps
    <3>2. manager' \in Manager
      BY <3>1 DEF ManagerOK
    <3>. QED
      BY <1>5, <1>6, <3>1, <3>2, FollowsOn
  <2>. QED
    BY <1>3, <2>1, <2>2
<1>8. DriverOK'
  <2>1. CASE UNCHANGED driver
    BY <1>4, <1>5, <2>1 DEF DriverOK, ModesOf
  <2>2. CASE Sets(mapped.modes[mapped.active], Real!seamlessReal(mapped, mapped.active))
    BY <1>4, <1>5, <2>2, SetsDriver
  <2>. QED
    BY <1>3, <2>1, <2>2
<1>9. KnownOK'
  BY <1>4, <1>5, <1>7, KnownFollows
<1>. QED
  BY <1>7, <1>8, <1>9 DEF RealInv

-----------------------------------------------------------------------------
(* The theorems                                                              *)

LEMMA RealInit ==
    ASSUME RealAssumption, ConfigsInit
    PROVE  RealInv
<1>. SUFFICES ASSUME policy = "real"
              PROVE  ManagerOK(manager) /\ DriverOK /\ KnownOK
  BY DEF RealInv
<1>1. PICK d \in Displays :
        /\ connector = [on |-> TRUE, type |-> d.type, modes |-> d.modes]
        /\ driver \in ModesOf(d)
  BY DEF ConfigsInit
<1>2. DriverOK
  BY <1>1 DEF DriverOK, ModesOf, RealAssumption
<1>3. manager = Real!updateReal(Real!NewReal, connector, driver)
  BY DEF ConfigsInit, updateManager, createModeMgr
<1>4. ManagerOK(manager)
  <2>1. /\ driver \in Modes
        /\ connector \in [on : BOOLEAN, type : STRING, modes : Seq(Modes)]
        /\ ReportsMore(connector.modes, connector.type)
        /\ connector.on => \E i \in DOMAIN connector.modes : connector.modes[i] = driver
    BY <1>2, DriverIsMode DEF DriverOK
  <2>. QED
    BY <1>3, <2>1, NewIsManager, UpdateKeeps
<1>5. KnownOK
  BY DEF ConfigsInit, KnownOK
<1>. QED
  BY <1>2, <1>4, <1>5

LEMMA RealNext ==
    ASSUME RealAssumption, RealInv, [ConfigsNext]_configVars
    PROVE  RealInv'
<1>1. CASE policy # "real"
  <2>1. policy' = policy
    BY DEF ConfigsNext, configVars, HotplugOut, HotplugIn, OutList, OutTell, UpdateList,
           TellChange, ModePeriod, setDisplayMode, CountConfigs, FillConfigs, getDisplayAttribute,
           setActiveConfig, SetConfig, getDisplayVsyncPeriod, setPerferredMode
  <2>. QED
    BY <1>1, <2>1 DEF RealInv
<1>2. CASE policy = "real"
  <2>1. CASE UNCHANGED configVars
    BY <2>1 DEF configVars, RealInv, ManagerOK, DriverOK, KnownOK, ModesOf
  <2>. QED
    BY <1>2, <2>1, PlugKeeps, EventKeeps, ReadKeeps, SetKeeps, PreferKeeps DEF ConfigsNext
<1>. QED
  BY <1>1, <1>2

LEMMA RealInvariance ==
    ASSUME RealAssumption
    PROVE  ConfigsSpec => []RealInv
<1>1. ConfigsInit => RealInv
  BY RealInit
<1>2. RealInv /\ [ConfigsNext]_configVars => RealInv'
  BY RealNext
<1>. QED
  BY <1>1, <1>2, PTL DEF ConfigsSpec

(* For any displays with a mode to report beside an interlaced one, any       *)
(* number of plugs, mode changes and calls, in any order: under RealModeMgr   *)
(* what SurfaceFlinger read of an id stays true of it as long as the id is    *)
(* listed, for update goes on from the largest id and nothing puts an old one *)
(* back; and the active configuration is one of the list.                     *)
THEOREM IdsKeepMeaning ==
    ASSUME RealAssumption
    PROVE  ConfigsSpec => [](policy = "real" => IdKeepsMeaning)
<1>1. RealInv => (policy = "real" => KeepsMeaning)
  BY DEF RealInv, KnownOK, KeepsMeaning
<1>2. RealInv => (policy = "real" => ActiveListed)
  BY DEF RealInv, ManagerOK, ActiveListed, getActiveConfig, Counted
<1>3. RealInv => (policy = "real" => IdKeepsMeaning)
  BY <1>1, <1>2 DEF IdKeepsMeaning
<1>. QED
  BY <1>3, RealInvariance, PTL
=============================================================================
