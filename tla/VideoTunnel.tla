---------------------------- MODULE VideoTunnel ----------------------------
(***************************************************************************)
(* The life of a video tunnel buffer in the hardware composer.             *)
(*                                                                         *)
(* A producer queues frames into a kernel tunnel.  The VtHandleEvents      *)
(* thread takes them out (VtInstance::acquireBuffer) and hands them to the *)
(* consumers of the tunnel, one per Hwc2Layer.  The VtDisplay thread picks *)
(* the frame that is due, posts it to the video composer and gives the     *)
(* frame before it back with a release fence.  SurfaceFlinger's threads    *)
(* tune, retune, blank and destroy the layers meanwhile.                   *)
(*                                                                         *)
(* A buffer is named by its file descriptor: an fd is open from the        *)
(* acquire until the instance gives it back, which also closes it, and a   *)
(* later acquire may be given the same number.  A release fence is named   *)
(* by the fd of the frame the composer returned it for.                    *)
(***************************************************************************)
EXTENDS Integers, Sequences, FiniteSets

CONSTANTS
  Layers,     \* the Hwc2Layer objects that may ever be created
  Tunnels,    \* the tunnel ids a sideband stream may name
  Fds,        \* the file descriptors the tunnel device may hand out
  Times,      \* the expected present times a frame may carry, -1 for "now"
  MaxNow,     \* bound on the display's clock
  Second,     \* timestamps this far ahead of the clock are implausible
  MaxBatch,   \* bound on the frames one acquireBuffer call finds pending
  Ops,        \* the requests the environment makes in this instance
  Shared,     \* may two layers be tuned to the same tunnel?
  NoFd,       \* the value -1 of an fd
  NoTunnel,   \* the value -1 of a tunnel id
  OtherFence  \* a DrmFence that guards no open buffer: made from the fd -1,
              \* or returned for a frame that has long been given back

AllStatuses == {"show", "blank", "hide", "once", "always", "disable", "hold"}

AllOps == AllStatuses \cup
          {"buffer", "color", "destroy", "refresh", "game", "temp",
           "connectError", "acquireError", "skip", "commit"}

ASSUME IdAssumption   == NoFd \notin Fds /\ OtherFence \notin Fds \cup {NoFd}
                         /\ NoTunnel \notin Tunnels
ASSUME TimeAssumption == /\ Times \subseteq Int
                         /\ MaxNow \in Nat /\ Second \in Nat /\ MaxBatch \in Nat
ASSUME OpsAssumption  == Ops \subseteq AllOps /\ Shared \in BOOLEAN

VARIABLES
  layer,      \* the Hwc2Layer objects
  inst,       \* VtInstanceMgr::mInstances, one VtInstance per tunnel
  ev,         \* the VtHandleEvents thread and VtInstanceMgr::mInstanceMutex
  disp,       \* the VtDisplay thread's progress on each layer
  screen,     \* the tunnel frame the video composer shows for each layer
  returned    \* the buffers given back to the driver by the last step

vars == <<layer, inst, ev, disp, screen, returned>>

----------------------------------------------------------------------------
(* Types *)

Item == [fd : Fds, ts : Times]

MaybeFd == Fds \cup {NoFd}

Fences == MaybeFd \cup {OtherFence}

LayerState ==
  [life : {"none", "live", "dying", "dead"},
   vt : BOOLEAN,             \* mFbType = DRM_FB_VIDEO_TUNNEL_SIDEBAND
   needRelease : BOOLEAN,    \* mNeedReleaseVtResource
   tunnel : Tunnels \cup {NoTunnel},            \* mTunnelId
   consumer : BOOLEAN,       \* mVtConsumer is not null
   listener : {"none", "live", "dangling"},     \* its mReleaseListener
   queue : Seq(Item),        \* mQueueItems
   cur : MaybeFd,            \* mVtBufferFd
   pre : MaybeFd,            \* mPreVtBufferFd
   ts : Times \cup {-1},     \* mTimestamp
   now : 0..MaxNow,          \* mExpectedPresentTime
   update : BOOLEAN,         \* mVtUpdate
   refreshed : BOOLEAN,      \* mVtRefreshed
   retuned : BOOLEAN,        \* mTunnelIdUpdate
   game : BOOLEAN,           \* mGameMode
   status : AllStatuses,     \* mVideoDisplayStatus
   solid : BOOLEAN,          \* mSolidColorBufferfd >= 0
   solidHandle : BOOLEAN,    \* mAllocSolidColorBufferHandle is not null
   curFence : Fences,        \* mCurReleaseFence
   prevFence : Fences]       \* mPrevReleaseFence

BufferItem == [fd : Fds, ref : Int, fences : SUBSET Fds]

InstState == [live : BOOLEAN, consumers : SUBSET Layers, bufs : SUBSET BufferItem]

NewLayer ==
  [life |-> "live", vt |-> FALSE, needRelease |-> FALSE, tunnel |-> NoTunnel,
   consumer |-> FALSE, listener |-> "none", queue |-> <<>>, cur |-> NoFd,
   pre |-> NoFd, ts |-> -1, now |-> 0, update |-> FALSE, refreshed |-> FALSE,
   retuned |-> FALSE, game |-> FALSE, status |-> "show", solid |-> FALSE,
   solidHandle |-> FALSE, curFence |-> NoFd, prevFence |-> NoFd]

NewInst == [live |-> TRUE, consumers |-> {}, bufs |-> {}]

NoInst == [NewInst EXCEPT !.live = FALSE]

FdsOf(s) == {s[i].fd : i \in DOMAIN s}

\* The fds of tunnel buffers a layer holds.
Held(L) == (FdsOf(L.queue) \cup {L.cur, L.pre}) \ {NoFd}

\* The fds of the frames an instance has out of the driver.
Open(t) == {b.fd : b \in inst[t].bufs}

OpenFds == UNION {Open(t) : t \in Tunnels}

Registered(l, t) == l \in inst[t].consumers

MutexFree == ev.pc = "idle"

----------------------------------------------------------------------------
(* VtInstance: what happens to the buffer queue. *)

\* onFrameDisplayed for the calls of the sequence rel, records [fd, fence].
Calls(b, rel) == {i \in DOMAIN rel : rel[i].fd = b.fd}

Dead(b, rel) == b.ref > 0 /\ Cardinality(Calls(b, rel)) >= b.ref

Fenced(b, rel) ==
  [b EXCEPT !.ref = b.ref - Cardinality(Calls(b, rel)),
            !.fences = b.fences \cup ({rel[i].fence : i \in Calls(b, rel)}
                                         \cap Fds)]

Kept(bufs, rel) == {Fenced(b, rel) : b \in {c \in bufs : ~Dead(c, rel)}}

Freed(bufs, rel) ==
  {[fd |-> b.fd, fences |-> Fenced(b, rel).fences] :
      b \in {c \in bufs : Dead(c, rel)}}

\* The instances and the returned buffers after a layer makes the calls rel
\* through its consumer.  Without a live listener the calls do nothing.
AfterCalls(L, rel) ==
  IF L.consumer /\ L.listener = "live" /\ L.tunnel # NoTunnel
  THEN [insts |-> [inst EXCEPT ![L.tunnel].bufs = Kept(@, rel)],
        freed |-> Freed(inst[L.tunnel].bufs, rel)]
  ELSE [insts |-> inst, freed |-> {}]

\* clearUpInstancesLocked: an instance without consumers is destroyed, and
\* its destructor closes what is left in its buffer queue.
Unused(insts) == {t \in Tunnels : insts[t].live /\ insts[t].consumers = {}}

ClearUp(insts) == [t \in Tunnels |-> IF t \in Unused(insts) THEN NoInst
                                                            ELSE insts[t]]

ClearUpFreed(insts) ==
  {[fd |-> b.fd, fences |-> {}] :
      b \in UNION {insts[t].bufs : t \in Unused(insts)}}

\* The consumers of a destroyed instance that it no longer knows of keep a
\* pointer to it.
ClearUpLayers(insts, layers) ==
  [l \in Layers |->
     IF layers[l].tunnel \in Unused(insts) /\ layers[l].listener = "live"
     THEN [layers[l] EXCEPT !.listener = "dangling"] ELSE layers[l]]

----------------------------------------------------------------------------
(* Hwc2Layer: functions from the state of one layer to its next state. *)

Due(L, ts) == ts = -1 \/ L.game \/ ts < L.now \/ ts >= L.now + Second

\* DrmFramebuffer::clearBufferInfo
ClearBufferInfo(L) ==
  [L EXCEPT !.prevFence = IF L.vt THEN @ ELSE L.curFence, !.vt = FALSE]

\* setVtPrevReleaseFence
MoveFence(L) ==
  [L EXCEPT !.prevFence = IF L.curFence = NoFd THEN @ ELSE L.curFence,
            !.curFence = NoFd]

\* freeSolidColorBufferLocked
FreeSolid(L) ==
  IF L.solid
  THEN [L EXCEPT !.solid = FALSE, !.update = FALSE, !.refreshed = FALSE,
                 !.curFence = OtherFence]
  ELSE L

BufferFd(L) == IF Due(L, L.ts) /\ L.update THEN L.cur ELSE L.pre

FbUpdated(L) == L.solid \/ (Due(L, L.ts) /\ L.update) \/ L.refreshed

One(fd, fence) == IF fd = NoFd THEN <<>> ELSE <<[fd |-> fd, fence |-> fence]>>

Unfenced(q) == [i \in DOMAIN q |-> [fd |-> q[i].fd, fence |-> NoFd]]

\* releaseVtResourceLocked: the calls it makes, and the layer after them.
ReleaseApplies(L) == (L.vt \/ L.needRelease) /\ L.consumer

\* Mutant: the frames still queued are forgotten.
ReleaseCallsUnqueued(L, keepLast) ==
  (IF keepLast THEN <<>> ELSE One(L.pre, L.prevFence)) \o One(L.cur, L.curFence)

ReleaseCalls(L, keepLast) ==
  (IF keepLast THEN <<>> ELSE One(L.pre, L.prevFence)) \o
  One(L.cur, L.curFence) \o
  Unfenced(IF L.cur # NoFd /\ L.queue # <<>> THEN Tail(L.queue) ELSE L.queue)

ReleaseHeldCurrent(L, keepLast) ==
  [L EXCEPT !.pre = IF keepLast THEN @ ELSE NoFd, !.queue = <<>>,
            !.update = FALSE, !.ts = -1, !.needRelease = FALSE]

ReleaseHeldLast(L, keepLast) ==
  [L EXCEPT !.cur = NoFd, !.queue = <<>>, !.update = FALSE, !.ts = -1,
            !.needRelease = FALSE]

ReleaseHeld(L, keepLast) ==
  [L EXCEPT !.pre = IF keepLast THEN @ ELSE NoFd, !.cur = NoFd,
            !.queue = <<>>, !.update = FALSE, !.ts = -1,
            !.needRelease = FALSE]

\* Mutant: the layer stays tuned.
UnregisteredTuned(L) == [L EXCEPT !.consumer = FALSE, !.listener = "none"]

\* unregisterConsumer
Unregistered(L) ==
  [L EXCEPT !.consumer = FALSE, !.listener = "none", !.tunnel = NoTunnel]

\* updateVtBuffer: how many frames at the head of the queue it drops, and
\* the layer once they are gone.
Expired(L) ==
  {i \in DOMAIN L.queue : ~L.game /\ L.queue[i].ts > 0 /\ Due(L, L.queue[i].ts)}

DropCount(L) == IF Expired(L) = {} THEN 0 ELSE Cardinality(Expired(L)) - 1

Updated(L) ==
  LET q == SubSeq(L.queue, DropCount(L) + 1, Len(L.queue))
  IN  [L EXCEPT !.queue = q, !.cur = q[1].fd, !.ts = q[1].ts, !.update = TRUE,
                !.retuned = @ /\ ~Due(L, q[1].ts)]

\* isVtNeedClearFrameOrShowColorBuffer: does the status of the video make
\* this step release the frames, does it keep the last one, and what is left.
StatusReleases(L) == L.status \in {"blank", "hide", "once", "always", "hold"}

AfterStatus(L) ==
  LET R == IF StatusReleases(L) /\ ReleaseApplies(L)
           THEN ReleaseHeld(L, L.status = "hold") ELSE L
  IN  CASE L.status = "blank"   -> [R EXCEPT !.status = "show"]
        [] L.status = "hide"    -> [R EXCEPT !.curFence = OtherFence]
        [] L.status = "once" /\ (BufferFd(L) # NoFd \/ L.queue # <<>>)
                                -> [R EXCEPT !.status = "show"]
        [] L.status = "disable" -> FreeSolid([R EXCEPT !.status = "show"])
        [] OTHER                -> R

\* interruptVtProcess: must the plane be blanked, or a solid colour shown?
Blanks(L) ==
  \/ L.status \in {"blank", "hide"}
  \/ LET A == AfterStatus(L)
     IN  BufferFd(A) = NoFd /\ ~A.solidHandle /\ ~A.retuned

ShowsSolid(L) ==
  LET A == AfterStatus(L)
  IN  ~Blanks(L) /\ BufferFd(A) = NoFd /\ A.solidHandle

\* setFrame with the solid colour buffer (getSolidColorBuffer), if there is
\* one, and freeSolidColorBuffer after it.
PostSolid(L) ==
  LET again == L.solidHandle /\ L.refreshed /\ L.status \in {"once", "always"}
  IN  IF FbUpdated(L)
      THEN FreeSolid([L EXCEPT !.solid = @ \/ again, !.curFence = OtherFence])
      ELSE FreeSolid(L)

\* Mutant: a refresh always comes before the frame that is due.
RefreshFirst(L) == L.refreshed

\* releaseVtBuffer returns early, with or without moving the fence, or it
\* takes the frame shown off the queue.
RefreshOnly(L) == L.refreshed /\ ~(Due(L, L.ts) /\ L.update)

Consumes(L) == L.update /\ Due(L, L.ts) /\ L.queue # <<>>

Popped(L) ==
  [L EXCEPT !.refreshed = FALSE,
            !.queue = IF L.cur = NoFd THEN @ ELSE Tail(@)]

Shifted(L) == MoveFence([Popped(L) EXCEPT !.pre = L.cur, !.cur = NoFd,
                                          !.update = FALSE])

AfterRelease(L) ==
  CASE RefreshOnly(L)                     -> MoveFence([L EXCEPT !.refreshed = FALSE])
    [] ~RefreshOnly(L) /\ ~Consumes(L)    -> [L EXCEPT !.refreshed = FALSE]
    [] Consumes(L) /\ L.pre = NoFd /\ L.cur = NoFd -> Popped(L)
    [] OTHER                              -> Shifted(L)

\* Does the layer have the plane blanked or covered by a solid colour, or does
\* it post a frame?
Clears(L) == Blanks(L) \/ (ShowsSolid(L) /\ AfterStatus(L).solid)

Posts(L) == ~Blanks(L) /\ ~ShowsSolid(L) /\ FbUpdated(AfterStatus(L))

\* What setFrame changes when it posts the fd.
Shown(old, fd) == IF fd = NoFd THEN old ELSE fd

----------------------------------------------------------------------------
(* Steps of a layer that reach into its instance: the state they leave, as a *)
(* record, since the callers continue from it.                               *)

Unchanged(l, L) == [layers |-> [layer EXCEPT ![l] = L], insts |-> inst,
                    freed |-> {}]

Disconnected(l, L) ==
  LET after  == AfterCalls(L, ReleaseCalls(L, FALSE))
      left   == [after.insts EXCEPT ![L.tunnel].consumers = @ \ {l}]
      layers == [layer EXCEPT ![l] = Unregistered(ReleaseHeld(L, FALSE))]
  IN  IF ~ReleaseApplies(L)
      THEN Unchanged(l, L)
      ELSE IF L.tunnel = NoTunnel
      THEN [Unchanged(l, ReleaseHeld(L, FALSE)) EXCEPT !.insts = after.insts,
                                                       !.freed = after.freed]
      ELSE [layers |-> ClearUpLayers(left, layers),
            insts  |-> ClearUp(left),
            freed  |-> after.freed \cup ClearUpFreed(left)]

\* interruptVtProcess, and the solid colour posted after it.
InComposition(L) == L.vt /\ L.life \in {"live", "dying"}

Interrupted(l) ==
  LET L     == layer[l]
      A     == AfterStatus(L)
      after == IF StatusReleases(L) /\ ReleaseApplies(L)
               THEN AfterCalls(L, ReleaseCalls(L, L.status = "hold"))
               ELSE [insts |-> inst, freed |-> {}]
  IN  [layers |-> [layer EXCEPT ![l] = IF ShowsSolid(L) THEN PostSolid(A) ELSE A],
       insts |-> after.insts, freed |-> after.freed]

Becomes(s) == /\ layer' = s.layers
              /\ inst' = s.insts
              /\ returned' = s.freed

----------------------------------------------------------------------------
(* SurfaceFlinger's threads *)

CreateLayer(l) ==
  /\ layer[l].life = "none"
  /\ layer' = [layer EXCEPT ![l] = NewLayer]
  /\ returned' = {}
  /\ UNCHANGED <<inst, ev, disp, screen>>

\* setSidebandStream with the tunnel the layer is already tuned to, or with a
\* channel that names none.
SameSidebandStream(l) ==
  /\ layer[l].life = "live" /\ MutexFree
  /\ layer' = [layer EXCEPT ![l] = [ClearBufferInfo(@) EXCEPT !.vt = TRUE]]
  /\ returned' = {}
  /\ UNCHANGED <<inst, ev, disp, screen>>

MayTune(l, t) == Shared \/ \A m \in Layers \ {l} : layer[m].tunnel # t
                                                   /\ ~Registered(m, t)

\* setSidebandStream with another tunnel, up to registerConsumer.
Retuned(l, t) ==
  LET L == [ClearBufferInfo(layer[l]) EXCEPT !.vt = TRUE]
      s == IF L.tunnel = NoTunnel THEN Unchanged(l, L) ELSE Disconnected(l, L)
  IN  [s EXCEPT !.layers[l].tunnel = t]

\* registerConsumer, which does nothing if there is a consumer already.
SetSidebandStream(l, t) ==
  /\ layer[l].life = "live" /\ MutexFree
  /\ layer[l].tunnel # t /\ MayTune(l, t)
  /\ LET s    == Retuned(l, t)
         L    == [s.layers[l] EXCEPT !.queue = <<>>, !.retuned = TRUE]
         inst1 == [IF s.insts[t].live THEN s.insts[t] ELSE NewInst
                     EXCEPT !.consumers = @ \cup {l}]
     IN  IF L.consumer
         THEN Becomes([s EXCEPT !.layers[l] = L])
         ELSE Becomes([s EXCEPT !.layers[l] = [L EXCEPT !.consumer = TRUE,
                                                        !.listener = "live"],
                                !.insts[t] = inst1])
  /\ UNCHANGED <<ev, disp, screen>>

\* The driver refuses to connect: the layer keeps the consumer it made.
SetSidebandStreamFails(l, t) ==
  /\ "connectError" \in Ops
  /\ layer[l].life = "live" /\ MutexFree
  /\ layer[l].tunnel # t /\ MayTune(l, t)
  /\ LET s == Retuned(l, t)
     IN  /\ ~s.layers[l].consumer /\ ~s.insts[t].live
         /\ Becomes([s EXCEPT !.layers[l].consumer = TRUE,
                              !.layers[l].tunnel = NoTunnel])
  /\ UNCHANGED <<ev, disp, screen>>

\* setBuffer: a sideband layer that gets a buffer will be released later.
SetBuffer(l) ==
  /\ "buffer" \in Ops /\ layer[l].life = "live"
  /\ layer' = [layer EXCEPT ![l] =
                 [ClearBufferInfo(layer[l]) EXCEPT !.needRelease = @ \/ layer[l].vt]]
  /\ returned' = {}
  /\ UNCHANGED <<inst, ev, disp, screen>>

\* setColor, and setSidebandStream with a type that is not a tunnel.
SetColor(l) ==
  /\ "color" \in Ops /\ layer[l].life = "live"
  /\ layer' = [layer EXCEPT ![l] = ClearBufferInfo(@)]
  /\ returned' = {}
  /\ UNCHANGED <<inst, ev, disp, screen>>

\* clearUpdateFlag, at the end of presentDisplay.
ClearUpdateFlag(l) ==
  /\ layer[l].life = "live" /\ layer[l].needRelease
  /\ MutexFree
  /\ Becomes(Disconnected(l, layer[l]))
  /\ UNCHANGED <<ev, disp, screen>>

\* The commit of presentDisplay leaves the frames to the VtDisplay thread, but
\* it interrupts the video as that thread does: frames are released, the plane
\* is blanked or a solid colour posted.  It has mVtMutex, so it falls between
\* two steps of the VtDisplay thread.
CommitVt(l) ==
  /\ "commit" \in Ops /\ disp[l].pc # "post" /\ InComposition(layer[l])
  /\ Becomes(Interrupted(l))
  /\ screen' = [screen EXCEPT ![l] = IF Clears(layer[l]) THEN NoFd ELSE @]
  /\ UNCHANGED <<ev, disp>>

\* vtRefresh: a new source crop, display frame or zorder, or a validate.
VtRefresh(l) ==
  /\ "refresh" \in Ops /\ layer[l].life = "live" /\ layer[l].vt
  /\ layer' = [layer EXCEPT ![l].refreshed = TRUE]
  /\ returned' = {}
  /\ UNCHANGED <<inst, ev, disp, screen>>

\* Hwc2Display::destroyLayer, and later the destructor of the layer.
DestroyLayer(l) ==
  /\ "destroy" \in Ops /\ layer[l].life = "live" /\ disp[l].pc # "post"
  /\ MutexFree
  /\ LET s == IF layer[l].vt THEN Disconnected(l, layer[l])
              ELSE Unchanged(l, layer[l])
     IN  Becomes([s EXCEPT !.layers[l].life = "dying"])
  /\ UNCHANGED <<ev, disp, screen>>

DestructLayer(l) ==
  /\ layer[l].life = "dying" /\ disp[l].pc = "wait"
  /\ MutexFree
  /\ Becomes([Disconnected(l, layer[l]) EXCEPT
                !.layers[l] = [NewLayer EXCEPT !.life = "dead"]])
  /\ UNCHANGED <<ev, disp, screen>>

----------------------------------------------------------------------------
(* The VtHandleEvents thread *)

Swept == [layers |-> ClearUpLayers(inst, layer), insts |-> ClearUp(inst),
          freed |-> ClearUpFreed(inst)]

\* pollVtEvents clears up the instances nobody consumes from.
PollVtEvents ==
  /\ MutexFree /\ Unused(inst) # {}
  /\ Becomes(Swept)
  /\ UNCHANGED <<ev, disp, screen>>

\* handleBuffers takes mInstanceMutex and goes through the instances.
HandleBuffers ==
  LET live == {t \in Tunnels : Swept.insts[t].live}
  IN  /\ MutexFree /\ live # {}
      /\ Becomes(Swept)
      /\ ev' = [ev EXCEPT !.pc = "scan", !.left = live]
      /\ UNCHANGED <<disp, screen>>

\* The frames the driver may have for a tunnel, each in an fd it just opened.
Batches(n) == {b \in [1..n -> [fd : Fds \ OpenFds, ts : Times]] :
                 \A i, j \in 1..n : b[i].fd = b[j].fd => i = j}

Fresh(b) == {[fd |-> f, ref |-> -1, fences |-> {}] : f \in FdsOf(b)}

Leave(t) == [ev EXCEPT !.left = @ \ {t},
                       !.pc = IF ev.left = {t} THEN "idle" ELSE "scan"]

\* A number handed out again names a new frame: what was on screen under
\* that number, and the fences of it, have nothing to do with the new one.
Renumbered(b) ==
  LET Old(fence) == IF fence \in FdsOf(b) THEN OtherFence ELSE fence
  IN  /\ layer' = [l \in Layers |->
                     [layer[l] EXCEPT !.curFence = Old(@), !.prevFence = Old(@)]]
      /\ screen' = [l \in Layers |-> IF screen[l] \in FdsOf(b) THEN NoFd
                                                            ELSE screen[l]]

\* acquireBuffer, under VtInstance::mMutex, until the driver has no more.
AcquireBuffer(t) ==
  /\ ev.pc = "scan" /\ t \in ev.left
  /\ \E n \in 0..MaxBatch : \E b \in Batches(n) :
       /\ inst' = [inst EXCEPT ![t].bufs = @ \cup Fresh(b)]
       /\ Renumbered(b)
       /\ ev' = IF n = 0 THEN Leave(t)
                ELSE [ev EXCEPT !.pc = "deliver", !.at = t, !.items = b,
                                !.todo = inst[t].consumers]
  /\ returned' = {}
  /\ UNCHANGED disp

\* The driver fails after some frames were taken: acquireBuffer returns at
\* once and no consumer hears of them.
AcquireBufferFails(t) ==
  /\ "acquireError" \in Ops
  /\ ev.pc = "scan" /\ t \in ev.left
  /\ \E n \in 0..MaxBatch : \E b \in Batches(n) :
       /\ inst' = [inst EXCEPT ![t].bufs = @ \cup Fresh(b)]
       /\ Renumbered(b)
  /\ ev' = Leave(t)
  /\ returned' = {}
  /\ UNCHANGED disp

\* refHandle and unrefHandle on the items of the batch that are still queued.
AddRef(bufs, d) ==
  {IF b.fd \in FdsOf(ev.items)
   THEN [b EXCEPT !.ref = IF @ = -1 /\ d = 1 THEN 1 ELSE @ + d]
   ELSE b : b \in bufs}

Accepts(L) == L.life \in {"live", "dying"} /\ (L.vt \/ L.needRelease)
              /\ L.tunnel # NoTunnel

\* The thread goes on to the consumers of todo, or to the next instance.
GoOn(todo) ==
  IF todo # {} THEN [ev EXCEPT !.todo = todo]
  ELSE [Leave(ev.at) EXCEPT !.items = <<>>, !.todo = {}, !.at = NoTunnel]

\* The batch goes to a consumer: refHandle on every item, and then
\* onVtFrameAvailable under the layer's mutex.  The list of consumers is in
\* the order of their registration; here they hear of it in any order.
DeliverFrames ==
  \E l \in ev.todo :
    /\ ev.pc = "deliver" /\ Accepts(layer[l])
    /\ layer' = [layer EXCEPT ![l].queue = @ \o ev.items]
    /\ inst' = [inst EXCEPT ![ev.at].bufs = AddRef(@, 1)]
    /\ ev' = GoOn(ev.todo \ {l})
    /\ returned' = {}
    /\ UNCHANGED <<disp, screen>>

\* A consumer that refuses the batch is erased, and its references dropped.
RefuseFrames ==
  \E l \in ev.todo :
    /\ ev.pc = "deliver" /\ ~Accepts(layer[l])
    /\ inst' = [inst EXCEPT ![ev.at].bufs = AddRef(AddRef(@, 1), -1),
                            ![ev.at].consumers = @ \ {l}]
    /\ ev' = GoOn(ev.todo \ {l})
    /\ returned' = {}
    /\ UNCHANGED <<layer, disp, screen>>

\* receiveCmds: what one command does to a layer that consumes the tunnel.
AfterCmd(L, c) ==
  CASE c \in AllStatuses -> [L EXCEPT !.status = c]
    [] c = "game"        -> [L EXCEPT !.game = ~@]
    [] c = "refresh"     -> [L EXCEPT !.refreshed = TRUE]
    [] c = "temp"        -> [L EXCEPT !.solid = TRUE, !.solidHandle = TRUE,
                                      !.update = TRUE]

Cmds == Ops \cap (AllStatuses \cup {"game", "refresh", "temp"})

\* handleCmds clears up the instances as well, and gives the command to every
\* consumer of its tunnel.
HandleCmds(t, c) ==
  /\ MutexFree /\ Swept.insts[t].live
  /\ Becomes([Swept EXCEPT !.layers =
                [l \in Layers |->
                   IF Registered(l, t) /\ layer[l].life # "dead"
                   THEN AfterCmd(@[l], c) ELSE @[l]]])
  /\ UNCHANGED <<ev, disp, screen>>

----------------------------------------------------------------------------
(* The VtDisplay thread: handleVtDisplay, step by step for each layer *)

\* setVtLayersPresentTime at a vsync
SetPresentTime(l) ==
  /\ disp[l].pc = "wait" /\ layer[l].life = "live" /\ layer[l].vt
  /\ \E n \in layer[l].now..MaxNow : layer' = [layer EXCEPT ![l].now = n]
  /\ disp' = [disp EXCEPT ![l].pc = "update"]
  /\ returned' = {}
  /\ UNCHANGED <<inst, ev, screen>>

\* updateVtBuffer: frames overtaken by a later one that is due go back.
UpdateVtBuffer(l) ==
  LET L       == layer[l]
      dropped == Unfenced(SubSeq(L.queue, 1, DropCount(L)))
      after   == AfterCalls(L, dropped)
  IN  /\ disp[l].pc = "update"
      /\ IF L.life = "live" /\ L.vt /\ L.queue # <<>>
         THEN Becomes([layers |-> [layer EXCEPT ![l] = Updated(L)],
                       insts |-> after.insts, freed |-> after.freed])
         ELSE /\ returned' = {} /\ UNCHANGED <<layer, inst>>
      /\ disp' = [disp EXCEPT ![l].pc = "present"]
      /\ UNCHANGED <<ev, screen>>

\* The display is unplugged, or the layer is not part of the composition.
SkipPresent(l) ==
  /\ disp[l].pc = "present"
  /\ "skip" \in Ops \/ ~InComposition(layer[l])
  /\ disp' = [disp EXCEPT ![l].pc = "release"]
  /\ returned' = {}
  /\ UNCHANGED <<layer, inst, ev, screen>>

\* commitTunnelVideo: interruptVtProcess, and then either the plane is
\* blanked, a solid colour posted, or a frame chosen to be posted.
PresentVt(l) ==
  /\ disp[l].pc = "present" /\ InComposition(layer[l])
  /\ Becomes(Interrupted(l))
  /\ screen' = [screen EXCEPT ![l] = IF Clears(layer[l]) THEN NoFd ELSE @]
  /\ disp' = [disp EXCEPT ![l] =
                IF Posts(layer[l])
                THEN [pc |-> "post", fd |-> BufferFd(AfterStatus(layer[l]))]
                ELSE [pc |-> "release", fd |-> NoFd]]
  /\ UNCHANGED ev

\* VideoComposerDev::setFrame with the fd read before, and the fence it
\* returns.  Without a valid fd nothing is posted and the fence is -1.
PostFrame(l) ==
  /\ disp[l].pc = "post"
  /\ screen' = [screen EXCEPT ![l] = Shown(@, disp[l].fd)]
  /\ layer' = [layer EXCEPT ![l].curFence = Shown(OtherFence, disp[l].fd)]
  /\ disp' = [disp EXCEPT ![l] = [pc |-> "release", fd |-> NoFd]]
  /\ returned' = {}
  /\ UNCHANGED <<inst, ev>>

\* releaseVtBuffer
ReleaseVtBuffer(l) ==
  LET L     == layer[l]
      after == IF ~RefreshOnly(L) /\ Consumes(L)
               THEN AfterCalls(L, One(L.pre, L.prevFence))
               ELSE [insts |-> inst, freed |-> {}]
  IN  /\ disp[l].pc = "release"
      /\ IF L.life = "live" /\ L.vt
         THEN Becomes([layers |-> [layer EXCEPT ![l] = AfterRelease(L)],
                       insts |-> after.insts, freed |-> after.freed])
         ELSE /\ returned' = {} /\ UNCHANGED <<layer, inst>>
      /\ disp' = [disp EXCEPT ![l].pc = "wait"]
      /\ UNCHANGED <<ev, screen>>

----------------------------------------------------------------------------

Init ==
  /\ layer = [l \in Layers |-> [NewLayer EXCEPT !.life = "none"]]
  /\ inst = [t \in Tunnels |-> NoInst]
  /\ ev = [pc |-> "idle", left |-> {}, at |-> NoTunnel, items |-> <<>>, todo |-> {}]
  /\ disp = [l \in Layers |-> [pc |-> "wait", fd |-> NoFd]]
  /\ screen = [l \in Layers |-> NoFd]
  /\ returned = {}

LayerStep(l) ==
  \/ CreateLayer(l)
  \/ SameSidebandStream(l)
  \/ \E t \in Tunnels : SetSidebandStream(l, t)
  \/ \E t \in Tunnels : SetSidebandStreamFails(l, t)
  \/ SetBuffer(l)
  \/ SetColor(l)
  \/ ClearUpdateFlag(l)
  \/ CommitVt(l)
  \/ VtRefresh(l)
  \/ DestroyLayer(l)
  \/ DestructLayer(l)

EventStep ==
  \/ PollVtEvents
  \/ HandleBuffers
  \/ \E t \in Tunnels : AcquireBuffer(t)
  \/ \E t \in Tunnels : AcquireBufferFails(t)
  \/ DeliverFrames
  \/ RefuseFrames
  \/ \E t \in Tunnels, c \in Cmds : HandleCmds(t, c)

DisplayStep(l) ==
  \/ SetPresentTime(l)
  \/ UpdateVtBuffer(l)
  \/ SkipPresent(l)
  \/ PresentVt(l)
  \/ PostFrame(l)
  \/ ReleaseVtBuffer(l)

Next == EventStep \/ \E l \in Layers : LayerStep(l) \/ DisplayStep(l)

Spec == Init /\ [][Next]_vars

\* Both threads run, vsyncs carry later and later times, and SurfaceFlinger
\* presents every layer it changed, however often it waits for mInstanceMutex.
Vsync(l) == SetPresentTime(l) /\ layer'[l].now > layer[l].now

Deliver == ev.pc # "idle" /\ EventStep

Fairness ==
  /\ WF_vars(Deliver)
  /\ \A l \in Layers :
       /\ WF_vars(DisplayStep(l))
       /\ SF_vars(Vsync(l))
       /\ SF_vars(ClearUpdateFlag(l))

FairSpec == Spec /\ Fairness

----------------------------------------------------------------------------
(* Properties *)

\* The types of all the state.
TypeOK ==
  /\ layer \in [Layers -> LayerState]
  /\ inst \in [Tunnels -> InstState]
  /\ ev \in [pc : {"idle", "scan", "deliver"}, left : SUBSET Tunnels,
             at : Tunnels \cup {NoTunnel}, items : Seq(Item),
             todo : SUBSET Layers]
  /\ disp \in [Layers -> [pc : {"wait", "update", "present", "post", "release"},
                          fd : MaybeFd]]
  /\ screen \in [Layers -> MaybeFd]
  /\ returned \subseteq [fd : Fds, fences : SUBSET Fds]

\* The frame a layer means to show next is the head of its queue, whatever
\* retuning, blanking and dropping did in between: the unchecked pops in
\* releaseVtBuffer and releaseVtResourceLocked (Hwc2Layer.cpp:683, 776) take
\* that very frame, and never find the queue empty.
CurrentIsHead ==
  \A l \in Layers : layer[l].cur # NoFd =>
     layer[l].queue # <<>> /\ layer[l].queue[1].fd = layer[l].cur

\* A layer that is tuned to a tunnel has a consumer, and one that is not has
\* no frames.  So the registerConsumer that handleDisplayDisconnect repeats at
\* every vsync (Hwc2Layer.cpp:806) changes nothing, and no frame of a former
\* tunnel is released into the next one.
TunedHasConsumer ==
  \A l \in Layers :
     IF layer[l].tunnel # NoTunnel THEN layer[l].consumer
     ELSE layer[l].queue = <<>> /\ layer[l].cur = NoFd

\* A layer holds no buffer twice: no frame is queued twice, or queued while it
\* is the frame shown.  A buffer released a second time would close an fd that
\* by then names something else.
HeldOnce ==
  \A l \in Layers : LET q == layer[l].queue IN
     /\ \A i, j \in DOMAIN q : q[i].fd = q[j].fd => i = j
     /\ \A i \in DOMAIN q : q[i].fd # layer[l].pre

\* A layer that an instance delivers to holds only buffers that are still out
\* of the driver, each with a reference counted for it (VtBufferItem::mRef).
HeldIsOpen ==
  \A l \in Layers, t \in Tunnels :
     Registered(l, t) /\ layer[l].tunnel = t =>
        \A f \in Held(layer[l]) :
           \E b \in inst[t].bufs : b.fd = f /\ b.ref >= 1

\* "The fence_fd will signal when the buffer is no longer in use by consumer"
\* (video_tunnel.cpp:363): when a buffer goes back to the driver no layer holds
\* it, is posting it or is about to be handed it, and if it is on screen the
\* fence of that very frame goes with it.
ReturnedNotInUse ==
  \A r \in returned :
     /\ ~(r.fd \in FdsOf(ev.items) /\ ev.todo # {})
     /\ \A l \in Layers :
          /\ r.fd \notin Held(layer[l])
          /\ r.fd # disp[l].fd
          /\ screen[l] = r.fd => r.fd \in r.fences

\* "release last video tunnel buffer" (Hwc2Layer.cpp:69): the destructor of a
\* layer gives its frames back and leaves no consumer behind that still points
\* to the layer.
DestructorReleases ==
  \A l \in Layers, t \in Tunnels : layer[l].life = "dead" => ~Registered(l, t)

\* No frame is forgotten: outside a delivery, every buffer an instance has out
\* of the driver is held by a registered layer, which will give it back.
NothingForgotten ==
  MutexFree => \A t \in Tunnels : \A f \in Open(t) :
     \E l \in Layers : Registered(l, t) /\ f \in Held(layer[l])

\* Whatever layers, the event thread and the display thread do in between, a
\* buffer is held once and open while it is held.
HeldSafe == HeldOnce /\ HeldIsOpen

\* And if no call fails, it is returned when nothing uses it any more, by the
\* destructor of the layer at the latest.
BuffersSafe == HeldSafe /\ NothingForgotten /\ ReturnedNotInUse /\ DestructorReleases

\* As long as vsyncs arrive, time passes and the layers are composed, every
\* frame that was delivered leaves its queue again: shown, dropped or released.
FramesMoveOn ==
  \A l \in Layers, f \in Fds :
     f \in FdsOf(layer[l].queue) ~> f \notin FdsOf(layer[l].queue)

\* What the producer of a tunnel sees of all this.
Lease == INSTANCE TunnelLease
           WITH Frames <- Fds, Screens <- Layers, None <- NoFd,
                lent <- OpenFds, shown <- screen,
                back <- {[frame |-> r.fd, fenced |-> r.fd \in r.fences] :
                           r \in returned}

\* The composer keeps the lease of every frame: it goes on screen only between
\* acquireBuffer and releaseBuffer, and goes back once, with its fence if shown.
LeaseKept == Lease!Spec
=============================================================================
