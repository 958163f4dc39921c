# Verification of the Amlogic hardware composer

TLA+ models of the Amlogic HWC (`src/`), model-checked with TLC and partly proved
with TLAPS. They follow the program's own logic, which is concurrent almost
everywhere: video frames that travel from a kernel tunnel through two threads to the
screen and back, a frame of SurfaceFlinger that is validated before an unplug and
committed after it, modes and configurations that change while a client reads them, a
service whose server dies, and buffers whose fences and handles must each be closed
once.

## 1. The system

| Component | State it keeps | Operations | Modules |
|---|---|---|---|
| **Video tunnel instances** `common/videotunnel/VtInstance*.cpp`, `VtConsumer*` | `VtInstanceMgr::mInstances`; per instance the consumers and the queue of `VtBufferItem`s (fd, `mRef`, release fence) | connect, disconnect, acquireBuffer, onFrameDisplayed, clearUpInstances, receiveCmds | `VideoTunnel`, `TunnelLease` |
| **Video tunnel layer** `hwc2/Hwc2Layer.cpp`, `common/base/DrmFramebuffer.cpp` | `mQueueItems`, `mVtBufferFd`, `mPreVtBufferFd`, two release fences, `mVtUpdate`, `mTunnelId`, display status, game mode | setSidebandStream, setBuffer, setColor, onVtFrameAvailable, updateVtBuffer, releaseVtBuffer, releaseVtResource, destructor | `VideoTunnel` |
| **Video tunnel display thread** `hwc2/VtDisplayThread.cpp`, parts of `Hwc2Display.cpp`, `HwcVideoPlane`, `VideoComposerDev` | one pass over all tunnel layers per vsync | set present time, update, present, release | `VideoTunnel`, `Vsync` |
| **Video tunnel event thread** `VtHandleEventsThread.cpp` | `mExit`, thread handle | start (with join of an old thread), poll, handle buffers and commands, end | `VtEventThread` |
| **Vsync and white board threads** `common/hwc/HwcVsync.cpp`, `hwc2/WBDisplayThread.cpp` | mode (soft, mix, hw), `mEnabled`, `mMixRebase`, period | set mode, period, enable; deliver a vsync | `Vsync` |
| **Vdin post processor** `postprocessor/VdinPostProcessor.cpp` | `mStat`, `mProcessMode`, `mCmdQ`, `mReqFbProcessor`, capture and display queues | start, stop, setFbProcessor, present, one process cycle | `VdinPost` |
| **Display** `hwc2/Hwc2Display.cpp`, `HwcPowerMode.cpp` | layers, validate/present state, client target, power mode, `mSkipComposition` | layers, validate, present, presentOrValidate, hotplug, mode change, blank | `Present`, `Hotplug`, `Configs` |
| **Composition strategies** `composition/simplestrategy` | planes and layers of one frame | setup, decide, commit | `OsdPlanes`, `VideoPlanes`, `HrPlanes`, `SinglePlane`, `Composition` |
| **Video processors** `postprocessor/nnprocess`, `composition/videoprocessorsmanager` | thread, queue and slots of each; the manager's processors of a video | setup, asyncProcess, onBufferDisplayed, reset, teardown | `Processors` |
| **Mode policy** `hwc2/ModePolicy.cpp` | scene, policy, hdr and dolby vision choices, boot environment | boot, plug, set mode, set policy, set hdr, low latency | `ModePolicy`, `Modes` |
| **Mode managers** `common/hwc/*ModeMgr.cpp` | list of configurations, active one | update, get, set active config | `RealModes`, `ActiveModes`, `SizedModes`, `Configs` |
| **Pipes** `common/hwc/*Pipe.cpp`, `DrmDevice.cpp` | which crtc, connector and planes each display uses | hotplug, suspend, power off, loopback request | `Pipes` |
| **drm and fbdev back ends** `common/display` | planes, buffer objects, requests; mode lists; fences | set, blank, flip; list and set modes | `DrmBo`, `DrmPlanes`, `FbPlanes`, `Connectors`, `AmVinfo` |
| **Composer service** `service/3.0` | a client's resources: displays, layers, buffer handles | client calls, hotplug, death | `Client` |
| **Display service** `service/mesondisplay` | client: `is_ready`, the interface; server: the record of calls | each call of the interface, server death | `DisplayIpc` |
| **Others** | event thread utility, 2.x services, tools, tests | | none |

How they meet. The *event thread of the tunnels* takes frames out of the driver and
calls `onVtFrameAvailable` of every registered layer (under `mInstanceMutex`, then the
layer's `mMutex`). The *display thread* runs once per vsync (under `mVtMutex` while it
presents) and calls `onFrameDisplayed` back into the instance. *SurfaceFlinger's*
binder threads call layers, displays and configurations through `ComposerClient` and
`HwcHal`. The *uevent thread* tells pipes and displays of cables, suspends and modes, and
calls back into SurfaceFlinger. Threads of the *display service* change modes, view
ports and the white board. Drivers have the last word: on a buffer, on a mode, on
whether a commit is taken.

What is hard here:

* a frame has up to four owners at once (queue, current, last, video composer), and
  three threads that move it between them; a choice made at the start of a pass is made
  again, on newer state, at the end of it; fences are kept in fields shifted by hand;
* a file descriptor or a handle is closed when its frame goes, so that a second release
  hits an unrelated one, and counts of them are shared by displays without a lock;
* a frame is validated, presented and committed in separate calls, between which
  hotplugs, blanks and mode changes come, some under the display's mutex and some not;
* lists of modes and configurations are made again while a client reads them, and ids
  must keep their meaning;
* the mode policy decides on values it read before it took its mutex, and remembers
  decisions over boots;
* threads that end by themselves are joined and restarted; a waiting thread is woken by
  whoever comes first;
* drivers fail at every call, and the other process dies at any time.

`PROJECT.json` lists the hazards at their lines, with the properties that cover them.

## 2. How the project is organised

Each component has a module of its own; a proof module EXTENDS it; an MC module gives
its constants values. Where two components share nothing but the run's budget, one MC
module holds them side by side: it chooses at the start which *side* moves, and the other
keeps its initial state. The sides do not interact, so such a run checks each of them
completely and on its own:

| MC module | Sides |
|---|---|
| `MCComposition` | the strategies (`Composition`), the fbdev planes (`FbPlanes`), the drm planes (`DrmPlanes`) |
| `MCModes` | the policy (`Modes`), the connectors (`Connectors`) |
| `MCHotplug` | one display's hotplug (`Hotplug`), the mode managers (`Configs`), the pipes (`Pipes`) |
| `MCVsync` | the clocks (`Vsync`), the event thread of the tunnels (`VtEventThread`) |
| `MCClient` | the display service (`DisplayIpc`), the composer service (`Client`) |

Composition of modules proper: `Composition` drives the strategies (`OsdPlanes`,
`VideoPlanes`, `HrPlanes`, `SinglePlane`) through frames; `Modes` drives `ModePolicy` from
two threads; `Configs` drives `RealModes`, `ActiveModes` and `SizedModes`; `Connectors`
uses the table of `AmVinfo`; `DrmPlanes` uses the calls of `DrmBo`.

Abstract specifications, and what implements them:

* `TunnelLease`: what a tunnel promises its producer. `VideoTunnel` implements it under the
  mapping at the end of that module (`LeaseKept`, checked by `VTsteady`; theorems
  `KeepsLease` and `SettledKeepsLease`).
* `BoSpec` of `DrmBo`: buffer objects in the hands of any threads. `DrmPlanes` implements it
  (theorem `PlanesImplementBo`).

What is left: proofs of the invariants listed at the end of section 5, where the
provers can do them, the TV branches of the mode policy, and the property blobs of the drm
crtc.

## 3. The modules and the code

`PROJECT.json` maps every definition to its lines. What follows is what a reader needs
in order to compare them.

### VideoTunnel

| Variable | Code |
|---|---|
| `layer[l]` | one `Hwc2Layer`: `queue` = `mQueueItems`, `cur` = `mVtBufferFd`, `pre` = `mPreVtBufferFd`, `curFence`/`prevFence` = the two release fences of `DrmFramebuffer`, `ts` = `mTimestamp`, `update` = `mVtUpdate`, `refreshed` = `mVtRefreshed`, `tunnel` = `mTunnelId`, `status` = `mVideoDisplayStatus`, `game` = `mGameMode`; `life` distinguishes a layer taken out of the display from one whose destructor ran |
| `inst[t]` | `VtInstanceMgr::mInstances[t]`: its consumers, and `bufs` = `mBufferQueue` with fd, `mRef` and release fence |
| `ev` | the event thread: idle, scanning the instances, or delivering the frames of one instance; its position also says who has `mInstanceMutex` |
| `disp[l]` | the display thread's progress on layer `l`: wait, update, present, post, release |
| `screen[l]` | the frame the video composer driver shows for `l` |
| `returned` | the buffers given back to the driver by the last step, with their fences |

SurfaceFlinger's threads: `CreateLayer`, `SetSidebandStream` (with its failure and the
same-stream case), `SetBuffer`, `SetColor`, `VtRefresh`, `CommitVt`, `ClearUpdateFlag`,
`DestroyLayer`, `DestructLayer`. The event thread: `PollVtEvents`, `HandleBuffers`,
`AcquireBuffer`, `AcquireBufferFails`, `DeliverFrames`, `RefuseFrames`, `HandleCmds`.
The display thread, per layer: `SetPresentTime`, `UpdateVtBuffer`, `PresentVt` or
`SkipPresent`, `PostFrame`, `ReleaseVtBuffer`.

Steps are cut where the code releases a lock that another thread may take. What is
coarser or finer than the code:

* `CommitVt` is one step: the composition commits with `mVtMutex` held, and the display
  thread presents under the same mutex. `PresentVt` is the three calls
  `interruptVtProcess`, `isFbUpdated`, `getBufferFd`, each of which takes the layer's
  mutex; the post to the composer and the fence it returns are a step of their own,
  because commands and deliveries go on in between.
* The display thread handles its layers in some order; the model lets each layer
  progress on its own, which allows more interleavings.
* A fence is named by the fd of the frame it was returned for. Two posts of one frame
  are therefore not told apart (see the hazard at `Hwc2Display.cpp:742`), and the
  command `hold` is left out of `VTsteady` for that reason.
* A pointer into a destroyed layer or instance (`mContentListener`,
  `mReleaseListener`) is marked dangling; calls through it refuse or do nothing. What
  undefined behaviour might do instead is not modelled.
* `clearUpInstancesLocked` disconnects before the destructor of the instance releases
  its remaining buffers, which then go to tunnel -1; they count as given back.
* After `AcquireBufferFails` the event thread goes on with the next instance or ends;
  both are allowed.
* `onNeedShowTempBufferWithStatus` is two commands, the temporary buffer and the
  status. Crop and other frame commands only set `mVtRefreshed`.
* `handleDisplayDisconnect` repeats `registerConsumer` at every vsync. By
  `TunedHasConsumer` it changes nothing, and it is not modelled.
* Not modelled: `askVtRefresh`, UVM attach and detach, crop geometry, HDR metadata,
  `mFirstVtBuffer`, `setCompositionType(DECORATION)`, the fd of the DI processor.

### VtEventThread

`instances`, `consumers` (`mInstances` and who has a consumer), `mutex`
(`mInstanceMutex`), `thread` (the position of `vtThreadMain`), `mExit`, `sf` (the thread
that connects). `Connect`, `StartThread`, `JoinThread` are the three parts of
`connectInstanceLocked` and `startThread`; `Disconnect`, `ClearUpInstances`,
`CheckEmpty`, `HandleEvents` and `SetExit` follow the loop. Frames and commands are
left to `VideoTunnel`. `stopThread` has no caller in `src`.

### VdinPost

| Variable | Code |
|---|---|
| `req` | what `mMutex` protects: `stat` = `mStat`, `exit` = `mExitThread`, `cmdQ` = `mCmdQ`, `reqs` = `mReqFbProcessor`, `proc` = `mFbProcessor` |
| `cyc` | `mode` = `mProcessMode`, the statics `capCnt` and `preCap` (`preCmd`) of `process`, `queue` = `mVdinQueue`, `onScreen` = `mVdinBufOnScreen`, `fresh` = no crc is known |
| `vdin` | the driver: whether it streams, and the buffers it may fill |
| `vout` | `hnds` and `filled`: whether `mVoutHnds` and `mVoutQueue` have elements; `shown`: what the output shows |
| `cap` | the client of a screen capture, `mSCapProcessor`, `mCapStatus` |
| `sf`, `pc` | the thread that starts and stops, and the position of `threadMain` and `process` |

SurfaceFlinger's thread (through `LoopbackDisplayPipe::handleRequest` and the display's
present): `Start`, `Stop` and `StopJoined` around the join, `RestartJoined`,
`SetFbProcessor`, `Present`. The capture's client: `AskCapture`, `PresentCapture`,
`CaptureReturns`. The thread: `StartVdin`, `Loop`, `TakeCommand` or `NoCommand` (the part
of `process` under the mutex), `GoIdle` or `Recycle`, then `Dequeue`, `DequeueFails` or
`AssertFails`, and `Leave`.

* Only the loopback use is modelled, not the screen record (`getLatestcapFb`).
* The statics `capCnt` and `preCmd` outlive the thread, and do in the model.
* Whether a frame's crc equals the one before, and whether the keystone coordinates
  changed, are nondeterministic. `SameFrames = FALSE` is used where no property depends
  on what is shown.
* `MESON_ASSERT` aborts, as in builds with `MESON_DEBUG_LEVEL > 0`; then nothing steps.
* `TVIN_IOC_S_CANVAS_RECOVERY` is taken to return the buffer it names (the comment at
  `Vdin.cpp:172` says that the driver may choose).
* Spurious wake-ups of `mCmdCond` are left out; a capture is not asked while a `stop`
  joins (see the hazard at `VdinPostProcessor.cpp:370`); the part of `restart` after
  the join is one step. `handleRequest` sets a processor only while the post processor
  runs, so the other branch of `setFbProcessor` is never taken.

### Vsync

`clock` is one `HwcVsync`; `worker` the thread it drives; `layers`, `vtOn`
(`mVtVsyncStatus`), `wb` and `video` (`mHasVideoPresent`) what `Hwc2Display` and
`MesonHwc2` decide on. A pipe makes three clocks that share only the crtc, so a behaviour
has one of them, `kind`. The setters run in other threads, under the clock's lock; the
clock's thread reads mode and period without it, so each read is a step (`soft?`, `mix?`).

* Times are left out: a tick is a tick. What a lost rebase costs (`HwcVsync.cpp:294`) is
  its phase. The function static `vsync_time` that all software clocks share (228-268)
  is therefore not seen either.
* `Deliver` tells the display or wakes the worker. An enabled thread never ends
  (`HwcVsync.cpp:139`), and nothing in the model ends one.
* `TunnelOn` is about what four places do to one clock: the two setters of a layer, the
  removal of a layer and the event thread's clean-up.

### OsdPlanes, VideoPlanes, HrPlanes, SinglePlane, Composition

A strategy is a sequence of steps that move layers between the lists of one object.
Each step is an operator on the record `m` of these lists, and `decideComposition` is
their composition, in the code's order. Geometry is reduced to the comparisons the code
makes (scale ratios, odd widths, quarters of the screen); a frame buffer is a record of
its kind and these facts.

* Which strategy a display has follows from its planes (`StrategyOf`).
  `MultiplanesComposition` is given to no display and is not modelled.
* The graphics steps of HR that have the text of Di's are the same operators; those that
  differ are written out in `HrPlanes`.
* `Stacked`, `HolePunched` and `ShownAsTold` exempt HR with a sideband layer, whose type
  the strategy leaves undetermined (`MultiplanesWithHRComposition.cpp:422-449`).
* The client composer keeps the holes it was last given, and the single-plane strategy
  does not clear them when no layer is composed; so does the model (`holes`).

### ModePolicy, Modes

`p` is the policy's members with the boot environment and what the driver was told;
`ModePolicy` has the operators on it, `Modes` the two threads. `setSourceDisplay` and
`setSourceOutputMode` hold `mMutex`; what callers do before and after is unlocked and a
step of its own. The closed vendor library is a function that keeps the current mode or
takes the best, with or without dolby vision (`Libs`, external).

* A box on hdmi: no TV sink, cvbs or quiescent branch, no position, no per-mode deep
  colour. `ModeAsked` exempts a call the event thread came into.

### Connectors, AmVinfo

Both back ends' lists of modes, the groups modes can be changed in without a blank, and
which of two rates the driver outputs: decided by a node of sysfs that is latched at the
mode set (external). `AmVinfo` is the table as data. Exempt: modes nobody in this code
set (`stray`), and a uevent overlooked while one waits.

A group is built around its first mode, with which alone a mode that would join is compared;
the first range of the size that holds the mode decides (`InOneRange`). `GroupsSafe` asks as much and no
more: the display of the run that has qms lists an interlaced mode ahead of the progressive ones of its
size, which then heads their group, and has two ranges of that size that overlap (section 6).

### Hotplug

`ev` is the uevent thread inside `HwDisplayEventListener::handle`, the pipe and
`Hwc2Display::onHotplug`/`onModeChanged`; `bc` the binder thread in `setActiveConfig`,
`setColorConversion` or the low-latency call; `hdmi` the connector as last read, `conn`
the pipe's. With nothing plugged the pipe uses the virtual connector with `dummy_l`.

* `Quiet` is: no event waits or is handled, no call is under way.
* The wait of 3 s in `setActiveConfig` has no predicate: any of its wake-ups, or the
  time-out, may come first.
* That the crtc no longer keeps modes back (`setHotplugStatus`) and that the mode kept is set
  (`initDisplayMode`) are two steps: a call may set its mode in between.
* `FAKE_PREVIOUS_MODE` is the latest mode under another name: it keeps its group (`fakeGroup`).

### RealModes, ActiveModes, SizedModes, Configs

The four managers as operators on one record; `Configs` has the event thread that makes
the list again, SurfaceFlinger's several calls to read it, one to set an id, and the
display service's preferred scan.

* `PeriodIsScreen` exempts a call whose list was exchanged between its look at a mode and
  its change (`Hwc2Display.cpp:1779`).
* `VariableModeMgr` has no lock, its steps are cut where it reads.

### Pipes

Five pipes over a table of bindings (`wiring`): `mPipes`, the connector of each crtc, the
crtc of each connector and plane. Events come from the uevent thread and, at power off,
from a binder thread. `raced` exempts overlapping handlers of `MultiDisplayDrmPipe`,
which has no lock; `Bound` exempts boards with a dynamic viu, where planes move later.
`HotplugPipes` puts the pipes beside `Hotplug`, for the run and the proofs alike, and says
what the boards are (`BoardsAssumption`).

### Present

`sf` is SurfaceFlinger's step in a frame: try, calibrate, validate, learn, accept, target,
present, commit, flip, each a call or the part of one under a lock. `layer` and `disp` are
`Hwc2Layer` and `Hwc2Display`, `res` the client's resources, `req` the request of the crtc,
`kernel` what each plane shows. A picture is the set of layers in it with the buffer of
each, so that `ScreenCurrent` compares what is shown with what was asked.

* Which layers get a plane is any choice here; it is `Composition`'s matter.
* `dropped` records a refused commit or mode, or a request another thread freed: then the
  screen may stay behind until the next frame, and `ScreenCurrent` says nothing.
* External: SurfaceFlinger tries `presentOrValidate` only when it composed nothing in the
  frame before.

### Client

`op` is one of the client's calls with its place in it; `res[c]` its `ComposerResources`;
`live` the imported handles. A call holds the client's `mStateMutex`; hotplug callbacks
renew or remove displays without it. A second client is made while the first one's
destructor waits. Layer ids are `mLayerSeq` and a slot of `mLayersBitmap`; both wrap.

### DisplayIpc

Each read or write of `is_ready` and `meson_ipc_client` is a step, since `DisplayClient`
has no lock; a server's life is a number. `Sent` and `Handled` say of each call of the
interface which members its message has and which its handler takes.
`NotDeaf` exempts two threads that look for the server at once (`raced`) and a server dead
before it was linked (`unwatched`).

`said` is whether a call returned what it returns on success, `served` whether the server
carried it out, and `Kind` how the two relate. A getter that fills in its argument says true
exactly when it was answered. `setFrameRate` and `getQmsVrrCap` return the answer (`Values`),
so success needs an answer but an answer need not be success. A setter does not wait: it says
true even of a lost message, and only its false means anything. `Answered` leaves out the two
calls that pass a buffer, whose error is uninitialised when the transaction fails, and
`setFrameRate` without a server (`NoServer`), which returns `false`, its 0.

### Processors

One processor of a video (`kind`), its thread, its queue and its slots, against the
composing thread and the manager. `nn` is what the uvm driver keeps of each frame
(external), `open` counts the descriptors that have yet to be closed. `refused` exempts a DI
buffer the driver would not take back, whose fence is closed twice (`DiProcessor.cpp`,
Q_OUTPUT). `lost` counts the fences nobody will close: those DI sends while
`vendor.di_backend.enable` is 0, which `NnProcessor` keeps in a slot and writes over
(`NnProcessor.cpp:498`, 690). `MaxLost` bounds how many come; while the property is on
there are none, which `DescriptorsKept` says too.

### FbPlanes

Osd, cursor and old video plane on the frame buffer drivers, set one after the other; a
flip is shown at a later vsync and signals its fence then. `early` exempts a skipped
frame, which gives its buffers back without a fence; `refused`, the flip whose fence the
code never initialises (`HwDisplayCrtcFbdev.cpp:209-220`).

### DrmBo, DrmPlanes

`DrmBo`: handles, their counts `mHndRefs`, framebuffers, and each thread's place in `import`
or `release`. `DrmPlanes` adds to it one plane per display: its buffer object, its cache of
three, the request, and what the kernel shows. SurfaceFlinger's thread sets and flips, the
event thread blanks and cleans up. The kernel turns a plane off whose framebuffer is removed
(external) and may take any free id.

* `raced` records that two threads were in `import` or `release` at once, where the counts
  go wrong (`DrmBo.cpp:160`); such a run ends.
* `ShownAlive` exempts a plane that is blank, and three or more refused frames in a row.

### TunnelLease

`lent`, `shown`, `back`: frames on loan, on screens, and given back by the last step with
or without a fence. `Take`, `Show` and `Give` say what a tunnel promises: what is taken was
not on loan, what is shown is, and what goes back while it is shown has its fence.

## 4. The runs

The MC modules give the constants values; symmetry is used only in runs without liveness
properties. `Ops`, `Flags` and `Calls` choose the requests an instance makes, so that each
run spends its states on one question.

| Run | Instance | Shows |
|---|---|---|
| `VTsteady` | 1 layer, 1 tunnel, 3 fds, frames for times 1 and 3 (3 is implausibly far while the clock is 0), clock 0..3 | no frame is forgotten, held twice, given back in use; a destroyed layer leaves nothing (`BuffersSafe`); the tunnel keeps its lease (`LeaseKept`); with refreshes, commands, commits, failed connects |
| `VTops` | 1 layer, 2 tunnels, 2 fds | with everything that changes the layer's type, retunes, skipped presents and driver errors: what is held is held once and open |
| `VTlive` | 1 layer, 1 tunnel, 2 fds | every frame delivered leaves the queue again |
| `VdinCycle` | 3 vdin buffers, 1 processor, 2 waiting commands | places of the buffers (`VdinBuffers`); capture served, idle, stop (`Serves`) |
| `Planes` | scenes of up to 3 z-orders with any kinds and 4 with the main ones, 1-2 osd and 1-2 video planes, 2 frames; fbdev: 2 ui buffers, 2 targets, 3 frames, 2 flips queued; drm: 2 displays, 2 buffers, 3 handles, 4 ids per plane | the strategies, the fbdev planes and the drm planes |
| `Modes` | 3 modes, displays with dolby vision, with vrr and low latency, and unreadable; 2 binder calls, 2 plugs; connectors of both back ends in each fraction mode, 1 replug, 2 calls; a list with an interlaced mode first of its size, ranges that overlap | what was asked or booted is driven, nothing stays muted; reported and asked are the driver's mode; groups |
| `Hotplug` | 2 displays, 2 plugs, 1 call; 4 managers, 4 displays, 2 changes, 1 call; 6 boards, 4 moves | composing, capabilities, ids, vsync period and bindings once events are handled |
| `Present` | 2 layers, 2 planes, 2 frames, 1 event, 1 call, 1 refusal | the screen ends up current; the books on layers agree; the connector down, nothing is drawn |
| `Vsync` | 2 layers; 3 tunnels with driver errors | the clock is on when a tunnel layer is there and goes on ticking; the event thread ends, and never blocks a connect |
| `Processors` | 2 frames, 3 slots, a DI queue of 2, 1 fence from DI with its back end off | descriptors, answers, and no call that hangs |
| `Client` | 2 clients, 2 handles, 1 buffer slot, 2 layers, 2 sequence numbers, 3 calls, 2 plugs; 2 threads, 2 calls, 1 death, a record of 1 | handles owned once, ids of one layer; no deaf client, no success without an answer |
| `CvbsSeamless` | fbdev cvbs | section 6 |

Why the bounds are enough. Three buffers let a layer have a frame on screen, one posted
and one waiting; a drop needs two due frames, and a reused fd one that was given back. A
clock of four ticks lets a frame be early, due and overtaken; two tunnels are what a
retune needs. Three vdin buffers are the fewest for which `VDIN_CAP_CNT` is more than the
one on screen, and two commands let a command be behind an update. Three z-orders let a
video be between ui layers, four let two composed ranges compete for the last plane; two
frames let a plane keep the picture of the frame before. The drm planes' cache of three
needs a fourth frame, which the ids in turn allow; their behaviours are not bounded. Two
plugs exchange a display while its mode is being set, and one call overlaps either. Two
layers and one event let a frame be in every state when the display goes, one refusal is
what the early returns react to. Two layer sequence numbers and slots make ids wrap; a
record of one and two threads over-fill it. In the proofs of section 5 these bounds are
gone.

Deadlock is checked in `VTlive`, `Vsync` and `Processors`. It is not in `VTsteady`
and `VTops`, where all layers may be destroyed and nothing is left to happen; in
`VdinCycle`, where an abort ends everything and `stop` can hang (hazard at
`VdinPostProcessor.cpp:463`: exit is set and notified between the loop's test and the
wait); and in `Planes`, `Modes`, `Hotplug`, `Present` and `Client`, whose calls and events are
bounded.

**Fairness.** `VTlive`: weak fairness of `Deliver` (a delivery that has begun is
completed, the event thread does not stop while it has `mInstanceMutex`) and of each
layer's display step (the thread runs); strong fairness of `Vsync` (vsyncs keep arriving,
with later times until the bound) and of `ClearUpdateFlag` (SurfaceFlinger presents again
and again while it uses layers). `VdinCycle`: weak fairness of the processing thread and
of the return of `pthread_join`, strong fairness of the successful dequeue: vdin captures a
running output, so the poll cannot time out every time. `Vsync`: weak fairness of the
clock's thread, of the worker, of a setter that has begun, and of the steps of the event
thread and of a thread that connects. `Processors`: weak fairness of the composing thread
within a call, of each processor's thread and of the thread that allocates; strong
fairness of the DI driver giving a buffer back. No fairness is assumed of clients that
ask for something.

**Mutants.** Definitions marked `Mutant:` are not part of any specification. Each is a
plausible slip in the definition it stands next to (a lost reset, an off-by-one, a
guard left out); put in its place, it makes one of the properties fail, which shows
that the property depends on that code.

## 5. The proofs

All proofs hold for every value of the constants that satisfies the named assumptions;
the numbers of frames, events and calls in particular are not bounded in them.

### VideoTunnelProofs

For every set of layers, tunnels, fds, timestamps and requests, shared tunnels included,
from `IdAssumption`, `TimeAssumption` and `OpsAssumption` (the null values are no fd and no
tunnel, times are integers):

* `TypeCorrect`: `Spec => []TypeOK`;
* `CurrentAtHead`: `Spec => []CurrentIsHead`, so the unchecked pops at
  `Hwc2Layer.cpp:683` and `776` are safe;
* `TunedConsumes`: `Spec => []TunedHasConsumer`.

`IInv` says of each layer that it is well typed, `HeadOK` and `TunedOK`, and types the
rest. `CurrentIsHead` alone is not inductive: `setSidebandStream` clears the queue of a
layer after it has released the current frame only if the layer was tuned; that a layer
without a tunnel has neither frames nor a current one is `TunedOK`, and the two are
proved together. There is one lemma per operation on a layer (what it returns is again
good) and one per action.

`HeldWhileOpen`, in the second part of the module: `Spec => []HeldSafe` under the hypothesis `~Shared`, that no two layers are
tuned to one tunnel (`MayTune`). Without it the property is false: `acquireBuffer` counts a
consumer's reference only when it calls that consumer (`VtInstance.cpp:188`). No request is
excluded, not even a driver that fails or a layer that changes its type. The inductive
invariant `HInv` adds to `HeldSafe`

* `Alone`: one layer is tuned to a tunnel or registered with it, and `Tied`: an instance
  knows of no layer that went elsewhere, except one that has ended;
* of a layer without a tunnel, that it has no last frame either (`Sound`);
* `Delivering`: the frames of a batch on its way are distinct, held by none of the consumers
  that still wait for it, out of the driver and without a reference.

A step of a layer is a sequence of changes (release, unregister, clear up, register). So the
invariant is stated of any layers `ls` and instances `is`, and there is one lemma per change;
`CurrentAtHead` gives that the current frame is the head of the queue, so that the calls
of a release name every frame once.

The third part of the module is about the lease. Under `~Shared` and the requests of `VTsteady` (`Ops \subseteq SteadyOps`), for any number of
layers, frames, timestamps and deliveries:

* `BuffersStaySafe` and `KeepsLease`: with one tunnel, `Spec => []BuffersSafe` and
  `Spec => LeaseKept`, which is what `VTsteady` checks on one layer and three fds;
* `SettledStaySafe` and `SettledKeepsLease`: the same of `Spec /\ [][Settled]_vars` with any
  number of tunnels.

What the hypotheses exclude are requests for which the properties are false: added to
`VTsteady`, each of them lets TLC find `BuffersSafe` violated. A layer that
gets a buffer or a colour, or a driver error in the middle of a batch, leaves a frame that no
layer will give back; game mode, a temporary buffer, `hold` and a skipped present let a
frame go back with a fence that is not its own, or none (section 6, and the hazards).
`VTops` and `HeldWhileOpen` have them all. `Settled` says that a layer is not tuned to
another tunnel between the choice of its frame and the post of it. The code does not prevent
that, TLC shows what happens then (section 6), and the theorems show that it is the only
thing that goes wrong with several tunnels.

The invariant `SInv` adds to `IInv` and `HInv`

* `Tidy`, of each layer with the display thread's progress on it: `update` is set exactly
  while there is a current frame; a frame that is due has been posted before `releaseVtBuffer`
  shifts it, so `curFence` is its fence; the last frame's fence is in `prevFence`, or a
  newer one of the same frame in `curFence`, if a refresh posted it again (`Cycle`);
* `Linked`: an instance knows exactly the layers that are tuned to it and listen, and the
  others hold nothing;
* `Ledger`: every frame that is out of the driver is out once, without a fence yet, and has
  one reference and a consumer that holds it, or none yet and is on its way (`Accounted`);
* `Screens`: a frame that is on a screen and out of the driver is the layer's last frame, or
  its current one just posted (`Shows`). A screen may keep a frame that went back, and then
  a new frame may get the number of that one: `Renumbered` forgets it.

`BuffersSafe` without `Tidy` is not inductive: that the fence of a returned frame is its own
depends on where the display thread is. Each step gives frames back (`Given`), posts one
(`Posted`) or takes some (`Taken`), and these three are the steps of `TunnelLease`.

### VdinPostProofs

From `BufsAssumption` (finitely many buffers, three or more; null is none of them) and
`FlagsAssumption`:

* `TypeCorrect`, which includes `0 <= capCnt <= VDIN_CAP_CNT`;
* `UpdatesAlwaysMatched`: `mReqFbProcessor.front()` is never called on an empty queue;
* `NoBufferLost`: `Spec => []BuffersAccounted`;
* `VdinNeverStarves`: `Spec => []VdinKeepsOne`, for 3, 6 or any number of buffers;
* `BuffersKept`: the last two together are `VdinBuffers`.

`IInv` adds to the types: vdin streams exactly while the thread is between `startVdin`
and `stopVdin`, and `mExitThread` means that there is no thread unless a stop is in
progress (`ThreadsOK`: without it a present might create a second thread); at most
`VDIN_CAP_CNT` buffers are taken, and fewer at the dequeue (`PlacesOK`: this is what
makes `VdinKeepsOne` inductive, since a cycle either goes idle, or had one to spare, or
gives at least one back first). The step from counts to sets uses the cardinality of
the elements of a sequence.

### DisplayProofs

Of `Vsync`, for any set of layers and in all three uses of the clock: `TypeCorrect` and `TunnelsOn`
(`Spec => []TunnelOn`). `TunnelOn` is not inductive: that `handleVtThreadLocked` skips
`setEnabled` when `mVtVsyncStatus` is already what it wants is right only because that
flag is what the clock was last told, a thread was made before it was first set, and
the white board's calls never meet the tunnels' clock. This is `VtClock`.

Of `Configs` under `RealModeMgr`, for any displays and any number and order of plugs, mode
changes, readings and calls, from `RealAssumption`: every name has its substrings, displays
have sequences of modes, `primaryHotplugEnabled()` holds, and a display with an interlaced
mode has another one that is reported beside it (`ReportsMore`; section 6 says what happens
without):

* `IdsKeepMeaning`: `IdKeepsMeaning`; an id SurfaceFlinger knows is gone or is a mode of the width
  and rate it read (`KeepsMeaning`), and the active id is one of the list (`ActiveListed`).

It is not inductive: a list made again must not come back to an id that is known
but no longer listed. `KnownOK` adds that no known id is beyond the largest one of the list.
`ManagerOK` has the list on an interval of ids that is not empty, which gives the largest id
(`Largest`) and makes the ids of a list made again new (`FirstIsNew`, `UpdateKeeps`). `Follows`
relates one list to the next, its ids the same modes or new, and is transitive: a preferred
scan that renames modes and sets one of them is two such steps. That each place counted is the
place of some mode (`RankHit`) is the pigeonhole principle.

### PresentProofs

From `PresentAssumption` (finitely many layers; the client target and no framebuffer are no
layers), for any layers and planes and any number of frames, events and calls:

* `TypeCorrect`;
* `DarkWhileDown`: the action property `DarkWhileChanging`. Its invariant `Dark`: with the
  connector down composition is skipped or what was validated is empty; a frame that has
  passed the test of `mSkipComposition` holds the mutex that setting it needs; and only a
  frame about to flip has anything to show in the crtc's request;
* `BooksAgree`: `LayersAgree`. `Books` says at each step of the event thread's clean-up
  which of the three books may lag: SurfaceFlinger knows every layer there is, the display's
  table may be behind from the clean-up, the resources' from `removeDisplay`, each until
  SurfaceFlinger has had its own `onHotplug`;
* `StaysCurrent`: `ScreenCurrent`. It speaks of states at rest, so its invariant `Screen` has
  to follow a picture through every step of a frame, with the event thread and the service in
  between. `Newest`: the layers have the newest buffers. `Drawn`: what validate collects,
  whether the geometry was sent or not, is SurfaceFlinger's set of layers, and a present
  without validate has that set already (nothing is updated, and of two finite sets, one in
  the other and of the same size, there is only one). `Plan` and `Composes`: the last choice
  covers these layers, and a client target is handed over before it is needed. `Marked`: a
  plane that has a layer shows its newest buffer, or the layer is marked, so that the early
  return of `setPlane` leaves nothing old; from these a commit gives every plane what was
  chosen (`CommitShows`, `Drew`). `Connected`, `Asked` and `TakenIn` say who owes another frame
  when it is not so: a mode on its way, a validate the resources want, a refresh for a change
  outside the layers. None of it holds while SurfaceFlinger's layers are being given up
  (`Sound`), nor after a refusal.

### ClientProofs

From `ClientAssumption` (the null handle is no handle and `"none"` no client, buffer slots are
numbered from 1, layer slots are numbers, there is at least one sequence number), for any
clients, handles, slots and any number of calls and plug events:

* `TypeCorrect`;
* `IdsStay`: `IdsNameOneLayer`. Of every id somebody keeps (SurfaceFlinger, the resources, a
  call between making a layer and adding or undoing it) the HAL's layer has the number it was
  given with, or a later one; that numbers of one id are equal modulo `Seqs` makes a later one
  later by `Seqs` (`SameRemainder`), and the ids in the HAL have each a slot of their own, set in
  the bitmap (`TableOK`), so that `createLayerId` never gives one of them;
* `HandlesStayOwned`: `HandlesOwned`. `Ledger` says it of places instead of counts: no two
  places (slots of caches, the handle a call imported, the one it replaced) have one handle,
  and the live handles are those at places. A step moves handles along a bijection of places
  and frees some (`OwnedMoves`), frees those of some places (`LedgerFrees`) or puts a fresh one
  at an empty place (`LedgerTakes`): the import of `getHandle` goes to its slot and what was
  there to the call, and an import on error is freed. It is not inductive without the types of
  the calls: the slots a `clearSlots` still has to do are slots of a buffer cache, and a stream
  has none. `OneOwner` counts the owners of a handle from its one place.

The second part of the module is about the display service (`DisplayIpc`).
From `IpcAssumption` (finitely many threads; the binder thread is not one of them; calls are
calls of the interface):

* `AlwaysReachable`: `Reachable`, that is `NotDeaf` and `RecordFits`. `Heard` follows the
  thread that looks for the server: until two do (`Alone`), a ready client is linked to the
  live server it calls, or a notice is due, or that thread is between the link and the
  flag. `RecordFits` counts the calls the server has recorded (cardinality of a set of
  threads);
* `AlwaysAnswered`: `Answered`. Every message of the interface carries what its handler
  takes: a lemma for each group of calls, then over all of `Every`; and a call that
  returned is `Truthful` of what the server did, as its kind allows (`IpcCalls`). Not judged:
  the two calls that pass a buffer and `setFrameRate` without a server;
* `IpcTypeCorrect`.

### HotplugProofs

From `TvsAssumption` (a display has modes; the dummy mode and the made-up one are not among
them), for any displays, vrr groups, plugs, resumes and calls:

* `TypeCorrect`;
* `CapsStayOfSink`: `CapsOfSink`;
* `StaysComposed`: `Spec /\ [][Announced]_vars => []Composed`, where `Announced` says that the
  kernel tells of every switch that leaves the dummy mode. Without it TLC finds `Composed`
  violated with three calls (section 6); the theorem shows that this is the only way.

`Core` follows what is plugged through the queue: the last hotplug among the uevents agrees
with the sink (`LastAgrees`), and once none is due the pipe has its connector, its modes and
capabilities (`Followed`); between `HotplugStart` and the policy the crtc may have a mode of
the other connector, afterwards the virtual connector has the dummy mode and no other has it
(`Driven`). `Skips` is what `Composed` is without the silence: composition is skipped for the
dummy mode and only then, but for a `begin` or `complete` still to be handled, and no `begin`
comes without its `complete` (`Completed`). `Ids` is needed to know that no call asks for the
dummy mode: it is a configuration only where it is the only one, so the active one.

And about the pipes (`Pipes`), from `BoardsAssumption`: a pipeline of `getPipeline` with the
displays it asserts, which share no connector; `MultiDisplayDrmPipe` on drm; a dynamic viu
for a panel and an hdmi under `DualDisplayPipe`, which alone reads it; two crtcs; planes for
each pipe. The run evaluates it for its six boards. For any such board, in whatever order
cables, sleeps, uevents, power off and requests come:

* `CableStaysFollowed`: `CableFollowed`. The last cable event that waits tells where the
  cable is (`LastCable`); when none waits and the driver neither sleeps nor was suspended
  last, the event handled last and the connector as last read tell of it too (`EventTrue`),
  so what `getPipeCfg` chooses then is right (`PlanFollows`), and every display that the
  thread at work has passed has been given it, those ahead of it not yet (`FollowedAll`).
  A cable that moves while an event is handled leaves an event behind it in the queue, and
  nothing is claimed until that one is handled. `Alone` is the lock;
* `StaysBound`: `Bound`. Whatever a display has is among what `getPipeCfg` may choose for it
  (`Planned`), and choices for two displays have nothing in common (`PlansApart`); a wiring
  binds what it was asked to (`DrmRewires`, `FbRewires`) and touches no other display's
  (`WiresApart`). On fbdev unbinding frees the connector that the crtc had, so the latter
  must be its own display's (`FbWiring`); with a dynamic viu both crtcs move with the last
  event (`Crossed`). On drm with a dynamic viu nothing of it is stated: see the hazard at
  `DualDisplayPipe.cpp:176`.

### ProcessorsProofs

From `SlotsAssumption` (there is a slot, and a slot of di), for any numbers of frames and
slots and any length of di's queue, and each of the four processors:

* `TypeCorrect`;
* `DescriptorsStay`: `DescriptorsKept`, until the di driver refuses a buffer it is
  given back: the slot then stays in front of the queue with a fence that was closed, and
  nothing is claimed from then on. The fences left open for good are those of `lost`, of which
  there are none while the di back end is on (`LostOK`).

`DescriptorsKept` is an equation between what is open and what is somewhere, and it is not
inductive: a slot that is written over, or reset by a teardown, takes what it holds out of one
side only. `IInv` says where that cannot happen.

* `Rests`: a processor that is not set up has no thread, no queue (but for di) and nothing in
  its slots, so a setup loses nothing;
* `Kinds`: a thread at work has the front of the queue, and what the threads of the four
  kinds can be doing;
* `SrInv`: the queue of sr holds the slots used last in turn (`Back`), fewer than there are
  before one is added; so the slot of the next frame is none of them, and only a queued slot
  has a fence of the frame before or of the input. The release fence of the current slot is
  not there yet when `onFrameDisplayed` sets it;
* `DiInv`: an unused slot of di holds nothing, and a slot taken for a frame was unused; the
  slots in the queue, but the one the thread has already given to the driver (`Line`), are
  used and different, and none is the current one whose fence is awaited. That is why
  resetting the front slot does not reset another frame's.

The rest is arithmetic: one lemma for a slot that changes (`InSlots` is the sum of four
cardinalities), one for what di keeps of the last frame (`Kept`), and one per action.

### PlanesProofs

The drm planes, from `DrmAssumption` (null values are none of the ids; finitely many framebuffer ids), for
any displays, buffers and handles, provided that the kernel takes framebuffer ids and that
displays show buffers (`Kernel`; both only type the two bounds `NewFbs` and `Brings`):

* `HandlesStayOpen`: `HandlesOpen`, a handle is open as long as a plane uses it and no
  longer, and an unplugged display holds nothing once it is reported;
* `ShownStaysAlive`: the action property `ShownAlive`;
* `PlanesImplementBo`: the planes implement `BoSpec`.

`BoInv` is about any threads: `refs[h]` is the number of framebuffers of `h`, plus one
between removal and release, minus one between creation and `refHandle` (`Counted`); a
handle is open for its framebuffers or for a call about to use or close it (`OpenFor`);
one thread is in these calls at a time until `raced` (`OneAtATime`). `PlaneInv` adds where
each framebuffer is: held by one plane, being let go of by one thread, or just made, and
nowhere twice (`Owned`); and that the screen shows the last frame of the cache but as many
as it has not seen (`OnScreen`), from which a cache of three is enough.

The planes of the frame buffer drivers, from `FbAssumption` (no client target is a buffer of
the layer, no scene asks for the values the code keeps for "never set"), for any buffers and
scenes:

* `FbTypeCorrect`: types;
* `BuffersNotOverwritten`: `NotOverwritten`;
* `PlanesStayFollowing`: `PlanesFollow`.

`FbInv` says what neither property does by itself. `Told`: what a plane remembers is what its
driver was told, so leaving out a call that would change nothing is right. `Returned`: the
buffers of the layer and of the client target are not among those given back, and one that
was is `Away`: neither the flip of its fence nor a later one shows it. `FlipsCounted` ties the number of a flip to its place in the queue.
`Follows` is what the last frame asked, and `Silent` that a video plane with no video was
muted when its video left, which a frame without video relies on. One lemma per plane says
what a call changes, another that it leaves the others alone (`Same...`); `FrameSet` and
`DarkSet` put them in the order of `presentDisplay` and of `blankDisplay`.

### Only model-checked

* Liveness: `FramesMoveOn`, `Serves`, `Delivers`, `ThreadStops`, `BothGoOn`. Liveness under
  fairness, `ENABLED` and induction over data are outside what the installed provers do.
* The strategies (`EveryPlaneSet`, `Stacked`, `HolePunched`, `ShownAsTold`) and the mode policy
  (`BootModeRestored`, `ModeAsked`, `Applied`): what they compute is a fold over lists, and a
  proof would be by induction over data.
* `ActiveListed` of the three other mode managers (the run `Hotplug` checks it as a part of
  `IdKeepsMeaning`) and `PeriodIsScreen`: their lists are sorted and filtered sequences, of which
  the library states nothing that could be cited.
* `ReportedIsDriven`, `AskedIsDriven`, `GroupsSafe`: the lists of a connector are joined from
  sequences and put in groups by a fold.

TLC checks all of these within the bounds of section 4.

## 6. Where code and text disagree

`CvbsSeamless` is the run of one disagreement: `RealModeMgr.cpp:649` takes a change between
modes of one group for seamless, and the comment at 657 says that then only the vsync
period changes; on fbdev every cvbs mode has group 0, and 480cvbs and 576cvbs differ in
size.

Others TLC has shown on these models, with the constants named; they are kept here and as
notes of hazards, not as runs:

* game mode switched off between post and release makes a shown frame go back without its
  fence (`VideoTunnel`, `Ops` with `game`; comment `Hwc2Layer.cpp:1016`);
* of two layers on one tunnel the first one's release gives a frame back before the second
  has been handed it (`Shared = TRUE`, two layers; `VtInstance.cpp:188`);
* a layer tuned to another tunnel between `PresentVt` and `PostFrame` gives the frame chosen
  back before it is posted (`VideoTunnel`, two tunnels, the other constants as in
  `VTsteady`): `setSidebandStream` (`Hwc2Layer.cpp:259`) does not take `mVtMutex`, which
  `destroyLayer` and the commit do;
* a tunnel layer that gets a colour keeps its frames and its consumer past its destructor
  (`Ops = {color, destroy}`; `Hwc2Layer.cpp:752`);
* a buffer followed by the same sideband stream leaves `mNeedReleaseVtResource` set, and the
  next present disconnects the layer (`Hwc2Layer.cpp:446`);
* a connect between the event thread's last look at `mInstances` and its `mExit` is served by
  no thread (`VtHandleEventsThread.cpp:83`);
* a display plugged in may stay skipped: a plug out and a plug in, each handled while a call
  has turned `mCallOnHotPlug` off, leave the list of the modes of before, and a seamless switch
  between `setPendingMode` and the policy of the plug in leaves the dummy mode; if the kernel
  sends no uevents for it, as for other seamless switches, the policy finds the mode set
  and nothing ends the skip (`Hotplug`, three calls; `RealModeMgr.cpp:657`);
* a sink with nothing but an interlaced mode empties the list, and its id is 0 again although
  SurfaceFlinger still knows another mode by 0, against "change config Id sequential"
  (`RealModeMgr.cpp:284` and 154; `Configs`, a display with `I1080i60` alone added);
* with an unchanged crc the vdin buffer kept is not the one shown
  (`VdinPostProcessor.cpp:598`); started, stopped or restarted before the first present the
  processor has no output buffers and the first frame fails the assertion (323);
* an interlaced mode ahead of the progressive ones of its size and range heads their group,
  since only the mode that joins is looked at, against "interlace mode does not support vrr"
  (`DrmConnector.cpp:360`; `QmsTv` of `MCModes`); and two modes of a group need share no range,
  being compared with the first alone, against "can switch seamless to each other" (339; 24 and
  60 Hz after 50 Hz, with the ranges of `QmsTv`);
* `setFrameRate` returns `false`, that is 0 as after a success, when no server is found, but
  `-EINVAL` without an answer (`DisplayAdapterRemote.cpp:268` and 277); `getQmsVrrCap` returns
  false for an answer "false" and for none (436) (`Answered` without its exemptions);
* a fence DI sends while `vendor.di_backend.enable` is 0 is neither awaited nor closed
  (`NnProcessor.cpp:690`; `DescriptorsKept` with `lost = 0` asked of every state);
* dolby vision may stay on while a low-latency game mode is asked
  (`ModePolicy.cpp:1639` against the comment at 1622);
* a changed view port does not force a validate (comment `Hwc2Display.cpp:1497`).

Read in the code while modelling, in parts the models leave out or exempt: `mHndRefs`, `mViewPorts`, `mFracRefreshRates` are read without
a lock; `MesonHwc2::onHotplug` turns a primary disconnect into a connect; a VRR display left
alone by the QMS return at boot gets no HDCP; `setActiveConfig` may wait its 3 s holding
`mStateMutex`.

## 7. Not modelled

The event thread utility (nothing makes one); `MultiplanesComposition` (no display gets it);
virtual displays (compiled out); the 2.x services and the aidl decoding; AiFace, the GPU
variant of AIPQ and what the networks compute; HDCP, screen position, quiescent boot, the TV
sink and cvbs branches of the policy; the property blobs of the drm crtc; dump, screenshots,
test programs. `PROJECT.json` gives the reason for each component.
