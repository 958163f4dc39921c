----------------------------- MODULE Processors -----------------------------
(***************************************************************************)
(* The processors a video's frames pass through before a plane shows them,    *)
(* and VideoProcessorsManager, which makes, runs, resets and destroys them:   *)
(* "sr" is NnProcessor (super resolution), "pq" AipqProcessor, "color"        *)
(* AiColorProcessor and "di" DiProcessor.  Each has a thread of its own and a  *)
(* queue of slots; asyncProcess and onBufferDisplayed run in the composing    *)
(* thread, which waits in them.  The processors of a video share only that    *)
(* thread, so that one behaviour follows one of them, `kind`.                 *)
(*                                                                         *)
(* External, as the code uses them: the uvm driver, which keeps `nn`, what    *)
(* it has been told of each frame, and attaches a frame once (but a DI        *)
(* backend's is attached whenever it is shown); the DI driver, which gives a  *)
(* repeated frame no fence.                                                   *)
(***************************************************************************)
EXTENDS Naturals, Sequences, FiniteSets

CONSTANTS Frame,     \* the buffers of the decoder
          Slots,     \* SR_OUT_BUF_COUNT, AIPQ_ and AICOLOR_MAX_CACHE_COUNT
          DiSlots,   \* DI_OUT_BUF_COUNT
          DiQueue,   \* the longest queue onBufferDisplayed leaves to DI's thread
          MaxLost    \* bound: DI fences that come while the DI back end is off

ASSUME SlotsAssumption == Slots \in Nat \ {0} /\ {DiSlots, DiQueue} \subseteq Nat \ {0}

VARIABLES kind,      \* the processor followed
          has,       \* the manager has it
          mInited, mExitThread,
          thread,    \* where threadMain is: "none", "idle" or within threadProcess
          queue,     \* mBuf_index_q, mBuf_fd_q
          buf,       \* mSrBuf, mAipqIndex, mAiColorIndex, mDi_Out
          cur,       \* mBuf_index of sr and di, mCacheIndex of the others
          odd,       \* mBuf_index % 2 of pq and color
          mNeed_fence,
          dma,       \* the buffers the network reads or writes, and their thread
          vinfo,     \* mVInfo_width
          backend,   \* mDiBackendEn
          loaded,    \* mModelLoaded
          nn,        \* the status of each frame in the driver
          di,        \* what DiProcessor keeps of the last frame
          composer,  \* where the composing thread is
          reset,     \* the manager's mResetFlagPairs
          open,      \* descriptors dup'ed or received that have yet to be closed
          lost,      \* those left open for good
          refused    \* the DI driver refused a buffer it was given back

pool == <<buf, queue, cur, odd, mNeed_fence>>
life == <<kind, has, mInited, mExitThread, reset>>
env == <<dma, vinfo, backend, loaded>>
vars == <<life, pool, env, thread, nn, di, composer, open, refused, lost>>

Unused == [frame |-> 0, fd |-> FALSE, fence |-> FALSE, last |-> FALSE, input |-> FALSE, used |-> FALSE]

NoDi == [fd |-> FALSE, fence |-> FALSE, out |-> FALSE, interlaced |-> FALSE,
         first |-> FALSE, layer |-> FALSE]

Held(bits) == Cardinality({i \in DOMAIN bits : bits[i]})
Pending == {"wait", "start"}
Last(q) == q[Len(q)]

-----------------------------------------------------------------------------
(* VideoProcessorsManager, in the composing thread                           *)

Composing == has /\ composer = "idle"

(* setup() of a processor; the thread is started unless one runs.            *)
setupSr ==
    /\ mInited' = TRUE /\ mExitThread' = FALSE /\ thread' = "idle"
    /\ cur' = 0 /\ mNeed_fence' = FALSE
    /\ UNCHANGED <<queue, buf, odd, di>>

setupPq ==
    /\ mInited' = TRUE /\ mExitThread' = FALSE /\ thread' = "idle"
    /\ UNCHANGED <<pool, di>>

setupDi ==
    /\ mInited' = TRUE /\ mExitThread' = FALSE /\ thread' = "idle"
    /\ queue' = <<>> /\ buf' = [i \in DOMAIN buf |-> Unused]
    /\ mNeed_fence' = FALSE
    /\ di' = [di EXCEPT !.interlaced = FALSE, !.out = FALSE]
    /\ UNCHANGED <<cur, odd>>

setup == CASE kind = "sr" -> setupSr [] kind = "di" -> setupDi [] OTHER -> setupPq

(* Created for a layer that has none, if the display has just that video; di   *)
(* for any number of videos.                                                *)
NewProcessor ==
    /\ composer = "idle" /\ ~has
    /\ has' = TRUE /\ reset' = TRUE /\ vinfo' = 0
    /\ UNCHANGED <<kind, dma, backend, loaded, nn, composer, open, refused, lost>>

setUpAiSrProcessor == kind = "sr" /\ NewProcessor /\ setupSr
setUpAiPqProcessor == kind = "pq" /\ NewProcessor /\ setupPq
setUpAiColorProcessor == kind = "color" /\ NewProcessor /\ setupPq
setUpDiProcessor == kind = "di" /\ NewProcessor /\ setupDi

(* teardown() sets mExitThread and joins the thread.                         *)
StartTeardown(then) ==
    /\ mExitThread' = TRUE
    /\ composer' = then
    /\ UNCHANGED <<kind, has, mInited, pool, env, thread, nn, di, open, refused, lost>>

(* prepare() with another layer, a second video (tearDownPqProcessors and its *)
(* like), no video left, or a reset of the display.                           *)
tearDownProcessors == Composing /\ StartTeardown("leave") /\ UNCHANGED reset

(* resetProcessors: the layer's frame went to no video plane.                *)
resetProcessors == Composing /\ ~reset /\ reset' = TRUE /\ StartTeardown("renew")

Joined == thread = "none" /\ dma # "run"

(* The teardown of sr: what is queued is answered and closed.                *)
teardownSr ==
    /\ nn' = [f \in Frame |->
                IF \E i \in DOMAIN queue : buf[queue[i]].frame = f THEN "invalid" ELSE nn[f]]
    /\ open' = open - Len(queue)
                    - Held([i \in DOMAIN queue |-> buf[queue[i]].input])
                    - Held([i \in DOMAIN buf |-> buf[i].fence])
                    - Held([i \in DOMAIN buf |-> buf[i].last])
    /\ buf' = [i \in DOMAIN buf |-> Unused] /\ queue' = <<>> /\ dma' = "none"
    /\ UNCHANGED <<vinfo, backend, loaded, cur, odd, mNeed_fence, di>>

(* pq has nothing to tell the driver of its frames, and color reads where sr  *)
(* writes: UVM_IOC_GET_INFO leaves what the driver was told.                  *)
teardownPq ==
    /\ open' = open - Len(queue)
    /\ buf' = [i \in DOMAIN buf |-> Unused] /\ queue' = <<>> /\ dma' = "none"
    /\ UNCHANGED <<vinfo, backend, loaded, nn, cur, odd, mNeed_fence, di>>

(* The teardown of di leaves the queue to the next setup.                    *)
teardownDi ==
    /\ open' = open - Held([i \in DOMAIN buf |-> buf[i].used /\ buf[i].fd])
                    - Held([i \in DOMAIN buf |-> buf[i].used /\ buf[i].fence])
                    - Held(<<di.fd, di.fence, di.out>>)
    /\ buf' = [i \in DOMAIN buf |-> IF buf[i].used THEN Unused ELSE buf[i]]
    /\ di' = [di EXCEPT !.fd = FALSE, !.fence = FALSE, !.out = FALSE]
    /\ UNCHANGED <<env, nn, queue, cur, odd, mNeed_fence>>

teardown == CASE kind = "sr" -> teardownSr [] kind = "di" -> teardownDi [] OTHER -> teardownPq

(* tearDownSrProcessors and its like drop the processor with its teardown;    *)
(* the first one's loop tears nothing down, but the destructor then does.     *)
leave ==
    /\ composer = "leave" /\ Joined
    /\ teardown
    /\ has' = FALSE /\ mInited' = FALSE /\ composer' = "idle"
    /\ UNCHANGED <<kind, mExitThread, reset, thread, refused, lost>>

(* resetProcessors, and DiProcessor::reset within asyncProcess: set up anew.   *)
renew ==
    /\ composer \in {"renew", "again"} /\ Joined
    /\ teardown
    /\ mInited' = FALSE
    /\ composer' = IF composer = "renew" THEN "setup" ELSE "resetup"
    /\ UNCHANGED <<kind, has, mExitThread, reset, thread, refused, lost>>

setUpAgain ==
    /\ composer \in {"setup", "resetup"}
    /\ setup
    /\ composer' = IF composer = "setup" THEN "idle" ELSE "retry"
    /\ UNCHANGED <<kind, has, reset, env, nn, open, refused, lost>>

(* runProcessors calls asyncProcess, shows what it made, then tells the        *)
(* processor by onBufferDisplayed.                                            *)
runProcessors == Composing /\ reset' = FALSE /\ UNCHANGED <<kind, has, mInited>>

-----------------------------------------------------------------------------
(* NnProcessor::asyncProcess                                                 *)

Sizes == {1920, 3840, 1280}
Inputs == [usable : BOOLEAN, fence : BOOLEAN, hf : BOOLEAN, attached : BOOLEAN, need : BOOLEAN]

(* The frame is shown as it is, and the driver told nothing.                 *)
SrBypasses(f, in) ==
    \/ ~loaded \/ ~in.usable \/ ~in.attached
    \/ backend /\ ~in.fence
    \/ vinfo \notin {0, 3840}
    \/ ~backend /\ (nn[f] \in Pending \union {"done"} \/ ~in.hf)
Admitted(f) == {in \in Inputs : ~SrBypasses(f, in)}

srBypass(f) ==
    /\ kind = "sr" /\ runProcessors
    /\ Admitted(f) # Inputs
    /\ mNeed_fence' = FALSE /\ composer' = "show"
    /\ UNCHANGED <<mExitThread, queue, buf, cur, odd, env, thread, nn, di, open, refused, lost>>

(* GET_VINFO_SIZE fails after the frame was attached as NN_WAIT_DOING.        *)
srUnsized(f) ==
    /\ kind = "sr" /\ runProcessors /\ vinfo = 0
    /\ {in \in Admitted(f) : in.need} # {}
    /\ nn' = [nn EXCEPT ![f] = "wait"]
    /\ mNeed_fence' = FALSE /\ composer' = "show"
    /\ UNCHANGED <<mExitThread, queue, buf, cur, odd, env, thread, di, open, refused, lost>>

(* Attached and not processed: answered at once.  The first frame that needs  *)
(* them starts the allocation of the buffers.                                *)
srRefuse(f) ==
    /\ kind = "sr" /\ runProcessors
    /\ \E in \in Admitted(f), v \in IF vinfo = 0 THEN Sizes ELSE {vinfo} :
          /\ ~in.need \/ v = 1920 \/ dma # "full"
          /\ vinfo' = IF in.need THEN v ELSE vinfo
          /\ dma' = IF in.need /\ v # 1920 /\ dma = "none" THEN "run" ELSE dma
    /\ nn' = [nn EXCEPT ![f] = "invalid"]
    /\ mNeed_fence' = FALSE /\ composer' = "show"
    /\ UNCHANGED <<mExitThread, queue, buf, cur, odd, backend, loaded, thread, di, open, refused, lost>>

(* The DI fences lost, or still in a slot.                                    *)
Astray == lost + Held([i \in DOMAIN buf |-> buf[i].input])

(* The next slot keeps the fence of what it last held as fence_fd_last.       *)
srQueue(f) ==
    /\ kind = "sr" /\ runProcessors /\ dma = "full"
    /\ \E in \in Admitted(f), v \in IF vinfo = 0 THEN Sizes \ {1920} ELSE {vinfo} :
          /\ (in.fence => backend \/ Astray < MaxLost) /\ in.need
          /\ vinfo' = v
          /\ cur' = (cur % Slots) + 1
          /\ buf' = [buf EXCEPT ![cur'] = [@ EXCEPT !.frame = f, !.last = buf[cur'].fence, !.fence = FALSE, !.input = in.fence]]
          /\ open' = open + 1 + Held(<<in.fence>>)
    /\ nn' = [nn EXCEPT ![f] = "wait"]
    /\ queue' = Append(queue, cur') /\ mNeed_fence' = TRUE /\ composer' = "wait"
    /\ UNCHANGED <<mExitThread, odd, dma, backend, loaded, thread, di, refused, lost>>

(* The alloc thread; one buffer it fails to get leaves the others useless.    *)
allocThreadProcess ==
    /\ dma = "run"
    /\ dma' \in {"full", "partial"}
    /\ UNCHANGED <<life, pool, vinfo, backend, loaded, thread, nn, di, composer, open, refused, lost>>

(* LoadNNModel, in a thread of the first NnProcessor or AipqProcessor.        *)
LoadNNModel ==
    /\ ~loaded /\ loaded' = TRUE
    /\ UNCHANGED <<life, pool, dma, vinfo, backend, thread, nn, di, composer, open, refused, lost>>

-----------------------------------------------------------------------------
(* asyncProcess of AipqProcessor and AiColorProcessor                        *)

(* What both bypass: no descriptor, no model, not attached or shown before.   *)
PqBypass(f) ==
    /\ kind = "pq" /\ runProcessors
    /\ composer' = "show"
    /\ UNCHANGED <<mExitThread, pool, env, thread, nn, di, open, refused, lost>>

ColorBypass(f) ==
    /\ kind = "color" /\ runProcessors
    /\ composer' = "show"
    /\ UNCHANGED <<mExitThread, pool, env, thread, nn, di, open, refused, lost>>

(* Every second frame of a tall video is left out.                           *)
PqSkip(f) ==
    /\ kind = "pq" /\ runProcessors /\ loaded /\ ~odd
    /\ odd' = TRUE /\ dma' = "full" /\ composer' = "show"
    /\ UNCHANGED <<mExitThread, buf, queue, cur, mNeed_fence, vinfo, backend, loaded, thread, nn, di, open, refused, lost>>

(* color tells the driver that it leaves a frame out.                        *)
ColorSkip(f) ==
    /\ kind = "color" /\ runProcessors /\ nn[f] = "none"
    /\ nn' = [nn EXCEPT ![f] = "invalid"] /\ composer' = "show"
    /\ \/ UNCHANGED <<odd, dma>>
       \/ ~odd /\ odd' = TRUE /\ dma' = "full"
    /\ UNCHANGED <<mExitThread, buf, queue, cur, mNeed_fence, vinfo, backend, loaded, thread, di, open, refused, lost>>

CacheFrame(f) ==
    /\ buf' = [buf EXCEPT ![cur + 1].frame = f]
    /\ queue' = Append(queue, cur + 1)
    /\ cur' = (cur + 1) % Slots /\ odd' = ~odd
    /\ open' = open + 1 /\ composer' = "wait" /\ dma' = "full"
    /\ UNCHANGED <<mExitThread, mNeed_fence, vinfo, backend, loaded, thread, di, refused, lost>>

PqQueue(f) == kind = "pq" /\ runProcessors /\ loaded /\ CacheFrame(f) /\ UNCHANGED nn

ColorQueue(f) ==
    /\ kind = "color" /\ runProcessors /\ nn[f] = "none"
    /\ CacheFrame(f)
    /\ nn' = [nn EXCEPT ![f] = "wait"]

-----------------------------------------------------------------------------
(* The end of asyncProcess and onBufferDisplayed                             *)

(* Mutant: the composing thread goes on with the queue full.                 *)
WaitsLate == composer = "wait" /\ Len(queue) <= IF kind = "di" THEN DiQueue ELSE Slots

(* asyncProcess of sr, pq and color, and onBufferDisplayed of di, wait for    *)
(* the thread.                                                              *)
HasRoom == composer = "wait" /\ Len(queue) <= IF kind = "di" THEN DiQueue ELSE Slots - 1

waitForRoom ==
    /\ HasRoom
    /\ composer' = IF kind = "di" THEN "idle" ELSE "show"
    /\ UNCHANGED <<life, pool, env, thread, nn, di, open, refused, lost>>

(* pq and color close the release fence of the frame; sr keeps it in the slot *)
(* if the frame was queued.                                                 *)
onBufferDisplayed ==
    /\ kind # "di" /\ composer = "show"
    /\ \E release \in BOOLEAN :
          IF kind = "sr" /\ mNeed_fence
            THEN buf' = [buf EXCEPT ![cur].fence = release] /\ open' = open + Held(<<release>>)
            ELSE UNCHANGED <<buf, open>>
    /\ composer' = "idle"
    /\ UNCHANGED <<life, queue, cur, odd, mNeed_fence, env, thread, nn, di, refused, lost>>

-----------------------------------------------------------------------------
(* threadMain and threadProcess of sr, pq and color                          *)

Idle == thread = "idle" /\ ~mExitThread
Front == buf[Head(queue)]
ThreadOnly == UNCHANGED <<life, env, di, composer, refused, cur, odd, mNeed_fence>>

threadExit ==
    /\ thread = "idle" /\ mExitThread
    /\ thread' = "none"
    /\ UNCHANGED <<life, pool, env, nn, di, composer, open, refused, lost>>

(* The thread waits for the DI fence and the slot's last fence, a second at    *)
(* most each, and closes them; ai_sr_process knows how to treat 4k screens.   *)
(* With vendor.di_backend.enable at 0 it leaves a DI fence in the slot, where  *)
(* the next frame's is written over it.                                      *)
srStart ==
    /\ kind = "sr" /\ Idle /\ queue # <<>>
    /\ open' = open - Held(<<Front.input, Front.last>>)
    /\ lost' = lost + Held(<<Front.input /\ ~backend>>)
    /\ buf' = [buf EXCEPT ![Head(queue)] = [@ EXCEPT !.input = FALSE, !.last = FALSE]]
    /\ \/ vinfo = 3840 /\ nn' = [nn EXCEPT ![Front.frame] = "start"] /\ thread' = "busy"
       \/ nn' = [nn EXCEPT ![Front.frame] = "invalid"] /\ thread' = "answered"
    /\ UNCHANGED queue /\ ThreadOnly

(* Mutant: a network that fails is not answered for.                         *)
GivesUp == kind = "sr" /\ thread = "busy" /\ thread' = "answered" /\ UNCHANGED <<nn, pool, open, lost>> /\ ThreadOnly

(* nn_process_network; NN_DONE also if it fails.                             *)
ai_sr_process ==
    /\ kind = "sr" /\ thread = "busy"
    /\ thread' = "answered"
    /\ nn' = [nn EXCEPT ![Front.frame] = "done"]
    /\ UNCHANGED <<pool, open, lost>> /\ ThreadOnly

ai_pq_process ==
    /\ kind = "pq" /\ Idle /\ queue # <<>>
    /\ thread' = "answered"
    /\ UNCHANGED <<pool, nn, open, lost>> /\ ThreadOnly

(* A failing ioctl or network leaves the frame's status as it is.            *)
ai_color_process ==
    /\ kind = "color" /\ Idle /\ queue # <<>>
    /\ thread' = "answered"
    /\ \E status \in {nn[Front.frame], "start", "done"} : nn' = [nn EXCEPT ![Front.frame] = status]
    /\ UNCHANGED <<pool, open, lost>> /\ ThreadOnly

(* The slot is the composing thread's again once it is popped.               *)
threadPop ==
    /\ thread = "answered"
    /\ queue' = Tail(queue)
    /\ thread' = IF kind = "di" THEN "idle" ELSE "popped"
    /\ UNCHANGED <<buf, nn, open, lost>> /\ ThreadOnly

threadClose ==
    /\ thread = "popped"
    /\ thread' = "idle" /\ open' = open - 1
    /\ UNCHANGED <<queue, buf, nn, lost>> /\ ThreadOnly

-----------------------------------------------------------------------------
(* DiProcessor                                                               *)

(* DiFrame: asyncProcess closes what the layer holds, asks the driver, and     *)
(* takes one of the cases below.                                             *)
DiFrame == kind = "di" /\ has /\ composer \in {"idle", "retry"}

Kept(d) == Held(<<d.fd, d.fence, d.out, d.layer>>)
Emptied == [di EXCEPT !.layer = FALSE]

(* What the manager does with a process fence: the next to need it is the     *)
(* layer, with a dup; di keeps one of its own.                               *)
DiResult(d, need, next) ==
    /\ di' = d /\ reset' = FALSE /\ mNeed_fence' = need /\ composer' = next
    /\ open' = open - Kept(di) + Kept(d)
    /\ UNCHANGED <<kind, has, mInited, mExitThread, env, thread, nn, odd, refused, lost>>

(* No descriptor, or the driver refuses the frame: it is shown as it is.      *)
diError ==
    /\ DiFrame
    /\ DiResult(Emptied, FALSE, "show") /\ UNCHANGED <<buf, queue, cur>>

(* DI_PROCESS_IOCTL_SET_FRAME returns 1 when the path has to become secure.   *)
diReset ==
    /\ DiFrame /\ composer = "idle"
    /\ mExitThread' = TRUE /\ composer' = "again"
    /\ mNeed_fence' = FALSE /\ reset' = FALSE
    /\ di' = Emptied /\ open' = open - Held(<<di.layer>>)
    /\ UNCHANGED <<kind, has, mInited, buf, queue, cur, odd, env, thread, nn, refused, lost>>

(* USE_ORG: a frame the driver bypasses, or the first interlaced one.         *)
diBypass ==
    /\ DiFrame
    /\ DiResult([Emptied EXCEPT !.interlaced = FALSE, !.fd = FALSE, !.fence = FALSE], FALSE, "show")
    /\ UNCHANGED <<buf, queue, cur>>

diFirstInterlaced ==
    /\ DiFrame /\ ~di.interlaced
    /\ DiResult([Emptied EXCEPT !.interlaced = TRUE, !.first = TRUE, !.fd = TRUE, !.fence = TRUE], FALSE, "show")
    /\ UNCHANGED <<buf, queue, cur>>

(* An interlaced frame shows the output of the one before it.                *)
diInterlaced ==
    /\ DiFrame /\ di.interlaced
    /\ DiResult([di EXCEPT !.first = FALSE, !.layer = di.fd, !.fd = TRUE, !.fence = TRUE,
                           !.out = di.out \/ di.fence], TRUE, "slot")
    /\ UNCHANGED <<buf, queue, cur>>

FreeSlots == {i \in DOMAIN buf : ~buf[i].used}

(* The last interlaced output is not shown any more: the thread gives it back *)
(* once its fence has signalled.  A slot is waited for.                      *)
RecycleLast(wanted) ==
    IF wanted
      THEN /\ FreeSlots # {}
           /\ LET i == CHOOSE j \in FreeSlots : \A k \in FreeSlots : j <= k
              IN  /\ buf' = [buf EXCEPT ![i] = [@ EXCEPT !.fd = di.fd, !.fence = di.fence, !.used = TRUE]]
                  /\ queue' = Append(queue, i)
      ELSE UNCHANGED <<buf, queue>>

RecycledOwns(wanted) == IF wanted THEN Held(<<di.fd, di.fence>>) ELSE 0

diProgressive ==
    /\ DiFrame
    /\ RecycleLast(di.interlaced)
    /\ di' = [di EXCEPT !.interlaced = FALSE, !.fd = FALSE, !.fence = FALSE, !.out = TRUE, !.layer = TRUE]
    /\ open' = open - Kept(di) + Kept(di') + RecycledOwns(di.interlaced)
                    + IF di.interlaced THEN 0 ELSE Held(<<di.fd, di.fence>>)
    /\ mNeed_fence' = TRUE /\ reset' = FALSE /\ composer' = "slot"
    /\ UNCHANGED <<kind, has, mInited, mExitThread, env, thread, nn, cur, odd, refused, lost>>

(* A repeated interlaced frame: the second of the first one, ...             *)
diRepeatsFirst ==
    /\ DiFrame /\ (~di.interlaced \/ di.first)
    /\ DiResult([Emptied EXCEPT !.interlaced = TRUE, !.fd = TRUE,
                                !.fence = di.interlaced /\ @], FALSE, "show")
    /\ UNCHANGED <<buf, queue, cur>>

(* ... or of a later one, which shows the slot's output once more.           *)
diRepeats ==
    /\ DiFrame /\ di.interlaced /\ ~di.first
    /\ DiResult([di EXCEPT !.layer = cur # 0 /\ buf[cur].fd], FALSE, "show")
    /\ UNCHANGED <<buf, queue, cur>>

diRepeatsProgressive ==
    /\ DiFrame
    /\ RecycleLast(di.interlaced)
    /\ di' = [di EXCEPT !.interlaced = FALSE, !.fd = FALSE, !.fence = FALSE, !.layer = TRUE]
    /\ open' = open - Kept(di) + Kept(di') + RecycledOwns(di.interlaced)
    /\ mNeed_fence' = FALSE /\ reset' = FALSE /\ composer' = "show"
    /\ UNCHANGED <<kind, has, mInited, mExitThread, env, thread, nn, cur, odd, refused, lost>>

(* The shown output gets a slot, which holds a dup of it.                    *)
diTakeSlot ==
    /\ composer = "slot" /\ FreeSlots # {}
    /\ cur' = CHOOSE j \in FreeSlots : \A k \in FreeSlots : j <= k
    /\ buf' = [buf EXCEPT ![cur'] = [@ EXCEPT !.fd = di.layer, !.used = TRUE]]
    /\ open' = open + Held(<<di.layer>>)
    /\ composer' = "show"
    /\ UNCHANGED <<life, queue, odd, mNeed_fence, env, thread, nn, di, refused, lost>>

(* VideoComposerDev::setFrames closes the layer's descriptor when the driver   *)
(* took the frames; the slot then waits for the release fence.               *)
diDisplayed ==
    /\ kind = "di" /\ composer = "show"
    /\ \E took \in BOOLEAN, release \in BOOLEAN :
          /\ di' = [di EXCEPT !.layer = @ /\ ~took]
          /\ IF mNeed_fence
               THEN /\ buf' = [buf EXCEPT ![cur].fence = release]
                    /\ queue' = Append(queue, cur) /\ composer' = "wait"
               ELSE UNCHANGED <<buf, queue>> /\ composer' = "idle"
          /\ open' = open - Held(<<di.layer /\ took>>) + Held(<<mNeed_fence /\ release>>)
    /\ UNCHANGED <<life, cur, odd, mNeed_fence, env, thread, nn, refused, lost>>

(* The thread gives the older of two slots back once its fence has signalled. *)
(* A driver that refuses it finds the slot in front again, with a fence that  *)
(* was closed.                                                              *)
diRecycle(ok) ==
    /\ kind = "di" /\ Idle /\ Len(queue) >= 2
    /\ IF ok
         THEN /\ open' = open - Held(<<Front.fence, Front.fd>>)
              /\ buf' = [buf EXCEPT ![Head(queue)] = Unused]
              /\ thread' = "answered" /\ UNCHANGED refused
         ELSE /\ open' = open /\ refused' = (refused \/ Front.fence)
              /\ UNCHANGED <<buf, thread>>
    /\ UNCHANGED <<life, env, di, composer, cur, odd, mNeed_fence, nn, queue, lost>>

-----------------------------------------------------------------------------
(* The decoder fills a buffer anew when nothing holds it.                    *)
Decode(f) ==
    /\ composer = "idle" /\ thread \in {"none", "idle"}
    /\ \A i \in DOMAIN queue : buf[queue[i]].frame # f
    /\ nn[f] # "none" /\ nn' = [nn EXCEPT ![f] = "none"]
    /\ UNCHANGED <<life, pool, env, thread, di, composer, open, refused, lost>>

SlotCount == IF kind = "di" THEN DiSlots ELSE Slots

Init ==
    /\ kind \in {"sr", "pq", "color", "di"}
    /\ has = FALSE /\ mInited = FALSE /\ mExitThread = TRUE /\ reset = TRUE
    /\ thread = "none" /\ queue = <<>> /\ buf = [i \in 1..SlotCount |-> Unused]
    /\ cur = 0 /\ odd = FALSE /\ mNeed_fence = FALSE
    /\ dma = "none" /\ vinfo = 0 /\ backend \in (IF kind = "sr" THEN BOOLEAN ELSE {FALSE})
    /\ loaded = (kind \notin {"sr", "pq"})
    /\ nn = [f \in Frame |-> "none"] /\ di = NoDi
    /\ composer = "idle" /\ open = 0 /\ lost = 0 /\ refused = FALSE

Manager ==
    \/ setUpAiSrProcessor \/ setUpAiPqProcessor \/ setUpAiColorProcessor \/ setUpDiProcessor
    \/ tearDownProcessors \/ resetProcessors
Rebuild == leave \/ renew \/ setUpAgain
Async ==
    \E f \in Frame : \/ srBypass(f) \/ srUnsized(f) \/ srRefuse(f) \/ srQueue(f)
                     \/ PqBypass(f) \/ PqSkip(f) \/ PqQueue(f)
                     \/ ColorBypass(f) \/ ColorSkip(f) \/ ColorQueue(f)
DiAsync ==
    \/ diError \/ diReset \/ diBypass \/ diFirstInterlaced \/ diInterlaced \/ diProgressive
    \/ diRepeatsFirst \/ diRepeats \/ diRepeatsProgressive
Shows == waitForRoom \/ onBufferDisplayed \/ diTakeSlot \/ diDisplayed
Works ==
    \/ srStart \/ ai_sr_process \/ ai_pq_process \/ ai_color_process \/ threadPop \/ threadClose
    \/ diRecycle(TRUE)

Next ==
    \/ Manager \/ Rebuild \/ Async \/ DiAsync \/ Shows
    \/ Works \/ threadExit \/ diRecycle(FALSE)
    \/ allocThreadProcess \/ LoadNNModel
    \/ \E f \in Frame : Decode(f)

(* Threads run, and a DI driver does not refuse a buffer for ever.           *)
Fairness ==
    /\ WF_vars(Rebuild \/ Shows \/ (DiAsync /\ composer = "retry"))
    /\ WF_vars(Works \/ threadExit) /\ SF_vars(diRecycle(TRUE))
    /\ WF_vars(allocThreadProcess)

Spec == Init /\ [][Next]_vars /\ Fairness

-----------------------------------------------------------------------------
(* Every descriptor a processor dup'ed or was given is in exactly one place   *)
(* that will close it: a release fence is not overwritten in its slot, and    *)
(* nothing is closed twice, however the two threads, a teardown and a reset    *)
(* interleave.  The exceptions the code has are a refused DI buffer's fence    *)
(* and, while the DI back end is off, the DI fences counted as lost.          *)
DescriptorsKept ==
    /\ backend => lost = 0
    /\ ~refused =>
       open = Held([i \in DOMAIN buf |-> buf[i].fence]) + Held([i \in DOMAIN buf |-> buf[i].last])
              + Held([i \in DOMAIN buf |-> buf[i].fd]) + Held([i \in DOMAIN buf |-> buf[i].input])
              + Kept(di)
              + (IF kind = "di" THEN 0 ELSE Len(queue) + Held(<<thread = "popped">>))

(* A frame NnProcessor's thread is to work on is answered, also when the       *)
(* processor is torn down with the frame in its queue.                       *)
Queued(f) == kind = "sr" /\ \E i \in DOMAIN queue : buf[queue[i]].frame = f
Answered == \A f \in Frame : (Queued(f) /\ nn[f] = "wait") ~> (nn[f] \in {"done", "invalid"})

(* The composing thread comes back from every call into a processor.         *)
Composes == (composer # "idle") ~> (composer = "idle")

(* Neither thread keeps the other waiting for ever.                          *)
BothGoOn == Answered /\ Composes
=============================================================================
