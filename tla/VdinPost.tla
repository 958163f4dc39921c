------------------------------ MODULE VdinPost ------------------------------
(***************************************************************************)
(* The vdin post processor in its loopback use.  The picture of one output *)
(* is captured by the vdin driver into a fixed set of buffers; a thread    *)
(* takes them one by one, runs them through a processor (keystone          *)
(* correction) or not, shows the result on a second output, and gives the  *)
(* buffers back to vdin.                                                   *)
(*                                                                         *)
(* SurfaceFlinger's thread starts, stops and restarts it, sets the         *)
(* processor and asks for a frame with every present; the thread of the    *)
(* display service may ask for a screen capture.  Both leave commands in a *)
(* queue that the processing thread takes one at a time.                   *)
(***************************************************************************)
EXTENDS Integers, Sequences, FiniteSets

CONSTANTS
  Bufs,        \* the vdin buffers, VDIN_BUF_CNT of them
  Processors,  \* the frame processors that may be set
  SameFrames,  \* may vdin report the same crc for two frames in a row?
  Flags,       \* the presents SurfaceFlinger makes in this instance
  MaxCmds,     \* bound on the commands that wait
  None         \* no buffer (-1), or no processor (NULL)

ASSUME BufsAssumption == IsFiniteSet(Bufs) /\ Cardinality(Bufs) >= 3
                         /\ None \notin Bufs \cup Processors
\* VDIN_CAP_CNT: "vdin will keep one frame always".
CapCnt == Cardinality(Bufs) - 1

\* The flags of a present, PRESENT_CAPSCREEN and PRESENT_UPDATE_PROCESSOR.
Presents == {"frame", "blank", "sideband", "blankSideband"}

ASSUME FlagsAssumption == /\ Flags \subseteq Presents
                          /\ SameFrames \in BOOLEAN /\ MaxCmds \in Nat

Cmds == Presents \cup {"capture", "update"}

VARIABLES
  req,   \* what mMutex protects: state, exit flag, queues, processor
  cyc,   \* the progress of the processing thread: mode, counts, queue
  vdin,  \* the driver: is it streaming, and the buffers it may fill
  vout,  \* the second output: its own buffers, and what it shows
  cap,   \* a screen capture: its client, mSCapProcessor, mCapStatus
  sf,    \* the client thread that starts and stops
  pc     \* where the processing thread is

vars == <<req, cyc, vdin, vout, cap, sf, pc>>

Init ==
  /\ req  = [stat |-> "stop", exit |-> TRUE, cmdQ |-> <<>>, reqs |-> <<>>,
             proc |-> None]
  /\ cyc  = [mode |-> "once", capCnt |-> 0, preCap |-> TRUE, queue |-> <<>>,
             onScreen |-> None, fresh |-> TRUE]
  /\ vdin = [on |-> FALSE, held |-> {}]
  /\ vout = [hnds |-> FALSE, filled |-> FALSE, shown |-> "blank"]
  /\ cap  = [pc |-> "idle", proc |-> FALSE, status |-> 0]
  /\ sf   = [pc |-> "idle", back |-> None]
  /\ pc   = "none"

----------------------------------------------------------------------------
(* The clients *)

\* abort() ends the process, with all its threads.
Running == pc # "aborted"

\* mCmdCond.notify_one: the processing thread leaves its wait.
Notified == IF pc = "wait" THEN "loop" ELSE pc

AllocVout(v) ==
  IF v.hnds THEN v ELSE [v EXCEPT !.hnds = TRUE, !.filled = TRUE]

\* start: the thread itself is only created by the first present.
Start ==
  /\ Running /\ sf.pc = "idle" /\ req.stat = "stop"
  /\ vout' = AllocVout(vout)
  /\ req' = [req EXCEPT !.stat = "start"]
  /\ cyc' = [cyc EXCEPT !.mode = "idle"]
  /\ UNCHANGED <<vdin, cap, sf, pc>>

\* stop, up to pthread_join; and restart, which calls it first.
Stop(why) ==
  /\ Running /\ sf.pc = "idle" /\ req.stat = "start"
  /\ req' = [req EXCEPT !.exit = TRUE]
  /\ sf' = [pc |-> why, back |-> IF why = "restart" THEN req.proc ELSE None]
  /\ pc' = Notified
  /\ UNCHANGED <<cyc, vdin, vout, cap>>

Joinable == pc \in {"none", "ended"}

\* What stop clears when the thread has ended, or never ran.
Cleared == [req EXCEPT !.stat = "stop", !.cmdQ = <<>>, !.reqs = <<>>, !.proc = None]

StopJoined ==
  /\ sf.pc = "stop" /\ Joinable
  /\ req' = Cleared
  /\ vout' = [vout EXCEPT !.filled = FALSE]
  /\ sf' = [pc |-> "idle", back |-> None]
  /\ UNCHANGED <<cyc, vdin, cap, pc>>

\* restart goes on to start, and sets the processor it found at the beginning.
RestartJoined ==
  /\ sf.pc = "restart" /\ Joinable
  /\ req' = [Cleared EXCEPT !.stat = "start", !.cmdQ = <<"update">>,
                            !.reqs = <<sf.back>>]
  /\ vout' = AllocVout([vout EXCEPT !.filled = FALSE])
  /\ cyc' = [cyc EXCEPT !.mode = "idle", !.fresh = @ \/ sf.back = None]
  /\ sf' = [pc |-> "idle", back |-> None]
  /\ UNCHANGED <<vdin, cap, pc>>

\* setFbProcessor, which handleRequest calls only while the processor is started.
SetFbProcessor(p) ==
  /\ Running /\ sf.pc = "idle" /\ req.stat = "start" /\ Len(req.cmdQ) < MaxCmds
  /\ req' = [req EXCEPT !.reqs = Append(@, p), !.cmdQ = Append(@, "update")]
  /\ cyc' = [cyc EXCEPT !.fresh = @ \/ p = None]
  /\ pc' = Notified
  /\ UNCHANGED <<vdin, vout, cap, sf>>

\* present: a command equal to the last one that waits is not repeated, and
\* a present that is not blank creates the thread if there is none.
Queued(c) ==
  LET creates == req.exit /\ c \notin {"blank", "blankSideband"}
      again   == req.cmdQ # <<>> /\ req.cmdQ[Len(req.cmdQ)] = c
  IN  /\ again \/ Len(req.cmdQ) < MaxCmds
      /\ req' = [req EXCEPT !.exit = @ /\ ~creates,
                            !.cmdQ = IF again THEN @ ELSE Append(@, c)]
      /\ pc' = IF creates THEN "start" ELSE Notified

Present(c) ==
  /\ Running /\ sf.pc = "idle" /\ req.stat = "start"
  /\ Queued(c)
  /\ UNCHANGED <<cyc, vdin, vout, cap, sf>>

\* getScreencapFb: it creates mSCapProcessor, presents, and waits until the
\* processing thread has destroyed it.
AskCapture ==
  /\ Running /\ cap.pc = "idle"
  /\ cap' = [cap EXCEPT !.pc = "ask", !.proc = TRUE]
  /\ UNCHANGED <<req, cyc, vdin, vout, sf, pc>>

\* A stopped processor ignores the present.  One that is being stopped
\* (sf.pc # "idle") is not asked here.
PresentCapture ==
  /\ Running /\ cap.pc = "ask" /\ sf.pc = "idle"
  /\ IF req.stat = "start" THEN Queued("capture") ELSE UNCHANGED <<req, pc>>
  /\ cap' = [cap EXCEPT !.pc = "wait"]
  /\ UNCHANGED <<cyc, vdin, vout, sf>>

CaptureReturns ==
  /\ Running /\ cap.pc = "wait" /\ ~cap.proc
  /\ cap' = [cap EXCEPT !.pc = "idle"]
  /\ UNCHANGED <<req, cyc, vdin, vout, sf, pc>>

----------------------------------------------------------------------------
(* The processing thread *)

\* reset and startVdin: every buffer goes to vdin.
StartVdin ==
  /\ pc = "start"
  /\ vdin' = [on |-> TRUE, held |-> Bufs]
  /\ cyc' = [cyc EXCEPT !.onScreen = None, !.fresh = TRUE]
  /\ pc' = "loop"
  /\ UNCHANGED <<req, vout, cap, sf>>

Loop ==
  /\ pc = "loop"
  /\ pc' = IF req.exit THEN "leave" ELSE "command"
  /\ UNCHANGED <<req, cyc, vdin, vout, cap, sf>>

\* What the command at the head of the queue does to the cycle.  capCnt and
\* preCmd are static: they outlive the thread.
Ordered(c) ==
  LET C == [cyc EXCEPT !.preCap = c = "capture"]
  IN  CASE c \in {"sideband", "blankSideband"} -> [C EXCEPT !.mode = "always"]
        [] c \in {"capture", "blank", "frame"} -> [C EXCEPT !.mode = "once",
                                                            !.capCnt = CapCnt]
        [] c = "update"                        -> C

Enter(C) == cyc' = C /\ pc' = IF C.mode = "idle" THEN "wait" ELSE "work"

\* The part of process under mMutex: at most one command is taken, and in
\* idle mode the thread waits, with or without further commands in the queue.
TakeCommand ==
  /\ pc = "command" /\ req.cmdQ # <<>>
  /\ LET c == Head(req.cmdQ)
     IN  /\ req' = IF c = "update"
                   THEN [req EXCEPT !.cmdQ = Tail(@), !.reqs = Tail(@),
                                    !.proc = Head(req.reqs)]
                   ELSE [req EXCEPT !.cmdQ = Tail(@)]
         /\ cap' = IF c = "capture" THEN [cap EXCEPT !.status = 1] ELSE cap
         /\ Enter(Ordered(c))
  /\ UNCHANGED <<vdin, vout, sf>>

\* Without a command, a capture that was not served at once makes the thread
\* go on for ever.
NoCommand ==
  /\ pc = "command" /\ req.cmdQ = <<>>
  /\ Enter(IF cyc.mode = "once" /\ cyc.preCap
           THEN [cyc EXCEPT !.mode = "always"] ELSE cyc)
  /\ UNCHANGED <<req, vdin, vout, cap, sf>>

\* Mutant: the buffer on screen is not counted.
TakenQueued(C) == Len(C.queue)

\* The buffers that vdin does not have.
Taken(C) == Len(C.queue) + IF C.onScreen # None THEN 1 ELSE 0

Wanted(C) == IF C.mode = "always" THEN CapCnt ELSE C.capCnt

\* "all vdin bufs consumed, go to idle"
GoIdle ==
  /\ pc = "work" /\ Wanted(cyc) = 0 /\ Taken(cyc) = CapCnt
  /\ cyc' = [cyc EXCEPT !.capCnt = 0, !.mode = IF @ = "once" THEN "idle" ELSE @]
  /\ pc' = "loop"
  /\ UNCHANGED <<req, vdin, vout, cap, sf>>

Least(m, n) == IF m < n THEN m ELSE n

Items(s) == {s[i] : i \in DOMAIN s}

\* Buffers that were processed go back to vdin, as many as are still wanted.
Recycle ==
  /\ pc = "work" /\ ~(Wanted(cyc) = 0 /\ Taken(cyc) = CapCnt)
  /\ LET n == Least(Wanted(cyc), Len(cyc.queue))
     IN  /\ vdin' = [vdin EXCEPT !.held = @ \cup Items(SubSeq(cyc.queue, 1, n))]
         /\ cyc' = [cyc EXCEPT !.queue = SubSeq(@, n + 1, Len(@)),
                               !.capCnt = Wanted(cyc) - n]
  /\ pc' = "dequeue"
  /\ UNCHANGED <<req, vout, cap, sf>>

\* Vdin::dequeueBuffer times out, or fails.
DequeueFails ==
  /\ pc = "dequeue"
  /\ pc' = "loop"
  /\ UNCHANGED <<req, cyc, vdin, vout, cap, sf>>

\* MESON_ASSERT aborts when the output has no buffers.
AssertFails ==
  /\ pc = "dequeue" /\ vdin.held # {} /\ ~vout.filled
  /\ pc' = "aborted"
  /\ UNCHANGED <<req, cyc, vdin, vout, cap, sf>>

\* "push back last displayed buf"
PushedBack == IF cyc.onScreen = None THEN cyc.queue ELSE Append(cyc.queue, cyc.onScreen)

\* Mutant: the buffer displayed before is not pushed back.
ConsumedForgetful(b) ==
  IF req.proc # None
  THEN [cyc EXCEPT !.queue = Append(@, b), !.onScreen = None]
  ELSE [cyc EXCEPT !.onScreen = b]

\* The buffer displayed before, and with a processor the new one too, may go
\* back to vdin; without a processor the new one is kept.
Consumed(b) ==
  IF req.proc # None
  THEN [cyc EXCEPT !.queue = Append(PushedBack, b), !.onScreen = None]
  ELSE [cyc EXCEPT !.queue = PushedBack, !.onScreen = b]

\* Mutant: the capture is not ended once it is done.
CapturedNot == cap

\* A capture that waits is served with the frame just dequeued.
Captured ==
  IF cap.proc /\ cap.status = 1 THEN [cap EXCEPT !.proc = FALSE, !.status = 0]
                                ELSE cap

\* A frame is dequeued, processed and shown: with a processor if its crc or
\* the keystone coordinates changed, without one if its crc changed.
Dequeue ==
  /\ pc = "dequeue" /\ vout.filled
  /\ \E b \in vdin.held, same \in BOOLEAN, moved \in BOOLEAN :
       /\ same => SameFrames /\ ~cyc.fresh
       /\ vdin' = [vdin EXCEPT !.held = @ \ {b}]
       /\ cyc' = [Consumed(b) EXCEPT !.fresh = FALSE]
       /\ vout' = [vout EXCEPT !.shown =
                     IF req.proc # None
                     THEN IF same /\ ~moved THEN @ ELSE "processed"
                     ELSE IF same THEN @ ELSE b]
  /\ cap' = Captured
  /\ pc' = "loop"
  /\ UNCHANGED <<req, sf>>

\* The thread ends: the output is blanked and all the buffers are freed.
Leave ==
  /\ pc = "leave"
  /\ vdin' = [on |-> FALSE, held |-> {}]
  /\ vout' = [vout EXCEPT !.hnds = FALSE, !.shown = "blank"]
  /\ cyc' = [cyc EXCEPT !.queue = <<>>, !.onScreen = None]
  /\ pc' = "ended"
  /\ UNCHANGED <<req, cap, sf>>

----------------------------------------------------------------------------

SfStep ==
  \/ Start
  \/ Stop("stop")
  \/ Stop("restart")
  \/ \E p \in Processors \cup {None} : SetFbProcessor(p)
  \/ \E c \in Flags : Present(c)

JoinStep == StopJoined \/ RestartJoined

CaptureStep == AskCapture \/ PresentCapture \/ CaptureReturns

ThreadStep ==
  \/ StartVdin \/ Loop \/ TakeCommand \/ NoCommand
  \/ GoIdle \/ Recycle \/ DequeueFails \/ AssertFails \/ Dequeue
  \/ Leave

Next == SfStep \/ JoinStep \/ CaptureStep \/ ThreadStep

Spec == Init /\ [][Next]_vars

\* The processing thread runs, pthread_join returns, and vdin delivers a frame
\* now and then.
FairSpec == /\ Spec /\ WF_vars(ThreadStep) /\ WF_vars(JoinStep)
            /\ SF_vars(Dequeue \/ AssertFails)

----------------------------------------------------------------------------
(* Properties *)

ReqState == [stat : {"start", "stop"}, exit : BOOLEAN, cmdQ : Seq(Cmds),
             reqs : Seq(Processors \cup {None}), proc : Processors \cup {None}]

CycState == [mode : {"once", "always", "idle"}, capCnt : 0..CapCnt,
             preCap : BOOLEAN, queue : Seq(Bufs), onScreen : Bufs \cup {None},
             fresh : BOOLEAN]

VoutState == [hnds : BOOLEAN, filled : BOOLEAN,
              shown : Bufs \cup {"blank", "processed"}]

\* The types of all the state; no more than VDIN_CAP_CNT frames are ever wanted.
TypeOK ==
  /\ req \in ReqState /\ cyc \in CycState /\ vout \in VoutState
  /\ vdin \in [on : BOOLEAN, held : SUBSET Bufs]
  /\ cap \in [pc : {"idle", "ask", "wait"}, proc : BOOLEAN, status : {0, 1}]
  /\ sf \in [pc : {"idle", "stop", "restart"}, back : Processors \cup {None}]
  /\ pc \in {"none", "start", "loop", "command", "wait", "work", "dequeue",
             "leave", "ended", "aborted"}

\* "vdin will keep one frame always" (VdinPostProcessor.cpp:26): whatever the
\* commands and the processors do, the driver always has a buffer to fill.
VdinKeepsOne == vdin.on => vdin.held # {}

\* No vdin buffer is lost or in two places: while vdin streams, each is with
\* the driver, waits in mVdinQueue, or is the one kept for the display, however
\* often the processor changes between null and another (lines 575-607).
BuffersAccounted ==
  vdin.on =>
    /\ vdin.held = Bufs \ (Items(cyc.queue) \cup {cyc.onScreen})
    /\ cyc.onScreen \notin Items(cyc.queue)
    /\ \A i, j \in DOMAIN cyc.queue : cyc.queue[i] = cyc.queue[j] => i = j

\* VdinKeepsOne and BuffersAccounted, for every buffer.
VdinBuffers == VdinKeepsOne /\ BuffersAccounted

\* A capture the thread has begun is served with one of the next frames,
\* whatever commands come next, unless the thread is stopped.
CaptureServed ==
  cap.status = 1 /\ cyc.mode # "idle"
     ~> cap.status = 0 \/ req.exit \/ ~Running

\* After a frame was asked for, the thread takes what vdin still has and goes
\* idle (line 493), unless a further command comes.
OnceGoesIdle ==
  cyc.mode = "once" /\ pc = "work"
     ~> cyc.mode # "once" \/ req.cmdQ # <<>> \/ req.exit \/ ~Running

\* stop returns when the thread has something to do.  (In idle mode it may
\* wait on mCmdCond again after mExitThread was set and notified.)
BusyStops ==
  sf.pc # "idle" /\ cyc.mode # "idle" ~> sf.pc = "idle" \/ ~Running

\* The processing thread serves what it was asked for: captures, single frames
\* and a stop.
Serves == CaptureServed /\ OnceGoesIdle /\ BusyStops

\* mReqFbProcessor.front() and pop() (lines 436-443) are called without a
\* look at its size: it has one processor for every update in mCmdQ.
UpdatesMatched ==
  Len(req.reqs) = Cardinality({i \in DOMAIN req.cmdQ : req.cmdQ[i] = "update"})
=============================================================================
