--------------------------- MODULE VtEventThread ---------------------------
(***************************************************************************)
(* The life of the VtHandleEvents thread.  VtInstanceMgr starts it when a  *)
(* layer connects to a tunnel; it ends by itself when it finds no instance *)
(* left, or when an instance reports an error, and is joined and created   *)
(* again by the next connect.  The flag mExit is written by the thread and *)
(* read by whoever connects, under different mutexes.                      *)
(***************************************************************************)
EXTENDS FiniteSets

CONSTANTS
  Tunnels,  \* the tunnel ids a layer may connect to
  Errors    \* may the driver fail, or send a command nobody knows?

VARIABLES
  instances,  \* the tunnels that have an instance in mInstances
  consumers,  \* those of them that have a consumer
  mutex,      \* who holds mInstanceMutex: "none" or "sf"
  sf,         \* where the thread that connects a layer is
  thread,     \* where the VtHandleEvents thread is
  mExit       \* VtHandleEventsThread::mExit

vars == <<instances, consumers, mutex, sf, thread, mExit>>

Init ==
  /\ instances = {} /\ consumers = {}
  /\ mutex = "none" /\ sf = "idle"
  /\ thread = "none" /\ mExit = FALSE

----------------------------------------------------------------------------
(* The threads of SurfaceFlinger and the VtDisplay thread *)

\* connectInstanceLocked, up to the start of the thread.
Connect(t) ==
  /\ sf = "idle" /\ mutex = "none" /\ t \notin consumers
  /\ instances' = instances \cup {t}
  /\ consumers' = consumers \cup {t}
  /\ mutex' = "sf"
  /\ sf' = "start"
  /\ UNCHANGED <<thread, mExit>>

\* The thread is created, found running, or has to be joined first.
StartThread ==
  /\ sf = "start"
  /\ IF thread # "none" /\ mExit
     THEN sf' = "join" /\ UNCHANGED <<mutex, thread>>
     ELSE /\ sf' = "idle" /\ mutex' = "none"
          /\ thread' = IF thread = "none" THEN "top" ELSE thread
  /\ UNCHANGED <<instances, consumers, mExit>>

\* pthread_join returns, and a new thread is created.
JoinThread ==
  /\ sf = "join" /\ thread = "ended"
  /\ sf' = "idle" /\ mutex' = "none"
  /\ mExit' = FALSE
  /\ thread' = "top"
  /\ UNCHANGED <<instances, consumers>>

\* disconnectInstanceLocked clears up every instance without a consumer.
Disconnect(t) ==
  /\ sf = "idle" /\ mutex = "none" /\ t \in consumers
  /\ consumers' = consumers \ {t}
  /\ instances' = consumers \ {t}
  /\ UNCHANGED <<mutex, sf, thread, mExit>>

----------------------------------------------------------------------------
(* The VtHandleEvents thread *)

\* The head of the loop in vtThreadMain.
Loop ==
  /\ thread = "top"
  /\ thread' = IF mExit THEN "ended" ELSE "poll"
  /\ UNCHANGED <<instances, consumers, mutex, sf, mExit>>

CheckNothing ==
  /\ thread = "empty"
  /\ thread' \in {"top", "handle"}
  /\ instances # {} \/ thread' = "top"
  /\ UNCHANGED <<instances, consumers, mutex, sf, mExit>>

\* pollVtEvents first clears up, under the mutex ...
ClearUpInstances ==
  /\ thread = "poll" /\ mutex = "none"
  /\ instances' = consumers
  /\ thread' = "empty"
  /\ UNCHANGED <<consumers, mutex, sf, mExit>>

\* ... and then reads mInstances without it, and waits for an event.
CheckEmpty ==
  /\ thread = "empty"
  /\ thread' \in IF instances = {} THEN {"exit"} ELSE {"top", "handle"}
  /\ UNCHANGED <<instances, consumers, mutex, sf, mExit>>

\* handleBuffers and handleCmds hold the mutex throughout.  A consumer may
\* refuse its frames and be erased; the result of the last instance counts.
HandleEvents ==
  /\ thread = "handle" /\ mutex = "none"
  /\ instances' = consumers
  /\ consumers' \in SUBSET consumers
  /\ thread' \in IF consumers = {} THEN {"exit"}
                 ELSE IF Errors THEN {"top", "exit"} ELSE {"top"}
  /\ UNCHANGED <<mutex, sf, mExit>>

\* An error, or nothing left to do: the thread leaves at the next round.
SetExit ==
  /\ thread = "exit"
  /\ mExit' = TRUE
  /\ thread' = "top"
  /\ UNCHANGED <<instances, consumers, mutex, sf>>

----------------------------------------------------------------------------

ThreadStep == Loop \/ ClearUpInstances \/ CheckEmpty \/ HandleEvents \/ SetExit

ConnectStep == StartThread \/ JoinThread

Next == \/ \E t \in Tunnels : Connect(t) \/ Disconnect(t)
        \/ ConnectStep
        \/ ThreadStep

\* Both threads run; no mutex is held for ever by a thread that can run.
Spec == Init /\ [][Next]_vars /\ WF_vars(ThreadStep) /\ WF_vars(ConnectStep)

----------------------------------------------------------------------------
(* Properties *)

\* The types, who holds the mutex, and that only a thread whose mExit is set
\* has ended.
TypeOK ==
  /\ instances \subseteq Tunnels /\ consumers \subseteq instances
  /\ sf \in {"idle", "start", "join"}
  /\ mutex = IF sf = "idle" THEN "none" ELSE "sf"
  /\ thread \in {"none", "top", "poll", "empty", "handle", "exit", "ended"}
  /\ mExit \in BOOLEAN
  /\ thread = "ended" => mExit

\* A layer that connects waits in pthread_join with mInstanceMutex held, the
\* mutex the event thread needs for every round (VtHandleEventsThread.cpp:45):
\* it is never kept waiting for ever.
StartReturns == sf # "idle" ~> sf = "idle"

\* The event thread does not outlive the last instance for long
\* (VtInstanceMgr.cpp:155).
ThreadStops ==
  instances = {} /\ thread # "none" ~> thread = "ended" \/ instances # {}
=============================================================================
