--------------------------------- MODULE DrmBo ---------------------------------
(***************************************************************************)
(* The buffer objects of the drm planes.  import finds the gem handle of a    *)
(* dma-buf and makes a framebuffer of it; the kernel gives one handle per      *)
(* buffer, however often it is asked, and one close ends it.  mHndRefs counts  *)
(* the users of a handle for the planes of all displays, without a lock.      *)
(***************************************************************************)
EXTENDS Integers, FiniteSets

CONSTANTS Thread, Buffer, Handle, FbId, None

VARIABLES open,    \* gem handles of the process: the buffer each names, or None
          refs,    \* mHndRefs
          fbs,     \* framebuffers of the kernel, with the handle their DrmBo keeps
          call,    \* what each thread does in import or release
          raced    \* two threads were in import or release at once

boVars == <<open, refs, fbs, call, raced>>

NoFb == [live |-> FALSE, h |-> None, b |-> None]
Idle == [at |-> "idle", h |-> None, fb |-> None]

BoInit ==
    /\ open = [h \in Handle |-> None]
    /\ refs = [h \in Handle |-> 0]
    /\ fbs = [f \in FbId |-> NoFb]
    /\ call = [t \in Thread |-> Idle]
    /\ raced = FALSE

Enters(t) == raced' = (raced \/ \E u \in Thread \ {t} : call[u] # Idle)

-----------------------------------------------------------------------------
(* import: the handle, the framebuffer, the reference                        *)

\* drmPrimeFDToHandle.
FdToHandle(t, b) ==
    /\ call[t] = Idle
    /\ \E h \in Handle :
          /\ open[h] = b \/ (open[h] = None /\ \A k \in Handle : open[k] # b)
          /\ open' = [open EXCEPT ![h] = b]
          /\ call' = [call EXCEPT ![t] = [at |-> "add", h |-> h, fb |-> None]]
    /\ Enters(t)
    /\ UNCHANGED <<refs, fbs>>

\* drmModeAddFB2: of a closed handle it fails, which MESON_ASSERT takes for fatal.
AddFb(t, f) ==
    /\ call[t].at = "add" /\ open[call[t].h] # None
    /\ ~fbs[f].live
    /\ fbs' = [fbs EXCEPT ![f] = [live |-> TRUE, h |-> call[t].h, b |-> open[call[t].h]]]
    /\ call' = [call EXCEPT ![t] = [at |-> "ref", h |-> call[t].h, fb |-> f]]
    /\ UNCHANGED <<open, refs, raced>>

\* Mutant: the users of a handle are not counted.
RefOnce(t) ==
    /\ call[t].at = "ref"
    /\ refs' = [refs EXCEPT ![call[t].h] = 1]
    /\ call' = [call EXCEPT ![t] = Idle]
    /\ UNCHANGED <<open, fbs, raced>>

refHandle(t) ==
    /\ call[t].at = "ref"
    /\ refs' = [refs EXCEPT ![call[t].h] = @ + 1]
    /\ call' = [call EXCEPT ![t] = Idle]
    /\ UNCHANGED <<open, fbs, raced>>

-----------------------------------------------------------------------------
(* release                                                                   *)

RmFb(t, f) ==
    /\ call[t] = Idle /\ fbs[f].live
    /\ fbs' = [fbs EXCEPT ![f] = NoFb]
    /\ call' = [call EXCEPT ![t] = [at |-> "unref", h |-> fbs[f].h, fb |-> None]]
    /\ Enters(t)
    /\ UNCHANGED <<open, refs>>

unrefHandle(t) ==
    /\ call[t].at = "unref"
    /\ LET h == call[t].h
       IN /\ refs' = [refs EXCEPT ![h] = @ - 1]
          /\ call' = [call EXCEPT ![t] = IF refs[h] - 1 = 0
                                         THEN [at |-> "close", h |-> h, fb |-> None] ELSE Idle]
    /\ UNCHANGED <<open, fbs, raced>>

\* mHndRefs.erase and DRM_IOCTL_GEM_CLOSE.
GemClose(t) ==
    /\ call[t].at = "close"
    /\ refs' = [refs EXCEPT ![call[t].h] = 0]
    /\ open' = [open EXCEPT ![call[t].h] = None]
    /\ call' = [call EXCEPT ![t] = Idle]
    /\ UNCHANGED <<fbs, raced>>

BoNext ==
    \E t \in Thread :
       \/ \E b \in Buffer : FdToHandle(t, b)
       \/ \E f \in FbId : AddFb(t, f) \/ RmFb(t, f)
       \/ refHandle(t) \/ unrefHandle(t) \/ GemClose(t)

BoSpec == BoInit /\ [][BoNext]_boVars

-----------------------------------------------------------------------------
BoType ==
    /\ open \in [Handle -> Buffer \cup {None}]
    /\ refs \in [Handle -> Int]
    /\ fbs \in [FbId -> [live : BOOLEAN, h : Handle \cup {None}, b : Buffer \cup {None}]]
    /\ call \in [Thread -> [at : {"idle", "add", "ref", "unref", "close"},
                            h : Handle \cup {None}, fb : FbId \cup {None}]]
    /\ raced \in BOOLEAN

\* The handle a DrmBo keeps is open and names the buffer of its framebuffer, however
\* many frames and displays share the buffer, and a handle nobody keeps is closed,
\* so that no buffer outlives its last frame (DrmBo.cpp:83-103): unless two
\* threads count at once.
HandlesKept ==
    ~raced => /\ \A f \in FbId : fbs[f].live => open[fbs[f].h] = fbs[f].b
              /\ (\A t \in Thread : call[t] = Idle) =>
                    \A h \in Handle : open[h] # None => \E f \in FbId : fbs[f].live /\ fbs[f].h = h
=============================================================================
