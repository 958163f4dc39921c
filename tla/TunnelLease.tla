---------------------------- MODULE TunnelLease ----------------------------
(***************************************************************************)
(* What the hardware composer promises the producer of a video tunnel, said *)
(* without queues, threads or layers: a frame is on loan from the moment    *)
(* the driver hands it out until it goes back, it is put on a screen only   *)
(* while on loan, it goes back once, and if a screen still shows it then    *)
(* its fence goes with it.                                                  *)
(***************************************************************************)
EXTENDS Naturals

CONSTANTS Frames,    \* the names a frame may have while it is on loan
          Screens,   \* the video planes
          None       \* nothing shown

VARIABLES lent,      \* the frames on loan
          shown,     \* the frame each screen shows, None if it was cleared
          back       \* the frames the last step gave back, fenced or not

vars == <<lent, shown, back>>

Init == lent = {} /\ shown = [s \in Screens |-> None] /\ back = {}

\* Frames are handed out.  A name may be used again: a screen that still shows
\* the earlier frame of that name shows none of those on loan.
Take(S) ==
  /\ S \cap lent = {}
  /\ lent' = lent \cup S
  /\ shown' = [s \in Screens |-> IF shown[s] \in S THEN None ELSE shown[s]]
  /\ back' = {}

Show(s, f) ==
  /\ f \in lent
  /\ shown' = [shown EXCEPT ![s] = f]
  /\ back' = {}
  /\ UNCHANGED lent

\* The screens of C are cleared and the frames of R go back, those of G with a
\* fence: every frame that stays on a screen is among them.
Give(C, R, G) ==
  /\ shown' = [s \in Screens |-> IF s \in C THEN None ELSE shown[s]]
  /\ \A s \in Screens : shown'[s] \in R => shown'[s] \in G
  /\ lent' = lent \ R
  /\ back' = {[frame |-> f, fenced |-> f \in G] : f \in R}

Next ==
  \/ \E S \in SUBSET (Frames \ lent) : Take(S)
  \/ \E s \in Screens, f \in Frames : Show(s, f)
  \/ \E C \in SUBSET Screens, R \in SUBSET lent : \E G \in SUBSET R : Give(C, R, G)

Spec == Init /\ [][Next]_vars
=============================================================================
