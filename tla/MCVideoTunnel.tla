--------------------------- MODULE MCVideoTunnel ---------------------------
(* Values for model checking VideoTunnel. *)
EXTENDS VideoTunnel, TLC

CONSTANTS l1, l2, t1, t2, f1, f2, f3

FdSymmetry == Permutations(Fds)
=============================================================================
