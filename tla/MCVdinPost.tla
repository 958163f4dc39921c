----------------------------- MODULE MCVdinPost -----------------------------
(* Values for model checking VdinPost. *)
EXTENDS VdinPost, TLC

CONSTANTS b1, b2, b3, b4, keystone

BufSymmetry == Permutations(Bufs)
=============================================================================
