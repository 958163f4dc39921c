----------------------------- MODULE MCPresent -----------------------------
(* Two layers and two planes.                                                *)
EXTENDS Present, TLC

Symmetry == Permutations(LayerId) \cup Permutations(Plane)
=============================================================================
