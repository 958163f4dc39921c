---------------------------- MODULE MCProcessors ----------------------------
(* Two buffers of a decoder, three slots, and three for DI with a queue of two. *)
EXTENDS Processors
=============================================================================
