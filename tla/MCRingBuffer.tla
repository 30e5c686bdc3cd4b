---------------------------- MODULE MCRingBuffer ----------------------------
(* The redo log on a small ring. *)
EXTENDS RingBuffer
=============================================================================
