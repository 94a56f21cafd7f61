--------------------------- MODULE MC_RingBuffer ---------------------------
(* RingBuffer for TLC; the constants get their values in MC_RingBuffer.cfg. *)
EXTENDS RingBuffer
=============================================================================
