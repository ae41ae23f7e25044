---------------------------- MODULE MCRingBuffer ----------------------------
(* RingBuffer for TLC: the stored values are model values given by the configuration. *)
EXTENDS RingBuffer
=============================================================================
