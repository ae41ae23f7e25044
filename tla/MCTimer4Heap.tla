---------------------------- MODULE MCTimer4Heap ----------------------------
(* Timer4Heap for TLC. *)
EXTENDS Timer4Heap
=============================================================================
