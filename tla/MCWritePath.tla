---------------------------- MODULE MCWritePath ----------------------------
(* WritePath for TLC. *)
EXTENDS WritePath
=============================================================================
