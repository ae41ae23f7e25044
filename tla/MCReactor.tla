----------------------------- MODULE MCReactor -----------------------------
(* Reactor for TLC. *)
EXTENDS Reactor
=============================================================================
