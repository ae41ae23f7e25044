----------------------------- MODULE MCAcceptor -----------------------------
(* Acceptor for TLC. *)
EXTENDS Acceptor
=============================================================================
