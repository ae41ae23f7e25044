--------------------------- MODULE MCConnectPool ---------------------------
(* ConnectPool for TLC. *)
EXTENDS ConnectPool
=============================================================================
