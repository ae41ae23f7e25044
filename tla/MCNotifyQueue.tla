--------------------------- MODULE MCNotifyQueue ---------------------------
(* NotifyQueue for TLC: the producers are model values given by the configuration. *)
EXTENDS NotifyQueue
=============================================================================
