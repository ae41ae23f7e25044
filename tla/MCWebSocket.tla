---------------------------- MODULE MCWebSocket ----------------------------
(* WebSocket for TLC: the frames a client may send. *)
EXTENDS WebSocket

Ok(fin, op, ext, len) == [head |-> "ok", ext |-> ext, fin |-> fin, op |-> op, len |-> len]

(* Whole messages with and without an extended length, fragments that do and do not
   fit into one answer, control frames, and two frames to be refused. *)
SomeFrames ==
  {Ok(TRUE, "data", 1, 1), Ok(FALSE, "data", 0, 2), Ok(FALSE, "cont", 0, 1), Ok(TRUE, "cont", 0, 1),
   Ok(TRUE, "ping", 0, 0), Ok(TRUE, "pong", 0, 1), Ok(TRUE, "close", 0, 1),
   [head |-> "byte", ext |-> 0, fin |-> FALSE, op |-> "ping", len |-> 1],
   [head |-> "length", ext |-> 1, fin |-> TRUE, op |-> "data", len |-> 0]}
=============================================================================
