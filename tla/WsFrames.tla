------------------------------ MODULE WsFrames ------------------------------
(***************************************************************************)
(* What the WebSocket server of example/websocket.go owes to a client that *)
(* sends a stream of frames: the frames are handled one at a time and in   *)
(* order, each whole, however the network cuts the stream into reads.      *)
(***************************************************************************)
EXTENDS Naturals, Sequences

CONSTANT maxFramePayloadSize

VARIABLES stream,       \* the frames of the client
          next,         \* the first frame not handled yet
          cont,         \* payloads of the unfinished message, or <<>>
          replies,      \* what was answered: <<"message", payloads>>, <<"pong", frame>>, ...
          status        \* "http", "open", "closing", or why the connection was given up

vars == <<stream, next, cont, replies, status>>

Frame == stream[next]
Ready == status = "open" /\ next <= Len(stream)

(* Payloads of fragments are passed on as they came, with the client's mask. *)
Payload == <<next, IF Frame.fin THEN "plain" ELSE "masked">>

Length(data) == LET len[k \in 0..Len(data)] ==
                      IF k = 0 THEN 0 ELSE len[k - 1] + stream[data[k][1]].len
                IN len[Len(data)]

(* A message is answered, unless it is longer than one frame may be. *)
Answer(data) == replies' = IF Length(data) > maxFramePayloadSize
                           THEN replies ELSE Append(replies, <<"message", data>>)

Init == next = 1 /\ cont = <<>> /\ replies = <<>> /\ status = "http"

Upgrade == /\ status = "http" /\ status' = "open"
           /\ UNCHANGED <<stream, next, cont, replies>>

(* A frame that is not legal, or continues nothing. *)
Refuse == /\ Ready
          /\ Frame.head # "ok" \/ (Frame.op = "cont" /\ cont = <<>>)
          /\ status' = "refused"
          /\ UNCHANGED <<stream, next, cont, replies>>

Handle == /\ Ready /\ Frame.head = "ok"
          /\ next' = next + 1
          /\ \/ Frame.op = "ping" /\ replies' = Append(replies, <<"pong", next>>) /\ UNCHANGED cont
             \/ Frame.op = "pong" /\ UNCHANGED <<replies, cont>>
             \/ Frame.op = "data" /\ Frame.fin /\ Answer(<<Payload>>) /\ UNCHANGED cont
             \/ Frame.op = "data" /\ ~Frame.fin /\ cont' = <<Payload>> /\ UNCHANGED replies
             \/ /\ Frame.op = "cont" /\ cont # <<>>
                /\ IF Frame.fin THEN Answer(Append(cont, Payload)) /\ cont' = <<>>
                                ELSE cont' = Append(cont, Payload) /\ UNCHANGED replies
          /\ UNCHANGED <<stream, status>>

(* A close is answered, and nothing that follows it. *)
Close == /\ Ready /\ Frame.head = "ok" /\ Frame.op = "close"
         /\ replies' = Append(replies, <<"close", next>>)
         /\ status' = "closing"
         /\ next' = Len(stream) + 1 /\ cont' = <<>>
         /\ UNCHANGED stream

(* The request for the upgrade was not acceptable, the peer has gone, or something that
   followed a close was not understood. *)
GiveUp == /\ \/ status \in {"http", "closing"} /\ status' = "refused"
             \/ status \in {"http", "open", "closing"} /\ status' = "gone"
          /\ UNCHANGED <<stream, next, cont, replies>>

Next == Upgrade \/ Refuse \/ Handle \/ Close \/ GiveUp

Spec == Init /\ [][Next]_vars
=============================================================================
