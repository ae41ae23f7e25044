----------------------------- MODULE WebSocket -----------------------------
(***************************************************************************)
(* The receiving side of the WebSocket server of example/websocket.go: one *)
(* connection, from the upgrade to its end.  A read brings any number of   *)
(* bytes; onFrame puts them behind what is left of earlier reads, handles  *)
(* the frames that are whole and keeps the rest in partialBuf.             *)
(*                                                                         *)
(* A byte, or a group of bytes that is tested as one, is a unit <<f, j>>:  *)
(* the j-th of frame f.  A header is the two leading bytes, the extended   *)
(* length if there is one, and the mask; the payload follows.  One step is *)
(* one round of onFrame's loop.                                            *)
(***************************************************************************)
EXTENDS Naturals, Sequences, SequencesExt

CONSTANTS FrameTypes,           \* frames a client may send, see FrameType
          MaxFrames,            \* bound: frames in a stream
          maxFramePayloadSize   \* in units

(* head: "ok"; "byte" if parseFrameHeader rejects the first two bytes (reserved bits,
   opcode, a control frame in fragments, no mask); "length" if it rejects the length.
   ext: units of the extended length.  op: "data" stands for text and binary. *)
FrameType == [head : {"ok", "byte", "length"}, ext : 0..1, fin : BOOLEAN,
              op : {"data", "cont", "ping", "pong", "close"}, len : Nat]

ASSUME WebSocketAssumption ==
  /\ FrameTypes \subseteq FrameType
  /\ MaxFrames \in Nat /\ maxFramePayloadSize \in Nat \ {0}
  /\ \A t \in FrameTypes : t.head = "ok" => /\ t.len <= maxFramePayloadSize
                                            /\ t.op \in {"ping", "pong", "close"} => t.fin

VARIABLES stream,       \* the frames of the client
          arrived,      \* units of it that were read
          upgraded, closed,
          alive,        \* the connection is "up", "refused" (a callback returned false)
                        \* or "gone" (the peer closed it)
          looping, buf, \* onFrame is in its loop, and what it has not consumed
          partialBuf,
          cont,         \* continueWsFrame: payloads collected, or <<>> if not started
          out           \* what was given to Write

wsVars == <<stream, arrived, upgraded, closed, alive, looping, buf, partialBuf, cont, out>>

HeaderLen(t) == 2 + t.ext + 1
Size(t) == HeaderLen(t) + t.len
Wire == FlattenSeq([f \in DOMAIN stream |-> [j \in 1..Size(stream[f]) |-> <<f, j>>]])

WSInit == /\ stream \in BoundedSeq(FrameTypes, MaxFrames)
          /\ arrived = 0
          /\ upgraded = FALSE /\ closed = FALSE /\ alive = "up"
          /\ looping = FALSE /\ buf = <<>> /\ partialBuf = <<>>
          /\ cont = <<>> /\ out = <<>>

Waiting == alive = "up" /\ ~looping

(* onUpgrade: the first read must be a whole request that asks for the upgrade. *)
OnUpgrade == /\ Waiting /\ ~upgraded
             /\ \/ upgraded' = TRUE /\ UNCHANGED alive
                \/ alive' = "refused" /\ UNCHANGED upgraded
             /\ UNCHANGED <<stream, arrived, closed, looping, buf, partialBuf, cont, out>>

(* OnRead: n bytes, put behind partialBuf. *)
OnRead == /\ Waiting /\ upgraded
          /\ \E n \in 1..(Len(Wire) - arrived) :
               /\ arrived' = arrived + n
               /\ buf' = partialBuf \o SubSeq(Wire, arrived + 1, arrived + n)
          /\ partialBuf' = <<>>
          /\ looping' = TRUE
          /\ UNCHANGED <<stream, upgraded, closed, alive, cont, out>>

(* OnRead: n = 0. *)
PeerCloses == /\ Waiting
              /\ alive' = "gone"
              /\ UNCHANGED <<stream, arrived, upgraded, closed, looping, buf, partialBuf, cont, out>>

-----------------------------------------------------------------------------
(* onFrame's loop *)

F == buf[1][1]      \* number of the frame the buffer starts with
T == stream[F]
Aligned == alive = "up" /\ looping /\ buf # <<>> /\ buf[1][2] = 1

(* parseFrameHeader returns as soon as there are the units that decide. *)
Decisive(t) == CASE t.head = "byte"   -> 2
                 [] t.head = "length" -> 2 + t.ext
                 [] t.head = "ok"     -> HeaderLen(t)

ParseFrameHeader == CASE Len(buf) < Decisive(T)                     -> "partial"
                      [] Len(buf) >= Decisive(T) /\ T.head # "ok"   -> "refused"
                      [] Len(buf) >= Decisive(T) /\ T.head = "ok"   -> "header"

(* Deviation: a frame whose last byte has just come is not whole yet. *)
WholePlusOne == ParseFrameHeader = "header" /\ (T.len > 0 => Len(buf) - HeaderLen(T) > T.len)

Whole == ParseFrameHeader = "header" /\ Len(buf) - HeaderLen(T) >= T.len

Refused == alive' = "refused" /\ UNCHANGED <<closed, looping, buf, partialBuf, cont, out>>

(* Deviation: of a frame whose payload is not complete, the header is not kept. *)
KeptWithoutHeader == IF ParseFrameHeader = "header" THEN SubSeq(buf, HeaderLen(T) + 1, Len(buf))
                                                    ELSE buf

(* What is appended to partialBuf, which was reset. *)
Kept == buf

Keep == /\ partialBuf' = Kept
        /\ buf' = <<>> /\ looping' = FALSE
        /\ UNCHANGED <<alive, closed, cont, out>>

Partial == /\ Aligned
           /\ ParseFrameHeader = "partial" \/ (ParseFrameHeader = "header" /\ ~Whole)
           /\ Keep
           /\ UNCHANGED <<stream, arrived, upgraded>>

RefuseHeader == /\ Aligned
                /\ ParseFrameHeader = "refused"
                /\ Refused
                /\ UNCHANGED <<stream, arrived, upgraded>>

LoopEnd == /\ looping /\ buf = <<>>
           /\ alive = "up"
           /\ looping' = FALSE
           /\ UNCHANGED <<stream, arrived, upgraded, closed, alive, buf, partialBuf, cont, out>>

(* writeControlFrame and writeMessageFrame: nothing once closed. *)
WriteControlFrame(r) == out' = IF closed THEN out ELSE Append(out, r)

Length(data) == LET len[k \in 0..Len(data)] ==
                      IF k = 0 THEN 0 ELSE len[k - 1] + stream[data[k][1]].len
                IN len[Len(data)]

WriteMessageFrame(data) == out' = IF closed \/ Length(data) > maxFramePayloadSize
                                  THEN out ELSE Append(out, <<"message", data>>)

Consumed == buf' = SubSeq(buf, Size(T) + 1, Len(buf))

(* The payload, on which maskBytes is called in the last frame of a message only. *)
PayloadBuf == <<F, IF T.fin THEN "plain" ELSE "masked">>

(* OnPing and OnPong. *)
Control == /\ T.op \in {"ping", "pong"}
           /\ IF T.op = "ping" THEN WriteControlFrame(<<"pong", F>>) ELSE UNCHANGED out
           /\ Consumed
           /\ UNCHANGED <<closed, looping, cont>>

(* OnCloseFrame, once; the loop is left, and the rest of buf dropped. *)
CloseFrame == /\ T.op = "close"
              /\ WriteControlFrame(<<"close", F>>)
              /\ closed' = TRUE
              /\ looping' = FALSE /\ buf' = <<>>
              /\ UNCHANGED cont

(* A message in one frame, or the first of its fragments. *)
FirstFrame == /\ T.op = "data"
              /\ IF T.fin THEN WriteMessageFrame(<<PayloadBuf>>) /\ UNCHANGED cont
                          ELSE cont' = <<PayloadBuf>> /\ UNCHANGED out
              /\ Consumed
              /\ UNCHANGED <<closed, looping>>

(* A further fragment, or the last one. *)
ContinueFrame == /\ T.op = "cont" /\ cont # <<>>
                 /\ IF T.fin THEN WriteMessageFrame(Append(cont, PayloadBuf)) /\ cont' = <<>>
                             ELSE cont' = Append(cont, PayloadBuf) /\ UNCHANGED out
                 /\ Consumed
                 /\ UNCHANGED <<closed, looping>>

HandleFrame == /\ Aligned
               /\ Whole
               /\ \/ /\ Control \/ CloseFrame \/ FirstFrame \/ ContinueFrame
                     /\ UNCHANGED <<alive, partialBuf>>
                  \/ T.op = "cont" /\ cont = <<>> /\ Refused
               /\ UNCHANGED <<stream, arrived, upgraded>>

(* After a close that dropped the rest of a read the next one may start inside a frame:
   what is found there may be anything.  Nothing is written any more. *)
Garbage == /\ looping /\ buf # <<>> /\ alive = "up"
           /\ buf[1][2] # 1
           /\ \/ Refused
              \/ Keep
              \/ /\ \E n \in 1..Len(buf) : buf' = SubSeq(buf, n + 1, Len(buf))
                 /\ UNCHANGED <<alive, closed, looping, partialBuf, cont, out>>
           /\ UNCHANGED <<stream, arrived, upgraded>>

-----------------------------------------------------------------------------
OnFrame == Partial \/ RefuseHeader \/ HandleFrame \/ Garbage \/ LoopEnd

WSNext == OnUpgrade \/ OnRead \/ PeerCloses \/ OnFrame

WSSpec == WSInit /\ [][WSNext]_wsVars

-----------------------------------------------------------------------------
WSTypeOK == /\ arrived \in 0..Len(Wire)
            /\ {upgraded, closed, looping} \subseteq BOOLEAN
            /\ alive \in {"up", "refused", "gone"}
            /\ {buf, partialBuf} \subseteq Seq(Range(Wire))
            /\ cont \in Seq((DOMAIN stream) \X {"plain", "masked"})

(* The end of onFrame (websocket.go:436 and 445): no frame is left waiting in partialBuf
   that could have been handled, or refused, with what has arrived; the client may be
   waiting for its answer and send nothing more. *)
NoFrameWaits ==
  /\ WSTypeOK
  /\ Waiting /\ ~closed /\ partialBuf # <<>> =>
       LET f == partialBuf[1][1]
       IN /\ partialBuf = [j \in 1..Len(partialBuf) |-> <<f, j>>]
          /\ Len(partialBuf) < IF stream[f].head = "ok" THEN Size(stream[f])
                                                       ELSE Decisive(stream[f])

Rest == buf \o partialBuf \o SubSeq(Wire, arrived + 1, Len(Wire))

NextFrame == IF closed \/ Rest = <<>> THEN Len(stream) + 1 ELSE Rest[1][1]
Collected == IF closed THEN <<>> ELSE cont
Status == IF alive # "up" THEN alive
          ELSE IF closed THEN "closing" ELSE IF upgraded THEN "open" ELSE "http"

Frames == INSTANCE WsFrames WITH next <- NextFrame, cont <- Collected, replies <- out, status <- Status

(* However reads cut the stream, and whatever is kept from one to the next, onFrame
   (websocket.go:422-508) handles the client's frames one by one, in order and whole,
   refuses none that is legal, and writes nothing after its answer to a close. *)
FramesSpec == Frames!Spec
=============================================================================
