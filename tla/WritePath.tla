----------------------------- MODULE WritePath -----------------------------
(***************************************************************************)
(* The sending side of one IOHandle: Write (called in the evPoll           *)
(* goroutine), AsyncWrite (called anywhere), asyncOrderedWrite (called by  *)
(* asyncWrite.OnRead), AsyncOrderedFlush (called by OnWrite), Destroy      *)
(* (called by OnClose), and the reuse of the handler after Init.           *)
(*                                                                         *)
(* A buffer carries the units (bytes) not written yet: `writen' and `len'  *)
(* of asyncWriteBuf are the two ends of what is left.  `pend' is the       *)
(* hand-over to the evPoll goroutine, a FIFO by module NotifyQueue.  A     *)
(* system call takes what fits into the socket's buffer; on a broken       *)
(* connection it fails, which the code treats as if nothing fitted.  Each  *)
(* action up to a system call is one step of the evPoll goroutine; the     *)
(* peer and the other goroutines interleave between them.  AsyncWrite, in  *)
(* another goroutine, looks at the handler's descriptor twice, and the     *)
(* evPoll goroutine may close and reuse the handler in between.            *)
(*                                                                         *)
(* Every unit bears the number of the connection that was open when it was *)
(* handed to Write or AsyncWrite.  The code keeps no such note: an item's  *)
(* fd is never read.                                                       *)
(***************************************************************************)
EXTENDS Integers, Sequences, SequencesExt, FiniteSetsExt

CONSTANTS SockCap,      \* units the socket's buffer holds
          Lens,         \* lengths of the data given to Write and AsyncWrite
          MaxBufs,      \* bound: calls of Write and AsyncWrite
          MaxConns      \* bound: connections the handler is used for

ASSUME WritePathAssumption == /\ SockCap \in Nat \ {0}
                              /\ Lens \subseteq Nat
                              /\ MaxBufs \in Nat /\ MaxConns \in Nat \ {0}

VARIABLES conn,         \* number of the connection, counting reuses
          stale,        \* history: reused with asyncWriteWaiting still set
          late,         \* history: reused with data of before still on its way
          isOpen,       \* fd > 0
          armed,        \* EvOut is registered
          waiting,      \* asyncWriteWaiting
          size,         \* asyncWriteBufSize
          bufQ,         \* asyncWriteBufQ
          calling,      \* calls of AsyncWrite that have seen a descriptor, not pushed yet
          pend,         \* items pushed to asyncWrite and not yet handled
          flushing,     \* buffers AsyncOrderedFlush may still try, or -1
          inSock,       \* units in the socket's buffer
          broken,       \* the connection was reset
          calls,        \* calls of Write and AsyncWrite so far
          freed,        \* how often each buffer was given back to the pool
          given,        \* history: units given to Write and asyncOrderedWrite on this connection
          wire,         \* history: units the socket of this connection took
          panicked      \* AsyncWrite found its two looks at the descriptor to differ

vars == <<conn, stale, late, isOpen, armed, waiting, size, bufQ, calling, pend, flushing,
          inSock, broken, calls, freed, given, wire, panicked>>

sock == <<inSock, broken>>
async == <<late, calling, panicked>>

Bufs == 1..MaxBufs
Data(b, len) == [k \in 1..len |-> <<conn, b, k>>]
Drop(s, n) == SubSeq(s, n + 1, Len(s))
Take(s, n) == SubSeq(s, 1, n)

(* The handler, registered for EvIn on its first connection. *)
Init == /\ conn = 1 /\ stale = FALSE /\ late = FALSE /\ isOpen = TRUE
        /\ armed = FALSE /\ waiting = FALSE /\ size = 0
        /\ bufQ = <<>> /\ calling = {} /\ pend = <<>> /\ flushing = -1
        /\ inSock = 0 /\ broken = FALSE
        /\ calls = 0 /\ freed = [b \in Bufs |-> 0]
        /\ given = <<>> /\ wire = <<>> /\ panicked = FALSE

Idle == flushing = -1

-----------------------------------------------------------------------------
(* syscall.Write: how many of len units the socket takes. *)
Took(len) == IF broken THEN 0 ELSE Min({len, SockCap - inSock})

SysWrite(units) == /\ inSock' = inSock + Took(Len(units))
                   /\ wire' = wire \o Take(units, Took(Len(units)))
                   /\ UNCHANGED broken

Free(bs) == freed' = [b \in Bufs |-> IF b \in bs THEN freed[b] + 1 ELSE freed[b]]

(* asyncWriteBufQ != nil && !asyncWriteBufQ.IsEmpty(): new data must queue up. *)
Behind == bufQ # <<>>

(* Deviation: queued data is not counted. *)
UncountedSize(len) == size

(* asyncWriteBufSize += len *)
GrownSize(len) == size + len

(* Deviation: the rest of a partly written buffer goes to the back. *)
RestToBack(abf, n) == Append(Tail(bufQ), [abf EXCEPT !.rest = Drop(@, n)])

(* abf.writen += n; asyncWriteBufQ.PushFront(abf), after PopFront. *)
RestToFront(abf, n) == <<[abf EXCEPT !.rest = Drop(@, n)]>> \o Tail(bufQ)

(* n == abf.len - abf.writen, which is looked at only if n > 0. *)
Complete(abf, n) == n > 0 /\ n = Len(abf.rest)

(* Deviation: Destroy gives nothing back. *)
NothingUnsent == {}

(* What Destroy pops and gives back to the pool. *)
Unsent == {bufQ[i].id : i \in 1..Len(bufQ)}

(* Deviation: the flag is set, EvOut is not registered. *)
ArmOutOnlyFlag == waiting' = TRUE /\ UNCHANGED armed

(* if asyncWriteWaiting == false { asyncWriteWaiting = true; append(fd, EvOut) } *)
ArmOut == /\ waiting' = TRUE
          /\ armed' = IF waiting THEN armed ELSE TRUE

-----------------------------------------------------------------------------
(* Write, in the evPoll goroutine: behind what is queued, or directly, queueing
   what the socket did not take.  A buffer is allocated only for what is queued;
   one that needs none counts as given back. *)
Write(len) ==
  /\ ~panicked /\ isOpen /\ Idle /\ calls < MaxBufs
  /\ calls' = calls + 1
  /\ given' = given \o Data(calls + 1, len)
  /\ LET b == calls + 1
         units == Data(b, len)
         rest == Drop(units, Took(len))
     IN  \/ /\ Behind
            /\ bufQ' = Append(bufQ, [id |-> b, rest |-> units])
            /\ size' = GrownSize(len)
            /\ UNCHANGED <<sock, wire, freed, waiting, armed>>
         \/ /\ ~Behind
            /\ SysWrite(units)
            /\ \/ /\ rest = <<>>
                  /\ Free({b})
                  /\ UNCHANGED <<bufQ, size, waiting, armed>>
               \/ /\ rest # <<>>
                  /\ bufQ' = Append(bufQ, [id |-> b, rest |-> rest])
                  /\ size' = GrownSize(Len(rest))
                  /\ ArmOut
                  /\ UNCHANGED freed
  /\ UNCHANGED <<conn, stale, isOpen, pend, flushing, async>>

(* AsyncWrite, in any goroutine: the first look at the descriptor. *)
AsyncWrite(len) ==
  /\ ~panicked /\ isOpen /\ calls < MaxBufs
  /\ calls' = calls + 1
  /\ calling' = calling \cup
       {[conn |-> conn, abf |-> [id |-> calls + 1, rest |-> Data(calls + 1, len)]]}
  /\ UNCHANGED <<conn, stale, late, isOpen, armed, waiting, size, bufQ, pend, flushing, sock, freed,
                 given, wire, panicked>>

(* AsyncWrite, from the second look on.  A descriptor of the same number may be that
   of a later connection; otherwise the goroutine panics, and the process ends.  To
   copy and push the data afterwards is the same step: a close in between leaves the
   item on its way, as a close behind the push does. *)
AsyncPush(call) ==
  /\ ~panicked
  /\ \/ /\ isOpen
        /\ calling' = calling \ {call}
        /\ pend' = Append(pend, call.abf)
        /\ UNCHANGED panicked
     \/ /\ ~isOpen \/ conn # call.conn
        /\ panicked' = TRUE
        /\ UNCHANGED <<calling, pend>>
  /\ UNCHANGED <<conn, stale, late, isOpen, armed, waiting, size, bufQ, flushing, sock, calls, freed,
                 given, wire>>

(* asyncOrderedWrite, for the next item handed over.  Nothing tells whether the
   item was pushed for this connection or for an earlier one. *)
AsyncOrderedWrite ==
  /\ ~panicked /\ Idle /\ pend # <<>>
  /\ pend' = Tail(pend)
  /\ LET abf == Head(pend)
         n == Took(Len(abf.rest))
     IN  \/ /\ ~isOpen
            /\ Free({abf.id})
            /\ UNCHANGED <<bufQ, size, sock, wire, given, waiting, armed>>
         \/ /\ isOpen /\ Behind
            /\ given' = given \o abf.rest
            /\ bufQ' = Append(bufQ, abf)
            /\ size' = GrownSize(Len(abf.rest))
            /\ UNCHANGED <<freed, sock, wire, waiting, armed>>
         \/ /\ isOpen /\ ~Behind
            /\ given' = given \o abf.rest
            /\ SysWrite(abf.rest)
            /\ size' = GrownSize(Len(abf.rest)) - n
            /\ \/ /\ Complete(abf, n)
                  /\ Free({abf.id})
                  /\ UNCHANGED <<bufQ, waiting, armed>>
               \/ /\ ~Complete(abf, n)
                  /\ bufQ' = Append(bufQ, [abf EXCEPT !.rest = Drop(@, n)])
                  /\ ArmOut
                  /\ UNCHANGED freed
  /\ UNCHANGED <<conn, stale, isOpen, flushing, calls, async>>

-----------------------------------------------------------------------------
(* EPOLLOUT is reported while EvOut is armed and the socket is writable (the reset
   may come between epoll_wait and the callback); OnWrite calls AsyncOrderedFlush, which tries as many
   buffers as there are now. *)
OnWrite == /\ ~panicked /\ isOpen /\ Idle
           /\ armed /\ inSock < SockCap
           /\ flushing' = Len(bufQ)
           /\ UNCHANGED <<conn, stale, isOpen, armed, waiting, size, bufQ, pend, sock, calls, freed,
                          given, wire, async>>

(* AsyncOrderedFlush, one iteration: pop a buffer, write it, and push it back to
   the front and stop if something is left of it. *)
FlushOne ==
  /\ ~panicked /\ flushing > 0
  /\ LET abf == Head(bufQ)
         n == Took(Len(abf.rest))
     IN  /\ SysWrite(abf.rest)
         /\ size' = size - n
         /\ \/ /\ Complete(abf, n)
               /\ Free({abf.id})
               /\ bufQ' = Tail(bufQ)
               /\ flushing' = flushing - 1
            \/ /\ ~Complete(abf, n)
               /\ bufQ' = RestToFront(abf, n)
               /\ flushing' = 0
               /\ UNCHANGED freed
  /\ UNCHANGED <<conn, stale, isOpen, armed, waiting, pend, calls, given, async>>

(* Deviation: EvOut is removed whether or not the queue is empty. *)
FlushEndAlwaysDisarms ==
  /\ ~panicked /\ flushing = 0
  /\ flushing' = -1
  /\ armed' = FALSE /\ waiting' = FALSE
  /\ UNCHANGED <<conn, stale, isOpen, size, bufQ, pend, sock, calls, freed, given, wire, async>>

(* AsyncOrderedFlush, after the loop: with an empty queue EvOut is removed. *)
FlushEnd ==
  /\ ~panicked /\ flushing = 0
  /\ flushing' = -1
  /\ \/ /\ bufQ = <<>>
        /\ armed' = FALSE /\ waiting' = FALSE
     \/ /\ bufQ # <<>>
        /\ UNCHANGED <<armed, waiting>>
  /\ UNCHANGED <<conn, stale, isOpen, size, bufQ, pend, sock, calls, freed, given, wire, async>>

-----------------------------------------------------------------------------
(* run removes the handler (EvOut goes with it) and calls OnClose, which calls
   Destroy: close, then give back what is queued.  asyncWriteWaiting and
   asyncWriteBufSize stay as they are. *)
OnClose == /\ ~panicked /\ isOpen /\ Idle
           /\ isOpen' = FALSE /\ armed' = FALSE
           /\ Free(Unsent)
           /\ bufQ' = <<>>
           /\ UNCHANGED <<conn, stale, waiting, size, pend, flushing, sock, calls, given, wire, async>>

(* The handler is reused: Init, which resets none of these variables, then
   AddEvHandler for EvIn on a new connection.  Nothing waits for the items and calls
   of the last one. *)
Reuse == /\ ~panicked /\ ~isOpen /\ conn < MaxConns
         /\ conn' = conn + 1 /\ isOpen' = TRUE
         /\ stale' = waiting
         /\ late' = (pend # <<>> \/ calling # {})
         /\ inSock' = 0 /\ broken' = FALSE
         /\ given' = <<>> /\ wire' = <<>>
         /\ UNCHANGED <<armed, waiting, size, bufQ, calling, pend, flushing, calls, freed, panicked>>

(* The peer takes a unit out of the socket's buffer; or the connection breaks. *)
PeerReads == /\ ~panicked /\ isOpen /\ inSock > 0
             /\ inSock' = inSock - 1
             /\ UNCHANGED <<conn, stale, isOpen, armed, waiting, size, bufQ, pend, flushing, broken,
                            calls, freed, given, wire, async>>

Reset == /\ ~panicked /\ isOpen /\ ~broken
         /\ broken' = TRUE
         /\ UNCHANGED <<conn, stale, isOpen, armed, waiting, size, bufQ, pend, flushing, inSock,
                        calls, freed, given, wire, async>>

-----------------------------------------------------------------------------
Flush == FlushOne \/ FlushEnd

Next == \/ \E len \in Lens : Write(len) \/ AsyncWrite(len)
        \/ \E call \in calling : AsyncPush(call)
        \/ AsyncOrderedWrite
        \/ OnWrite \/ Flush
        \/ OnClose \/ Reuse
        \/ PeerReads \/ Reset

Spec == Init /\ [][Next]_vars

(* The evPoll goroutine keeps dispatching: an event that stays reported is served.
   From the reset on every epoll_wait reports EPOLLERR, so that flushing cannot
   keep OnClose away for ever.  The peer keeps reading. *)
Fairness == /\ WF_vars(AsyncOrderedWrite)
            /\ WF_vars(OnWrite)
            /\ WF_vars(Flush)
            /\ WF_vars(PeerReads)
            /\ SF_vars(broken /\ OnClose)

FairSpec == Spec /\ Fairness

-----------------------------------------------------------------------------
Units == (1..MaxConns) \X Bufs \X (Nat \ {0})
BufType == [id : Bufs, rest : Seq(Units)]
CallType == [conn : 1..MaxConns, abf : BufType]

TypeOK == /\ conn \in 1..MaxConns
          /\ {stale, late, isOpen, armed, waiting, broken, panicked} \subseteq BOOLEAN
          /\ size \in Nat
          /\ bufQ \in Seq(BufType) /\ pend \in Seq(BufType)
          /\ calling \subseteq CallType
          /\ flushing \in -1..MaxBufs
          /\ inSock \in 0..SockCap
          /\ calls \in 0..MaxBufs
          /\ freed \in [Bufs -> Nat]
          /\ given \in Seq(Units) /\ wire \in Seq(Units)

Queued == FlattenSeq([i \in 1..Len(bufQ) |-> bufQ[i].rest])

(* What the socket took, followed by what is queued, is what Write and
   asyncOrderedWrite were given on this connection, in the order in which the
   evPoll goroutine got to see it: short writes, partial flushes and writes that
   arrive while others wait lose, repeat and reorder nothing.  And all of it was
   meant for this connection (io_handle.go:161, Destroy is "to clean up any unsent bf
   data"), unless the handler was reused with data of the last one still on its way:
   Destroy does not reach that, and nothing compares the fd of an item. *)
StreamOrder ==
  isOpen => /\ wire \o Queued = given
            /\ ~late => \A i \in 1..Len(given) : given[i][1] = conn

(* io_handle.go:25 lets a handler be reused after Init.  While data is queued
   EvOut is registered, or nothing would ever call OnWrite; once it has been
   flushed EvOut is gone, or OnWrite would be called for ever.  Not so on a connection
   for which the handler was reused after a close with data waiting: Init does not
   reset asyncWriteWaiting. *)
QueuedIsArmed == isOpen /\ ~stale /\ Idle => (bufQ # <<>> <=> armed)

(* asyncWriteBufSize is the number of units waiting in the queue, with the same
   exception: it keeps what was waiting when the last connection was closed. *)
SizeIsExact == TypeOK /\ (isOpen /\ ~stale => size = Len(Queued))

InSeq(b, s) == \E i \in 1..Len(s) : s[i].id = b
Called(b) == \E call \in calling : call.abf.id = b

(* A pooled buffer is in one place: on its way to the evPoll goroutine, in the
   queue, or given back, and it is given back once, whatever the moment at which
   the handler is closed.  A call that has not pushed has none yet. *)
BuffersAccounted ==
  \A b \in 1..calls :
    \/ freed[b] = 1 /\ ~Called(b) /\ ~InSeq(b, pend) /\ ~InSeq(b, bufQ)
    \/ freed[b] = 0 /\ Called(b) /\ ~InSeq(b, pend) /\ ~InSeq(b, bufQ)
    \/ freed[b] = 0 /\ ~Called(b) /\ InSeq(b, pend) /\ ~InSeq(b, bufQ)
    \/ freed[b] = 0 /\ ~Called(b) /\ ~InSeq(b, pend) /\ InSeq(b, bufQ)

(* Data that was queued because the socket was full leaves the queue if the peer
   keeps reading, unless the connection is closed; but for a stale asyncWriteWaiting, and up to a
   panic of AsyncWrite. *)
QueueDrains == bufQ # <<>> ~> (bufQ = <<>> \/ ~isOpen \/ stale \/ panicked)
=============================================================================
