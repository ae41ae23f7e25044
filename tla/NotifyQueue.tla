---------------------------- MODULE NotifyQueue ----------------------------
(***************************************************************************)
(* The hand-over queue between arbitrary goroutines and one evPoll         *)
(* goroutine.  async_write.go and poll_sync_opt.go contain the same        *)
(* algorithm twice (they differ in the item type and in Batch: 256 and 8): *)
(*                                                                         *)
(*   push      appends to writeq under mtx, then raises `notified` with a  *)
(*             compare-and-swap; only the winner writes to the eventfd;    *)
(*   OnRead    (level triggered, run by the evPoll goroutine) swaps the    *)
(*             two queues if readq is empty, consumes at most Batch items, *)
(*             and, once readq is empty, reads the eventfd and lowers      *)
(*             `notified`.                                                 *)
(*                                                                         *)
(* Every step below is one critical section, one atomic operation or one   *)
(* system call of the source; the goroutines interleave between them.  The *)
(* queues are sequences: module RingBuffer shows that the ring buffer that *)
(* holds them is one.  A retry after EINTR leaves the state unchanged and  *)
(* is a stuttering step.  A read of an eventfd with an 8-byte buffer has   *)
(* no other failure than EAGAIN, so the branch for other errors (line 102  *)
(* of async_write.go, 126 of poll_sync_opt.go) is not reachable.           *)
(***************************************************************************)
EXTENDS Naturals, Sequences

CONSTANTS Producers,    \* goroutines that call AsyncWrite / PollSyncOpt
          MaxPush,      \* bound: pushes per producer
          Batch         \* items consumed per OnRead

ASSUME NotifyQueueAssumption == /\ MaxPush \in Nat
                                /\ Batch \in Nat \ {0}

VARIABLES writeq, readq,  \* the double buffer
          notified,       \* atomic.Int32 used as a flag
          efd,            \* counter of the eventfd
          pc,             \* where each producer is in push
          pushed,         \* pushes each producer has begun
          poller,         \* where the evPoll goroutine is in OnRead
          taken,          \* loop counter of OnRead
          accepted,       \* history: items in the order of acceptance
          handled         \* history: items in the order of consumption

vars == <<writeq, readq, notified, efd, pc, pushed, poller, taken, accepted, handled>>

queues  == <<writeq, readq>>
history == <<accepted, handled>>

Items == Producers \X (1..MaxPush)

-----------------------------------------------------------------------------
(* newAsyncWrite / newPollSyncOpt: empty queues, eventfd created with 0. *)
Init == /\ writeq = <<>> /\ readq = <<>>
        /\ notified = 0
        /\ efd = 0
        /\ pc = [p \in Producers |-> "idle"]
        /\ pushed = [p \in Producers |-> 0]
        /\ poller = "epoll_wait"
        /\ taken = 0
        /\ accepted = <<>> /\ handled = <<>>

-----------------------------------------------------------------------------
(* push, first part: the critical section. *)
Push(p) == /\ pc[p] = "idle"
           /\ pushed[p] < MaxPush
           /\ pushed' = [pushed EXCEPT ![p] = @ + 1]
           /\ LET item == <<p, pushed[p] + 1>>
              IN  /\ writeq' = Append(writeq, item)
                  /\ accepted' = Append(accepted, item)
           /\ pc' = [pc EXCEPT ![p] = "cas"]
           /\ UNCHANGED <<readq, notified, efd, poller, taken, handled>>

(* Deviation: the flag is not tested, every push writes to the eventfd. *)
CasUnconditional(p) == /\ pc[p] = "cas"
                       /\ notified' = 1
                       /\ pc' = [pc EXCEPT ![p] = "write"]
                       /\ UNCHANGED <<queues, efd, pushed, poller, taken, history>>

(* push, second part: notified.CompareAndSwap(0, 1). *)
Cas(p) == /\ pc[p] = "cas"
          /\ \/ /\ notified = 0
                /\ notified' = 1
                /\ pc' = [pc EXCEPT ![p] = "write"]
             \/ /\ notified # 0
                /\ pc' = [pc EXCEPT ![p] = "idle"]
                /\ UNCHANGED notified
          /\ UNCHANGED <<queues, efd, pushed, poller, taken, history>>

(* push, third part: the winner of the CAS writes 1 to the eventfd. *)
WriteEfd(p) == /\ pc[p] = "write"
               /\ efd' = efd + 1
               /\ pc' = [pc EXCEPT ![p] = "idle"]
               /\ UNCHANGED <<queues, notified, pushed, poller, taken, history>>

-----------------------------------------------------------------------------
(* The eventfd is registered level triggered (EvEventfd): as long as its
   counter is positive, epoll_wait reports it and OnRead is called. *)
EpollIn == /\ poller = "epoll_wait"
           /\ efd > 0
           /\ poller' = "swap"
           /\ UNCHANGED <<queues, notified, efd, pc, pushed, taken, history>>

(* Deviation: the queues are swapped whether or not readq is empty. *)
SwapAlways == /\ poller = "swap"
              /\ readq' = writeq
              /\ writeq' = readq
              /\ poller' = "drain"
              /\ taken' = 0
              /\ UNCHANGED <<notified, efd, pc, pushed, history>>

(* OnRead: swap the queues, under mtx, if readq is empty. *)
Swap == /\ poller = "swap"
        /\ \/ /\ readq = <<>>
              /\ readq' = writeq
              /\ writeq' = readq
           \/ /\ readq # <<>>
              /\ UNCHANGED queues
        /\ poller' = "drain"
        /\ taken' = 0
        /\ UNCHANGED <<notified, efd, pc, pushed, history>>

(* Deviation: the loop bound is off by one. *)
HandleOneTooMany == /\ poller = "drain"
                    /\ taken <= Batch
                    /\ readq # <<>>
                    /\ readq' = Tail(readq)
                    /\ handled' = Append(handled, Head(readq))
                    /\ taken' = taken + 1
                    /\ UNCHANGED <<writeq, notified, efd, pc, pushed, poller, accepted>>

(* OnRead, one iteration of the bounded loop: pop one item and process it
   (asyncOrderedWrite / doSync). *)
HandleOne == /\ poller = "drain"
             /\ taken < Batch
             /\ readq # <<>>
             /\ readq' = Tail(readq)
             /\ handled' = Append(handled, Head(readq))
             /\ taken' = taken + 1
             /\ UNCHANGED <<writeq, notified, efd, pc, pushed, poller, accepted>>

(* Deviation: the eventfd is read although readq still holds items. *)
DrainEndAlwaysReads == /\ poller = "drain"
                       /\ taken = Batch \/ readq = <<>>
                       /\ poller' = "readefd"
                       /\ UNCHANGED <<queues, notified, efd, pc, pushed, taken, history>>

(* OnRead, end of the loop: with items left, return and let the still
   readable eventfd bring the goroutine back. *)
DrainEnd == /\ poller = "drain"
            /\ \/ /\ taken = Batch
                  /\ readq # <<>>
                  /\ poller' = "epoll_wait"
               \/ /\ readq = <<>>
                  /\ poller' = "readefd"
            /\ UNCHANGED <<queues, notified, efd, pc, pushed, taken, history>>

(* OnRead: reading the eventfd resets its counter; EAGAIN leaves `notified`
   as it is. *)
ReadEfd == /\ poller = "readefd"
           /\ \/ /\ efd > 0
                 /\ efd' = 0
                 /\ poller' = "clear"
              \/ /\ efd = 0
                 /\ poller' = "epoll_wait"
                 /\ UNCHANGED efd
           /\ UNCHANGED <<queues, notified, pc, pushed, taken, history>>

(* OnRead: notified.Store(0). *)
Clear == /\ poller = "clear"
         /\ notified' = 0
         /\ poller' = "epoll_wait"
         /\ UNCHANGED <<queues, efd, pc, pushed, taken, history>>

-----------------------------------------------------------------------------
Producer(p) == Push(p) \/ Cas(p) \/ WriteEfd(p)

Poller == EpollIn \/ Swap \/ HandleOne \/ DrainEnd \/ ReadEfd \/ Clear

Next == (\E p \in Producers : Producer(p)) \/ Poller

Spec == Init /\ [][Next]_vars

(* The evPoll goroutine keeps running (evPoll.run loops for ever and handlers
   return), and a goroutine inside push is eventually scheduled again.  No
   goroutine is obliged to call push. *)
Fairness == /\ WF_vars(Poller)
            /\ \A p \in Producers : WF_vars(Cas(p) \/ WriteEfd(p))

FairSpec == Spec /\ Fairness

-----------------------------------------------------------------------------
TypeOK == /\ writeq \in Seq(Items) /\ readq \in Seq(Items)
          /\ accepted \in Seq(Items) /\ handled \in Seq(Items)
          /\ notified \in {0, 1}
          /\ efd \in Nat
          /\ pc \in [Producers -> {"idle", "cas", "write"}]
          /\ pushed \in [Producers -> 0..MaxPush]
          /\ poller \in {"epoll_wait", "swap", "drain", "readefd", "clear"}
          /\ taken \in 0..Batch

(* Swapping the two buffers while producers append, and stopping after Batch
   items, neither loses, duplicates nor reorders an item: consumed items, then
   readq, then writeq are exactly what push accepted, in order. *)
FifoInv == handled \o readq \o writeq = accepted

InWrite(p) == pc[p] = "write"

(* `notified` is 1 exactly when one wake-up is on its way, and that wake-up is
   in exactly one place: with the producer that won the CAS and has yet to
   write, in the eventfd, or with the evPoll goroutine that has read the
   eventfd and has yet to store 0.  Hence the counter never exceeds 1 and push
   never finds the eventfd full. *)
OneWakeup == /\ efd \in {0, 1}
             /\ notified = 1 <=> \/ \E p \in Producers : InWrite(p)
                                 \/ efd = 1
                                 \/ poller = "clear"
             /\ \A p, q \in Producers : InWrite(p) /\ InWrite(q) => p = q
             /\ (\E p \in Producers : InWrite(p)) => efd = 0 /\ poller # "clear"
             /\ efd = 1 => poller # "clear"

(* As long as OnRead is at work, or has returned with items left in readq
   (async_write.go:89), the eventfd is readable.  So the early return is always
   followed by another OnRead, and the EAGAIN return (async_write.go:100), which
   would leave `notified` at 1 for ever, is never taken. *)
WorkKeepsEfdReadable ==
  poller \in {"swap", "drain", "readefd"} \/ readq # <<>> => efd = 1

(* The double buffer with its flag implements the abstract hand-over. *)
Handoff == INSTANCE FifoHandoff WITH sent <- accepted, delivered <- handled

HandoffSpec == Handoff!Spec

Accepted(item) == \E i \in 1..Len(accepted) : accepted[i] = item
Handled(item) == \E i \in 1..Len(handled) : handled[i] = item

(* An item whose push won the CAS, and with it everything accepted before it,
   is eventually consumed, however the other goroutines interleave. *)
CasWinnerServed ==
  \A p \in Producers, n \in 1..MaxPush :
    (InWrite(p) /\ pushed[p] = n) ~> Handled(<<p, n>>)

(* ev_handler.go:96 and 99 promise that data given to AsyncWrite is sent by the
   evPoll goroutine, and in time.  The code does not keep this: a push between
   the swap and notified.Store(0) fails its CAS and nobody looks at writeq
   again before the next push. *)
EveryPushServed == \A item \in Items : Accepted(item) ~> Handled(item)
=============================================================================
