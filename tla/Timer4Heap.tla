----------------------------- MODULE Timer4Heap -----------------------------
(***************************************************************************)
(* timer_4heap.go: the timers of one evPoll, a heap of timerItems ordered  *)
(* by expiredAt and one timerfd armed for its root.  All calls come from   *)
(* the evPoll goroutine: schedule and cancel from handlers' callbacks,     *)
(* OnRead when the timerfd's entry of an epoll_wait batch is dispatched.   *)
(*                                                                         *)
(* `clock' is time.Now().UnixMilli().  It may advance during an OnTimeout, *)
(* while `now', which OnRead read before, does not.  The timerfd's own     *)
(* clock is taken to run at the same speed.  Failures of timerfd_settime   *)
(* cannot happen for a valid timerfd.                                      *)
(***************************************************************************)
EXTENDS Integers, Sequences

CONSTANTS Handlers,
          Items,        \* identities of timerItems: 1..n
          Delays,       \* arguments of ScheduleTimer
          Intervals,
          Arity,        \* children of a node of the heap: 4 in the code
          ErrorVal,     \* timers due within ErrorVal are run at once: 2 in the code
          MaxTime,      \* bound: latest expiredAt
          MaxCancels,   \* bound: calls of cancel
          None

(* A time later than the expiredAt of a cancelled item, as any real time is. *)
StartTime == 2

ASSUME Timer4HeapAssumption == /\ Delays \subseteq Nat /\ Intervals \subseteq Nat
                               /\ Arity \in Nat \ {0} /\ ErrorVal \in Nat
                               /\ MaxTime \in Nat /\ MaxTime >= StartTime /\ MaxCancels \in Nat
                               /\ Items \subseteq Nat /\ None \notin Nat \cup Handlers

VARIABLES clock,
          fheap,          \* timer4Heap.fheap
          item,           \* the timerItems
          ti,             \* IOHandle.ti of each handler
          timerfdSettime,
          tfd,            \* when the timerfd becomes readable, None if it is not armed
          reported,       \* the timerfd's entry is in the current batch
          pc, now, fired, \* OnRead: where it is, its time, the item it popped
          cancels,        \* calls of cancel so far
          drift,          \* history: by how much OnRead armed the timerfd too late
          panicked        \* handleExpired called a nil handler

vars == <<clock, fheap, item, ti, timerfdSettime, tfd, reported, pc, now, fired,
          cancels, drift, panicked>>

onread == <<pc, now, fired>>

(* An item that nothing refers to. *)
Blank == [expiredAt |-> 0, interval |-> 0, eh |-> None]

Init == /\ clock = StartTime
        /\ fheap = <<>>
        /\ item = [i \in Items |-> Blank]
        /\ ti = [h \in Handlers |-> None]
        /\ timerfdSettime = 0 /\ tfd = None /\ reported = FALSE
        /\ pc = "loop" /\ now = 0 /\ fired = None
        /\ cancels = 0 /\ drift = 0 /\ panicked = FALSE

-----------------------------------------------------------------------------
(* The heap; positions are counted from 1. *)

Parent(i) == ((i - 2) \div Arity) + 1
Children(i, size) == {c \in (Arity * (i - 1) + 2)..(Arity * i + 1) : c <= size}

Exchange(h, i, j) == [h EXCEPT ![i] = h[j], ![j] = h[i]]

(* A heap of n items and a position in it: where the loops of shiftUp and shiftDown are. *)
Places(n) == [1..n -> Items] \X (1..n)

(* Deviation: a new item stays at the end. *)
ShiftUpNot(heap, index, it) == heap

ShiftUp(heap, index, it) ==
  LET up[s \in Places(Len(heap))] ==
        LET h == s[1]  i == s[2]
        IN  IF i > 1 /\ it[h[i]].expiredAt < it[h[Parent(i)]].expiredAt
            THEN up[<<Exchange(h, i, Parent(i)), Parent(i)>>]
            ELSE h
  IN  up[<<heap, index>>]

(* The child to go on with: the first of the earliest ones. *)
Smallest(h, cs, it) ==
  CHOOSE c \in cs : \A d \in cs : \/ it[h[c]].expiredAt < it[h[d]].expiredAt
                                  \/ it[h[c]].expiredAt = it[h[d]].expiredAt /\ c <= d

(* The children that are due before their parent. *)
Earlier(h, i, it) == {c \in Children(i, Len(h)) : it[h[c]].expiredAt < it[h[i]].expiredAt}

ShiftDown(heap, index, it) ==
  LET down[s \in Places(Len(heap))] ==
        LET h == s[1]  i == s[2]  cs == Earlier(h, i, it)
        IN  IF cs = {} THEN h
            ELSE down[<<Exchange(h, i, Smallest(h, cs, it)), Smallest(h, cs, it)>>]
  IN  down[<<heap, index>>]

Insert(i, it) == ShiftUp(Append(fheap, i), Len(fheap) + 1, it)

(* The heap without its root. *)
WithoutRoot == LET last == Len(fheap)
                   h == SubSeq([fheap EXCEPT ![1] = fheap[last]], 1, last - 1)
               IN  IF h = <<>> THEN h ELSE ShiftDown(h, 1, item)

-----------------------------------------------------------------------------
(* adjustTimerfd: relative to the present; a delay below 1 becomes one nanosecond. *)
AdjustTimerfd(delay) == tfd' = IF delay < 1 THEN clock ELSE clock + delay

InHeap(i) == \E k \in 1..Len(fheap) : fheap[k] = i
Unused == {i \in Items : ~InHeap(i) /\ fired # i /\ \A h \in Handlers : ti[h] # i}

(* Some handler's callback is running in the evPoll goroutine. *)
InCallback == ~panicked /\ pc \in {"loop", "ontimeout"}

(* Deviation: the timerfd is armed for the first timer only. *)
MustArmOnce(min) == timerfdSettime = 0

(* min.expiredAt != timerfdSettime *)
MustArm(min) == min # timerfdSettime

(* schedule; a second timer for a handler is refused. *)
Schedule(h, delay, interval) ==
  /\ InCallback
  /\ ti[h] = None
  /\ clock + delay <= MaxTime
  /\ Unused # {}
  /\ LET i == CHOOSE u \in Unused : \A w \in Unused : u <= w
         min == item'[fheap'[1]].expiredAt
     IN  /\ item' = [item EXCEPT ![i] = [expiredAt |-> clock + delay,
                                         interval |-> interval, eh |-> h]]
         /\ fheap' = Insert(i, item')
         /\ ti' = [ti EXCEPT ![h] = i]
         /\ \/ /\ MustArm(min)
               /\ AdjustTimerfd(min - clock)
               /\ timerfdSettime' = min
               /\ drift' = 0
            \/ /\ ~MustArm(min)
               /\ UNCHANGED <<tfd, timerfdSettime, drift>>
  /\ UNCHANGED <<clock, reported, onread, cancels, panicked>>

(* Deviation: the item goes on naming its handler. *)
CancelKeepsHandler(h) ==
  /\ InCallback
  /\ ti[h] # None /\ cancels < MaxCancels
  /\ item' = [item EXCEPT ![ti[h]].expiredAt = 1]
  /\ ti' = [ti EXCEPT ![h] = None]
  /\ cancels' = cancels + 1
  /\ UNCHANGED <<clock, fheap, timerfdSettime, tfd, reported, onread, drift, panicked>>

(* cancel: the item stays where it is, with the time 1. *)
Cancel(h) ==
  /\ InCallback
  /\ ti[h] # None /\ cancels < MaxCancels
  /\ item' = [item EXCEPT ![ti[h]].eh = None, ![ti[h]].expiredAt = 1]
  /\ ti' = [ti EXCEPT ![h] = None]
  /\ cancels' = cancels + 1
  /\ UNCHANGED <<clock, fheap, timerfdSettime, tfd, reported, onread, drift, panicked>>

-----------------------------------------------------------------------------
Readable == tfd # None /\ tfd <= clock

(* epoll_wait reports the timerfd; other handlers of the batch may come first. *)
EpollIn == /\ InCallback /\ pc = "loop"
           /\ Readable /\ ~reported
           /\ reported' = TRUE
           /\ UNCHANGED <<clock, fheap, item, ti, timerfdSettime, tfd, onread, cancels, drift, panicked>>

(* OnRead: read the timerfd (EAGAIN if it has been armed anew), take the time. *)
OnRead == /\ InCallback /\ pc = "loop"
          /\ reported
          /\ reported' = FALSE
          /\ tfd' = IF Readable THEN None ELSE tfd
          /\ now' = clock
          /\ pc' = "expired"
          /\ UNCHANGED <<clock, fheap, item, ti, timerfdSettime, fired, cancels, drift, panicked>>

(* handleExpired, popOne: the root is due, or nearly. *)
PopOne ==
  /\ ~panicked /\ pc = "expired" /\ fheap # <<>>
  /\ item[fheap[1]].expiredAt - now <= ErrorVal
  /\ fheap' = WithoutRoot
  /\ \/ /\ item[fheap[1]].eh = None
        /\ item' = [item EXCEPT ![fheap[1]] = Blank]
        /\ UNCHANGED <<pc, fired>>
     \/ /\ item[fheap[1]].eh # None
        /\ pc' = "ontimeout" /\ fired' = fheap[1]
        /\ UNCHANGED item
  /\ UNCHANGED <<clock, ti, timerfdSettime, tfd, reported, now, cancels, drift, panicked>>

(* Deviation: the item is put back with the time it had. *)
AgainSameTime ==
  /\ ~panicked /\ pc = "ontimeout"
  /\ item[fired].interval > 0
  /\ fheap' = Insert(fired, item)
  /\ pc' = "expired" /\ fired' = None
  /\ UNCHANGED <<clock, item, ti, timerfdSettime, tfd, reported, now, cancels, drift, panicked>>

(* OnTimeout returns true and the timer is periodic: the item is put back. *)
Again ==
  /\ ~panicked /\ pc = "ontimeout"
  /\ item[fired].interval > 0
  /\ now + item[fired].interval <= MaxTime
  /\ item' = [item EXCEPT ![fired].expiredAt = now + item[fired].interval]
  /\ fheap' = Insert(fired, item')
  /\ pc' = "expired" /\ fired' = None
  /\ UNCHANGED <<clock, ti, timerfdSettime, tfd, reported, now, cancels, drift, panicked>>

(* OnTimeout returns false, or the timer is not periodic: item.eh is told, which is
   nil if OnTimeout cancelled its own timer. *)
Done ==
  /\ ~panicked /\ pc = "ontimeout"
  /\ panicked' = (item[fired].eh = None)
  /\ ti' = [h \in Handlers |-> IF h = item[fired].eh THEN None ELSE ti[h]]
  /\ item' = [item EXCEPT ![fired] = Blank]
  /\ pc' = "expired" /\ fired' = None
  /\ UNCHANGED <<clock, fheap, timerfdSettime, tfd, reported, now, cancels, drift>>

(* Deviation: the timerfd is left alone. *)
RearmNot ==
  /\ ~panicked /\ pc = "expired"
  /\ fheap # <<>> => item[fheap[1]].expiredAt - now > ErrorVal
  /\ pc' = "loop" /\ now' = 0
  /\ UNCHANGED <<clock, fheap, item, ti, timerfdSettime, tfd, reported, fired, cancels, drift, panicked>>

(* handleExpired returns; OnRead arms the timerfd for the root.  timerfdSettime is
   not touched. *)
Rearm ==
  /\ ~panicked /\ pc = "expired"
  /\ \/ /\ fheap = <<>>
        /\ UNCHANGED <<tfd, drift>>
     \/ /\ fheap # <<>>
        /\ item[fheap[1]].expiredAt - now > ErrorVal
        /\ AdjustTimerfd(item[fheap[1]].expiredAt - now)
        /\ drift' = clock - now
  /\ pc' = "loop" /\ now' = 0
  /\ UNCHANGED <<clock, fheap, item, ti, timerfdSettime, reported, fired, cancels, panicked>>

(* Time passes in and between callbacks.  Beyond MaxTime it goes on until a timerfd
   that was armed too late has gone off. *)
Tick == /\ InCallback
        /\ clock < MaxTime \/ (pc = "loop" /\ tfd # None /\ clock < tfd)
        /\ clock' = clock + 1
        /\ UNCHANGED <<fheap, item, ti, timerfdSettime, tfd, reported, onread, cancels, drift, panicked>>

-----------------------------------------------------------------------------
HandleExpired == PopOne \/ Again \/ Done \/ Rearm

Next == \/ \E h \in Handlers : \/ \E d \in Delays, v \in Intervals : Schedule(h, d, v)
                               \/ Cancel(h)
        \/ EpollIn \/ OnRead \/ HandleExpired
        \/ Tick

Spec == Init /\ [][Next]_vars

(* The evPoll goroutine keeps dispatching, callbacks return, and time goes on
   whatever the goroutine does. *)
Fairness == WF_vars(EpollIn \/ OnRead) /\ WF_vars(HandleExpired) /\ SF_vars(Tick)

FairSpec == Spec /\ Fairness

-----------------------------------------------------------------------------
TypeOK == /\ clock \in StartTime..(2 * MaxTime)
          /\ fheap \in Seq(Items)
          /\ item \in [Items -> [expiredAt : Nat, interval : Intervals \cup {0},
                                 eh : Handlers \cup {None}]]
          /\ ti \in [Handlers -> Items \cup {None}]
          /\ timerfdSettime \in Nat
          /\ tfd \in Nat \cup {None}
          /\ reported \in BOOLEAN
          /\ pc \in {"loop", "expired", "ontimeout"}
          /\ now \in Nat /\ fired \in Items \cup {None}
          /\ cancels \in 0..MaxCancels /\ drift \in Nat /\ panicked \in BOOLEAN

Cancelled(i) == item[i].eh = None

(* cancel lowers expiredAt without moving the item, so the heap is no heap any more.
   Only cancelled items are out of order, though: whatever schedule, popOne and
   later cancels do, a timer that still counts is never above its parent. *)
HeapOrder ==
  \A k \in 2..Len(fheap) :
    \/ Cancelled(fheap[k])
    \/ item[fheap[Parent(k)]].expiredAt <= item[fheap[k]].expiredAt

(* A handler with a timer is named by exactly one item, which is in the heap once or
   has just been popped, and every other item of the heap is a cancelled one: a
   timer is not lost, not run twice and not run after it was cancelled. *)
TimersAccounted ==
  /\ TypeOK
  /\ panicked \/
    /\ \A j, k \in 1..Len(fheap) : fheap[j] = fheap[k] => j = k
    /\ \A h \in Handlers : ti[h] # None => /\ item[ti[h]].eh = h
                                           /\ InHeap(ti[h]) \/ fired = ti[h]
    /\ \A k \in 1..Len(fheap) : Cancelled(fheap[k]) \/ ti[item[fheap[k]].eh] = fheap[k]

ArmedInTime == pc = "loop" => \A k \in 1..Len(fheap) :
                 \/ Cancelled(fheap[k])
                 \/ reported \/ Readable
                 \/ tfd # None /\ tfd <= item[fheap[k]].expiredAt + drift

(* connector.go:48 gives timeouts millisecond accuracy.  As long as no timer was
   cancelled, the timerfd goes off in time for every timer, but for the time that
   the callbacks of the last OnRead took: it armed the timerfd relative to the
   present with a delay computed for the past.  After a cancel this is lost, since
   items are then compared with one that keeps its place with the time 1.  The code
   needs delays above ErrorVal for this: a timer run ahead of its time leaves a
   timerfdSettime that is still to come, and schedule trusts it. *)
OnTimeUnlessCancelled == cancels = 0 => ArmedInTime

Served(h) == ti[h] = None \/ fired = ti[h] \/ panicked

(* ev_handler.go:81 and io_handle.go:76: a timer lasts until OnTimeout returns false
   or it is cancelled, so every timer is run or cancelled in the end.  The code keeps
   this as long as no timer was cancelled, whatever is scheduled in between.  After a
   cancel, or with delays within ErrorVal, schedule may leave the timerfd unarmed: it
   does not arm it if the new time equals timerfdSettime, which OnRead leaves behind. *)
TimersRunUnlessCancelled ==
  \A h \in Handlers : ti[h] # None ~> (Served(h) \/ cancels > 0)

(* OnRead comes back to the dispatch loop: ev_handler.go:81 ends a timer only when
   OnTimeout returns false, so a periodic timer must not keep the evPoll goroutine
   in handleExpired.  The code needs intervals above ErrorVal for this. *)
OnReadReturns == pc = "expired" ~> (pc = "loop" \/ panicked)
=============================================================================
