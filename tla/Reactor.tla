------------------------------ MODULE Reactor ------------------------------
(***************************************************************************)
(* reactor.go: several evPolls behind one interface that any goroutine may *)
(* call.  AddEvHandler, AppendEvent and RemoveEvent go to the evPoll of    *)
(* the descriptor and change what is shared with it, the saved mask of     *)
(* events and the kernel's, step by step and without a lock.  PollSyncOpt  *)
(* hands a value to every evPoll, one after the other; each stores it in   *)
(* its pCache, which callbacks read.  Run starts the evPolls and collects  *)
(* their errors.                                                           *)
(*                                                                         *)
(* The hand-over queue of an evPoll is the FIFO that NotifyQueue is shown  *)
(* to implement.  Handlers, reuse of descriptors and the dispatch loop are *)
(* in EvPoll; here every descriptor is below evFdMaxSize, is opened once,  *)
(* and a batch is a choice of the next callback.                           *)
(***************************************************************************)
EXTENDS Integers, Sequences

CONSTANTS evPollNum,
          Fds,
          Goroutines,       \* goroutines of the application
          Main,             \* the one that calls Run
          MaxCalls,         \* bound: calls in a behaviour
          None

ASSUME ReactorAssumption == /\ evPollNum \in Nat \ {0}
                            /\ Fds \subseteq Nat \ {0}
                            /\ Main \in Goroutines
                            /\ MaxCalls \in Nat

Polls == 0..evPollNum - 1
Callers == Goroutines \cup Polls    \* evPolls make calls in their callbacks

EvIn  == {"in", "rdhup"}
EvOut == {"out", "rdhup"}
EvAll == EvIn \cup EvOut

(* The evPoll of a descriptor, the same for all three calls. *)
EvPollOf(fd) == IF evPollNum > 1 THEN fd % evPollNum ELSE 0

VARIABLES op,           \* the call each caller is in, and where in it
          calls,        \* bound: calls made so far
          saved, used,  \* evData.events, and whether its fd is set
          kern,         \* masks of the kernel's interest lists
          raced,        \* history: descriptors on which two calls overlapped
          queue,        \* values handed over to each evPoll and not stored yet
          pCache,
          last,         \* history: the value of the latest PollSyncOpt
          mixed,        \* history: two PollSyncOpts overlapped
          seen,         \* the value a handler read last
          torn,         \* history: the reads of a pCache that overlapped a store to it
          poll,         \* evPoll goroutines
          main, wg,     \* where Run is, and its WaitGroup
          errS, result  \* errors collected, and those Run returned

masks == <<saved, used, kern, raced>>
sync  == <<queue, pCache, last, mixed, seen, torn>>
run   == <<poll, main, wg, errS, result>>
vars  == <<op, calls, masks, sync, run>>

Idle == [call |-> "none"]

Init == /\ op = [c \in Callers |-> Idle] /\ calls = 0
        /\ saved = [fd \in Fds |-> {}] /\ used = [fd \in Fds |-> FALSE]
        /\ kern = [fd \in Fds |-> None] /\ raced = {}
        /\ queue = [i \in Polls |-> <<>>] /\ pCache = [i \in Polls |-> 0]
        /\ last = 0 /\ mixed = FALSE
        /\ seen = [fd \in Fds |-> 0] /\ torn = {}
        /\ poll = [i \in Polls |-> "new"]
        /\ main = "setup" /\ wg = 0 /\ errS = {} /\ result = None

-----------------------------------------------------------------------------
(* Calls *)

(* A caller that may make a call: an evPoll between two events, a goroutine of the
   application, the main one only until it is in Run. *)
Free(c) == /\ op[c] = Idle
           /\ c \in Polls => poll[c] = "running"
           /\ c = Main => main = "setup"

Begin(c, o) == /\ Free(c)
               /\ calls < MaxCalls
               /\ calls' = calls + 1
               /\ op' = [op EXCEPT ![c] = o]

At(c, call, step) == op[c].call = call /\ op[c].at = step

Goto(c, step) == op' = [op EXCEPT ![c].at = step]
Return(c) == op' = [op EXCEPT ![c] = Idle]

(* A call on fd begins: does it overlap another one? *)
Overlaps(fd) == raced' = IF \E d \in Callers : op[d].call \in {"add", "mod"} /\ op[d].fd = fd
                         THEN raced \cup {fd} ELSE raced

(* AddEvHandler. *)
AddEvHandler(c, fd) ==
  /\ ~used[fd] /\ kern[fd] = None
  /\ \A d \in Callers : ~(op[d].call = "add" /\ op[d].fd = fd)
  /\ Begin(c, [call |-> "add", fd |-> fd, at |-> "store"])
  /\ Overlaps(fd)
  /\ UNCHANGED <<saved, used, kern, sync, run>>

AddStore(c) == /\ At(c, "add", "store")
               /\ saved' = [saved EXCEPT ![op[c].fd] = EvIn]
               /\ used' = [used EXCEPT ![op[c].fd] = TRUE]
               /\ Goto(c, "ctl")
               /\ UNCHANGED <<calls, kern, raced, sync, run>>

(* EPOLL_CTL_ADD; or it fails, and the evData stays. *)
AddCtl(c) == /\ At(c, "add", "ctl")
             /\ \/ kern' = [kern EXCEPT ![op[c].fd] = EvIn] /\ Goto(c, "get")
                \/ UNCHANGED kern /\ Return(c)
             /\ UNCHANGED <<calls, saved, used, raced, sync, run>>

(* AppendEvent(fd, ev) and RemoveEvent(fd, ev), which begin with load. *)
AppendEvent(c, fd, ev) ==
  /\ Begin(c, IF used[fd] THEN [call |-> "mod", fd |-> fd, ev |-> ev, at |-> "read",
                                append |-> TRUE, undo |-> FALSE, mask |-> {}]
                          ELSE Idle)
  /\ Overlaps(fd)
  /\ UNCHANGED <<saved, used, kern, sync, run>>

RemoveEvent(c, fd, ev) ==
  LET step == IF ev = EvAll \/ saved[fd] \ ev = {} THEN "del" ELSE "read"
  IN /\ Begin(c, IF used[fd] \/ ev = EvAll
                 THEN [call |-> "mod", fd |-> fd, ev |-> ev, at |-> step,
                       append |-> FALSE, undo |-> FALSE, mask |-> {}]
                 ELSE Idle)
     /\ Overlaps(fd)
     /\ UNCHANGED <<saved, used, kern, sync, run>>

(* ed.events |= ev or &= ^ev: a load, and a store of what it makes of the value. *)
Read(c) == /\ At(c, "mod", "read")
           /\ op' = [op EXCEPT ![c].mask = saved[op[c].fd], ![c].at = "save"]
           /\ UNCHANGED <<calls, masks, sync, run>>

Save(c) == /\ At(c, "mod", "save")
           /\ saved' = [saved EXCEPT ![op[c].fd] =
                          IF op[c].append # op[c].undo THEN op[c].mask \cup op[c].ev
                                                       ELSE op[c].mask \ op[c].ev]
           /\ IF op[c].undo THEN Return(c) ELSE Goto(c, "build")
           /\ UNCHANGED <<calls, used, kern, raced, sync, run>>

(* Deviation: the kernel is given the events of the call alone. *)
BuildAlone(c) == /\ At(c, "mod", "build")
                 /\ op' = [op EXCEPT ![c].mask = op[c].ev, ![c].at = "ctl"]
                 /\ UNCHANGED <<calls, masks, sync, run>>

(* The argument of epoll_ctl. *)
Build(c) == /\ At(c, "mod", "build")
            /\ op' = [op EXCEPT ![c].mask = saved[op[c].fd], ![c].at = "ctl"]
            /\ UNCHANGED <<calls, masks, sync, run>>

(* EPOLL_CTL_MOD, which fails if the descriptor is not registered: then the saved mask
   is recovered. *)
Mod(c) == /\ At(c, "mod", "ctl")
          /\ IF kern[op[c].fd] = None
             THEN /\ op' = [op EXCEPT ![c].undo = TRUE, ![c].at = "read"]
                  /\ UNCHANGED kern
             ELSE /\ kern' = [kern EXCEPT ![op[c].fd] = op[c].mask]
                  /\ Return(c)
          /\ UNCHANGED <<calls, saved, used, raced, sync, run>>

(* del, then EPOLL_CTL_DEL. *)
DelSlot(c) == /\ At(c, "mod", "del")
              /\ saved' = [saved EXCEPT ![op[c].fd] = {}]
              /\ used' = [used EXCEPT ![op[c].fd] = FALSE]
              /\ Goto(c, "ctldel")
              /\ UNCHANGED <<calls, kern, raced, sync, run>>

DelCtl(c) == /\ At(c, "mod", "ctldel")
             /\ kern' = [kern EXCEPT ![op[c].fd] = None]
             /\ Return(c)
             /\ UNCHANGED <<calls, saved, used, raced, sync, run>>

-----------------------------------------------------------------------------
(* PollSyncOpt and pCache *)

(* PollSyncOpt, and InitPollSyncOpt, which does the same before Run. *)
PollSyncOpt(c) == /\ Begin(c, [call |-> "sync", val |-> calls + 1, at |-> 0])
                  /\ last' = calls + 1
                  /\ mixed' = (mixed \/ \E d \in Callers : op[d].call = "sync")
                  /\ UNCHANGED <<masks, queue, pCache, seen, torn, run>>

(* Deviation: the last evPoll is left out. *)
PushShort(c) == /\ op[c].call = "sync"
                /\ LET i == op[c].at
                   IN /\ queue' = [queue EXCEPT ![i] = Append(@, op[c].val)]
                      /\ IF i + 1 < evPollNum - 1 THEN Goto(c, i + 1) ELSE Return(c)
                /\ UNCHANGED <<calls, masks, pCache, last, mixed, seen, torn, run>>

(* Deviation: the value is stored at once, by the caller (pollSyncOpt.init). *)
PushStores(c) == /\ op[c].call = "sync"
                 /\ op' = [op EXCEPT ![c] = [call |-> "store", to |-> op[c].at, val |-> op[c].val]]
                 /\ UNCHANGED <<calls, masks, sync, run>>

(* push to the next evPoll. *)
Push(c) == /\ op[c].call = "sync"
           /\ LET i == op[c].at
              IN /\ queue' = [queue EXCEPT ![i] = Append(@, op[c].val)]
                 /\ IF i + 1 < evPollNum THEN Goto(c, i + 1) ELSE Return(c)
           /\ UNCHANGED <<calls, masks, pCache, last, mixed, seen, torn, run>>

(* doSync, in the evPoll's goroutine: pCache[id] = val takes a while. *)
DoSync(i) == /\ poll[i] = "running" /\ op[i] = Idle
             /\ queue[i] # <<>>
             /\ op' = [op EXCEPT ![i] = [call |-> "store", to |-> i, val |-> Head(queue[i])]]
             /\ queue' = [queue EXCEPT ![i] = Tail(@)]
             /\ UNCHANGED <<calls, masks, pCache, last, mixed, seen, torn, run>>

PCacheSet(c) == /\ op[c].call = "store"
                /\ pCache' = [pCache EXCEPT ![op[c].to] = op[c].val]
                /\ Return(c)
                /\ UNCHANGED <<calls, masks, queue, last, mixed, seen, torn, run>>

(* PCachedGet: by OnOpen, in the goroutine that called AddEvHandler, as in
   example/download.go:43; or by a callback, in the evPoll's own. *)
PCachedGet(c, fd) ==
  LET i == EvPollOf(fd)
  IN /\ seen' = [seen EXCEPT ![fd] = pCache[i]]
     /\ torn' = IF \E d \in Callers : op[d].call = "store" /\ op[d].to = i
                THEN torn \cup {<<c, i>>} ELSE torn

OnOpenGet(c) == /\ At(c, "add", "get")
                /\ PCachedGet(c, op[c].fd)
                /\ Return(c)
                /\ UNCHANGED <<calls, masks, queue, pCache, last, mixed, run>>

CallbackGet(fd) == /\ kern[fd] # None
                   /\ Free(EvPollOf(fd))
                   /\ PCachedGet(EvPollOf(fd), fd)
                   /\ UNCHANGED <<op, calls, masks, queue, pCache, last, mixed, run>>

-----------------------------------------------------------------------------
(* Run *)

Go == /\ main \in {"setup", "run"} /\ op[Main] = Idle
      /\ main' = "run"
      /\ \E i \in Polls : /\ poll[i] = "new"
                          /\ \A j \in 0..i - 1 : poll[j] # "new"
                          /\ poll' = [poll EXCEPT ![i] = "running"]

(* Deviation: wg.Add is left to the goroutine, which comes to it late. *)
SpawnUncounted == /\ Go
                  /\ UNCHANGED <<op, calls, masks, sync, wg, errS, result>>

(* wg.Add(1) and the goroutine of the next evPoll. *)
Spawn == /\ Go
         /\ wg' = wg + 1
         /\ UNCHANGED <<op, calls, masks, sync, errS, result>>

(* epoll_wait fails: run returns an error, its deferred wg.Done first. *)
Fail(i) == /\ Free(i)
           /\ poll' = [poll EXCEPT ![i] = "failed"]
           /\ UNCHANGED <<op, calls, masks, sync, main, wg, errS, result>>

Done(i) == /\ poll[i] = "failed"
           /\ wg' = wg - 1
           /\ poll' = [poll EXCEPT ![i] = "done"]
           /\ UNCHANGED <<op, calls, masks, sync, main, errS, result>>

Report(i) == /\ poll[i] = "done"
             /\ errS' = errS \cup {i}
             /\ poll' = [poll EXCEPT ![i] = "ended"]
             /\ UNCHANGED <<op, calls, masks, sync, main, wg, result>>

(* wg.Wait, and the errors there are by then; none stands for nil. *)
Returns == /\ main = "run" /\ \A i \in Polls : poll[i] # "new"
           /\ wg = 0
           /\ main' = "returned"
           /\ result' = errS
           /\ UNCHANGED <<op, calls, masks, sync, poll, wg, errS>>

-----------------------------------------------------------------------------
Call(c) == \/ PollSyncOpt(c)
           \/ \E fd \in Fds : AddEvHandler(c, fd)
           \/ \E fd \in Fds, ev \in {EvIn, EvOut} : AppendEvent(c, fd, ev)
           \/ \E fd \in Fds, ev \in {EvIn, EvOut, EvAll} : RemoveEvent(c, fd, ev)

Step(c) == \/ AddStore(c) \/ AddCtl(c) \/ OnOpenGet(c)
           \/ Read(c) \/ Save(c) \/ Build(c) \/ Mod(c) \/ DelSlot(c) \/ DelCtl(c)
           \/ Push(c) \/ PCacheSet(c)

Next == \/ \E c \in Callers : Call(c) \/ Step(c)
        \/ \E i \in Polls : DoSync(i) \/ Fail(i) \/ Done(i) \/ Report(i)
        \/ \E fd \in Fds : CallbackGet(fd)
        \/ Spawn \/ Returns

Spec == Init /\ [][Next]_vars

-----------------------------------------------------------------------------
TypeOK == /\ calls \in 0..MaxCalls
          /\ saved \in [Fds -> SUBSET EvAll] /\ used \in [Fds -> BOOLEAN]
          /\ kern \in [Fds -> {None} \cup SUBSET EvAll]
          /\ queue \in [Polls -> Seq(1..MaxCalls)] /\ pCache \in [Polls -> 0..MaxCalls]
          /\ poll \in [Polls -> {"new", "running", "failed", "done", "ended"}]
          /\ wg \in 0..evPollNum
          /\ errS \subseteq Polls

(* Run (reactor.go:103-130) returns after every evPoll has ended, and with no more than
   their errors.  (Not with all of them: wg.Done comes before the error is collected.) *)
RunOutlivesPolls ==
  /\ TypeOK
  /\ main = "returned" => /\ \A i \in Polls : poll[i] \in {"done", "ended"}
                          /\ result \subseteq errS

(* PollSyncOpt (reactor.go:98-102) pushes to one evPoll after the other.  An evPoll that
   has stored all it was handed has the latest value, the same as every other such
   evPoll; unless two calls overlapped, which may reach the evPolls in different orders
   and leave them with different values for good. *)
CachesAgreeUnlessMixed ==
  /\ \A c \in Callers : op[c].call # "sync"
  /\ ~mixed
  => \A i \in Polls : queue[i] = <<>> /\ op[i].call # "store" => pCache[i] = last

(* io_handle.go:107: PCachedGet is "lock free".  A callback never reads the map of its
   evPoll while a value is stored in it (Go ends the program when it notices), since
   both happen in the evPoll's goroutine; an OnOpen may, when it runs elsewhere.  And no
   handler sees a value that its evPoll then goes back behind, unless calls overlapped. *)
ReadsWholeAndForward ==
  /\ \A i \in Polls : <<i, i>> \notin torn
  /\ ~mixed => \A fd \in Fds : seen[fd] <= pCache[EvPollOf(fd)]

(* epoll.go:92 and :109: append and remove save the mask first, recover it on failure,
   and are meant for several goroutines.  Between calls the saved mask is the kernel's;
   unless two calls for the descriptor overlapped, of which the one that saved last may
   be the one that reached the kernel first. *)
MasksAgreeUnlessRaced ==
  \A fd \in Fds \ raced :
    /\ kern[fd] # None
    /\ \A c \in Callers : op[c].call \in {"add", "mod"} => op[c].fd # fd \/ op[c].at = "get"
    => used[fd] /\ kern[fd] = saved[fd]
=============================================================================
