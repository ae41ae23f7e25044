----------------------------- MODULE Connector -----------------------------
(***************************************************************************)
(* connector.go: connects in progress.  Connect runs in any goroutine; the *)
(* inProgressConnect (ipc) it registers is called by an evPoll goroutine,  *)
(* by its socket's events and by its timer.  Each handler call with the    *)
(* remove and OnClose that follow it is one step: the goroutine of Connect *)
(* shares with it only the timer, which is set at one point of the step.   *)
(*                                                                         *)
(* The kernel reports a connecting socket once it is decided: writable (it *)
(* may be readable too), or EPOLLERR and EPOLLHUP.  Readable alone, which  *)
(* OnRead is for, it never is.  Numbers of descriptors are not reused      *)
(* here; module EvPoll is about that.                                      *)
(***************************************************************************)
EXTENDS Naturals

CONSTANTS Attempts,     \* calls of Connect, each with its handler eh
          Beyond        \* those whose descriptor lies beyond evFdMaxSize

ASSUME ConnectorAssumption == Beyond \subseteq Attempts

VARIABLES call,         \* where Connect is, or what it returned
          sock,         \* the kernel's view of the socket
          fd,           \* ipc.fd > 0
          reg,          \* the ipc is registered
          ok, ioHandled,
          timer,        \* the timer of the ipc is set
          batch,        \* entries of epoll_wait not yet dispatched
          opens, fails, \* history: calls of eh.OnOpen and eh.OnConnectFail
          closes,       \* history: how often the descriptor was closed
          ehFd,         \* the descriptor is eh's
          panicked      \* evDataMap.del was given -1

vars == <<call, sock, fd, reg, ok, ioHandled, timer, batch, opens, fails, closes,
          ehFd, panicked>>

flags == <<ok, ioHandled>>

Init == /\ call = [c \in Attempts |-> "idle"]
        /\ sock = [c \in Attempts |-> "none"]
        /\ fd = [c \in Attempts |-> FALSE]
        /\ reg = [c \in Attempts |-> FALSE]
        /\ ok = [c \in Attempts |-> FALSE] /\ ioHandled = [c \in Attempts |-> FALSE]
        /\ timer = [c \in Attempts |-> FALSE]
        /\ batch = {}
        /\ opens = [c \in Attempts |-> 0] /\ fails = [c \in Attempts |-> 0]
        /\ closes = [c \in Attempts |-> 0]
        /\ ehFd = [c \in Attempts |-> FALSE]
        /\ panicked = FALSE

-----------------------------------------------------------------------------
(* eh.OnOpen: true, and eh keeps the descriptor; or false, and eh.OnClose closes
   it, if there is one. *)
OnOpen(c, hasFd) ==
  /\ opens' = [opens EXCEPT ![c] = @ + 1]
  /\ \/ /\ ehFd' = [ehFd EXCEPT ![c] = hasFd]
        /\ UNCHANGED closes
     \/ /\ ehFd' = [ehFd EXCEPT ![c] = FALSE]
        /\ closes' = [closes EXCEPT ![c] = IF hasFd THEN @ + 1 ELSE @]

(* Connect, up to the system call: it fails (or is in progress and must not be, for
   want of a timeout), succeeds at once, or is in progress.  A descriptor that could
   not even be created counts as closed. *)
Connect(c) ==
  /\ ~panicked /\ call[c] = "idle"
  /\ \/ /\ call' = [call EXCEPT ![c] = "error"]
        /\ closes' = [closes EXCEPT ![c] = @ + 1]
        /\ UNCHANGED <<sock, opens, ehFd>>
     \/ /\ call' = [call EXCEPT ![c] = "nil"]
        /\ sock' = [sock EXCEPT ![c] = "connected"]
        /\ OnOpen(c, TRUE)
     \/ /\ call' = [call EXCEPT ![c] = "add"]
        /\ sock' = [sock EXCEPT ![c] = "connecting"]
        /\ UNCHANGED <<opens, closes, ehFd>>
  /\ UNCHANGED <<fd, reg, flags, timer, batch, fails, panicked>>

(* AddEvHandler(ipc, fd, EvConnect); what a failure leaves behind in evDataMap is
   shown by EvPoll. *)
AddEvHandler(c) ==
  /\ ~panicked /\ call[c] = "add"
  /\ \/ /\ call' = [call EXCEPT ![c] = "schedule"]
        /\ fd' = [fd EXCEPT ![c] = TRUE]
        /\ reg' = [reg EXCEPT ![c] = TRUE]
        /\ UNCHANGED closes
     \/ /\ call' = [call EXCEPT ![c] = "error"]
        /\ closes' = [closes EXCEPT ![c] = @ + 1]
        /\ UNCHANGED <<fd, reg>>
  /\ UNCHANGED <<sock, flags, timer, batch, opens, fails, ehFd, panicked>>

(* ipc.ScheduleTimer: by now the evPoll goroutine may be done with the ipc. *)
ScheduleTimer(c) ==
  /\ ~panicked /\ call[c] = "schedule"
  /\ call' = [call EXCEPT ![c] = "nil"]
  /\ timer' = [timer EXCEPT ![c] = TRUE]
  /\ UNCHANGED <<sock, fd, reg, flags, batch, opens, fails, closes, ehFd, panicked>>

-----------------------------------------------------------------------------
(* The network decides, or never answers. *)
Answer(c) == /\ ~panicked /\ sock[c] = "connecting"
             /\ \E result \in {"connected", "refused"} : sock' = [sock EXCEPT ![c] = result]
             /\ UNCHANGED <<call, fd, reg, flags, timer, batch, opens, fails, closes, ehFd, panicked>>

Decided == {c \in Attempts : reg[c] /\ sock[c] \in {"connected", "refused"}}

EpollWait == /\ ~panicked /\ batch = {}
             /\ Decided # {}
             /\ \E ready \in (SUBSET Decided) \ {{}} : batch' = ready
             /\ UNCHANGED <<call, sock, fd, reg, flags, timer, opens, fails, closes, ehFd, panicked>>

(* ed.eh # nil, for an entry whose ipc may have been removed since: del clears the
   slot of the array, but only unlinks what lies beyond it. *)
HandlerSeen(c) == reg[c] \/ c \in Beyond

(* Deviation: the descriptor stays with the ipc, too, whose OnClose closes it; eh may
   close it again. *)
SucceedKeepsFd(c) == /\ sock[c] = "connected"
                     /\ ioHandled' = [ioHandled EXCEPT ![c] = TRUE]
                     /\ ok' = [ok EXCEPT ![c] = TRUE]
                     /\ timer' = [timer EXCEPT ![c] = FALSE]
                     /\ opens' = [opens EXCEPT ![c] = @ + 1]
                     /\ fd' = [fd EXCEPT ![c] = FALSE]
                     /\ \E n \in {1, 2} : closes' = [closes EXCEPT ![c] = @ + n]
                     /\ ehFd' = [ehFd EXCEPT ![c] = fd[c]]

(* Deviation: success is not noted. *)
SucceedSilently(c) == /\ sock[c] = "connected"
                      /\ fd' = [fd EXCEPT ![c] = FALSE]
                      /\ ioHandled' = [ioHandled EXCEPT ![c] = TRUE]
                      /\ timer' = [timer EXCEPT ![c] = FALSE]
                      /\ UNCHANGED <<ok, opens, closes, ehFd>>

(* OnWrite: the descriptor becomes eh's, the timer is cancelled; it returns false, so
   that OnClose follows, which has nothing to close and calls eh.OnOpen. *)
Succeed(c) == /\ sock[c] = "connected"
              /\ fd' = [fd EXCEPT ![c] = FALSE]
              /\ ioHandled' = [ioHandled EXCEPT ![c] = TRUE]
              /\ ok' = [ok EXCEPT ![c] = TRUE]
              /\ timer' = [timer EXCEPT ![c] = FALSE]
              /\ OnOpen(c, fd[c])

(* EPOLLERR: run calls OnClose and none of the other methods; the timer stays. *)
Refused(c) == /\ sock[c] = "refused"
              /\ fd' = [fd EXCEPT ![c] = FALSE]
              /\ closes' = [closes EXCEPT ![c] = IF fd[c] THEN @ + 1 ELSE @]
              /\ UNCHANGED <<flags, timer, opens, ehFd>>

(* run, one entry: remove(ed.fd, EvAll) comes between the callback and OnClose. *)
Dispatch(c) ==
  /\ ~panicked /\ c \in batch
  /\ batch' = batch \ {c}
  /\ \/ /\ HandlerSeen(c)
        /\ reg' = [reg EXCEPT ![c] = FALSE]
        /\ Succeed(c) \/ Refused(c)
     \/ /\ ~HandlerSeen(c)
        /\ UNCHANGED <<reg, fd, flags, timer, opens, closes, ehFd>>
  /\ UNCHANGED <<call, sock, fails, panicked>>

(* Deviation: the ipc stays registered. *)
TimeOutStaysRegistered(c) == /\ fails' = [fails EXCEPT ![c] = @ + 1]
                             /\ fd' = [fd EXCEPT ![c] = FALSE]
                             /\ closes' = [closes EXCEPT ![c] = @ + 1]
                             /\ UNCHANGED <<reg, panicked>>

(* OnTimeout without an event before: remove(p.Fd(), EvAll), eh.OnConnectFail, then
   OnClose.  With p.Fd() = -1, evDataMap.del indexes its array with -1. *)
TimeOut(c) == \/ /\ fd[c]
                 /\ reg' = [reg EXCEPT ![c] = FALSE]
                 /\ fails' = [fails EXCEPT ![c] = @ + 1]
                 /\ fd' = [fd EXCEPT ![c] = FALSE]
                 /\ closes' = [closes EXCEPT ![c] = @ + 1]
                 /\ UNCHANGED panicked
              \/ /\ ~fd[c]
                 /\ panicked' = TRUE
                 /\ UNCHANGED <<reg, fails, fd, closes>>

(* OnTimeout, called before, between or after the entries of a batch. *)
OnTimeout(c) == /\ ~panicked /\ timer[c]
                /\ timer' = [timer EXCEPT ![c] = FALSE]
                /\ \/ /\ ioHandled[c]
                      /\ UNCHANGED <<reg, fails, fd, closes, panicked>>
                   \/ /\ ~ioHandled[c]
                      /\ TimeOut(c)
                /\ UNCHANGED <<call, sock, flags, batch, opens, ehFd>>

-----------------------------------------------------------------------------
Caller(c) == AddEvHandler(c) \/ ScheduleTimer(c)

Next == \/ EpollWait
        \/ \E c \in Attempts : \/ Connect(c) \/ Caller(c)
                               \/ Answer(c)
                               \/ Dispatch(c) \/ OnTimeout(c)

Spec == Init /\ [][Next]_vars

(* Goroutines inside Connect and the evPoll goroutine keep running, and timers
   expire.  The network need not answer. *)
Fairness == /\ WF_vars(EpollWait)
            /\ \A c \in Attempts : WF_vars(Caller(c)) /\ WF_vars(Dispatch(c)) /\ WF_vars(OnTimeout(c))

FairSpec == Spec /\ Fairness

-----------------------------------------------------------------------------
TypeOK == /\ call \in [Attempts -> {"idle", "add", "schedule", "nil", "error"}]
          /\ sock \in [Attempts -> {"none", "connecting", "connected", "refused"}]
          /\ {fd, reg, ok, ioHandled, timer, ehFd} \subseteq [Attempts -> BOOLEAN]
          /\ batch \subseteq Attempts
          /\ {opens, fails, closes} \subseteq [Attempts -> 0..1]
          /\ panicked \in BOOLEAN

Reported(c) == opens[c] + fails[c]

(* connector.go:24: success or failure is notified.  It is notified once, by one of
   OnOpen and OnConnectFail, and not at all if Connect returned an error: though the
   timer and the socket's event may be in one batch, and the timer may be set after
   the ipc was closed.  This holds for descriptors within evFdMaxSize only: beyond
   it an entry still finds the ipc that a timer removed before. *)
OutcomeOnce == \A c \in Attempts \ Beyond : /\ Reported(c) <= 1
                                            /\ call[c] = "error" => Reported(c) = 0

(* A descriptor is closed at most once, and exactly if neither the ipc nor eh has it:
   ev_handler.go:72, after OnConnectFail it need not be released. *)
DescriptorOwned ==
  /\ TypeOK
  /\ \A c \in Attempts : /\ closes[c] <= 1
                         /\ ~(fd[c] /\ ehFd[c])
                         /\ closes[c] = 1 <=> /\ call[c] \notin {"idle", "add"}
                                              /\ ~fd[c] /\ ~ehFd[c]

(* connector.go:24: whatever the network does, a connect that is under way is
   notified in the end, up to a crash: connector.go:142 says of the timer "don't need
   to cancel it when conn error", but after EPOLLERR the ipc has no descriptor, and its
   timer has evDataMap.del index the array with -1. *)
EveryConnectReported ==
  \A c \in Attempts : call[c] = "nil" ~> (Reported(c) > 0 \/ panicked)
=============================================================================
