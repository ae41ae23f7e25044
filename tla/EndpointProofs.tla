--------------------------- MODULE EndpointProofs ---------------------------
(***************************************************************************)
(* How connections come about.  Connector: for any number of connects,     *)
(* within evFdMaxSize or beyond it, who owns the descriptor, and how often *)
(* the outcome is reported.  Acceptor: for any number of acceptors and     *)
(* clients, who will call an acceptor again.                               *)
(***************************************************************************)
EXTENDS Connector, Acceptor, SequenceTheorems, TLAPS

-----------------------------------------------------------------------------
(* Connector. *)

(* A connect that has not reached AddEvHandler, or that failed, left no trace
   but the descriptor it closed. *)
Untouched(c) == /\ ~fd[c] /\ ~timer[c] /\ c \notin batch /\ ~ehFd[c]
                /\ opens[c] = 0 /\ fails[c] = 0

(* The ipc has its descriptor exactly while it is registered, and then nothing has
   been reported; its timer is set after AddEvHandler.  An entry of a batch whose ipc
   is no longer registered belongs to a connect that timed out since epoll_wait. *)
Progress(c) ==
  /\ call[c] \in {"idle", "add"} => Untouched(c) /\ closes[c] = 0
  /\ call[c] = "error" => Untouched(c) /\ closes[c] = 1
  /\ call[c] = "schedule" => ~timer[c]
  /\ reg[c] <=> fd[c]
  /\ fd[c] => opens[c] = 0 /\ fails[c] = 0 /\ closes[c] = 0 /\ ~ehFd[c]
  /\ c \in batch /\ ~fd[c] => opens[c] = 0 /\ fails[c] = 1 /\ closes[c] = 1 /\ ~ehFd[c]
  /\ call[c] \in {"schedule", "nil"} => (closes[c] = 1 <=> ~fd[c] /\ ~ehFd[c])
  /\ c \notin Beyond => Reported(c) <= 1

IInv == TypeOK /\ \A c \in Attempts : Progress(c)

-----------------------------------------------------------------------------
(* The type invariant, variable by variable: Booleans and the rest. *)
BoolFacts ==
  /\ fd \in [Attempts -> BOOLEAN] /\ reg \in [Attempts -> BOOLEAN]
  /\ ok \in [Attempts -> BOOLEAN] /\ ioHandled \in [Attempts -> BOOLEAN]
  /\ timer \in [Attempts -> BOOLEAN] /\ ehFd \in [Attempts -> BOOLEAN]

OtherFacts ==
  /\ call \in [Attempts -> {"idle", "add", "schedule", "nil", "error"}]
  /\ sock \in [Attempts -> {"none", "connecting", "connected", "refused"}]
  /\ batch \subseteq Attempts
  /\ opens \in [Attempts -> 0..1] /\ fails \in [Attempts -> 0..1]
  /\ closes \in [Attempts -> 0..1]

TypeFacts == BoolFacts /\ OtherFacts

(* The sets of functions in TypeOK say the same. *)
LEMMA TypeOKFacts == TypeOK <=> TypeFacts /\ panicked \in BOOLEAN
  BY Zenon DEF TypeOK, TypeFacts, BoolFacts, OtherFacts

(* The same of the next state. *)
LEMMA TypeOKFactsNext == TypeOK' <=> TypeFacts' /\ panicked' \in BOOLEAN
  BY Zenon DEF TypeOK, TypeFacts, BoolFacts, OtherFacts

(* The invariant implies the two properties. *)
LEMMA IInvImplies == IInv => OutcomeOnce /\ DescriptorOwned
<1> SUFFICES ASSUME IInv PROVE OutcomeOnce /\ DescriptorOwned
  OBVIOUS
<1>1. TypeFacts
  BY TypeOKFacts DEF IInv
<1>2. ASSUME NEW c \in Attempts \ Beyond
      PROVE  Reported(c) <= 1 /\ (call[c] = "error" => Reported(c) = 0)
  BY DEF IInv, Progress, Untouched, Reported
<1>3. ASSUME NEW c \in Attempts
      PROVE  /\ closes[c] <= 1
             /\ ~(fd[c] /\ ehFd[c])
             /\ closes[c] = 1 <=> /\ call[c] \notin {"idle", "add"}
                                  /\ ~fd[c] /\ ~ehFd[c]
  <2>1. call[c] \in {"idle", "add", "schedule", "nil", "error"} /\ closes[c] \in 0..1
    BY <1>1 DEF TypeFacts, OtherFacts
  <2> QED BY <2>1 DEF IInv, Progress, Untouched
<1> QED BY <1>2, <1>3 DEF OutcomeOnce, DescriptorOwned, IInv

(* No connect has begun. *)
LEMMA InitIInv == Init => IInv
<1> SUFFICES ASSUME Init PROVE IInv
  OBVIOUS
<1>1. TypeFacts
  BY DEF Init, TypeFacts, BoolFacts, OtherFacts
<1>2. panicked \in BOOLEAN
  BY Zenon DEF Init
<1>3. ASSUME NEW c \in Attempts PROVE Progress(c)
  BY DEF Init, Progress, Untouched, Reported
<1> QED BY <1>1, <1>2, <1>3, TypeOKFacts DEF IInv

(* Connect: an error closes the descriptor, success hands it to eh, and a connect in
   progress keeps it outside of the ipc. *)
LEMMA ConnectStep ==
  ASSUME IInv, NEW c \in Attempts, Connect(c)
  PROVE  IInv'
<1>1. TypeFacts /\ Progress(c)
  BY TypeOKFacts DEF IInv
<1>2. TypeFacts'
  <2>1. BoolFacts'
    BY <1>1, Zenon DEF Connect, OnOpen, TypeFacts, BoolFacts, flags
  <2>2. OtherFacts'
    BY <1>1 DEF Connect, OnOpen, TypeFacts, OtherFacts, Progress, Untouched, flags
  <2> QED BY <2>1, <2>2 DEF TypeFacts
<1>3. Progress(c)'
  BY <1>1, <1>2 DEF Connect, OnOpen, TypeFacts, BoolFacts, OtherFacts, Progress, Untouched,
      Reported, flags
<1>4. ASSUME NEW d \in Attempts, d # c PROVE Progress(d)'
  <2>1. Progress(d)
    BY DEF IInv
  <2> QED BY <1>1, <1>2, <1>4, <2>1 DEF Connect, OnOpen, TypeFacts, BoolFacts, OtherFacts, Progress, Untouched,
      Reported, flags
<1>5. panicked' \in BOOLEAN
  BY Zenon, TypeOKFacts DEF IInv, Connect
<1> QED BY <1>2, <1>3, <1>4, <1>5, TypeOKFactsNext DEF IInv

(* AddEvHandler gives the ipc the descriptor, or closes it. *)
LEMMA AddEvHandlerStep ==
  ASSUME IInv, NEW c \in Attempts, AddEvHandler(c)
  PROVE  IInv'
<1>1. TypeFacts /\ Progress(c)
  BY TypeOKFacts DEF IInv
<1>2. TypeFacts'
  <2>1. BoolFacts'
    BY <1>1, Zenon DEF AddEvHandler, TypeFacts, BoolFacts, flags
  <2>2. OtherFacts'
    BY <1>1 DEF AddEvHandler, TypeFacts, OtherFacts, Progress, Untouched, flags
  <2> QED BY <2>1, <2>2 DEF TypeFacts
<1>3. Progress(c)'
  BY <1>1, <1>2 DEF AddEvHandler, TypeFacts, BoolFacts, OtherFacts, Progress, Untouched,
      Reported, flags
<1>4. ASSUME NEW d \in Attempts, d # c PROVE Progress(d)'
  <2>1. Progress(d)
    BY DEF IInv
  <2> QED BY <1>1, <1>2, <1>4, <2>1 DEF AddEvHandler, TypeFacts, BoolFacts, OtherFacts, Progress, Untouched,
      Reported, flags
<1>5. panicked' \in BOOLEAN
  BY Zenon, TypeOKFacts DEF IInv, AddEvHandler
<1> QED BY <1>2, <1>3, <1>4, <1>5, TypeOKFactsNext DEF IInv

(* ScheduleTimer, even when the ipc is done. *)
LEMMA ScheduleTimerStep ==
  ASSUME IInv, NEW c \in Attempts, ScheduleTimer(c)
  PROVE  IInv'
<1>1. TypeFacts /\ Progress(c)
  BY TypeOKFacts DEF IInv
<1>2. TypeFacts'
  <2>1. BoolFacts'
    BY <1>1, Zenon DEF ScheduleTimer, TypeFacts, BoolFacts, flags
  <2>2. OtherFacts'
    BY <1>1 DEF ScheduleTimer, TypeFacts, OtherFacts, Progress, Untouched, flags
  <2> QED BY <2>1, <2>2 DEF TypeFacts
<1>3. Progress(c)'
  BY <1>1, <1>2 DEF ScheduleTimer, TypeFacts, BoolFacts, OtherFacts, Progress, Untouched,
      Reported, flags
<1>4. ASSUME NEW d \in Attempts, d # c PROVE Progress(d)'
  <2>1. Progress(d)
    BY DEF IInv
  <2> QED BY <1>1, <1>2, <1>4, <2>1 DEF ScheduleTimer, TypeFacts, BoolFacts, OtherFacts, Progress, Untouched,
      Reported, flags
<1>5. panicked' \in BOOLEAN
  BY Zenon, TypeOKFacts DEF IInv, ScheduleTimer
<1> QED BY <1>2, <1>3, <1>4, <1>5, TypeOKFactsNext DEF IInv

(* An entry: the registered ipc hands its descriptor over or closes it.  Beyond the array
   one that timed out before reports once more, and has no descriptor left. *)
LEMMA DispatchStep ==
  ASSUME IInv, NEW c \in Attempts, Dispatch(c)
  PROVE  IInv'
<1>1. TypeFacts /\ Progress(c)
  BY TypeOKFacts DEF IInv
<1>2. TypeFacts'
  <2>1. BoolFacts'
    BY <1>1, Zenon DEF Dispatch, HandlerSeen, Succeed, Refused, OnOpen, TypeFacts, BoolFacts, flags
  <2>2. OtherFacts'
    BY <1>1 DEF Dispatch, HandlerSeen, Succeed, Refused, OnOpen, TypeFacts, OtherFacts, Progress, Untouched, flags
  <2> QED BY <2>1, <2>2 DEF TypeFacts
<1>3. Progress(c)'
  BY <1>1, <1>2 DEF Dispatch, HandlerSeen, Succeed, Refused, OnOpen, TypeFacts, BoolFacts, OtherFacts, Progress, Untouched,
      Reported, flags
<1>4. ASSUME NEW d \in Attempts, d # c PROVE Progress(d)'
  <2>1. Progress(d)
    BY DEF IInv
  <2> QED BY <1>1, <1>2, <1>4, <2>1 DEF Dispatch, HandlerSeen, Succeed, Refused, OnOpen, TypeFacts, BoolFacts, OtherFacts, Progress, Untouched,
      Reported, flags
<1>5. panicked' \in BOOLEAN
  BY Zenon, TypeOKFacts DEF IInv, Dispatch
<1> QED BY <1>2, <1>3, <1>4, <1>5, TypeOKFactsNext DEF IInv

(* The timer: the ipc with a descriptor fails and closes it. *)
LEMMA OnTimeoutStep ==
  ASSUME IInv, NEW c \in Attempts, OnTimeout(c)
  PROVE  IInv'
<1>1. TypeFacts /\ Progress(c)
  BY TypeOKFacts DEF IInv
<1>2. TypeFacts'
  <2>1. BoolFacts'
    BY <1>1, Zenon DEF OnTimeout, TimeOut, TypeFacts, BoolFacts, flags
  <2>2. OtherFacts'
    BY <1>1 DEF OnTimeout, TimeOut, TypeFacts, OtherFacts, Progress, Untouched, flags
  <2> QED BY <2>1, <2>2 DEF TypeFacts
<1>3. Progress(c)'
  BY <1>1, <1>2 DEF OnTimeout, TimeOut, TypeFacts, BoolFacts, OtherFacts, Progress, Untouched,
      Reported, flags
<1>4. ASSUME NEW d \in Attempts, d # c PROVE Progress(d)'
  <2>1. Progress(d)
    BY DEF IInv
  <2> QED BY <1>1, <1>2, <1>4, <2>1 DEF OnTimeout, TimeOut, TypeFacts, BoolFacts, OtherFacts, Progress, Untouched,
      Reported, flags
<1>5. panicked' \in BOOLEAN
  BY Zenon, TypeOKFacts DEF IInv, OnTimeout, TimeOut
<1> QED BY <1>2, <1>3, <1>4, <1>5, TypeOKFactsNext DEF IInv

(* What the network answers is no part of the invariant. *)
LEMMA AnswerStep ==
  ASSUME IInv, NEW c \in Attempts, Answer(c)
  PROVE  IInv'
<1>1. TypeFacts'
  BY TypeOKFacts DEF IInv, TypeFacts, BoolFacts, OtherFacts, Answer, flags
<1>2. \A d \in Attempts : Progress(d)'
  BY DEF IInv, Answer, Progress, Untouched, Reported, flags
<1>3. panicked' \in BOOLEAN
  BY Zenon, TypeOKFacts DEF IInv, Answer
<1> QED BY <1>1, <1>2, <1>3, TypeOKFactsNext DEF IInv

(* epoll_wait reports registered sockets only. *)
LEMMA EpollWaitStep ==
  ASSUME IInv, EpollWait
  PROVE  IInv'
<1>1. batch' \subseteq Attempts /\ \A d \in batch' : reg[d]
  BY DEF EpollWait, Decided
<1>2. TypeFacts'
  BY <1>1, TypeOKFacts DEF IInv, TypeFacts, BoolFacts, OtherFacts, EpollWait, flags
<1>3. \A d \in Attempts : Progress(d)'
  BY <1>1 DEF IInv, EpollWait, Progress, Untouched, Reported, flags
<1>4. panicked' \in BOOLEAN
  BY Zenon, TypeOKFacts DEF IInv, EpollWait
<1> QED BY <1>2, <1>3, <1>4, TypeOKFactsNext DEF IInv

(* Every step preserves the invariant. *)
LEMMA NextIInv == IInv /\ [Next]_vars => IInv'
<1> SUFFICES ASSUME IInv, [Next]_vars PROVE IInv'
  OBVIOUS
<1>1. CASE UNCHANGED vars
  BY <1>1 DEF vars, IInv, TypeOK, Progress, Untouched, Reported
<1>2. CASE Next
  BY <1>2, ConnectStep, AddEvHandlerStep, ScheduleTimerStep, DispatchStep, OnTimeoutStep,
     AnswerStep, EpollWaitStep DEF Next, Caller
<1> QED BY <1>1, <1>2

-----------------------------------------------------------------------------
(* connector.go:24: for any number of connects, and whatever the order of timers,
   events and calls, a connect within evFdMaxSize is reported at most once, and not at
   all if Connect returned an error. *)
THEOREM ReportedAtMostOnce == Spec => []OutcomeOnce
  BY InitIInv, NextIInv, IInvImplies, PTL DEF Spec

(* For any number of connects, beyond evFdMaxSize too, the descriptor is closed at most
   once, and exactly if neither the ipc nor eh has it. *)
THEOREM DescriptorHasOneOwner == Spec => []DescriptorOwned
  BY InitIInv, NextIInv, IInvImplies, PTL DEF Spec

-----------------------------------------------------------------------------
(* Acceptor. *)

AccFlags == /\ accReg \in [Acceptors -> BOOLEAN] /\ accTimer \in [Acceptors -> BOOLEAN]

AccTypes == /\ listening \in [Acceptors -> {"new", "ok", "error"}]
            /\ backlog \in [Acceptors -> Seq(Clients)]
            /\ left \in [Acceptors -> 0..loopAcceptTimes]
            /\ client \in [Clients -> {"idle", "waiting", "open", "closed"}]
            /\ addFails \subseteq Acceptors

(* OnRead runs for a registered acceptor only.  One that does not listen has left no
   trace, one whose registration failed has neither registration nor timer, and every
   other one has one of the two. *)
Watched(a) == /\ left[a] > 0 => accReg[a]
              /\ listening[a] # "ok" => ~accReg[a] /\ ~accTimer[a] /\ a \notin addFails
              /\ listening[a] = "ok" /\ a \notin addFails => (accReg[a] <=> ~accTimer[a])
              /\ a \in addFails => ~accReg[a] /\ ~accTimer[a]

AccInv == AccFlags /\ AccTypes /\ accPanicked = FALSE /\ \A a \in Acceptors : Watched(a)

(* OnRead tries at least one accept4. *)
LEMMA LoopAtLeastOnce == loopAcceptTimes \in Nat \ {0}
  BY AcceptorAssumption DEF loopAcceptTimes

(* The invariant implies the property. *)
LEMMA AccInvImplies == AccInv => WatchedOrTimed
<1> SUFFICES ASSUME AccInv PROVE WatchedOrTimed
  OBVIOUS
<1>1. AccTypeOK
  BY Zenon DEF AccInv, AccFlags, AccTypes, AccTypeOK
<1>2. ASSUME NEW a \in Acceptors
      PROVE  /\ left[a] > 0 => accReg[a]
             /\ listening[a] = "ok" /\ a \notin addFails => accReg[a] # accTimer[a]
             /\ a \in addFails => ~accReg[a] /\ ~accTimer[a]
  <2>1. Watched(a) /\ accReg[a] \in BOOLEAN /\ accTimer[a] \in BOOLEAN
    BY Zenon DEF AccInv, AccFlags
  <2> QED BY <2>1, Zenon DEF Watched
<1> QED BY <1>1, <1>2, Zenon DEF AccInv, WatchedOrTimed

(* No acceptor listens yet. *)
LEMMA InitAccInv ==
  ASSUME AccInit
  PROVE  AccInv
<1>1. AccFlags /\ accPanicked = FALSE
  BY DEF AccInit, AccFlags
<1>2. AccTypes
  BY LoopAtLeastOnce DEF AccInit, AccTypes
<1>3. ASSUME NEW a \in Acceptors PROVE Watched(a)
  BY DEF AccInit, Watched
<1> QED BY <1>1, <1>2, <1>3 DEF AccInv

(* Clients come and go without touching an acceptor but for its backlog. *)
LEMMA ClientStep ==
  ASSUME AccInv, NEW c \in Clients, Close(c) \/ \E a \in Acceptors : Arrive(c, a)
  PROVE  AccInv'
<1>1. UNCHANGED <<listening, accReg, accTimer, left, addFails, accPanicked>>
  BY DEF Close, Arrive
<1>2. AccTypes'
  <2>1. CASE Close(c)
    BY <2>1, <1>1 DEF AccInv, AccTypes, Close
  <2>2. ASSUME NEW a \in Acceptors, Arrive(c, a) PROVE AccTypes'
    <3>1. Append(backlog[a], c) \in Seq(Clients)
      BY AppendProperties DEF AccInv, AccTypes
    <3> QED BY <3>1, <2>2, <1>1 DEF AccInv, AccTypes, Arrive
  <2> QED BY <2>1, <2>2
<1>3. \A a \in Acceptors : Watched(a)'
  BY <1>1 DEF AccInv, Watched
<1> QED BY <1>1, <1>2, <1>3 DEF AccInv, AccFlags

(* NewAcceptor. *)
LEMMA NewAcceptorStep ==
  ASSUME AccInv, NEW a \in Acceptors, NewAcceptor(a)
  PROVE  AccInv'
<1>1. AccFlags' /\ accPanicked' = FALSE
  BY DEF AccInv, AccFlags, NewAcceptor
<1>2. AccTypes'
  BY DEF AccInv, AccTypes, NewAcceptor
<1>3. ASSUME NEW b \in Acceptors PROVE Watched(b)'
  BY DEF AccInv, AccFlags, AccTypes, Watched, NewAcceptor
<1> QED BY <1>1, <1>2, <1>3 DEF AccInv

(* epoll_wait reports a registered acceptor, and OnRead begins. *)
LEMMA EpollInStep ==
  ASSUME AccInv, NEW a \in Acceptors, EpollIn(a)
  PROVE  AccInv'
<1>1. AccFlags' /\ accPanicked' = FALSE
  BY DEF AccInv, AccFlags, EpollIn
<1>2. AccTypes'
  BY LoopAtLeastOnce DEF AccInv, AccTypes, EpollIn
<1>3. ASSUME NEW b \in Acceptors PROVE Watched(b)'
  BY DEF AccInv, AccTypes, Watched, EpollIn
<1> QED BY <1>1, <1>2, <1>3 DEF AccInv

(* One iteration of OnRead: only EMFILE unregisters, and it finds no timer set. *)
LEMMA OnReadStep ==
  ASSUME AccInv, NEW a \in Acceptors, OnRead(a)
  PROVE  AccInv'
<1>1. left[a] > 0 /\ left[a] \in 0..loopAcceptTimes /\ loopAcceptTimes \in Nat
  BY LoopAtLeastOnce DEF AccInv, AccTypes, OnRead, Accept, AcceptInterrupted,
     AcceptBreak, AcceptEmfile
<1>2. accReg[a] /\ ~accTimer[a] /\ listening[a] = "ok" /\ a \notin addFails
  BY <1>1 DEF AccInv, Watched
<1>3. CASE Accept(a) \/ AcceptInterrupted(a) \/ AcceptBreak(a)
  <2>1. /\ UNCHANGED <<listening, accReg, accTimer, addFails, accPanicked>>
        /\ left' = [left EXCEPT ![a] = @ - 1] \/ left' = [left EXCEPT ![a] = 0]
    BY <1>3 DEF Accept, AcceptInterrupted, AcceptBreak
  <2>2. left' \in [Acceptors -> 0..loopAcceptTimes]
    BY <2>1, <1>1 DEF AccInv, AccTypes
  <2>3. backlog' \in [Acceptors -> Seq(Clients)] /\ client' \in [Clients -> {"idle", "waiting", "open", "closed"}]
    <3>1. backlog[a] # <<>> => Head(backlog[a]) \in Clients /\ Tail(backlog[a]) \in Seq(Clients)
      BY HeadTailProperties DEF AccInv, AccTypes
    <3> QED BY <3>1, <1>3 DEF AccInv, AccTypes, Accept, AcceptInterrupted, AcceptBreak
  <2>4. ASSUME NEW b \in Acceptors PROVE Watched(b)'
    BY <2>1, <1>2 DEF AccInv, AccTypes, Watched
  <2> QED BY <2>1, <2>2, <2>3, <2>4 DEF AccInv, AccFlags, AccTypes
<1>4. CASE AcceptEmfile(a)
  <2>1. /\ accTimer' = [accTimer EXCEPT ![a] = TRUE] /\ accReg' = [accReg EXCEPT ![a] = FALSE]
        /\ left' = [left EXCEPT ![a] = 0]
        /\ UNCHANGED <<listening, backlog, client, addFails, accPanicked>>
    BY <1>2, <1>4 DEF AcceptEmfile, BackOff
  <2>2. AccFlags'
    BY <2>1, Zenon DEF AccInv, AccFlags
  <2>3. AccTypes'
    BY <2>1, <1>1 DEF AccInv, AccTypes
  <2>4. ASSUME NEW b \in Acceptors PROVE Watched(b)'
    BY <2>1, <1>2 DEF AccInv, AccFlags, AccTypes, Watched
  <2> QED BY <2>1, <2>2, <2>3, <2>4 DEF AccInv
<1> QED BY <1>3, <1>4 DEF OnRead

(* OnTimeout finds the slot of the acceptor free, and registers it or gives up. *)
LEMMA AccTimeoutStep ==
  ASSUME AccInv, NEW a \in Acceptors, AccOnTimeout(a)
  PROVE  AccInv'
<1>1. accTimer[a] /\ ~accReg[a] /\ listening[a] = "ok" /\ a \notin addFails
  BY DEF AccInv, Watched, AccOnTimeout
<1>2. /\ left[a] = 0 /\ accPanicked' = accReg[a]
      /\ accTimer' = [accTimer EXCEPT ![a] = FALSE]
      /\ \/ accReg' = [accReg EXCEPT ![a] = TRUE] /\ UNCHANGED addFails
         \/ addFails' = addFails \cup {a} /\ UNCHANGED accReg
      /\ UNCHANGED <<listening, backlog, left, client>>
  BY DEF AccOnTimeout
<1>3. AccFlags' /\ accPanicked' = FALSE
  <2>1. accReg[a] \in BOOLEAN
    BY Zenon DEF AccInv, AccFlags
  <2>2. accPanicked' = FALSE
    BY <2>1, <1>1, <1>2, Zenon
  <2>3. AccFlags'
    BY <1>2, Zenon DEF AccInv, AccFlags
  <2> QED BY <2>2, <2>3
<1>4. AccTypes'
  BY <1>2 DEF AccInv, AccTypes
<1>5. ASSUME NEW b \in Acceptors PROVE Watched(b)'
  BY <1>1, <1>2 DEF AccInv, AccFlags, AccTypes, Watched
<1> QED BY <1>3, <1>4, <1>5 DEF AccInv

(* Every step of Acceptor keeps its invariant. *)
LEMMA NextAccInv ==
  ASSUME AccInv, [AccNext]_accVars
  PROVE  AccInv'
<1>1. CASE UNCHANGED accVars
  BY <1>1 DEF accVars, AccInv, AccFlags, AccTypes, Watched
<1>2. CASE AccNext
  BY <1>2, NewAcceptorStep, EpollInStep, OnReadStep, AccTimeoutStep, ClientStep DEF AccNext
<1> QED BY <1>1, <1>2

(* acceptor.go:195: for any number of acceptors and clients, any backlog and limit on
   descriptors, an acceptor that listens is registered or has a timer that will register
   it, never both, unless the registration failed in OnTimeout; newOne never panics. *)
THEOREM AcceptorIsWatched == AccSpec => []WatchedOrTimed
<1>1. AccInit => AccInv
  BY InitAccInv
<1>2. AccInv /\ [AccNext]_accVars => AccInv'
  BY NextAccInv
<1> QED BY <1>1, <1>2, AccInvImplies, PTL DEF AccSpec
=============================================================================
