------------------------------ MODULE Acceptor ------------------------------
(***************************************************************************)
(* acceptor.go: listening sockets and the back-off when the process is out *)
(* of descriptors.  With SO_REUSEPORT there are several acceptors for one  *)
(* address, each registered with an evPoll of its own, and so running in a *)
(* goroutine of its own: they share nothing but the limit on descriptors.  *)
(*                                                                         *)
(* EvAccept is level-triggered (ev_handler.go:27): OnRead is called as     *)
(* long as the acceptor is registered and its backlog is not empty.  One   *)
(* step is one iteration of OnRead's loop, one accept4 with the OnOpen and *)
(* OnClose that follow it.  Linux allots the descriptor before it looks at *)
(* the backlog, so that EMFILE comes first.                                *)
(***************************************************************************)
EXTENDS Naturals, FiniteSets, Sequences, SequencesExt

CONSTANTS Acceptors,
          Clients,
          listenBacklog,
          MaxConns,         \* descriptors the process has for connections
          MaxAddFails       \* bound: calls of AddEvHandler that fail in OnTimeout

ASSUME AcceptorAssumption == /\ {listenBacklog, MaxConns} \subseteq Nat \ {0}
                             /\ MaxAddFails \in Nat
                             /\ IsFiniteSet(Clients)

VARIABLES listening,        \* what NewAcceptor returned: "new", "ok" or "error"
          accReg,           \* registered with its evPoll
          accTimer,         \* its timer is set
          backlog,          \* connections the kernel holds for accept4
          left,             \* iterations OnRead may still do; 0 outside of OnRead
          client,           \* how far each client has come
          addFails,         \* history: acceptors whose re-registration failed
          accPanicked       \* newOne found the slot of the acceptor occupied

accVars == <<listening, accReg, accTimer, backlog, left, client, addFails, accPanicked>>

(* Half of the backlog, and at least one. *)
loopAcceptTimes == IF listenBacklog \div 2 < 1 THEN 1 ELSE listenBacklog \div 2

AccInit == /\ listening = [a \in Acceptors |-> "new"]
           /\ accReg = [a \in Acceptors |-> FALSE]
           /\ accTimer = [a \in Acceptors |-> FALSE]
           /\ backlog = [a \in Acceptors |-> <<>>]
           /\ left = [a \in Acceptors |-> 0]
           /\ client = [c \in Clients |-> "idle"]
           /\ addFails = {}
           /\ accPanicked = FALSE

(* open, tcpListen or udsListen, listen: any step may fail, and the socket is closed
   again; or the acceptor is registered. *)
NewAcceptor(a) ==
  /\ listening[a] = "new"
  /\ \/ /\ listening' = [listening EXCEPT ![a] = "ok"]
        /\ accReg' = [accReg EXCEPT ![a] = TRUE]
     \/ /\ listening' = [listening EXCEPT ![a] = "error"]
        /\ UNCHANGED accReg
  /\ UNCHANGED <<accTimer, backlog, left, client, addFails, accPanicked>>

(* The kernel completes a handshake; beyond the backlog the client has to wait. *)
Arrive(c, a) == /\ client[c] = "idle" /\ listening[a] = "ok"
                /\ Len(backlog[a]) < listenBacklog
                /\ backlog' = [backlog EXCEPT ![a] = Append(@, c)]
                /\ client' = [client EXCEPT ![c] = "waiting"]
                /\ UNCHANGED <<listening, accReg, accTimer, left, addFails, accPanicked>>

(* A connection is closed, and its descriptor is free again. *)
Close(c) == /\ client[c] = "open"
            /\ client' = [client EXCEPT ![c] = "closed"]
            /\ UNCHANGED <<listening, accReg, accTimer, backlog, left, addFails, accPanicked>>

-----------------------------------------------------------------------------
(* OnRead *)

Emfile == Cardinality({c \in Clients : client[c] = "open"}) >= MaxConns

EpollIn(a) == /\ ~accPanicked /\ left[a] = 0
              /\ accReg[a] /\ backlog[a] # <<>>
              /\ left' = [left EXCEPT ![a] = loopAcceptTimes]
              /\ UNCHANGED <<listening, accReg, accTimer, backlog, client, addFails, accPanicked>>

(* accept4 succeeds: OnOpen returns true; or false, and OnClose closes. *)
Accept(a) == /\ ~accPanicked /\ left[a] > 0
             /\ ~Emfile /\ backlog[a] # <<>>
             /\ backlog' = [backlog EXCEPT ![a] = Tail(@)]
             /\ \E s \in {"open", "closed"} : client' = [client EXCEPT ![Head(backlog[a])] = s]
             /\ left' = [left EXCEPT ![a] = @ - 1]
             /\ UNCHANGED <<listening, accReg, accTimer, addFails, accPanicked>>

(* EINTR uses up an iteration. *)
AcceptInterrupted(a) == /\ ~accPanicked /\ left[a] > 0
                        /\ left' = [left EXCEPT ![a] = @ - 1]
                        /\ UNCHANGED <<listening, accReg, accTimer, backlog, client, addFails, accPanicked>>

(* EAGAIN, or another error than EINTR and EMFILE: OnRead returns.  ECONNABORTED takes
   the connection out of the backlog; the others (ENFILE, ENOBUFS, ...) do not. *)
AcceptBreak(a) == /\ ~accPanicked /\ left[a] > 0
                  /\ ~Emfile
                  /\ left' = [left EXCEPT ![a] = 0]
                  /\ \/ UNCHANGED <<backlog, client>>
                     \/ /\ backlog[a] # <<>>
                        /\ backlog' = [backlog EXCEPT ![a] = Tail(@)]
                        /\ client' = [client EXCEPT ![Head(backlog[a])] = "closed"]
                  /\ UNCHANGED <<listening, accReg, accTimer, addFails, accPanicked>>

(* Deviation: the acceptor stays registered. *)
BackOffRegistered(a) == /\ accTimer' = [accTimer EXCEPT ![a] = TRUE]
                        /\ UNCHANGED accReg

(* Deviation: the acceptor is removed although no timer was set for it. *)
BackOffUntimed(a) == /\ accReg' = [accReg EXCEPT ![a] = FALSE]
                     /\ UNCHANGED accTimer

(* ScheduleTimer, which fails if the timer is set already; then RemoveEvent. *)
BackOff(a) == \/ /\ ~accTimer[a]
                 /\ accTimer' = [accTimer EXCEPT ![a] = TRUE]
                 /\ accReg' = [accReg EXCEPT ![a] = FALSE]
              \/ /\ accTimer[a]
                 /\ UNCHANGED <<accTimer, accReg>>

AcceptEmfile(a) == /\ ~accPanicked /\ left[a] > 0
                   /\ Emfile
                   /\ BackOff(a)
                   /\ left' = [left EXCEPT ![a] = 0]
                   /\ UNCHANGED <<listening, backlog, client, addFails, accPanicked>>

(* OnTimeout: AddEvHandler, whose error is ignored (its newOne would panic if the
   acceptor were still registered); the timer is not periodic. *)
AccOnTimeout(a) == /\ ~accPanicked /\ left[a] = 0
                   /\ accTimer[a]
                   /\ accTimer' = [accTimer EXCEPT ![a] = FALSE]
                   /\ accPanicked' = accReg[a]
                   /\ \/ /\ accReg' = [accReg EXCEPT ![a] = TRUE]
                         /\ UNCHANGED addFails
                      \/ /\ Cardinality(addFails) < MaxAddFails
                         /\ addFails' = addFails \cup {a}
                         /\ UNCHANGED accReg
                   /\ UNCHANGED <<listening, backlog, left, client>>

-----------------------------------------------------------------------------
OnRead(a) == Accept(a) \/ AcceptInterrupted(a) \/ AcceptBreak(a) \/ AcceptEmfile(a)

AccNext == \/ \E a \in Acceptors : \/ NewAcceptor(a)
                                   \/ EpollIn(a) \/ OnRead(a) \/ AccOnTimeout(a)
           \/ \E c \in Clients : Close(c) \/ \E a \in Acceptors : Arrive(c, a)

AccSpec == AccInit /\ [][AccNext]_accVars

(* The evPoll goroutines keep running, timers expire, and connections are closed some
   day.  An accept4 that is tried again and again succeeds: signals, and shortages
   other than EMFILE, do not hit it every time. *)
AccFairness == /\ \A a \in Acceptors : /\ WF_accVars(EpollIn(a)) /\ WF_accVars(OnRead(a))
                                       /\ SF_accVars(Accept(a))
                                       /\ WF_accVars(AccOnTimeout(a))
               /\ \A c \in Clients : WF_accVars(Close(c))

AccFairSpec == AccSpec /\ AccFairness

-----------------------------------------------------------------------------
AccTypeOK == /\ listening \in [Acceptors -> {"new", "ok", "error"}]
             /\ {accReg, accTimer} \subseteq [Acceptors -> BOOLEAN]
             /\ backlog \in [Acceptors -> Seq(Clients)]
             /\ left \in [Acceptors -> 0..loopAcceptTimes]
             /\ client \in [Clients -> {"idle", "waiting", "open", "closed"}]
             /\ addFails \subseteq Acceptors
             /\ accPanicked \in BOOLEAN

(* acceptor.go:195: OnTimeout adds the acceptor again.  An acceptor is registered or
   has a timer that will register it, and never both: both would have newOne panic in
   OnTimeout, none would leave its clients waiting for ever.  An acceptor whose
   registration failed in OnTimeout has none, since nobody tries again. *)
WatchedOrTimed ==
  /\ AccTypeOK
  /\ ~accPanicked
  /\ \A a \in Acceptors : /\ left[a] > 0 => accReg[a]
                          /\ listening[a] = "ok" /\ a \notin addFails => accReg[a] # accTimer[a]
                          /\ a \in addFails => ~accReg[a] /\ ~accTimer[a]

(* Every client in a backlog is accepted some day, through all the times the process
   runs out of descriptors, whichever acceptor gets those that become free; unless a
   re-registration failed. *)
BacklogServed ==
  \A c \in Clients :
    client[c] = "waiting" ~> \/ client[c] # "waiting"
                             \/ \E a \in addFails : Contains(backlog[a], c)
=============================================================================
