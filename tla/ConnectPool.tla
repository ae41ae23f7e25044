---------------------------- MODULE ConnectPool ----------------------------
(***************************************************************************)
(* connect_pool.go: a pool of connections that is refilled by a goroutine  *)
(* of its own (keepNumTiming), new connections passing from the evPoll     *)
(* goroutines through newConnChan to another one (handleNewConn).  Clients *)
(* call Acquire and Release in any goroutine, connections may be closed at *)
(* any time.  Each step is one critical section, atomic operation, channel *)
(* operation or call of the connector.                                     *)
(*                                                                         *)
(* What the connector does with a connect in progress is module Connector: *)
(* it is reported once, by OnOpen or OnConnectFail, with two exceptions.   *)
(* One that is refused is only closed, and its timer ends the process.     *)
(* One whose descriptor lies beyond evFdMaxSize may be reported a second   *)
(* time by an entry of the batch in which it timed out.  OnOpen comes from *)
(* one of several evPolls, or at once from keepNum itself.  A handler's    *)
(* OnClose calls Closed, as connect_pool.go:40 asks for.                   *)
(***************************************************************************)
EXTENDS Integers, Sequences, FiniteSets, SequencesExt

CONSTANTS Conns,            \* identities of connections that exist at a time
          Beyond,           \* those whose descriptor lies beyond evFdMaxSize
          Clients,
          MinIdle, AddOnce, MaxLive,
          ChanCap,          \* capacity of newConnChan
          MaxOpenFails,     \* bound: handlers whose OnOpen returns false
          MaxDoubled,       \* bound: connects that are reported twice
          None

ASSUME ConnectPoolAssumption ==
  /\ {MinIdle, AddOnce, MaxLive, ChanCap, MaxOpenFails, MaxDoubled} \subseteq Nat
  /\ 1 <= MinIdle /\ MinIdle < MaxLive /\ AddOnce <= MaxLive   \* or NewConnectPool panics
  /\ 1 <= ChanCap
  /\ Beyond \subseteq Conns
  /\ Conns \cap {None, "nothing", "emptySig"} = {}

VARIABLES conns,            \* the idle connections
          toNewNum, liveNum,
          newConnChan,
          where,            \* how far each connection is on its way into the pool
          alive,            \* its handler was registered and not closed since
          keeper, left,     \* where keepNum is, and its local toNewNum
          sending,          \* the connection that keepNum itself is sending, or None
          handling, fresh,  \* where onNewConn is, and its connection
          client,           \* what each client has, or is waiting for
          openFails,        \* history: handlers whose OnOpen returned false
          doubled,          \* history: connects that were reported twice
          panicked          \* the timer of a refused connect has expired

vars == <<conns, toNewNum, liveNum, newConnChan, where, alive, keeper, left, sending,
          handling, fresh, client, openFails, doubled, panicked>>

keepNum   == <<keeper, left, sending>>
onNewConn == <<handling, fresh>>
faults    == <<openFails, doubled, panicked>>

Init == /\ conns = <<>>
        /\ toNewNum = 0 /\ liveNum = 0
        /\ newConnChan = <<>>
        /\ where = [c \in Conns |-> "none"]
        /\ alive = [c \in Conns |-> FALSE]
        /\ keeper = "select" /\ left = 0 /\ sending = None
        /\ handling = "receive" /\ fresh = None
        /\ client = [g \in Clients |-> "nothing"]
        /\ openFails = 0 /\ doubled = 0 /\ panicked = FALSE

-----------------------------------------------------------------------------
(* Acquire and Release *)

(* Deviation: the connection stays in the list. *)
AcquirePeeks(g) ==
  /\ ~panicked /\ client[g] = "nothing"
  /\ \/ /\ conns # <<>>
        /\ client' = [client EXCEPT ![g] = Head(conns)]
     \/ /\ conns = <<>>
        /\ client' = [client EXCEPT ![g] = "emptySig"]
  /\ UNCHANGED <<conns, toNewNum, liveNum, newConnChan, where, alive, keepNum, onNewConn, faults>>

(* Acquire: the first idle connection; or wait until keepNumTiming takes the signal,
   and return nil. *)
Acquire(g) ==
  /\ ~panicked /\ client[g] = "nothing"
  /\ \/ /\ conns # <<>>
        /\ client' = [client EXCEPT ![g] = Head(conns)]
        /\ conns' = Tail(conns)
     \/ /\ conns = <<>>
        /\ client' = [client EXCEPT ![g] = "emptySig"]
        /\ UNCHANGED conns
  /\ UNCHANGED <<toNewNum, liveNum, newConnChan, where, alive, keepNum, onNewConn, faults>>

(* Release puts back what it is given; a client that knows its connection to be
   closed may drop it instead. *)
Release(g) ==
  /\ ~panicked /\ client[g] \in Conns
  /\ client' = [client EXCEPT ![g] = "nothing"]
  /\ \/ /\ conns' = Append(conns, client[g])
        /\ UNCHANGED where
     \/ /\ ~alive[client[g]]
        /\ where' = [where EXCEPT ![client[g]] = "none"]
        /\ UNCHANGED conns
  /\ UNCHANGED <<toNewNum, liveNum, newConnChan, alive, keepNum, onNewConn, faults>>

(* A connection is closed: its OnClose calls Closed. *)
Closed(c) == /\ ~panicked /\ alive[c]
             /\ alive' = [alive EXCEPT ![c] = FALSE]
             /\ liveNum' = liveNum - 1
             /\ UNCHANGED <<conns, toNewNum, newConnChan, where, keepNum, onNewConn, client, faults>>

-----------------------------------------------------------------------------
(* keepNumTiming *)

(* The ticker. *)
Tick == /\ ~panicked /\ keeper = "select"
        /\ keeper' = "idleNum"
        /\ UNCHANGED <<conns, toNewNum, liveNum, newConnChan, where, alive, left, sending, onNewConn, client, faults>>

(* emptySig has no buffer: sender and receiver go on together. *)
EmptySig(g) == /\ ~panicked /\ keeper = "select"
               /\ client[g] = "emptySig"
               /\ keeper' = "idleNum"
               /\ client' = [client EXCEPT ![g] = "nothing"]
               /\ UNCHANGED <<conns, toNewNum, liveNum, newConnChan, where, alive, left, sending, onNewConn, faults>>

(* keepNum: enough idle connections? *)
IdleNum == /\ ~panicked /\ keeper = "idleNum"
           /\ keeper' = IF Len(conns) < MinIdle THEN "liveNum" ELSE "select"
           /\ UNCHANGED <<conns, toNewNum, liveNum, newConnChan, where, alive, left, sending, onNewConn, client, faults>>

ToNew(live) == IF live = 0 THEN MinIdle
               ELSE IF AddOnce + live > MaxLive THEN MaxLive - live
               ELSE AddOnce

(* keepNum: how many new ones? *)
LiveNum == /\ ~panicked /\ keeper = "liveNum"
           /\ \/ /\ ToNew(liveNum) < 1
                 /\ keeper' = "select"
                 /\ UNCHANGED left
              \/ /\ ToNew(liveNum) >= 1
                 /\ keeper' = "cas"
                 /\ left' = ToNew(liveNum)
           /\ UNCHANGED <<conns, toNewNum, liveNum, newConnChan, where, alive, sending, onNewConn, client, faults>>

(* keepNum: toNewNum.CompareAndSwap(0, toNewNum): not while connects are under way. *)
Cas == /\ ~panicked /\ keeper = "cas"
       /\ \/ /\ toNewNum = 0
             /\ toNewNum' = left
             /\ keeper' = "connect"
             /\ UNCHANGED left
          \/ /\ toNewNum # 0
             /\ keeper' = "select" /\ left' = 0
             /\ UNCHANGED toNewNum
       /\ UNCHANGED <<conns, liveNum, newConnChan, where, alive, sending, onNewConn, client, faults>>

Unused == {c \in Conns : where[c] = "none"}

(* Deviation: an error of Connect is not counted. *)
ConnectErrorUncounted == UNCHANGED <<toNewNum, where, sending>>

(* Connect returns an error. *)
ConnectError == /\ toNewNum' = toNewNum - 1
                /\ UNCHANGED <<where, sending>>

(* keepNum, the loop: Connect fails, is in progress, or succeeds at once, and its
   OnOpen is keepNum's own. *)
Connect ==
  /\ ~panicked /\ keeper = "connect" /\ sending = None
  /\ \/ /\ left = 0
        /\ keeper' = "select"
        /\ UNCHANGED <<left, sending, toNewNum, where>>
     \/ /\ left > 0
        /\ left' = left - 1
        /\ \/ ConnectError
           \/ \E c \in Unused : /\ where' = [where EXCEPT ![c] = "connecting"]
                                /\ UNCHANGED <<sending, toNewNum>>
           \/ \E c \in Unused : /\ where' = [where EXCEPT ![c] = "sending"]
                                /\ sending' = c
                                /\ toNewNum' = toNewNum - 1
        /\ UNCHANGED keeper
  /\ UNCHANGED <<conns, liveNum, newConnChan, alive, onNewConn, client, faults>>

-----------------------------------------------------------------------------
(* connectPoolConn, called by an evPoll goroutine. *)

(* OnOpen, up to the channel. *)
OnOpen(c) == /\ ~panicked /\ where[c] = "connecting"
             /\ toNewNum' = toNewNum - 1
             /\ where' = [where EXCEPT ![c] = "sending"]
             /\ UNCHANGED <<conns, liveNum, newConnChan, alive, keepNum, onNewConn, client, faults>>

(* OnConnectFail, when the timer has expired.  Beyond the array an entry of the batch
   may still lead to the connect. *)
OnConnectFail(c) ==
  /\ ~panicked /\ where[c] = "connecting"
  /\ toNewNum' = toNewNum - 1
  /\ \/ where' = [where EXCEPT ![c] = "none"]
     \/ /\ c \in Beyond
        /\ where' = [where EXCEPT ![c] = "again"]
  /\ UNCHANGED <<conns, liveNum, newConnChan, alive, keepNum, onNewConn, client, faults>>

(* The entry of a connect that timed out before it: OnOpen, with a descriptor of -1, or
   after EPOLLERR nothing. *)
OnOpenAgain(c) ==
  /\ ~panicked /\ where[c] = "again"
  /\ \/ /\ doubled < MaxDoubled
        /\ doubled' = doubled + 1
        /\ toNewNum' = toNewNum - 1
        /\ where' = [where EXCEPT ![c] = "sending"]
     \/ /\ where' = [where EXCEPT ![c] = "none"]
        /\ UNCHANGED <<toNewNum, doubled>>
  /\ UNCHANGED <<conns, liveNum, newConnChan, alive, keepNum, onNewConn, client, openFails, panicked>>

(* EPOLLERR: the connect is closed, and the pool is told nothing. *)
Refused(c) ==
  /\ ~panicked /\ where[c] = "connecting"
  /\ where' = [where EXCEPT ![c] = "refused"]
  /\ UNCHANGED <<conns, toNewNum, liveNum, newConnChan, alive, keepNum, onNewConn, client, faults>>

(* The timer of a refused connect, which removes a descriptor of -1. *)
Expires(c) ==
  /\ ~panicked /\ where[c] = "refused"
  /\ panicked' = TRUE
  /\ UNCHANGED <<conns, toNewNum, liveNum, newConnChan, where, alive, keepNum, onNewConn, client,
                 openFails, doubled>>

(* newConnChan <- connHandler, which blocks while the channel is full. *)
Send(c) == /\ ~panicked /\ where[c] = "sending"
           /\ Len(newConnChan) < ChanCap
           /\ newConnChan' = Append(newConnChan, c)
           /\ where' = [where EXCEPT ![c] = "queued"]
           /\ sending' = IF sending = c THEN None ELSE sending
           /\ UNCHANGED <<conns, toNewNum, liveNum, alive, keeper, left, onNewConn, client, faults>>

(* Deviation: connections are left in the channel while there are enough idle ones. *)
MayReceiveWhenShort == handling = "receive" /\ newConnChan # <<>> /\ Len(conns) < MinIdle

(* handleNewConn: <-newConnChan *)
MayReceive == handling = "receive" /\ newConnChan # <<>>

(* handleNewConn, onNewConn: the handler's OnOpen registers it, and from now on it may
   be closed; or returns false, and OnClose is called, hence Closed. *)
Receive ==
  /\ ~panicked /\ MayReceive
  /\ newConnChan' = Tail(newConnChan)
  /\ LET c == Head(newConnChan)
     IN  \/ /\ handling' = "count" /\ fresh' = c
            /\ where' = [where EXCEPT ![c] = "pool"]
            /\ alive' = [alive EXCEPT ![c] = TRUE]
            /\ UNCHANGED <<liveNum, openFails>>
         \/ /\ openFails < MaxOpenFails
            /\ openFails' = openFails + 1
            /\ liveNum' = liveNum - 1
            /\ where' = [where EXCEPT ![c] = "none"]
            /\ UNCHANGED <<handling, fresh, alive>>
  /\ UNCHANGED <<conns, toNewNum, keepNum, client, doubled, panicked>>

(* Deviation: a connection that was closed already is not counted. *)
CountIfAlive == /\ ~panicked /\ handling = "count"
                /\ liveNum' = IF alive[fresh] THEN liveNum + 1 ELSE liveNum
                /\ handling' = "release"
                /\ UNCHANGED <<conns, toNewNum, newConnChan, where, alive, keepNum, fresh, client, faults>>

(* onNewConn: liveNum.Add(1). *)
Count == /\ ~panicked /\ handling = "count"
         /\ liveNum' = liveNum + 1
         /\ handling' = "release"
         /\ UNCHANGED <<conns, toNewNum, newConnChan, where, alive, keepNum, fresh, client, faults>>

(* onNewConn: Release, whether or not the connection was closed meanwhile. *)
ReleaseNew == /\ ~panicked /\ handling = "release"
              /\ conns' = Append(conns, fresh)
              /\ handling' = "receive" /\ fresh' = None
              /\ UNCHANGED <<toNewNum, liveNum, newConnChan, where, alive, keepNum, client, faults>>

-----------------------------------------------------------------------------
KeepNum == IdleNum \/ LiveNum \/ Cas \/ Connect
HandleNewConn == Receive \/ Count \/ ReleaseNew

(* The evPoll's event or timer of a connect in progress. *)
Report(c) == OnOpen(c) \/ OnConnectFail(c) \/ Refused(c)

(* Nothing happens after a panic. *)
Ended == panicked /\ UNCHANGED vars

Next == \/ Tick \/ KeepNum \/ HandleNewConn
        \/ \E g \in Clients : Acquire(g) \/ Release(g) \/ EmptySig(g)
        \/ \E c \in Conns : Report(c) \/ OnOpenAgain(c) \/ Expires(c) \/ Send(c) \/ Closed(c)
        \/ Ended

Spec == Init /\ [][Next]_vars

(* The pool's goroutines keep running.  A connect in progress ends, by its event or, if
   the network never answers, by its timer; entries of a batch are dispatched, and
   timers expire.  keepNumTiming comes back to its select again and again, where a
   ready sender is chosen in the end.  Nobody is obliged to acquire, release or close. *)
Fairness == /\ WF_vars(Tick) /\ WF_vars(KeepNum) /\ WF_vars(HandleNewConn)
            /\ WF_vars(\E c \in Conns : Send(c))
            /\ \A c \in Conns : /\ WF_vars(Report(c))
                                /\ WF_vars(OnOpenAgain(c)) /\ WF_vars(Expires(c))
            /\ \A g \in Clients : SF_vars(EmptySig(g))

FairSpec == Spec /\ Fairness

-----------------------------------------------------------------------------
TypeOK == /\ conns \in Seq(Conns)
          /\ toNewNum \in Int
          /\ liveNum \in Int
          /\ newConnChan \in BoundedSeq(Conns, ChanCap)
          /\ where \in [Conns -> {"none", "connecting", "refused", "again", "sending",
                                 "queued", "pool"}]
          /\ alive \in [Conns -> BOOLEAN]
          /\ keeper \in {"select", "idleNum", "liveNum", "cas", "connect"}
          /\ left \in 0..MaxLive /\ sending \in Conns \cup {None}
          /\ handling \in {"receive", "count", "release"} /\ fresh \in Conns \cup {None}
          /\ client \in [Clients -> Conns \cup {"nothing", "emptySig"}]
          /\ openFails \in 0..MaxOpenFails /\ doubled \in 0..MaxDoubled
          /\ panicked \in BOOLEAN

InProgress == {c \in Conns : where[c] \in {"connecting", "refused"}}

(* Both counters are right.
   toNewNum counts exactly the connects of the current round that keepNum has still
   to make or that are not reported yet, though three kinds of goroutines lower it.
   So a round begins only when the last one is over, and the next CAS can succeed;
   unless a connect beyond evFdMaxSize was reported twice.  One that was refused counts
   until its timer ends the process.
   liveNum (connect_pool.go:130) is the number of connections that are registered and
   not closed, except between a handler's OnOpen and liveNum.Add(1), and unless some
   handler's OnOpen returned false: its OnClose lowers a count that was not raised. *)
CountersExact ==
  /\ TypeOK
  /\ doubled = 0 =>
       /\ toNewNum = Cardinality(InProgress) + (IF keeper = "connect" THEN left ELSE 0)
       /\ toNewNum <= MaxLive
  /\ handling # "count" /\ openFails = 0 => liveNum = Cardinality({c \in Conns : alive[c]})

Holders(c) == {g \in Clients : client[g] = c}
Idle(c) == {i \in 1..Len(conns) : conns[i] = c}

(* A connection is idle once, or with one client, or on its way into the pool: no two
   clients ever write to one connection, closed while idle or not. *)
HeldOnce ==
  \A c \in Conns :
    /\ Cardinality(Holders(c)) + Cardinality(Idle(c)) + (IF fresh = c THEN 1 ELSE 0) <= 1
    /\ where[c] # "pool" => Holders(c) = {} /\ Idle(c) = {}

(* connect_pool.go:96: Acquire returns, though it waits for keepNumTiming, which may
   be connecting, or waiting for room in newConnChan; unless the process ends. *)
AcquireReturns == \A g \in Clients : client[g] = "emptySig" ~> client[g] # "emptySig" \/ panicked

(* Every round of connects comes to an end, so that the pool can be refilled again,
   whether its connects succeed, fail, time out or meet a full channel.  With a refused
   connect the end is a crash: it is never reported, and its timer panics.  A connect
   that is reported twice may take toNewNum past 0. *)
RoundsEnd == toNewNum > 0 ~> toNewNum = 0 \/ doubled > 0 \/ panicked
=============================================================================
