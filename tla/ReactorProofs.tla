--------------------------- MODULE ReactorProofs ---------------------------
(***************************************************************************)
(* For any number of evPolls, descriptors, goroutines and calls: Run       *)
(* returns last, the caches agree and are read whole and forward, and the  *)
(* saved masks are the kernel's, up to the overlaps the properties name.   *)
(***************************************************************************)
EXTENDS Reactor, FiniteSetTheorems, SequenceTheorems, TLAPS

(* The calls a caller can be in. *)
AddOps   == [call : {"add"}, fd : Fds, at : {"store", "ctl", "get"}]
ModOps   == [call : {"mod"}, fd : Fds, ev : {EvIn, EvOut, EvAll},
             at : {"read", "save", "build", "ctl", "del", "ctldel"},
             append : BOOLEAN, undo : BOOLEAN, mask : SUBSET EvAll]
SyncOps  == [call : {"sync"}, val : 1..MaxCalls, at : Polls]
StoreOps == [call : {"store"}, to : Polls, val : 1..MaxCalls]
Ops == {Idle} \cup AddOps \cup ModOps \cup SyncOps \cup StoreOps

OpTypes == op \in [Callers -> Ops]

(* The WaitGroup counts the evPolls that run or have not called wg.Done yet. *)
Counted == {i \in Polls : poll[i] \in {"running", "failed"}}

RunInv == /\ poll \in [Polls -> {"new", "running", "failed", "done", "ended"}]
          /\ wg = Cardinality(Counted)
          /\ errS \subseteq Polls
          /\ main = "returned" => /\ \A i \in Polls : poll[i] \in {"done", "ended"}
                                  /\ result \subseteq errS

(* What an evPoll will have stored once it has emptied its queue. *)
Latest(i) == IF queue[i] # <<>> THEN queue[i][Len(queue[i])]
             ELSE IF op[i].call = "store" THEN op[i].val
             ELSE pCache[i]

(* Stores are made by an evPoll for itself. *)
OwnStores == \A c \in Callers : op[c].call = "store" => c \in Polls /\ op[c].to = c

(* As long as no two PollSyncOpts overlapped: there is at most one under way, with the
   latest value, and the evPolls it has passed will store that value. *)
OneSync ==
  /\ \A c, d \in Callers : op[c].call = "sync" /\ op[d].call = "sync" => c = d
  /\ \A c \in Callers : op[c].call = "sync" => op[c].val = last
  /\ \A i \in Polls : (\A c \in Callers : op[c].call = "sync" => op[c].at > i)
                      => Latest(i) = last

(* Values reach an evPoll in the order of the calls. *)
Forward ==
  /\ \A i \in Polls : /\ pCache[i] <= last
                      /\ op[i].call = "store" => pCache[i] <= op[i].val /\ op[i].val <= last
                      /\ \A k \in 1..Len(queue[i]) :
                           /\ pCache[i] <= queue[i][k] /\ queue[i][k] <= last
                           /\ op[i].call = "store" => op[i].val <= queue[i][k]
                           /\ \A j \in 1..k : queue[i][j] <= queue[i][k]
  /\ \A fd \in Fds : seen[fd] <= pCache[EvPollOf(fd)]

SyncInv == /\ calls \in 0..MaxCalls /\ last \in 0..calls
           /\ queue \in [Polls -> Seq(1..MaxCalls)] /\ pCache \in [Polls -> 0..MaxCalls]
           /\ seen \in [Fds -> 0..MaxCalls]
           /\ OwnStores
           /\ \A i \in Polls : <<i, i>> \notin torn
           /\ ~mixed => OneSync /\ Forward

(* A call that changes the masks of fd. *)
On(c, fd) == op[c].call \in {"add", "mod"} /\ op[c].fd = fd

(* For a descriptor on which no two calls overlapped: what each step of the call that is
   under way, if any, may rely on. *)
Alone(fd) ==
  /\ \A c, d \in Callers : On(c, fd) /\ On(d, fd) => c = d
  /\ \A c \in Callers : op[c].call = "add" /\ op[c].fd = fd =>
       /\ op[c].at \in {"store", "ctl"} => kern[fd] = None
       /\ op[c].at = "ctl" => used[fd] /\ saved[fd] = EvIn
  /\ \A c \in Callers : op[c].call = "mod" /\ op[c].fd = fd =>
       /\ op[c].undo => kern[fd] = None
       /\ op[c].at \in {"read", "save", "build", "ctl"} /\ kern[fd] # None => used[fd]
       /\ op[c].at = "ctl" => op[c].mask = saved[fd]
  /\ kern[fd] # None /\ (\A c \in Callers : On(c, fd) => op[c].at = "get")
     => used[fd] /\ kern[fd] = saved[fd]

MaskInv == /\ saved \in [Fds -> SUBSET EvAll] /\ used \in [Fds -> BOOLEAN]
           /\ kern \in [Fds -> {None} \cup SUBSET EvAll]
           /\ \A fd \in Fds \ raced : Alone(fd)

IInv == OpTypes /\ RunInv /\ SyncInv /\ MaskInv

-----------------------------------------------------------------------------
(* Descriptors and evPolls *)

(* Every call on a descriptor goes to an evPoll that exists. *)
LEMMA EvPollOfType == \A fd \in Fds : EvPollOf(fd) \in Polls
  BY ReactorAssumption DEF EvPollOf, Polls

(* There are evPollNum of them. *)
LEMMA PollsFinite == IsFiniteSet(Polls) /\ Cardinality(Polls) = evPollNum
<1>1. 0 \in Int /\ evPollNum - 1 \in Int /\ evPollNum >= 1
  BY ReactorAssumption
<1>2. IsFiniteSet(0..evPollNum - 1)
      /\ Cardinality(0..evPollNum - 1)
         = IF 0 > evPollNum - 1 THEN 0 ELSE (evPollNum - 1) - 0 + 1
  BY <1>1, FS_Interval
<1> QED BY <1>1, <1>2, ReactorAssumption DEF Polls

(* The WaitGroup never counts more than the evPolls. *)
LEMMA CountedBound == IsFiniteSet(Counted) /\ Cardinality(Counted) \in 0..evPollNum
<1>1. Counted \subseteq Polls
  BY DEF Counted
<1>2. IsFiniteSet(Counted) /\ Cardinality(Counted) <= Cardinality(Polls)
  BY <1>1, PollsFinite, FS_Subset
<1>3. Cardinality(Counted) \in Nat
  BY <1>2, FS_CardinalityType
<1> QED BY <1>2, <1>3, PollsFinite, ReactorAssumption

-----------------------------------------------------------------------------
(* The invariant implies the properties. *)
LEMMA IInvImplies ==
  IInv => /\ RunOutlivesPolls
          /\ CachesAgreeUnlessMixed
          /\ ReadsWholeAndForward
          /\ MasksAgreeUnlessRaced
<1> SUFFICES ASSUME IInv
             PROVE  /\ RunOutlivesPolls /\ CachesAgreeUnlessMixed
                    /\ ReadsWholeAndForward /\ MasksAgreeUnlessRaced
  OBVIOUS
<1>1. TypeOK
  BY CountedBound DEF IInv, RunInv, SyncInv, MaskInv, TypeOK
<1>2. RunOutlivesPolls
  BY <1>1 DEF IInv, RunInv, RunOutlivesPolls
<1>3. CachesAgreeUnlessMixed
  BY DEF IInv, SyncInv, OneSync, Latest, CachesAgreeUnlessMixed
<1>4. ReadsWholeAndForward
  BY DEF IInv, SyncInv, Forward, ReadsWholeAndForward
<1>5. MasksAgreeUnlessRaced
  BY DEF IInv, MaskInv, Alone, On, MasksAgreeUnlessRaced
<1> QED BY <1>2, <1>3, <1>4, <1>5

(* Nothing has happened yet. *)
LEMMA InitIInv == Init => IInv
<1> SUFFICES ASSUME Init PROVE IInv
  OBVIOUS
<1>1. OpTypes
  BY DEF Init, OpTypes, Ops
<1>2. RunInv
  <2>1. Counted = {}
    BY DEF Init, Counted
  <2>2. Cardinality(Counted) = 0
    BY <2>1, FS_EmptySet
  <2> QED BY <2>2 DEF Init, RunInv
<1>3. \A c \in Callers : op[c].call = "none"
  BY DEF Init, Idle
<1>4. SyncInv
  <2>1. \A i \in Polls : queue[i] = <<>> /\ pCache[i] = 0 /\ op[i].call = "none"
    BY <1>3 DEF Init, Callers
  <2>2. OneSync /\ OwnStores
    BY <1>3, <2>1 DEF Init, OneSync, OwnStores, Latest
  <2>3. Forward
    BY <2>1, EvPollOfType DEF Init, Forward
  <2> QED BY <2>1, <2>2, <2>3, ReactorAssumption DEF Init, SyncInv
<1>5. MaskInv
  BY <1>3 DEF Init, MaskInv, Alone, On
<1> QED BY <1>1, <1>2, <1>4, <1>5 DEF IInv

-----------------------------------------------------------------------------
(* Calls and frames *)

(* The field call tells the kind of an operation. *)
LEMMA OpShape ==
  ASSUME NEW o \in Ops
  PROVE  /\ o.call \in {"none", "add", "mod", "sync", "store"}
         /\ o.call = "none" => o = Idle
         /\ o.call = "add" => o \in AddOps
         /\ o.call = "mod" => o \in ModOps
         /\ o.call = "sync" => o \in SyncOps
         /\ o.call = "store" => o \in StoreOps
  BY DEF Ops, AddOps, ModOps, SyncOps, StoreOps, Idle

(* A caller's operation changes, and no other's. *)
LEMMA OpChange ==
  ASSUME OpTypes, NEW c \in Callers, NEW o \in Ops, op' = [op EXCEPT ![c] = o]
  PROVE  /\ OpTypes'
         /\ op'[c] = o
         /\ \A d \in Callers : d # c => op'[d] = op[d]
  BY DEF OpTypes

(* A step of a call on a descriptor, or its beginning, leaves PollSyncOpt alone. *)
LEMMA SyncFrame ==
  ASSUME OpTypes, SyncInv, UNCHANGED sync, calls' \in 0..MaxCalls, calls <= calls',
         \A d \in Callers : \/ op'[d] = op[d]
                            \/ op[d].call \notin {"sync", "store"}
                               /\ op'[d].call \notin {"sync", "store"}
  PROVE  SyncInv'
<1>1. /\ queue' = queue /\ pCache' = pCache /\ last' = last /\ mixed' = mixed
      /\ seen' = seen /\ torn' = torn
  BY DEF sync
<1>2. OwnStores'
  BY DEF SyncInv, OwnStores
<1>3. ASSUME OneSync PROVE OneSync'
  BY <1>1, <1>3 DEF OneSync, Latest, Callers
<1>4. ASSUME Forward PROVE Forward'
  BY <1>1, <1>4 DEF Forward, Callers
<1> QED BY <1>1, <1>2, <1>3, <1>4 DEF SyncInv

(* A step of PollSyncOpt or of doSync leaves the masks alone. *)
LEMMA MaskFrame ==
  ASSUME OpTypes, MaskInv, UNCHANGED masks,
         \A d \in Callers : \/ op'[d] = op[d]
                            \/ op[d].call \notin {"add", "mod"}
                               /\ op'[d].call \notin {"add", "mod"}
  PROVE  MaskInv'
<1>1. saved' = saved /\ used' = used /\ kern' = kern /\ raced' = raced
  BY DEF masks
<1>2. ASSUME NEW fd \in Fds, Alone(fd) PROVE Alone(fd)'
  BY <1>1, <1>2 DEF Alone, On
<1> QED BY <1>1, <1>2 DEF MaskInv

(* Most steps leave the evPoll goroutines and Run alone. *)
LEMMA RunFrame == RunInv /\ UNCHANGED run => RunInv'
  BY DEF RunInv, Counted, run

-----------------------------------------------------------------------------
(* Calls on a descriptor *)

(* A step for another descriptor. *)
LEMMA OtherFd ==
  ASSUME NEW fd \in Fds, Alone(fd),
         saved'[fd] = saved[fd], used'[fd] = used[fd], kern'[fd] = kern[fd],
         \A d \in Callers : op'[d] = op[d] \/ (~On(d, fd) /\ ~On(d, fd)')
  PROVE  Alone(fd)'
  BY DEF Alone, On

(* While a call on fd is the only one, it alone determines what holds of fd. *)
LEMMA OwnFd ==
  ASSUME NEW fd \in Fds, NEW c \in Callers,
         \A d \in Callers : d # c => ~On(d, fd)',
         op'[c].call = "add" /\ op'[c].fd = fd =>
           /\ op'[c].at \in {"store", "ctl"} => kern'[fd] = None
           /\ op'[c].at = "ctl" => used'[fd] /\ saved'[fd] = EvIn,
         op'[c].call = "mod" /\ op'[c].fd = fd =>
           /\ op'[c].undo => kern'[fd] = None
           /\ op'[c].at \in {"read", "save", "build", "ctl"} /\ kern'[fd] # None => used'[fd]
           /\ op'[c].at = "ctl" => op'[c].mask = saved'[fd],
         kern'[fd] # None /\ (On(c, fd)' => op'[c].at = "get")
           => used'[fd] /\ kern'[fd] = saved'[fd]
  PROVE  Alone(fd)'
  BY DEF Alone, On

(* The masks of a step of caller c for its descriptor. *)
LEMMA StepMasks ==
  ASSUME MaskInv, NEW c \in Callers, op[c].call \in {"add", "mod"}, NEW fd \in Fds, op[c].fd = fd,
         raced' = raced,
         saved' \in [Fds -> SUBSET EvAll], used' \in [Fds -> BOOLEAN],
         kern' \in [Fds -> {None} \cup SUBSET EvAll],
         \A g \in Fds : g # fd => saved'[g] = saved[g] /\ used'[g] = used[g] /\ kern'[g] = kern[g],
         \A d \in Callers : d # c => op'[d] = op[d],
         op'[c].call \in {"add", "mod"} => op'[c].fd = fd,
         Alone(fd) =>
           /\ op'[c].call = "add" /\ op'[c].at \in {"store", "ctl"} => kern'[fd] = None
           /\ op'[c].call = "add" /\ op'[c].at = "ctl" => used'[fd] /\ saved'[fd] = EvIn
           /\ op'[c].call = "mod" /\ op'[c].undo => kern'[fd] = None
           /\ op'[c].call = "mod" /\ op'[c].at \in {"read", "save", "build", "ctl"}
              /\ kern'[fd] # None => used'[fd]
           /\ op'[c].call = "mod" /\ op'[c].at = "ctl" => op'[c].mask = saved'[fd]
           /\ kern'[fd] # None /\ (op'[c].call \in {"add", "mod"} => op'[c].at = "get")
              => used'[fd] /\ kern'[fd] = saved'[fd]
  PROVE  MaskInv'
<1>1. ASSUME NEW g \in Fds \ raced, g # fd PROVE Alone(g)'
  BY <1>1, OtherFd DEF MaskInv, On
<1>2. ASSUME fd \notin raced PROVE Alone(fd)'
  <2>1. Alone(fd)
    BY <1>2 DEF MaskInv
  <2>2. \A d \in Callers : d # c => ~On(d, fd)'
    BY <2>1 DEF Alone, On
  <2> QED BY <2>1, <2>2, OwnFd DEF On
<1> QED BY <1>1, <1>2 DEF MaskInv

(* A step of a call on fd: only its caller's operation and the masks of fd change. *)
LEMMA MaskStep ==
  ASSUME IInv, NEW c \in Callers, op[c].call \in {"add", "mod"}, NEW fd \in Fds, op[c].fd = fd,
         NEW o \in Ops, op' = [op EXCEPT ![c] = o],
         o.call \notin {"sync", "store"}, o.call \in {"add", "mod"} => o.fd = fd,
         UNCHANGED <<calls, raced, sync, run>>,
         saved' \in [Fds -> SUBSET EvAll], used' \in [Fds -> BOOLEAN],
         kern' \in [Fds -> {None} \cup SUBSET EvAll],
         \A g \in Fds : g # fd => saved'[g] = saved[g] /\ used'[g] = used[g] /\ kern'[g] = kern[g],
         Alone(fd) =>
           /\ o.call = "add" /\ o.at \in {"store", "ctl"} => kern'[fd] = None
           /\ o.call = "add" /\ o.at = "ctl" => used'[fd] /\ saved'[fd] = EvIn
           /\ o.call = "mod" /\ o.undo => kern'[fd] = None
           /\ o.call = "mod" /\ o.at \in {"read", "save", "build", "ctl"} /\ kern'[fd] # None
              => used'[fd]
           /\ o.call = "mod" /\ o.at = "ctl" => o.mask = saved'[fd]
           /\ kern'[fd] # None /\ (o.call \in {"add", "mod"} => o.at = "get")
              => used'[fd] /\ kern'[fd] = saved'[fd]
  PROVE  IInv'
<1>1. OpTypes' /\ op'[c] = o /\ \A d \in Callers : d # c => op'[d] = op[d]
  BY OpChange, ZenonT(30) DEF IInv
<1>2. SyncInv'
  BY <1>1, SyncFrame DEF IInv, SyncInv
<1>3. MaskInv'
  BY <1>1, StepMasks DEF IInv
<1> QED BY <1>1, <1>2, <1>3, RunFrame DEF IInv

(* The masks an AddEvHandler, AppendEvent or RemoveEvent may name. *)
LEMMA EvSubsets == {EvIn, EvOut, EvAll} \subseteq SUBSET EvAll
  BY DEF EvAll

(* AddEvHandler stores evData. *)
LEMMA AddStoreStep ==
  ASSUME IInv, NEW c \in Callers, AddStore(c)
  PROVE  IInv'
<1> DEFINE fd == op[c].fd
           o == [op[c] EXCEPT !.at = "ctl"]
<1>1. op[c] \in AddOps /\ op[c].at = "store" /\ fd \in Fds
  BY OpShape DEF IInv, OpTypes, AddStore, At, AddOps
<1>2. o \in Ops /\ o.call = "add" /\ o.fd = fd /\ o.at = "ctl"
  BY <1>1 DEF Ops, AddOps
<1>3. op' = [op EXCEPT ![c] = o]
  BY DEF AddStore, Goto
<1>4. saved' = [saved EXCEPT ![fd] = EvIn] /\ used' = [used EXCEPT ![fd] = TRUE]
      /\ UNCHANGED <<calls, kern, raced, sync, run>>
  BY DEF AddStore
<1>5. saved' \in [Fds -> SUBSET EvAll] /\ used' \in [Fds -> BOOLEAN]
  BY <1>1, <1>4, EvSubsets, Zenon DEF IInv, MaskInv
<1>6. Alone(fd) => kern[fd] = None
  BY <1>1 DEF Alone, AddOps
<1> HIDE DEF o
<1> QED BY <1>1, <1>2, <1>3, <1>4, <1>5, <1>6, MaskStep DEF IInv, MaskInv, AddOps

(* EPOLL_CTL_ADD succeeds, and the kernel has the mask just saved; or it fails, and the
   kernel has none. *)
LEMMA AddCtlStep ==
  ASSUME IInv, NEW c \in Callers, AddCtl(c)
  PROVE  IInv'
<1> DEFINE fd == op[c].fd
           o == [op[c] EXCEPT !.at = "get"]
<1>1. op[c] \in AddOps /\ op[c].at = "ctl" /\ fd \in Fds
  BY OpShape DEF IInv, OpTypes, AddCtl, At, AddOps
<1>2. o \in Ops /\ o.call = "add" /\ o.fd = fd /\ o.at = "get" /\ Idle \in Ops /\ Idle.call = "none"
  BY <1>1 DEF Ops, AddOps, Idle
<1>3. Alone(fd) => kern[fd] = None /\ used[fd] /\ saved[fd] = EvIn
  BY <1>1 DEF Alone, AddOps
<1>4. UNCHANGED <<calls, saved, used, raced, sync, run>>
  BY DEF AddCtl
<1> HIDE DEF o
<1>5. CASE kern' = [kern EXCEPT ![fd] = EvIn] /\ Goto(c, "get")
  <2>1. op' = [op EXCEPT ![c] = o]
    BY <1>5 DEF Goto, o
  <2>2. kern' \in [Fds -> {None} \cup SUBSET EvAll]
    BY <1>1, <1>5, EvSubsets, Zenon DEF IInv, MaskInv
  <2>3. kern'[fd] = EvIn /\ \A g \in Fds : g # fd => kern'[g] = kern[g]
    BY <1>1, <1>5 DEF IInv, MaskInv
  <2> QED BY <1>1, <1>2, <1>3, <1>4, <2>1, <2>2, <2>3, MaskStep, ZenonT(30) DEF IInv, MaskInv, AddOps
<1>6. CASE UNCHANGED kern /\ Return(c)
  <2>1. op' = [op EXCEPT ![c] = Idle]
    BY <1>6 DEF Return
  <2> QED BY <1>1, <1>2, <1>3, <1>4, <1>6, <2>1, MaskStep DEF IInv, MaskInv, AddOps
<1> QED BY <1>5, <1>6 DEF AddCtl

(* The load of ed.events. *)
LEMMA ReadStep ==
  ASSUME IInv, NEW c \in Callers, Read(c)
  PROVE  IInv'
<1> DEFINE fd == op[c].fd
           o == [op[c] EXCEPT !.mask = saved[fd], !.at = "save"]
<1>1. op[c] \in ModOps /\ op[c].at = "read" /\ fd \in Fds /\ saved[fd] \in SUBSET EvAll
  BY OpShape DEF IInv, OpTypes, Read, At, ModOps, MaskInv
<1>2. o \in Ops /\ o.call = "mod" /\ o.fd = fd /\ o.at = "save" /\ o.undo = op[c].undo
  BY <1>1 DEF Ops, ModOps
<1>3. op' = [op EXCEPT ![c] = o]
  BY DEF Read
<1>4. UNCHANGED <<calls, saved, used, kern, raced, sync, run>>
  BY DEF Read, masks
<1>5. Alone(fd) => (op[c].undo => kern[fd] = None) /\ (kern[fd] # None => used[fd])
  BY <1>1 DEF Alone, ModOps
<1> HIDE DEF o
<1> QED BY <1>1, <1>2, <1>3, <1>4, <1>5, MaskStep DEF IInv, MaskInv, ModOps

(* The store of ed.events. *)
LEMMA SaveStep ==
  ASSUME IInv, NEW c \in Callers, Save(c)
  PROVE  IInv'
<1> DEFINE fd == op[c].fd
           m == IF op[c].append # op[c].undo THEN op[c].mask \cup op[c].ev
                                             ELSE op[c].mask \ op[c].ev
           o == [op[c] EXCEPT !.at = "build"]
<1>1. op[c] \in ModOps /\ op[c].at = "save" /\ fd \in Fds
  BY OpShape DEF IInv, OpTypes, Save, At, ModOps
<1>2. o \in Ops /\ o.call = "mod" /\ o.fd = fd /\ o.at = "build" /\ o.undo = op[c].undo
      /\ Idle \in Ops /\ Idle.call = "none"
  BY <1>1 DEF Ops, ModOps, Idle
<1>3. m \in SUBSET EvAll
  <2>1. op[c].ev \in SUBSET EvAll /\ op[c].mask \in SUBSET EvAll
    BY <1>1, EvSubsets DEF ModOps
  <2> QED BY <2>1
<1>4. saved' = [saved EXCEPT ![fd] = m] /\ UNCHANGED <<calls, used, kern, raced, sync, run>>
  BY DEF Save
<1> HIDE DEF m, o
<1>5. saved' \in [Fds -> SUBSET EvAll] /\ \A g \in Fds : g # fd => saved'[g] = saved[g]
  BY <1>1, <1>3, <1>4 DEF IInv, MaskInv
<1>6. Alone(fd) => (op[c].undo => kern[fd] = None) /\ (kern[fd] # None => used[fd])
  BY <1>1 DEF Alone, ModOps
<1>7. CASE op[c].undo
  <2>1. op' = [op EXCEPT ![c] = Idle]
    BY <1>7 DEF Save, Return
  <2> QED BY <1>1, <1>2, <1>4, <1>5, <1>6, <1>7, <2>1, MaskStep DEF IInv, MaskInv, ModOps
<1>8. CASE ~op[c].undo
  <2>1. op' = [op EXCEPT ![c] = o]
    BY <1>8 DEF Save, Goto, o
  <2> QED BY <1>1, <1>2, <1>4, <1>5, <1>6, <2>1, MaskStep DEF IInv, MaskInv, ModOps
<1> QED BY <1>7, <1>8

(* The argument of epoll_ctl is the mask that is saved. *)
LEMMA BuildStep ==
  ASSUME IInv, NEW c \in Callers, Build(c)
  PROVE  IInv'
<1> DEFINE fd == op[c].fd
           o == [op[c] EXCEPT !.mask = saved[fd], !.at = "ctl"]
<1>1. op[c] \in ModOps /\ op[c].at = "build" /\ fd \in Fds /\ saved[fd] \in SUBSET EvAll
  BY OpShape DEF IInv, OpTypes, Build, At, ModOps, MaskInv
<1>2. /\ o \in Ops /\ o.call = "mod" /\ o.fd = fd /\ o.at = "ctl" /\ o.undo = op[c].undo
      /\ o.mask = saved[fd]
  BY <1>1 DEF Ops, ModOps
<1>3. op' = [op EXCEPT ![c] = o]
  BY DEF Build
<1>4. UNCHANGED <<calls, saved, used, kern, raced, sync, run>>
  BY DEF Build, masks
<1>5. Alone(fd) => (op[c].undo => kern[fd] = None) /\ (kern[fd] # None => used[fd])
  BY <1>1 DEF Alone, ModOps
<1> HIDE DEF o
<1> QED BY <1>1, <1>2, <1>3, <1>4, <1>5, MaskStep DEF IInv, MaskInv, ModOps

(* EPOLL_CTL_MOD: the kernel gets what is saved, or has no mask and the call starts to
   undo. *)
LEMMA ModStep ==
  ASSUME IInv, NEW c \in Callers, Mod(c)
  PROVE  IInv'
<1> DEFINE fd == op[c].fd
           o == [op[c] EXCEPT !.undo = TRUE, !.at = "read"]
<1>1. op[c] \in ModOps /\ op[c].at = "ctl" /\ fd \in Fds /\ op[c].mask \in SUBSET EvAll
  BY OpShape DEF IInv, OpTypes, Mod, At, ModOps
<1>2. o \in Ops /\ o.call = "mod" /\ o.fd = fd /\ o.at = "read" /\ o.undo = TRUE
      /\ Idle \in Ops /\ Idle.call = "none"
  BY <1>1 DEF Ops, ModOps, Idle
<1>3. Alone(fd) => (kern[fd] # None => used[fd]) /\ op[c].mask = saved[fd]
  BY <1>1 DEF Alone, ModOps
<1>4. UNCHANGED <<calls, saved, used, raced, sync, run>>
  BY DEF Mod
<1> HIDE DEF o
<1>5. CASE kern[fd] = None
  <2>1. op' = [op EXCEPT ![c] = o] /\ kern' = kern
    BY <1>5 DEF Mod, o
  <2> QED BY <1>1, <1>2, <1>4, <1>5, <2>1, MaskStep DEF IInv, MaskInv, ModOps
<1>6. CASE kern[fd] # None
  <2>1. op' = [op EXCEPT ![c] = Idle] /\ kern' = [kern EXCEPT ![fd] = op[c].mask]
    BY <1>6 DEF Mod, Return
  <2>2. kern' \in [Fds -> {None} \cup SUBSET EvAll]
    BY <1>1, <2>1, Zenon DEF IInv, MaskInv
  <2>3. kern'[fd] = op[c].mask /\ \A g \in Fds : g # fd => kern'[g] = kern[g]
    BY <1>1, <2>1 DEF IInv, MaskInv
  <2> QED BY <1>1, <1>2, <1>3, <1>4, <1>6, <2>1, <2>2, <2>3, MaskStep, ZenonT(30)
          DEF IInv, MaskInv, ModOps
<1> QED BY <1>5, <1>6

(* del. *)
LEMMA DelSlotStep ==
  ASSUME IInv, NEW c \in Callers, DelSlot(c)
  PROVE  IInv'
<1> DEFINE fd == op[c].fd
           o == [op[c] EXCEPT !.at = "ctldel"]
<1>1. op[c] \in ModOps /\ op[c].at = "del" /\ fd \in Fds
  BY OpShape DEF IInv, OpTypes, DelSlot, At, ModOps
<1>2. o \in Ops /\ o.call = "mod" /\ o.fd = fd /\ o.at = "ctldel" /\ o.undo = op[c].undo
  BY <1>1 DEF Ops, ModOps
<1>3. op' = [op EXCEPT ![c] = o]
  BY DEF DelSlot, Goto
<1>4. saved' = [saved EXCEPT ![fd] = {}] /\ used' = [used EXCEPT ![fd] = FALSE]
      /\ UNCHANGED <<calls, kern, raced, sync, run>>
  BY DEF DelSlot
<1>5. saved' \in [Fds -> SUBSET EvAll] /\ used' \in [Fds -> BOOLEAN]
      /\ \A g \in Fds : g # fd => saved'[g] = saved[g] /\ used'[g] = used[g]
  BY <1>1, <1>4, Zenon DEF IInv, MaskInv
<1>6. Alone(fd) => (op[c].undo => kern[fd] = None)
  BY <1>1 DEF Alone, ModOps
<1> HIDE DEF o
<1> QED BY <1>1, <1>2, <1>3, <1>4, <1>5, <1>6, MaskStep DEF IInv, MaskInv, ModOps

(* EPOLL_CTL_DEL. *)
LEMMA DelCtlStep ==
  ASSUME IInv, NEW c \in Callers, DelCtl(c)
  PROVE  IInv'
<1> DEFINE fd == op[c].fd
<1>1. op[c] \in ModOps /\ op[c].at = "ctldel" /\ fd \in Fds
  BY OpShape DEF IInv, OpTypes, DelCtl, At, ModOps
<1>2. Idle \in Ops /\ Idle.call = "none"
  BY DEF Ops, Idle
<1>3. op' = [op EXCEPT ![c] = Idle] /\ kern' = [kern EXCEPT ![fd] = None]
      /\ UNCHANGED <<calls, saved, used, raced, sync, run>>
  BY DEF DelCtl, Return
<1>4. kern' \in [Fds -> {None} \cup SUBSET EvAll]
  BY <1>1, <1>3, Zenon DEF IInv, MaskInv
<1>5. kern'[fd] = None /\ \A g \in Fds : g # fd => kern'[g] = kern[g]
  BY <1>1, <1>3 DEF IInv, MaskInv
<1> QED BY <1>1, <1>2, <1>3, <1>4, <1>5, MaskStep DEF IInv, MaskInv, ModOps

(* A call on fd begins: either fd now counts as raced, or no other call is on it. *)
LEMMA BeginStep ==
  ASSUME IInv, NEW c \in Callers, NEW fd \in Fds, NEW o \in Ops,
         o.call \notin {"sync", "store"}, o.call \in {"add", "mod"} => o.fd = fd,
         Begin(c, o), Overlaps(fd), UNCHANGED <<saved, used, kern, sync, run>>,
         o.call = "add" => o.at = "store" /\ kern[fd] = None,
         o.call = "mod" => ~o.undo /\ o.at \in {"read", "del"} /\ (o.at = "read" => used[fd])
  PROVE  IInv'
<1>1. op[c] = Idle /\ op[c].call = "none" /\ op' = [op EXCEPT ![c] = o] /\ calls' = calls + 1
      /\ calls < MaxCalls
  BY DEF Begin, Free, Idle
<1>2. OpTypes' /\ op'[c] = o /\ \A d \in Callers : d # c => op'[d] = op[d]
  BY <1>1, OpChange DEF IInv
<1>3. SyncInv'
  <2>1. calls' \in 0..MaxCalls /\ calls <= calls'
    BY <1>1, ReactorAssumption DEF IInv, SyncInv
  <2> QED BY <1>1, <1>2, <2>1, SyncFrame DEF IInv
<1>4. MaskInv'
  <2>1. raced \subseteq raced'
    BY DEF Overlaps
  <2>2. ASSUME NEW g \in Fds, g \notin raced' PROVE Alone(g)'
    <3>1. Alone(g)
      BY <2>1, <2>2 DEF IInv, MaskInv
    <3>2. CASE g # fd
      BY <1>1, <1>2, <3>1, <3>2, OtherFd DEF On
    <3>3. CASE g = fd
      <4>1. \A d \in Callers : ~On(d, fd)
        BY <2>2, <3>3 DEF Overlaps, On
      <4>2. kern[fd] # None => used[fd] /\ kern[fd] = saved[fd]
        BY <3>1, <3>3, <4>1 DEF Alone
      <4> QED BY <1>2, <3>3, <4>1, <4>2, OwnFd DEF On
    <3> QED BY <3>2, <3>3
  <2> QED BY <2>2 DEF IInv, MaskInv
<1> QED BY <1>2, <1>3, <1>4, RunFrame DEF IInv

(* AddEvHandler begins. *)
LEMMA AddEvHandlerStep ==
  ASSUME IInv, NEW c \in Callers, NEW fd \in Fds, AddEvHandler(c, fd)
  PROVE  IInv'
<1> DEFINE o == [call |-> "add", fd |-> fd, at |-> "store"]
<1>1. o \in Ops /\ o.call = "add" /\ o.fd = fd /\ o.at = "store"
  BY DEF Ops, AddOps
<1>2. Begin(c, o) /\ Overlaps(fd) /\ kern[fd] = None /\ UNCHANGED <<saved, used, kern, sync, run>>
  BY DEF AddEvHandler
<1> HIDE DEF o
<1> QED BY <1>1, <1>2, BeginStep

(* AppendEvent begins, or returns for want of an evData. *)
LEMMA AppendEventStep ==
  ASSUME IInv, NEW c \in Callers, NEW fd \in Fds, NEW ev \in {EvIn, EvOut},
         AppendEvent(c, fd, ev)
  PROVE  IInv'
<1> DEFINE o == [call |-> "mod", fd |-> fd, ev |-> ev, at |-> "read",
                 append |-> TRUE, undo |-> FALSE, mask |-> {}]
<1>1. o \in Ops /\ o.call = "mod" /\ o.fd = fd /\ o.at = "read" /\ o.undo = FALSE
  BY DEF Ops, ModOps
<1>2. Idle \in Ops /\ Idle.call = "none"
  BY DEF Ops, Idle
<1>3. Overlaps(fd) /\ UNCHANGED <<saved, used, kern, sync, run>>
  BY DEF AppendEvent
<1>4. CASE used[fd]
  <2>1. Begin(c, o)
    BY <1>4 DEF AppendEvent
  <2> HIDE DEF o
  <2> QED BY <1>1, <1>3, <1>4, <2>1, BeginStep
<1>5. CASE ~used[fd]
  <2>1. Begin(c, Idle)
    BY <1>5 DEF AppendEvent
  <2> QED BY <1>2, <1>3, <2>1, BeginStep
<1> QED BY <1>4, <1>5

(* RemoveEvent begins: with del for EvAll, and for the last event that is saved. *)
LEMMA RemoveEventStep ==
  ASSUME IInv, NEW c \in Callers, NEW fd \in Fds, NEW ev \in {EvIn, EvOut, EvAll},
         RemoveEvent(c, fd, ev)
  PROVE  IInv'
<1> DEFINE step == IF ev = EvAll \/ saved[fd] \ ev = {} THEN "del" ELSE "read"
           o == [call |-> "mod", fd |-> fd, ev |-> ev, at |-> step,
                 append |-> FALSE, undo |-> FALSE, mask |-> {}]
<1>0. step \in {"read", "del"} /\ (step = "read" => ev # EvAll)
  OBVIOUS
<1>1. Overlaps(fd) /\ UNCHANGED <<saved, used, kern, sync, run>>
  BY DEF RemoveEvent
<1>2. CASE used[fd] \/ ev = EvAll
  <2>1. Begin(c, o)
    BY <1>2 DEF RemoveEvent
  <2> HIDE DEF step
  <2>2. o \in Ops /\ o.call = "mod" /\ o.fd = fd /\ o.at = step /\ o.undo = FALSE
    BY <1>0 DEF Ops, ModOps
  <2> HIDE DEF o
  <2> QED BY <1>0, <1>1, <1>2, <2>1, <2>2, BeginStep
<1>3. CASE ~(used[fd] \/ ev = EvAll)
  <2>1. Begin(c, Idle)
    BY <1>3 DEF RemoveEvent
  <2>2. Idle \in Ops /\ Idle.call = "none"
    BY DEF Ops, Idle
  <2> QED BY <1>1, <2>1, <2>2, BeginStep
<1> QED BY <1>2, <1>3

-----------------------------------------------------------------------------
(* PollSyncOpt *)

(* The values in queues and caches are numbers of calls. *)
LEMMA SyncTypes ==
  ASSUME SyncInv, NEW i \in Polls
  PROVE  /\ pCache[i] \in Nat /\ queue[i] \in Seq(1..MaxCalls) /\ Len(queue[i]) \in Nat
         /\ \A k \in 1..Len(queue[i]) : queue[i][k] \in 1..MaxCalls /\ queue[i][k] \in Nat
<1>1. pCache[i] \in 0..MaxCalls /\ queue[i] \in Seq(1..MaxCalls)
  BY DEF SyncInv
<1>2. \A k \in 1..Len(queue[i]) : queue[i][k] \in 1..MaxCalls
  BY <1>1, ElementOfSeq
<1> QED BY <1>1, <1>2

(* PollSyncOpt begins: its value is larger than all before it, and none is pushed. *)
LEMMA PollSyncOptStep ==
  ASSUME IInv, NEW c \in Callers, PollSyncOpt(c)
  PROVE  IInv'
<1> DEFINE o == [call |-> "sync", val |-> calls + 1, at |-> 0]
<1>1. /\ op[c] = Idle /\ op[c].call = "none" /\ op' = [op EXCEPT ![c] = o]
      /\ calls' = calls + 1 /\ calls < MaxCalls /\ last' = calls + 1
      /\ mixed' = (mixed \/ \E d \in Callers : op[d].call = "sync")
      /\ UNCHANGED <<masks, queue, pCache, seen, torn, run>>
  BY DEF PollSyncOpt, Begin, Free, Idle
<1>2. calls \in 0..MaxCalls /\ calls' \in 0..MaxCalls /\ last \in 0..calls /\ 0 \in Polls
  BY <1>1, ReactorAssumption DEF IInv, SyncInv, Polls
<1>3. o \in Ops /\ o.call = "sync" /\ o.val = last' /\ o.at = 0
  BY <1>1, <1>2 DEF Ops, SyncOps
<1> HIDE DEF o
<1>4. OpTypes' /\ op'[c] = o /\ \A d \in Callers : d # c => op'[d] = op[d]
  BY <1>1, <1>3, OpChange DEF IInv
<1>5. MaskInv'
  BY <1>1, <1>3, <1>4, MaskFrame DEF IInv
<1>6. SyncInv'
  <2>1. OwnStores'
    BY <1>3, <1>4 DEF IInv, SyncInv, OwnStores
  <2>2. ASSUME ~mixed' PROVE OneSync' /\ Forward'
    <3>1. ~mixed /\ \A d \in Callers : op[d].call # "sync"
      BY <1>1, <2>2
    <3>2. OneSync'
      BY <1>3, <1>4, <3>1 DEF OneSync, Polls
    <3>3. Forward
      BY <3>1 DEF IInv, SyncInv
    <3>4. \A i \in Polls : op'[i].call = "store" => op'[i] = op[i]
      BY <1>3, <1>4 DEF Callers
    <3>5. \A i \in Polls : pCache[i] \in Nat
                           /\ \A k \in 1..Len(queue[i]) : queue[i][k] \in Nat
      BY SyncTypes DEF IInv
    <3>6. \A i \in Polls : op[i].call = "store" => op[i].val \in Nat
      BY OpShape DEF IInv, OpTypes, StoreOps, Callers
    <3>7. Forward'
      BY <1>1, <1>2, <3>3, <3>4, <3>5, <3>6 DEF Forward
    <3> QED BY <3>2, <3>7
  <2> QED BY <1>1, <1>2, <2>1, <2>2 DEF IInv, SyncInv
<1> QED BY <1>1, <1>4, <1>5, <1>6, RunFrame DEF IInv

(* push: what the evPoll will have stored in the end is now the value pushed. *)
LEMMA PushStep ==
  ASSUME IInv, NEW c \in Callers, Push(c)
  PROVE  IInv'
<1>0. op[c] \in SyncOps
  BY OpShape DEF IInv, OpTypes, Push
<1>1. PICK i \in Polls, v \in 1..MaxCalls :
        op[c] \in SyncOps /\ op[c].call = "sync" /\ op[c].at = i /\ op[c].val = v
  BY <1>0 DEF SyncOps
<1> DEFINE o == IF i + 1 < evPollNum THEN [op[c] EXCEPT !.at = i + 1] ELSE Idle
<1>2. /\ op' = [op EXCEPT ![c] = o]
      /\ queue' = [queue EXCEPT ![i] = Append(@, v)]
      /\ UNCHANGED <<calls, masks, pCache, last, mixed, seen, torn, run>>
  BY <1>1 DEF Push, Goto, Return
<1>3. /\ o \in Ops /\ o.call \in {"none", "sync"}
      /\ o.call = "sync" => o.val = v /\ o.at = i + 1
      /\ o.call = "none" => i = evPollNum - 1
  <2>1. CASE i + 1 < evPollNum
    BY <1>1, <2>1, ReactorAssumption DEF Ops, SyncOps, Polls
  <2>2. CASE ~(i + 1 < evPollNum)
    BY <1>1, <2>2, ReactorAssumption DEF Ops, Idle, Polls
  <2> QED BY <2>1, <2>2
<1> HIDE DEF o
<1>4. OpTypes' /\ op'[c] = o /\ \A d \in Callers : d # c => op'[d] = op[d]
  BY <1>2, <1>3, OpChange DEF IInv
<1>5. MaskInv'
  BY <1>1, <1>2, <1>3, <1>4, MaskFrame DEF IInv
<1>6. SyncInv'
  <2>1. OwnStores'
    BY <1>3, <1>4 DEF IInv, SyncInv, OwnStores
  <2>2. queue \in [Polls -> Seq(1..MaxCalls)] /\ queue[i] \in Seq(1..MaxCalls)
    BY <1>1 DEF IInv, SyncInv
  <2>3. /\ queue' \in [Polls -> Seq(1..MaxCalls)]
        /\ queue'[i] = Append(queue[i], v)
        /\ \A j \in Polls : j # i => queue'[j] = queue[j]
    BY <1>1, <1>2, <2>2
  <2>4. /\ Len(queue'[i]) = Len(queue[i]) + 1 /\ Len(queue[i]) \in Nat
        /\ queue'[i] # <<>> /\ queue'[i][Len(queue'[i])] = v
        /\ \A k \in 1..Len(queue[i]) : queue'[i][k] = queue[i][k]
    BY <1>1, <2>2, <2>3
  <2>5. \A j \in Polls : /\ op'[j].call = "store" <=> op[j].call = "store"
                         /\ op'[j].call = "store" => op'[j].val = op[j].val
    BY <1>1, <1>3, <1>4 DEF Callers
  <2>6. ASSUME ~mixed PROVE OneSync' /\ Forward'
    <3>1. OneSync /\ Forward /\ v = last
      BY <1>1, <2>6 DEF IInv, SyncInv, OneSync
    <3>2. OneSync'
      <4>1. \A d \in Callers : op'[d].call = "sync" => d = c
        BY <1>1, <1>4, <3>1 DEF OneSync
      <4>2. Latest(i)' = last
        BY <2>4, <3>1 DEF Latest
      <4>3. ASSUME NEW j \in Polls, j # i, \A d \in Callers : op'[d].call = "sync" => op'[d].at > j
            PROVE  Latest(j)' = last
        <5>1. i > j
          BY <1>1, <1>3, <1>4, <4>3, ReactorAssumption DEF Polls
        <5>2. \A d \in Callers : op[d].call = "sync" => op[d].at > j
          BY <1>1, <3>1, <5>1 DEF OneSync
        <5> QED BY <1>2, <2>3, <2>5, <3>1, <4>3, <5>2 DEF OneSync, Latest
      <4> QED BY <1>2, <1>3, <1>4, <3>1, <4>1, <4>2, <4>3 DEF OneSync
    <3>3. Forward'
      <4>1. ASSUME NEW j \in Polls
            PROVE  /\ pCache[j] <= last
                   /\ op'[j].call = "store" => pCache[j] <= op'[j].val /\ op'[j].val <= last
                   /\ \A k \in 1..Len(queue'[j]) :
                        /\ pCache[j] <= queue'[j][k] /\ queue'[j][k] <= last
                        /\ op'[j].call = "store" => op'[j].val <= queue'[j][k]
                        /\ \A l \in 1..k : queue'[j][l] <= queue'[j][k]
        <5>1. CASE j # i
          BY <2>3, <2>5, <3>1, <5>1 DEF Forward
        <5>2. CASE j = i
          <6>1. last \in Nat /\ \A k \in 1..Len(queue[i]) : queue[i][k] <= last
            <7>1. last \in Nat
              BY DEF IInv, SyncInv
            <7> QED BY <3>1, <7>1 DEF Forward
          <6>2. pCache[i] \in Nat /\ pCache[i] <= last
                /\ (op[i].call = "store" => pCache[i] <= op[i].val /\ op[i].val <= last)
            BY <3>1, SyncTypes DEF Forward, IInv
          <6>3. ASSUME NEW k \in 1..Len(queue[i])
                PROVE  /\ pCache[i] <= queue'[i][k] /\ queue'[i][k] <= last
                       /\ op'[i].call = "store" => op'[i].val <= queue'[i][k]
                       /\ \A l \in 1..k : queue'[i][l] <= queue'[i][k]
            BY <2>4, <2>5, <3>1, SMTT(30) DEF Forward
          <6>4. \A l \in 1..Len(queue'[i]) : queue'[i][l] <= last
            <7>1. \A l \in 1..Len(queue'[i]) : l \in 1..Len(queue[i]) \/ l = Len(queue'[i])
              BY <2>4
            <7> QED BY <2>4, <3>1, <6>1, <7>1
          <6> QED BY <2>4, <2>5, <3>1, <5>2, <6>1, <6>2, <6>3, <6>4
        <5> QED BY <5>1, <5>2
      <4> QED BY <1>2, <3>1, <4>1 DEF Forward
    <3> QED BY <3>2, <3>3
  <2> QED BY <1>2, <2>1, <2>3, <2>6 DEF IInv, SyncInv
<1> QED BY <1>2, <1>4, <1>5, <1>6, RunFrame DEF IInv

(* doSync takes the oldest value; the evPoll will still store the latest one last. *)
LEMMA DoSyncStep ==
  ASSUME IInv, NEW i \in Polls, DoSync(i)
  PROVE  IInv'
<1>1. PICK v \in 1..MaxCalls : v = Head(queue[i])
  BY SyncTypes DEF DoSync, IInv
<1> DEFINE o == [call |-> "store", to |-> i, val |-> v]
<1>2. /\ op[i] = Idle /\ op[i].call = "none" /\ queue[i] # <<>>
      /\ op' = [op EXCEPT ![i] = o]
      /\ queue' = [queue EXCEPT ![i] = Tail(@)]
      /\ UNCHANGED <<calls, masks, pCache, last, mixed, seen, torn, run>>
  BY <1>1 DEF DoSync, Idle
<1>3. o \in Ops /\ o.call = "store" /\ o.to = i /\ o.val = v /\ i \in Callers
  BY DEF Ops, StoreOps, Callers
<1> HIDE DEF o
<1>4. OpTypes' /\ op'[i] = o /\ \A d \in Callers : d # i => op'[d] = op[d]
  BY <1>2, <1>3, OpChange DEF IInv
<1>5. MaskInv'
  BY <1>2, <1>3, <1>4, MaskFrame DEF IInv
<1>6. SyncInv'
  <2>1. OwnStores'
    BY <1>3, <1>4 DEF IInv, SyncInv, OwnStores
  <2>2. queue \in [Polls -> Seq(1..MaxCalls)] /\ queue[i] \in Seq(1..MaxCalls)
    BY DEF IInv, SyncInv
  <2>3. /\ queue' \in [Polls -> Seq(1..MaxCalls)]
        /\ queue'[i] = Tail(queue[i])
        /\ \A j \in Polls : j # i => queue'[j] = queue[j]
    BY <1>2, <2>2
  <2>4. /\ Len(queue[i]) \in Nat \ {0} /\ v = queue[i][1]
        /\ Len(queue'[i]) = Len(queue[i]) - 1
        /\ \A k \in 1..Len(queue'[i]) : queue'[i][k] = queue[i][k + 1] /\ k + 1 \in 1..Len(queue[i])
    BY <1>1, <1>2, <2>2, <2>3
  <2>5. /\ queue'[i] = <<>> => Len(queue[i]) = 1
        /\ queue'[i] # <<>> => queue'[i][Len(queue'[i])] = queue[i][Len(queue[i])]
    <3>1. queue'[i] \in Seq(1..MaxCalls)
      BY <2>3
    <3>2. queue'[i] = <<>> <=> Len(queue'[i]) = 0
      BY <3>1
    <3>3. CASE queue'[i] = <<>>
      BY <2>4, <3>2, <3>3
    <3>4. CASE queue'[i] # <<>>
      <4>1. Len(queue'[i]) \in 1..Len(queue'[i]) /\ Len(queue'[i]) + 1 = Len(queue[i])
        BY <2>4, <3>1, <3>2, <3>4
      <4> QED BY <2>4, <3>4, <4>1
    <3> QED BY <3>3, <3>4
  <2>6. \A j \in Polls : j # i => op'[j] = op[j]
    BY <1>4 DEF Callers
  <2>7. ASSUME ~mixed PROVE OneSync' /\ Forward'
    <3>1. OneSync /\ Forward
      BY <2>7 DEF IInv, SyncInv
    <3>2. \A d \in Callers : /\ op'[d].call = "sync" <=> op[d].call = "sync"
                             /\ op[d].call = "sync" => op'[d] = op[d]
      BY <1>2, <1>3, <1>4
    <3>3. \A j \in Polls : Latest(j)' = Latest(j)
      <4>1. Latest(i)' = Latest(i)
        BY <1>2, <1>3, <1>4, <2>4, <2>5 DEF Latest
      <4>2. ASSUME NEW j \in Polls, j # i PROVE Latest(j)' = Latest(j)
        BY <1>2, <2>3, <2>6, <4>2 DEF Latest
      <4> QED BY <4>1, <4>2
    <3>4. OneSync'
      BY <1>2, <3>1, <3>2, <3>3 DEF OneSync
    <3>5. Forward'
      <4>1. ASSUME NEW j \in Polls
            PROVE  /\ pCache[j] <= last
                   /\ op'[j].call = "store" => pCache[j] <= op'[j].val /\ op'[j].val <= last
                   /\ \A k \in 1..Len(queue'[j]) :
                        /\ pCache[j] <= queue'[j][k] /\ queue'[j][k] <= last
                        /\ op'[j].call = "store" => op'[j].val <= queue'[j][k]
                        /\ \A l \in 1..k : queue'[j][l] <= queue'[j][k]
        <5>1. CASE j # i
          BY <2>3, <2>6, <3>1, <5>1 DEF Forward
        <5>2. CASE j = i
          <6>1. 1 \in 1..Len(queue[i])
            BY <2>4
          <6>2. pCache[i] <= v /\ v <= last /\ pCache[i] <= last
            BY <2>4, <3>1, <6>1 DEF Forward
          <6>3. ASSUME NEW k \in 1..Len(queue'[i])
                PROVE  /\ pCache[i] <= queue'[i][k] /\ queue'[i][k] <= last
                       /\ v <= queue'[i][k]
                       /\ \A l \in 1..k : queue'[i][l] <= queue'[i][k]
            <7>1. \A l \in 1..k : l \in 1..Len(queue'[i]) /\ l + 1 \in 1..k + 1
              BY <2>4
            <7>2. 1 \in 1..k + 1
              BY <2>4
            <7> QED BY <2>4, <3>1, <7>1, <7>2 DEF Forward
          <6> QED BY <1>3, <1>4, <5>2, <6>2, <6>3
        <5> QED BY <5>1, <5>2
      <4> QED BY <1>2, <3>1, <4>1 DEF Forward
    <3> QED BY <3>4, <3>5
  <2> QED BY <1>2, <2>1, <2>3, <2>7 DEF IInv, SyncInv
<1> QED BY <1>2, <1>4, <1>5, <1>6, RunFrame DEF IInv

(* The store itself: the cache goes forward, to what it was on its way to. *)
LEMMA PCacheSetStep ==
  ASSUME IInv, NEW c \in Callers, PCacheSet(c)
  PROVE  IInv'
<1>1. /\ op[c] \in StoreOps /\ op[c].call = "store" /\ c \in Polls /\ op[c].to = c
      /\ op[c].val \in 1..MaxCalls
  BY OpShape DEF IInv, OpTypes, PCacheSet, SyncInv, OwnStores, StoreOps
<1>2. /\ op' = [op EXCEPT ![c] = Idle]
      /\ pCache' = [pCache EXCEPT ![c] = op[c].val]
      /\ UNCHANGED <<calls, masks, queue, last, mixed, seen, torn, run>>
  BY <1>1 DEF PCacheSet, Return
<1>3. Idle \in Ops /\ Idle.call = "none"
  BY DEF Ops, Idle
<1>4. OpTypes' /\ op'[c] = Idle /\ \A d \in Callers : d # c => op'[d] = op[d]
  BY <1>2, <1>3, OpChange DEF IInv
<1>5. MaskInv'
  BY <1>1, <1>2, <1>3, <1>4, MaskFrame DEF IInv
<1>6. SyncInv'
  <2>1. OwnStores'
    BY <1>3, <1>4 DEF IInv, SyncInv, OwnStores
  <2>2. /\ pCache' \in [Polls -> 0..MaxCalls]
        /\ pCache'[c] = op[c].val
        /\ \A j \in Polls : j # c => pCache'[j] = pCache[j]
    BY <1>1, <1>2 DEF IInv, SyncInv
  <2>3. \A j \in Polls : j # c => op'[j] = op[j]
    BY <1>4 DEF Callers
  <2>4. ASSUME ~mixed PROVE OneSync' /\ Forward'
    <3>1. OneSync /\ Forward
      BY <2>4 DEF IInv, SyncInv
    <3>2. \A d \in Callers : /\ op'[d].call = "sync" <=> op[d].call = "sync"
                             /\ op[d].call = "sync" => op'[d] = op[d]
      BY <1>1, <1>3, <1>4
    <3>3. \A j \in Polls : Latest(j)' = Latest(j)
      BY <1>1, <1>2, <1>3, <1>4, <2>2, <2>3 DEF Latest
    <3>4. OneSync'
      BY <1>2, <3>1, <3>2, <3>3 DEF OneSync
    <3>5. ASSUME NEW j \in Polls
          PROVE  /\ pCache'[j] <= last
                 /\ op'[j].call = "store" => pCache'[j] <= op'[j].val /\ op'[j].val <= last
                 /\ \A k \in 1..Len(queue[j]) :
                      /\ pCache'[j] <= queue[j][k] /\ queue[j][k] <= last
                      /\ op'[j].call = "store" => op'[j].val <= queue[j][k]
                      /\ \A l \in 1..k : queue[j][l] <= queue[j][k]
      <4>1. CASE j # c
        BY <2>2, <2>3, <3>1, <4>1 DEF Forward
      <4>2. CASE j = c
        BY <1>1, <1>3, <1>4, <2>2, <3>1, <4>2 DEF Forward
      <4> QED BY <4>1, <4>2
    <3>6. ASSUME NEW fd \in Fds PROVE seen[fd] <= pCache'[EvPollOf(fd)]
      <4>1. EvPollOf(fd) \in Polls /\ seen[fd] \in Nat /\ seen[fd] <= pCache[EvPollOf(fd)]
        BY <3>1, EvPollOfType DEF Forward, IInv, SyncInv
      <4>2. pCache[EvPollOf(fd)] \in Nat
        BY <4>1, SyncTypes DEF IInv
      <4>3. CASE EvPollOf(fd) # c
        BY <2>2, <4>1, <4>3
      <4>4. CASE EvPollOf(fd) = c
        <5>1. pCache[c] <= op[c].val
          BY <1>1, <3>1 DEF Forward
        <5> QED BY <1>1, <2>2, <4>1, <4>2, <4>4, <5>1
      <4> QED BY <4>3, <4>4
    <3>7. Forward'
      BY <1>2, <3>5, <3>6 DEF Forward
    <3> QED BY <3>4, <3>7
  <2> QED BY <1>2, <2>1, <2>2, <2>4 DEF IInv, SyncInv
<1> QED BY <1>2, <1>4, <1>5, <1>6, RunFrame DEF IInv

(* A read of its own cache by an evPoll that is not storing, or by another goroutine. *)
LEMMA GetSync ==
  ASSUME IInv, NEW c \in Callers, NEW fd \in Fds, PCachedGet(c, fd), op[c].call # "store",
         op'[c].call \notin {"sync", "store"}, op[c].call # "sync",
         \A d \in Callers : d # c => op'[d] = op[d],
         UNCHANGED <<calls, queue, pCache, last, mixed>>
  PROVE  SyncInv'
<1>1. EvPollOf(fd) \in Polls /\ pCache[EvPollOf(fd)] \in 0..MaxCalls
  BY EvPollOfType DEF IInv, SyncInv
<1>2. seen' = [seen EXCEPT ![fd] = pCache[EvPollOf(fd)]] /\ seen \in [Fds -> 0..MaxCalls]
  BY DEF PCachedGet, IInv, SyncInv
<1>3. seen' \in [Fds -> 0..MaxCalls] /\ seen'[fd] = pCache[EvPollOf(fd)]
      /\ \A g \in Fds : g # fd => seen'[g] = seen[g]
  BY <1>1, <1>2
<1>4. OwnStores'
  BY DEF IInv, SyncInv, OwnStores
<1>5. \A i \in Polls : <<i, i>> \notin torn'
  <2> SUFFICES ASSUME NEW i \in Polls, <<i, i>> \in torn' PROVE FALSE
    OBVIOUS
  <2>1. <<i, i>> \notin torn
    BY DEF IInv, SyncInv
  <2>2. \E d \in Callers : op[d].call = "store" /\ op[d].to = EvPollOf(fd)
    BY <2>1 DEF PCachedGet
  <2>3. torn' = torn \cup {<<c, EvPollOf(fd)>>}
    BY <2>2 DEF PCachedGet
  <2>4. <<i, i>> = <<c, EvPollOf(fd)>>
    BY <2>1, <2>3
  <2>5. c = EvPollOf(fd)
    BY <2>4
  <2> QED BY <2>2, <2>5 DEF IInv, SyncInv, OwnStores
<1>6. ASSUME ~mixed PROVE OneSync' /\ Forward'
  <2>1. OneSync /\ Forward
    BY <1>6 DEF IInv, SyncInv
  <2>2. \A d \in Callers : op'[d] = op[d] \/ (op[d].call \notin {"sync", "store"}
                                              /\ op'[d].call \notin {"sync", "store"})
    OBVIOUS
  <2>3. OneSync'
    BY <2>1, <2>2 DEF OneSync, Latest, Callers
  <2>4. \A g \in Fds : seen'[g] <= pCache[EvPollOf(g)]
    BY <1>1, <1>3, <2>1 DEF Forward
  <2>5. Forward'
    BY <2>1, <2>2, <2>4 DEF Forward, Callers
  <2> QED BY <2>3, <2>5
<1> QED BY <1>3, <1>4, <1>5, <1>6 DEF IInv, SyncInv

(* OnOpen reads in the goroutine that added the handler. *)
LEMMA OnOpenGetStep ==
  ASSUME IInv, NEW c \in Callers, OnOpenGet(c)
  PROVE  IInv'
<1>1. op[c] \in AddOps /\ op[c].at = "get" /\ op[c].fd \in Fds /\ op[c].call = "add"
  BY OpShape DEF IInv, OpTypes, OnOpenGet, At, AddOps
<1>2. PICK fd \in Fds : fd = op[c].fd
  BY <1>1
<1>3. /\ op' = [op EXCEPT ![c] = Idle] /\ PCachedGet(c, fd)
      /\ UNCHANGED <<calls, masks, queue, pCache, last, mixed, run>>
  BY <1>2 DEF OnOpenGet, Return
<1>4. Idle \in Ops /\ Idle.call = "none"
  BY DEF Ops, Idle
<1>5. OpTypes' /\ op'[c] = Idle /\ \A d \in Callers : d # c => op'[d] = op[d]
  BY <1>3, <1>4, OpChange DEF IInv
<1>6. SyncInv'
  BY <1>1, <1>3, <1>4, <1>5, GetSync
<1>7. MaskInv'
  <2>1. saved' = saved /\ used' = used /\ kern' = kern /\ raced' = raced
    BY <1>3 DEF masks
  <2>2. Alone(fd) => (kern[fd] # None => used[fd] /\ kern[fd] = saved[fd])
    BY <1>1, <1>2 DEF Alone, On
  <2> QED BY <1>1, <1>2, <1>4, <1>5, <2>1, <2>2, StepMasks DEF IInv, MaskInv
<1> QED BY <1>3, <1>5, <1>6, <1>7, RunFrame DEF IInv

(* A callback reads in the evPoll's goroutine, which is in no call. *)
LEMMA CallbackGetStep ==
  ASSUME IInv, NEW fd \in Fds, CallbackGet(fd)
  PROVE  IInv'
<1>1. PICK c \in Polls : c = EvPollOf(fd)
  BY EvPollOfType
<1>2. /\ c \in Callers /\ op[c].call = "none" /\ PCachedGet(c, fd)
      /\ UNCHANGED <<op, calls, masks, queue, pCache, last, mixed, run>>
  BY <1>1 DEF CallbackGet, Free, Idle, Callers
<1>3. SyncInv'
  BY <1>2, GetSync
<1>4. MaskInv'
  BY <1>2, MaskFrame DEF IInv
<1> QED BY <1>2, <1>3, <1>4, RunFrame DEF IInv, OpTypes

-----------------------------------------------------------------------------
(* Run *)

(* The steps of Run and of the goroutines' ends leave calls, masks and caches alone. *)
LEMMA RunStep ==
  ASSUME IInv, UNCHANGED <<op, calls, masks, sync>>, RunInv'
  PROVE  IInv'
<1>1. SyncInv'
  BY SyncFrame DEF IInv, SyncInv
<1>2. MaskInv'
  BY MaskFrame DEF IInv
<1> QED BY <1>1, <1>2 DEF IInv, OpTypes

(* wg.Add(1) goes with the goroutine. *)
LEMMA SpawnStep ==
  ASSUME IInv, Spawn
  PROVE  IInv'
<1>1. PICK i \in Polls : poll[i] = "new" /\ poll' = [poll EXCEPT ![i] = "running"]
  BY DEF Spawn, Go
<1>2. /\ main' = "run" /\ wg' = wg + 1 /\ errS' = errS
      /\ UNCHANGED <<op, calls, masks, sync>>
  BY DEF Spawn, Go
<1>3. Counted' = Counted \cup {i} /\ i \notin Counted
  BY <1>1 DEF Counted, IInv, RunInv
<1>4. Cardinality(Counted') = Cardinality(Counted) + 1
  BY <1>3, CountedBound, FS_AddElement
<1>5. RunInv'
  BY <1>1, <1>2, <1>4 DEF IInv, RunInv
<1> QED BY <1>2, <1>5, RunStep

(* epoll_wait fails. *)
LEMMA FailStep ==
  ASSUME IInv, NEW i \in Polls, Fail(i)
  PROVE  IInv'
<1>1. poll[i] = "running" /\ poll' = [poll EXCEPT ![i] = "failed"]
      /\ UNCHANGED <<op, calls, masks, sync, main, wg, errS, result>>
  BY DEF Fail, Free
<1>2. Counted' = Counted
  BY <1>1 DEF Counted, IInv, RunInv
<1>3. main # "returned"
  BY <1>1 DEF IInv, RunInv
<1>4. RunInv'
  BY <1>1, <1>2, <1>3 DEF IInv, RunInv
<1> QED BY <1>1, <1>4, RunStep

(* wg.Done. *)
LEMMA DoneStep ==
  ASSUME IInv, NEW i \in Polls, Done(i)
  PROVE  IInv'
<1>1. poll[i] = "failed" /\ poll' = [poll EXCEPT ![i] = "done"] /\ wg' = wg - 1
      /\ UNCHANGED <<op, calls, masks, sync, main, errS, result>>
  BY DEF Done
<1>2. Counted' = Counted \ {i} /\ i \in Counted
  BY <1>1 DEF Counted, IInv, RunInv
<1>3. Cardinality(Counted') = Cardinality(Counted) - 1
  BY <1>2, CountedBound, FS_RemoveElement
<1>4. main # "returned"
  BY <1>1 DEF IInv, RunInv
<1>5. RunInv'
  BY <1>1, <1>3, <1>4 DEF IInv, RunInv
<1> QED BY <1>1, <1>5, RunStep

(* The error is collected, before or after Run returned. *)
LEMMA ReportStep ==
  ASSUME IInv, NEW i \in Polls, Report(i)
  PROVE  IInv'
<1>1. poll[i] = "done" /\ poll' = [poll EXCEPT ![i] = "ended"] /\ errS' = errS \cup {i}
      /\ UNCHANGED <<op, calls, masks, sync, main, wg, result>>
  BY DEF Report
<1>2. Counted' = Counted
  BY <1>1 DEF Counted, IInv, RunInv
<1>3. RunInv'
  BY <1>1, <1>2 DEF IInv, RunInv
<1> QED BY <1>1, <1>3, RunStep

(* wg.Wait returns: all evPolls were counted, and none is counted any more. *)
LEMMA ReturnsStep ==
  ASSUME IInv, Returns
  PROVE  IInv'
<1>1. /\ wg = 0 /\ main' = "returned" /\ result' = errS /\ \A i \in Polls : poll[i] # "new"
      /\ UNCHANGED <<op, calls, masks, sync, poll, wg, errS>>
  BY DEF Returns
<1>2. Counted = {}
  BY <1>1, CountedBound, FS_EmptySet DEF IInv, RunInv
<1>3. \A i \in Polls : poll[i] \in {"done", "ended"}
  BY <1>1, <1>2 DEF Counted, IInv, RunInv
<1>4. Counted' = Counted
  BY <1>1 DEF Counted
<1>5. RunInv'
  BY <1>1, <1>3, <1>4 DEF IInv, RunInv
<1> QED BY <1>1, <1>5, RunStep

-----------------------------------------------------------------------------
(* Every step preserves the invariant. *)
LEMMA NextIInv == IInv /\ [Next]_vars => IInv'
<1> SUFFICES ASSUME IInv, [Next]_vars PROVE IInv'
  OBVIOUS
<1>1. CASE UNCHANGED vars
  <2>1. UNCHANGED <<op, calls, masks, sync>> /\ UNCHANGED run
    BY <1>1 DEF vars
  <2> QED BY <2>1, RunFrame, RunStep DEF IInv
<1>2. ASSUME NEW c \in Callers, Call(c) PROVE IInv'
  BY <1>2, PollSyncOptStep, AddEvHandlerStep, AppendEventStep, RemoveEventStep DEF Call
<1>3. ASSUME NEW c \in Callers, Step(c) PROVE IInv'
  BY <1>3, AddStoreStep, AddCtlStep, OnOpenGetStep, ReadStep, SaveStep, BuildStep, ModStep,
     DelSlotStep, DelCtlStep, PushStep, PCacheSetStep DEF Step
<1>4. ASSUME NEW i \in Polls, DoSync(i) \/ Fail(i) \/ Done(i) \/ Report(i) PROVE IInv'
  BY <1>4, DoSyncStep, FailStep, DoneStep, ReportStep
<1> QED BY <1>1, <1>2, <1>3, <1>4, CallbackGetStep, SpawnStep, ReturnsStep DEF Next

(* In every behaviour, for every number of evPolls, goroutines, descriptors and calls. *)
LEMMA ReactorInvariant == Spec => []IInv
  BY InitIInv, NextIInv, PTL DEF Spec

(* reactor.go:103-130: Run returns after every evPoll has ended, and with no more than
   their errors. *)
THEOREM RunReturnsLast == Spec => []RunOutlivesPolls
  BY ReactorInvariant, IInvImplies, PTL

(* reactor.go:98-102: unless two PollSyncOpts overlapped, the evPolls that have stored
   all they were handed have the same, latest value. *)
THEOREM CachesAgree == Spec => []CachesAgreeUnlessMixed
  BY ReactorInvariant, IInvImplies, PTL

(* io_handle.go:107: a callback never reads a cache that is being stored to, and no
   handler sees a value that its evPoll then goes back behind. *)
THEOREM CacheReadsAreSafe == Spec => []ReadsWholeAndForward
  BY ReactorInvariant, IInvImplies, PTL

(* epoll.go:92 and :109: between calls the saved mask is the kernel's, unless two calls
   for the descriptor overlapped. *)
THEOREM MasksAgree == Spec => []MasksAgreeUnlessRaced
  BY ReactorInvariant, IInvImplies, PTL
=============================================================================
