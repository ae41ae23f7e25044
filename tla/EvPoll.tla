------------------------------- MODULE EvPoll -------------------------------
(***************************************************************************)
(* One evPoll: the registry of handlers (ev_data.go), its agreement with   *)
(* the kernel's interest list (add, append, remove in epoll.go) and the    *)
(* dispatch loop (run in epoll.go).                                        *)
(*                                                                         *)
(* A file descriptor is a number that the kernel gives out again as soon   *)
(* as it is closed; the handler accepted on it stands for the open file.   *)
(* The kernel's interest list holds a pointer to an evData: below ArrSize  *)
(* the array slot of the number, from ArrSize on an object of its own,     *)
(* here named after the handler it was allocated for.                      *)
(*                                                                         *)
(* A batch of epoll_wait is the set of the entries not yet dispatched (the *)
(* kernel fixes no order).  The entries of the framework's own handlers    *)
(* (acceptor, timer, eventfds) are left out of it: what they do to other   *)
(* handlers, Accept and Expire, happens between two entries.               *)
(***************************************************************************)
EXTENDS Integers

CONSTANTS Handlers,     \* EvHandlers, each used for one connection
          Fds,          \* descriptor numbers
          ArrSize,      \* evFdMaxSize
          Setups,       \* ways to use the reactor, see SetupType
          None

(* sameLoop: connections are accepted by this evPoll itself and not by another
   goroutine.  expiring: descriptors a timer may close, as the time-out of a
   connect does.  failing: descriptors for which EPOLL_CTL_ADD may fail. *)
SetupType == [sameLoop : BOOLEAN, expiring : SUBSET Fds, failing : SUBSET Fds]

ASSUME EvPollAssumption == /\ Fds \subseteq Nat \ {0}
                           /\ ArrSize \in Nat \ {0}
                           /\ None \notin Handlers
                           /\ Setups \subseteq SetupType

VARIABLES setup,
          open,         \* the handler on whose file each descriptor is open
          hs, hfd,      \* life of each handler, and IOHandle.fd
          ed,           \* evData objects
          sMap,         \* evDataMap.sMap
          kern,         \* the kernel's interest list
          batch,        \* entries of epoll_wait not yet dispatched
          entry,        \* the entry being dispatched
          pc, cur,      \* where run is, and the handler it calls
          panicked      \* newOne panicked, or run called a nil handler

vars == <<setup, open, hs, hfd, ed, sMap, kern, batch, entry, pc, cur, panicked>>

evDataMap == <<ed, sMap>>
handlers  == <<hs, hfd>>
loop      == <<batch, entry, pc, cur>>

EvIn  == {"in", "rdhup"}
EvOut == {"out", "rdhup"}

InArr(fd) == fd < ArrSize
Ptrs == ({"arr"} \X {fd \in Fds : InArr(fd)}) \cup ({"heap"} \X Handlers)
ASSUME NilAssumption == None \notin Ptrs

PtrFor(fd, h) == IF InArr(fd) THEN <<"arr", fd>> ELSE <<"heap", h>>

NoData == [events |-> {}, fd |-> 0, eh |-> None]

Init == /\ setup \in Setups
        /\ open = [fd \in Fds |-> None]
        /\ hs = [h \in Handlers |-> "new"]
        /\ hfd = [h \in Handlers |-> -1]
        /\ ed = [p \in Ptrs |-> NoData]
        /\ sMap = [fd \in Fds |-> None]
        /\ kern = [fd \in Fds |-> None]
        /\ batch = {} /\ entry = None
        /\ pc = "wait" /\ cur = None
        /\ panicked = FALSE

-----------------------------------------------------------------------------
(* evDataMap *)

(* load: the evData of a descriptor, or None. *)
Load(fd) == IF InArr(fd) THEN IF ed[<<"arr", fd>>].fd < 1 THEN None ELSE <<"arr", fd>>
                         ELSE sMap[fd]

(* Deviation: the slot keeps its handler. *)
DelKeepsHandler(fd) == IF InArr(fd)
                       THEN /\ ed' = [ed EXCEPT ![<<"arr", fd>>].events = {},
                                                ![<<"arr", fd>>].fd = -1]
                            /\ UNCHANGED sMap
                       ELSE /\ sMap' = [sMap EXCEPT ![fd] = None]
                            /\ UNCHANGED ed

(* del: an array slot is reset, a heap object only unlinked. *)
Del(fd) == IF InArr(fd)
           THEN /\ ed' = [ed EXCEPT ![<<"arr", fd>>] =
                                      [events |-> {}, fd |-> -1, eh |-> None]]
                /\ UNCHANGED sMap
           ELSE /\ sMap' = [sMap EXCEPT ![fd] = None]
                /\ UNCHANGED ed

(* remove(fd, EvAll): del, then EPOLL_CTL_DEL. *)
RemoveAll(fd) == Del(fd) /\ kern' = [kern EXCEPT ![fd] = None]

(* Deviation: the kernel is told, the saved mask is not updated. *)
RemoveOutForgetsSaved(fd, p) == /\ kern' = [kern EXCEPT ![fd].mask = ed[p].events \ EvOut,
                                                        ![fd].ptr = p]
                                /\ UNCHANGED evDataMap

(* remove(fd, EvOut) with other events left: save the mask, then EPOLL_CTL_MOD.
   EPOLLRDHUP, which EvIn and EvOut share, goes with it. *)
RemoveOut(fd, p) == /\ ed' = [ed EXCEPT ![p].events = @ \ EvOut]
                    /\ kern' = [kern EXCEPT ![fd].mask = ed[p].events \ EvOut,
                                            ![fd].ptr = p]
                    /\ UNCHANGED sMap

(* append(fd, EvOut) *)
AppendOut(fd, p) == /\ ed' = [ed EXCEPT ![p].events = @ \cup EvOut]
                    /\ kern' = [kern EXCEPT ![fd].mask = ed[p].events \cup EvOut,
                                            ![fd].ptr = p]
                    /\ UNCHANGED sMap

-----------------------------------------------------------------------------
(* A new connection: accept, setFd, then OnOpen calls AddEvHandler.  With
   sameLoop the acceptor's OnRead is an entry of the batch, and run continues
   after it; otherwise another goroutine does all this. *)
Opening == \E h \in Handlers : hs[h] \in {"accepted", "stored"}
LoopFree == ~panicked /\ ~(setup.sameLoop /\ Opening)

Accept(h, fd) == /\ LoopFree
                 /\ setup.sameLoop => pc = "next"
                 /\ hs[h] = "new" /\ open[fd] = None
                 /\ open' = [open EXCEPT ![fd] = h]
                 /\ hs' = [hs EXCEPT ![h] = "accepted"]
                 /\ hfd' = [hfd EXCEPT ![h] = fd]
                 /\ UNCHANGED <<setup, evDataMap, kern, loop, panicked>>

(* add, up to the system call: newOne (which panics if the slot of the array was
   not released), fill in the evData, store. *)
AddStore(h) ==
  LET fd == hfd[h]
      p == PtrFor(fd, h)
  IN  /\ ~panicked
      /\ hs[h] = "accepted"
      /\ \/ /\ InArr(fd) /\ ed[p].fd > 0
            /\ panicked' = TRUE
            /\ UNCHANGED <<evDataMap, hs>>
         \/ /\ ~(InArr(fd) /\ ed[p].fd > 0)
            /\ ed' = [ed EXCEPT ![p] = [events |-> EvIn, fd |-> fd, eh |-> h]]
            /\ sMap' = IF InArr(fd) THEN sMap ELSE [sMap EXCEPT ![fd] = p]
            /\ hs' = [hs EXCEPT ![h] = "stored"]
            /\ UNCHANGED panicked
      /\ UNCHANGED <<setup, open, hfd, kern, loop>>

(* add: EPOLL_CTL_ADD. *)
AddCtl(h) == /\ ~panicked
             /\ hs[h] = "stored"
             /\ kern' = [kern EXCEPT ![hfd[h]] = [mask |-> EvIn, ptr |-> PtrFor(hfd[h], h)]]
             /\ hs' = [hs EXCEPT ![h] = "live"]
             /\ UNCHANGED <<setup, open, hfd, evDataMap, loop, panicked>>

(* OnClose of a handler: IOHandle.Destroy closes the descriptor, and the kernel
   drops what was registered for it. *)
Close(h) == /\ hs' = [hs EXCEPT ![h] = "closed"]
            /\ hfd' = [hfd EXCEPT ![h] = -1]
            /\ open' = [fd \in Fds |-> IF fd = hfd[h] THEN None ELSE open[fd]]

(* add: EPOLL_CTL_ADD fails (ENOSPC) and nothing is undone; OnOpen returns false,
   and the acceptor calls OnClose. *)
AddCtlFails(h) == /\ ~panicked
                  /\ hs[h] = "stored" /\ hfd[h] \in setup.failing
                  /\ Close(h)
                  /\ UNCHANGED <<setup, evDataMap, kern, loop, panicked>>

(* A timer that removes and closes its descriptor, as inProgressConnect.OnTimeout
   does; it runs when the timerfd's entry of the batch is dispatched. *)
Expire(h) == /\ LoopFree
             /\ pc = "next"
             /\ hs[h] = "live" /\ hfd[h] \in setup.expiring
             /\ RemoveAll(hfd[h])
             /\ Close(h)
             /\ UNCHANGED <<setup, loop, panicked>>

-----------------------------------------------------------------------------
(* run *)

Registered == {fd \in Fds : kern[fd] # None}

(* EPOLLHUP and EPOLLERR are always reported, the others if asked for. *)
Reports(fd) == {{"hup"}} \cup ((SUBSET (kern[fd].mask \ {"rdhup"})) \ {{}})

EpollWait ==
  /\ LoopFree
  /\ pc = "wait"
  /\ \E fds \in SUBSET Registered :
       \E ev \in [fds -> SUBSET {"in", "out", "hup"}] :
         /\ \A fd \in fds : ev[fd] \in Reports(fd)
         /\ batch' = {[ptr |-> kern[fd].ptr, ev |-> ev[fd], file |-> open[fd]] : fd \in fds}
  /\ pc' = "next"
  /\ UNCHANGED <<setup, open, handlers, evDataMap, kern, entry, cur, panicked>>

(* Go on with the handler that ed.eh holds now, or skip the entry. *)
CallOrSkip(e, stage) ==
  IF ed[e.ptr].eh = None THEN pc' = "next" /\ cur' = None
                         ELSE pc' = stage /\ cur' = ed[e.ptr].eh

(* Deviation: run goes over all of the events array, beyond the nfds entries that
   epoll_wait filled in, and so meets entries a second time. *)
DispatchAgain(e) == /\ LoopFree
                    /\ pc = "next" /\ e \in batch
                    /\ entry' = e
                    /\ \/ "hup" \in e.ev /\ CallOrSkip(e, "remove")
                       \/ "out" \in e.ev /\ CallOrSkip(e, "onwrite")
                       \/ e.ev = {"in"} /\ CallOrSkip(e, "onread")
                    /\ UNCHANGED <<setup, open, handlers, evDataMap, kern, batch, panicked>>

Dispatch(e) == /\ LoopFree
               /\ pc = "next" /\ e \in batch
               /\ batch' = batch \ {e}
               /\ entry' = e
               /\ \/ "hup" \in e.ev /\ CallOrSkip(e, "remove")
                  \/ "out" \in e.ev /\ CallOrSkip(e, "onwrite")
                  \/ e.ev = {"in"} /\ CallOrSkip(e, "onread")
               /\ UNCHANGED <<setup, open, handlers, evDataMap, kern, panicked>>

BatchDone == /\ LoopFree
             /\ pc = "next" /\ batch = {}
             /\ pc' = "wait"
             /\ entry' = None /\ cur' = None
             /\ UNCHANGED <<setup, open, handlers, evDataMap, kern, batch, panicked>>

InCallback == LoopFree /\ pc \in {"onwrite", "onread"}

(* A callback arms or disarms EvOut for its own descriptor. *)
CallbackAppend == /\ InCallback /\ hfd[cur] > 0
                  /\ Load(hfd[cur]) # None
                  /\ AppendOut(hfd[cur], Load(hfd[cur]))
                  /\ UNCHANGED <<setup, open, handlers, loop, panicked>>

CallbackRemove == /\ InCallback /\ hfd[cur] > 0
                  /\ Load(hfd[cur]) # None
                  /\ ed[Load(hfd[cur])].events \ EvOut # {}
                  /\ RemoveOut(hfd[cur], Load(hfd[cur]))
                  /\ UNCHANGED <<setup, open, handlers, loop, panicked>>

(* The callback returns true: after OnWrite look at EPOLLIN, loading ed.eh anew. *)
ReturnTrue == /\ InCallback
              /\ IF pc = "onwrite" /\ "in" \in entry.ev
                 THEN CallOrSkip(entry, "onread")
                 ELSE pc' = "next" /\ cur' = None
              /\ UNCHANGED <<setup, open, handlers, evDataMap, kern, batch, entry, panicked>>

(* The callback returns false: ed.eh is loaded anew, and closed. *)
ReturnFalse == /\ InCallback
               /\ cur' = ed[entry.ptr].eh
               /\ panicked' = (ed[entry.ptr].eh = None)
               /\ pc' = "remove"
               /\ UNCHANGED <<setup, open, handlers, evDataMap, kern, batch, entry>>

(* remove(ed.fd, EvAll), then OnClose. *)
Teardown ==
  /\ LoopFree
  /\ \/ /\ pc = "remove"
        /\ RemoveAll(ed[entry.ptr].fd)
        /\ pc' = "onclose"
        /\ UNCHANGED <<open, handlers>>
     \/ /\ pc = "onclose"
        /\ Close(cur)
        /\ pc' = "next"
        /\ UNCHANGED <<evDataMap, kern>>
  /\ UNCHANGED <<setup, batch, entry, cur, panicked>>

-----------------------------------------------------------------------------
Run == \/ EpollWait \/ BatchDone
       \/ \E e \in batch : Dispatch(e)
       \/ CallbackAppend \/ CallbackRemove \/ ReturnTrue \/ ReturnFalse
       \/ Teardown

Environment == \E h \in Handlers : \/ \E fd \in Fds : Accept(h, fd)
                                   \/ AddStore(h) \/ AddCtl(h) \/ AddCtlFails(h)
                                   \/ Expire(h)

Next == Run \/ Environment

Spec == Init /\ [][Next]_vars

-----------------------------------------------------------------------------
TypeOK == /\ setup \in Setups
          /\ open \in [Fds -> Handlers \cup {None}]
          /\ hs \in [Handlers -> {"new", "accepted", "stored", "live", "closed"}]
          /\ hfd \in [Handlers -> Fds \cup {-1}]
          /\ ed \in [Ptrs -> [events : SUBSET (EvIn \cup EvOut),
                              fd : Fds \cup {-1, 0}, eh : Handlers \cup {None}]]
          /\ sMap \in [Fds -> Ptrs \cup {None}]
          /\ kern \in [Fds -> [mask : SUBSET (EvIn \cup EvOut), ptr : Ptrs] \cup {None}]
          /\ pc \in {"wait", "next", "onwrite", "onread", "remove", "onclose"}
          /\ cur \in Handlers \cup {None}
          /\ panicked \in BOOLEAN

(* run calls no method of a handler that has been closed, and hence OnClose only
   once, although an entry of the batch may have outlived its handler and its
   descriptor may have been reused. *)
NoCallbackAfterClose ==
  ~panicked /\ pc \in {"onwrite", "onread", "remove", "onclose"} => hs[cur] # "closed"

(* The assertion of newOne (ev_data.go:42) holds, and run never calls OnClose on
   a nil handler: however closing, descriptor reuse and registration by another
   goroutine interleave, the slot of a descriptor is released before the kernel
   gives the number out again.
   Unless run is between remove and OnClose for it, a registered handler is what
   the kernel's pointer leads to, that evData is reachable from evDataMap (the
   kernel's pointer does not keep it alive, epoll.go:60), and the mask saved in
   it is the kernel's. *)
RegistryAgrees ==
  /\ TypeOK
  /\ ~panicked
  /\ \A h \in Handlers :
       hs[h] = "live" /\ ~(pc = "onclose" /\ cur = h) =>
         LET p == Load(hfd[h])
         IN  /\ open[hfd[h]] = h
             /\ p # None
             /\ ed[p].eh = h /\ ed[p].fd = hfd[h]
             /\ kern[hfd[h]] = [mask |-> ed[p].events, ptr |-> p]

(* ev_handler.go:59 and 64 call OnRead and OnWrite on an event that evpoll caught
   for the handler.  A callback gets the event of its own file. *)
EventReachesOwner == pc \in {"onwrite", "onread", "remove"} => cur = entry.file

(* Without timers that close descriptors the events of a batch reach their owners. *)
OwnEventsUnlessExpiring == setup.expiring = {} => EventReachesOwner
=============================================================================
