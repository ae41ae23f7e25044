---------------------------- MODULE EvPollProofs ----------------------------
(***************************************************************************)
(* For any number of handlers and descriptors, any size of the array and   *)
(* every sound way to use the reactor: the registry agrees with the kernel *)
(* and no closed handler is called.                                        *)
(***************************************************************************)
EXTENDS EvPoll, TLAPS

(* The ways to use the reactor the theorems are about, the run's among them.
   EPOLL_CTL_ADD does not fail for a descriptor of the array (newOne would panic at the
   next one), timers close descriptors of the array only (an entry keeps an evData
   beyond it alive), and where there are such timers the evPoll accepts its connections
   itself (EvPoll does not follow a goroutine that registers a handler which is closed
   under it). *)
SoundUse(s) == /\ \A fd \in s.failing : ~InArr(fd)
               /\ s.expiring = {} \/ (s.sameLoop /\ \A fd \in s.expiring : InArr(fd))

EntryType == [ptr : Ptrs, ev : SUBSET {"in", "out", "hup"}, file : Handlers \cup {None}]

Calling == pc \in {"onwrite", "onread", "remove", "onclose"}

(* The handler that run has removed and not closed yet. *)
Dying(h) == pc = "onclose" /\ cur = h

(* The handlers whose evData is in place, and its address. *)
Entered(h) == hs[h] \in {"stored", "live"} /\ ~Dying(h)
PtrOf(h) == PtrFor(hfd[h], h)

(* Descriptors and the handlers on them. *)
FilesInv == /\ \A h \in Handlers : IF hs[h] \in {"accepted", "stored", "live"}
                                   THEN hfd[h] \in Fds /\ open[hfd[h]] = h
                                   ELSE hfd[h] = -1
            /\ \A fd \in Fds : open[fd] # None => hfd[open[fd]] = fd

(* What is in place can be loaded; a slot of the array that is not free belongs to the
   handler on its descriptor. *)
SlotsInv == /\ \A h \in Handlers : Entered(h) =>
                 /\ ed[PtrOf(h)].eh = h /\ ed[PtrOf(h)].fd = hfd[h]
                 /\ ~InArr(hfd[h]) => sMap[hfd[h]] = PtrOf(h)
            /\ \A h \in Handlers : hs[h] = "stored" => ed[PtrOf(h)].events = EvIn
            /\ \A fd \in Fds : InArr(fd) /\ (ed[<<"arr", fd>>].eh # None \/ ed[<<"arr", fd>>].fd > 0)
                               => open[fd] # None /\ Entered(open[fd])

(* The kernel has the live handlers, and those only. *)
KernInv == /\ \A fd \in Fds : kern[fd] # None =>
                /\ open[fd] # None /\ hs[open[fd]] = "live" /\ ~Dying(open[fd])
           /\ \A h \in Handlers : hs[h] = "live" /\ ~Dying(h) =>
                kern[hfd[h]] = [mask |-> ed[PtrOf(h)].events, ptr |-> PtrOf(h)]

(* The handler being called is live, and the entry is the one of its evData. *)
LoopInv == /\ pc = "wait" => batch = {}
           /\ Calling => /\ cur \in Handlers /\ hs[cur] = "live"
                         /\ entry \in EntryType /\ entry.ptr = PtrOf(cur)
                         /\ setup.expiring = {} => cur = entry.file

(* The entries of a batch lead to different evDatas.  One beyond the array belongs to a
   live handler; without timers, so does every one. *)
BatchInv == /\ batch \subseteq EntryType
            /\ \A e, f \in batch : e.ptr = f.ptr => e = f
            /\ Calling => \A e \in batch : e.ptr # entry.ptr
            /\ \A e \in batch, h \in Handlers :
                 e.ptr = <<"heap", h>> => hs[h] = "live" /\ PtrOf(h) = e.ptr
            /\ setup.expiring = {} =>
                 \A e \in batch : /\ e.file \in Handlers /\ hs[e.file] = "live"
                                  /\ PtrOf(e.file) = e.ptr

(* The type invariant but for panicked, which is false. *)
Types == /\ setup \in Setups
         /\ open \in [Fds -> Handlers \cup {None}]
         /\ hs \in [Handlers -> {"new", "accepted", "stored", "live", "closed"}]
         /\ hfd \in [Handlers -> Fds \cup {-1}]
         /\ ed \in [Ptrs -> [events : SUBSET (EvIn \cup EvOut),
                             fd : Fds \cup {-1, 0}, eh : Handlers \cup {None}]]
         /\ sMap \in [Fds -> Ptrs \cup {None}]
         /\ kern \in [Fds -> [mask : SUBSET (EvIn \cup EvOut), ptr : Ptrs] \cup {None}]
         /\ pc \in {"wait", "next", "onwrite", "onread", "remove", "onclose"}
         /\ cur \in Handlers \cup {None}

Registry == FilesInv /\ SlotsInv /\ KernInv

IInv == /\ Types /\ SoundUse(setup) /\ panicked = FALSE
        /\ Registry /\ LoopInv /\ BatchInv

-----------------------------------------------------------------------------
(* An address of an evData tells the descriptor, or the handler. *)
LEMMA PtrForFacts ==
  ASSUME NEW fd \in Fds, NEW gd \in Fds, NEW h \in Handlers, NEW k \in Handlers
  PROVE  /\ PtrFor(fd, h) \in Ptrs
         /\ PtrFor(fd, h) = PtrFor(gd, k) => IF InArr(fd) THEN fd = gd ELSE h = k /\ ~InArr(gd)
  BY EvPollAssumption DEF PtrFor, Ptrs, InArr

(* Handlers on open files have evDatas of their own. *)
LEMMA PtrOfInjective ==
  ASSUME Types, FilesInv, NEW h \in Handlers, NEW k \in Handlers,
         hs[h] \in {"accepted", "stored", "live"}, hs[k] \in {"accepted", "stored", "live"},
         PtrOf(h) = PtrOf(k)
  PROVE  h = k
<1>1. /\ hfd[h] \in Fds /\ open[hfd[h]] = h
      /\ hfd[k] \in Fds /\ open[hfd[k]] = k
  BY DEF FilesInv
<1> QED BY <1>1, PtrForFacts DEF PtrOf

(* load finds the evData of a handler that is in place. *)
LEMMA LoadEntered ==
  ASSUME Types, FilesInv, SlotsInv, NEW h \in Handlers, Entered(h)
  PROVE  /\ hfd[h] \in Fds /\ PtrOf(h) \in Ptrs /\ PtrOf(h) # None
         /\ Load(hfd[h]) = PtrOf(h)
         /\ ed[PtrOf(h)].eh = h /\ ed[PtrOf(h)].fd = hfd[h]
<1>1. hfd[h] \in Fds /\ open[hfd[h]] = h
  BY DEF FilesInv, Entered
<1>2. /\ ed[PtrOf(h)].eh = h /\ ed[PtrOf(h)].fd = hfd[h]
      /\ ~InArr(hfd[h]) => sMap[hfd[h]] = PtrOf(h)
  BY DEF SlotsInv
<1>3. PtrOf(h) \in Ptrs
  BY <1>1, PtrForFacts DEF PtrOf
<1>4. ASSUME InArr(hfd[h]) PROVE PtrOf(h) = <<"arr", hfd[h]>> /\ ~(ed[PtrOf(h)].fd < 1)
  <2>1. PtrOf(h) = <<"arr", hfd[h]>>
    BY <1>4 DEF PtrOf, PtrFor
  <2>2. hfd[h] \in Nat /\ hfd[h] # 0
    BY <1>1, EvPollAssumption
  <2> QED BY <2>1, <2>2, <1>2
<1>5. Load(hfd[h]) = PtrOf(h)
  BY <1>2, <1>4 DEF Load
<1> QED BY <1>1, <1>2, <1>3, <1>5, NilAssumption

(* The invariant implies the three properties. *)
LEMMA IInvImplies == IInv => RegistryAgrees /\ NoCallbackAfterClose /\ OwnEventsUnlessExpiring
<1> SUFFICES ASSUME IInv PROVE RegistryAgrees /\ NoCallbackAfterClose /\ OwnEventsUnlessExpiring
  OBVIOUS
<1>1. TypeOK /\ ~panicked
  <2>1. panicked \in BOOLEAN /\ ~panicked
    BY Zenon DEF IInv
  <2> QED BY <2>1, Zenon DEF IInv, Types, TypeOK
<1>2. ASSUME NEW h \in Handlers, hs[h] = "live", ~(pc = "onclose" /\ cur = h)
      PROVE  /\ open[hfd[h]] = h
             /\ Load(hfd[h]) # None
             /\ ed[Load(hfd[h])].eh = h /\ ed[Load(hfd[h])].fd = hfd[h]
             /\ kern[hfd[h]] = [mask |-> ed[Load(hfd[h])].events, ptr |-> Load(hfd[h])]
  <2>1. Entered(h)
    BY <1>2 DEF Entered, Dying
  <2>2. open[hfd[h]] = h
    BY <1>2 DEF IInv, Registry, FilesInv
  <2>3. kern[hfd[h]] = [mask |-> ed[PtrOf(h)].events, ptr |-> PtrOf(h)]
    BY <1>2 DEF IInv, Registry, KernInv, Dying
  <2> QED BY <2>1, <2>2, <2>3, LoadEntered DEF IInv, Registry
<1>3. RegistryAgrees
  BY <1>1, <1>2 DEF RegistryAgrees
<1>4. NoCallbackAfterClose /\ OwnEventsUnlessExpiring
  BY DEF IInv, LoopInv, Calling, NoCallbackAfterClose, OwnEventsUnlessExpiring, EventReachesOwner
<1> QED BY <1>3, <1>4

(* Nothing is open, in place or registered. *)
LEMMA InitIInv == Init /\ SoundUse(setup) => IInv
<1> SUFFICES ASSUME Init, SoundUse(setup) PROVE IInv
  OBVIOUS
<1>1. Types
  BY DEF Init, Types, NoData
<1>2. FilesInv
  BY DEF Init, FilesInv
<1>3. SlotsInv
  <2>1. ASSUME NEW fd \in Fds, InArr(fd)
        PROVE  ed[<<"arr", fd>>].eh = None /\ ed[<<"arr", fd>>].fd = 0
    BY <2>1 DEF Init, NoData, Ptrs
  <2> QED BY <2>1 DEF Init, SlotsInv, Entered
<1>4. KernInv
  BY DEF Init, KernInv
<1>5. LoopInv /\ BatchInv
  BY DEF Init, LoopInv, BatchInv, Calling
<1>6. panicked = FALSE
  BY DEF Init
<1> QED BY <1>1, <1>2, <1>3, <1>4, <1>5, <1>6 DEF IInv, Registry

-----------------------------------------------------------------------------
(* Steps of run that leave the registry alone. *)

(* As long as no handler is between remove and OnClose, such a step keeps what is said
   of the registry. *)
LEMMA RegistryFrame ==
  ASSUME Registry, UNCHANGED <<open, handlers, evDataMap, kern>>,
         pc # "onclose", pc' # "onclose"
  PROVE  Registry'
<1>1. UNCHANGED <<open, hs, hfd, ed, sMap, kern>>
  BY DEF handlers, evDataMap
<1>2. FilesInv'
  BY <1>1 DEF Registry, FilesInv
<1>3. SlotsInv'
  BY <1>1 DEF Registry, SlotsInv, Entered, Dying, PtrOf
<1>4. KernInv'
  BY <1>1 DEF Registry, KernInv, Dying, PtrOf
<1> QED BY <1>2, <1>3, <1>4 DEF Registry

(* The evData of an entry of the batch has no handler, or a live one. *)
LEMMA EntryTarget ==
  ASSUME IInv, LoopFree, pc = "next", NEW e \in batch, ed[e.ptr].eh # None
  PROVE  \E k \in Handlers : /\ k = ed[e.ptr].eh /\ hs[k] = "live" /\ PtrOf(k) = e.ptr
                             /\ setup.expiring = {} => k = e.file
<1>1. e \in EntryType /\ e.ptr \in Ptrs
  BY DEF IInv, BatchInv, EntryType
<1>2. \A h \in Handlers : ~Dying(h)
  BY DEF Dying
<1>3. CASE setup.expiring = {}
  <2>1. e.file \in Handlers /\ hs[e.file] = "live" /\ PtrOf(e.file) = e.ptr
    BY <1>3 DEF IInv, BatchInv
  <2>2. ed[PtrOf(e.file)].eh = e.file
    BY <2>1, <1>2 DEF IInv, Registry, SlotsInv, Entered
  <2> QED BY <2>1, <2>2
<1>4. CASE setup.expiring # {}
  <2>1. setup.sameLoop
    BY <1>4 DEF IInv, SoundUse
  <2>2. \A h \in Handlers : hs[h] # "stored"
    BY <2>1 DEF LoopFree, Opening
  <2>3. CASE \E fd \in Fds : InArr(fd) /\ e.ptr = <<"arr", fd>>
    <3>1. PICK fd \in Fds : InArr(fd) /\ e.ptr = <<"arr", fd>>
      BY <2>3
    <3>2. open[fd] # None /\ Entered(open[fd])
      BY <3>1 DEF IInv, Registry, SlotsInv
    <3>3. open[fd] \in Handlers /\ hs[open[fd]] = "live"
      BY <3>2, <2>2 DEF IInv, Types, Entered
    <3>4. hfd[open[fd]] = fd
      BY <3>2 DEF IInv, Registry, FilesInv
    <3>5. PtrOf(open[fd]) = e.ptr
      BY <3>1, <3>4 DEF PtrOf, PtrFor
    <3>6. ed[PtrOf(open[fd])].eh = open[fd]
      BY <3>2, <3>3 DEF IInv, Registry, SlotsInv
    <3> QED BY <3>3, <3>5, <3>6, <1>4
  <2>4. CASE \E h \in Handlers : e.ptr = <<"heap", h>>
    <3>1. PICK h \in Handlers : e.ptr = <<"heap", h>>
      BY <2>4
    <3>2. hs[h] = "live" /\ PtrOf(h) = e.ptr
      BY <3>1 DEF IInv, BatchInv
    <3>3. ed[PtrOf(h)].eh = h
      BY <3>2, <1>2 DEF IInv, Registry, SlotsInv, Entered
    <3> QED BY <3>2, <3>3, <1>4
  <2> QED BY <1>1, <2>3, <2>4 DEF Ptrs
<1> QED BY <1>3, <1>4

(* In a callback the entry still leads to the handler that is called. *)
LEMMA EntryOfCallback ==
  ASSUME IInv, pc \in {"onwrite", "onread", "remove"}
  PROVE  /\ cur \in Handlers /\ hs[cur] = "live" /\ Entered(cur)
         /\ entry \in EntryType /\ entry.ptr = PtrOf(cur)
         /\ ed[entry.ptr].eh = cur /\ ed[entry.ptr].fd = hfd[cur]
         /\ hfd[cur] \in Fds /\ Load(hfd[cur]) = PtrOf(cur) /\ PtrOf(cur) \in Ptrs
         /\ setup.expiring = {} => cur = entry.file
         /\ \A e \in batch : e.ptr # entry.ptr
<1>1. /\ cur \in Handlers /\ hs[cur] = "live"
      /\ entry \in EntryType /\ entry.ptr = PtrOf(cur)
      /\ setup.expiring = {} => cur = entry.file
      /\ \A e \in batch : e.ptr # entry.ptr
  BY DEF IInv, LoopInv, BatchInv, Calling
<1>2. Entered(cur)
  BY <1>1 DEF Entered, Dying
<1> QED BY <1>1, <1>2, LoadEntered DEF IInv, Registry

(* epoll_wait: the entries are those of live handlers. *)
LEMMA EpollWaitStep ==
  ASSUME IInv, EpollWait
  PROVE  IInv'
<1>1. pc = "wait" /\ pc' = "next" /\ UNCHANGED <<setup, open, handlers, evDataMap, kern, entry, cur, panicked>>
  BY DEF EpollWait
<1>2. Registry'
  BY <1>1, RegistryFrame DEF IInv
<1>3. Types' /\ SoundUse(setup)' /\ panicked' = FALSE
  BY <1>1 DEF IInv, Types, SoundUse, handlers, evDataMap
<1>4. LoopInv'
  BY <1>1 DEF LoopInv, Calling
<1>5. PICK fds \in SUBSET Registered : \E ev \in [fds -> SUBSET {"in", "out", "hup"}] :
        batch' = {[ptr |-> kern[fd].ptr, ev |-> ev[fd], file |-> open[fd]] : fd \in fds}
  BY DEF EpollWait
<1>6. PICK ev \in [fds -> SUBSET {"in", "out", "hup"}] :
        batch' = {[ptr |-> kern[fd].ptr, ev |-> ev[fd], file |-> open[fd]] : fd \in fds}
  BY <1>5
<1>7. ASSUME NEW fd \in fds
      PROVE  /\ fd \in Fds /\ open[fd] \in Handlers /\ hs[open[fd]] = "live"
             /\ hfd[open[fd]] = fd /\ kern[fd].ptr = PtrOf(open[fd]) /\ PtrOf(open[fd]) \in Ptrs
  <2>1. fd \in Fds /\ kern[fd] # None
    BY DEF Registered
  <2>2. open[fd] \in Handlers /\ hs[open[fd]] = "live" /\ ~Dying(open[fd])
    BY <2>1 DEF IInv, Types, Registry, KernInv
  <2>3. hfd[open[fd]] = fd
    BY <2>1, <2>2, EvPollAssumption DEF IInv, Registry, FilesInv
  <2>4. kern[hfd[open[fd]]] = [mask |-> ed[PtrOf(open[fd])].events, ptr |-> PtrOf(open[fd])]
    BY <2>2 DEF IInv, Registry, KernInv
  <2>5. PtrOf(open[fd]) \in Ptrs
    BY <2>1, <2>2, <2>3, PtrForFacts DEF PtrOf
  <2> QED BY <2>1, <2>2, <2>3, <2>4, <2>5
<1>8. ASSUME NEW e \in batch'
      PROVE  \E fd \in fds : /\ e = [ptr |-> PtrOf(open[fd]), ev |-> ev[fd], file |-> open[fd]]
                             /\ e \in EntryType
  BY <1>6, <1>7 DEF EntryType
<1>9. hs' = hs /\ hfd' = hfd /\ \A h \in Handlers : PtrOf(h)' = PtrOf(h)
  BY <1>1 DEF handlers, PtrOf
<1>10. batch' \subseteq EntryType
  BY <1>8
<1>11. ASSUME NEW e \in batch', NEW f \in batch', e.ptr = f.ptr PROVE e = f
  <2>1. PICK fd \in fds : e = [ptr |-> PtrOf(open[fd]), ev |-> ev[fd], file |-> open[fd]]
    BY <1>8
  <2>2. PICK gd \in fds : f = [ptr |-> PtrOf(open[gd]), ev |-> ev[gd], file |-> open[gd]]
    BY <1>8
  <2>3. PtrOf(open[fd]) = PtrOf(open[gd])
    BY <2>1, <2>2, <1>11
  <2>4. open[fd] = open[gd]
    BY <2>3, <1>7, PtrOfInjective DEF IInv, Registry
  <2>5. fd = gd
    BY <2>4, <1>7
  <2> QED BY <2>1, <2>2, <2>5
<1>12. ASSUME NEW e \in batch', NEW h \in Handlers, e.ptr = <<"heap", h>>
       PROVE  hs[h] = "live" /\ PtrOf(h) = e.ptr
  <2>1. PICK fd \in fds : e.ptr = PtrOf(open[fd])
    BY <1>8
  <2>2. h = open[fd]
    BY <2>1, <1>7, <1>12 DEF PtrOf, PtrFor
  <2> QED BY <2>1, <2>2, <1>7
<1>13. ASSUME NEW e \in batch'
       PROVE  e.file \in Handlers /\ hs[e.file] = "live" /\ PtrOf(e.file) = e.ptr
  BY <1>7, <1>8
<1>14. BatchInv'
  <2>1. ~Calling'
    BY <1>1 DEF Calling
  <2>2. \A e \in batch', h \in Handlers :
          e.ptr = <<"heap", h>> => hs'[h] = "live" /\ PtrOf(h)' = e.ptr
    BY <1>9, <1>12
  <2>3. \A e \in batch' : /\ e.file \in Handlers /\ hs'[e.file] = "live"
                          /\ PtrOf(e.file)' = e.ptr
    BY <1>9, <1>13
  <2> QED BY <2>1, <2>2, <2>3, <1>10, <1>11 DEF BatchInv
<1> QED BY <1>2, <1>3, <1>4, <1>14 DEF IInv

(* A step of run to the next entry, to the next callback or to remove, which leaves the
   registry alone: it keeps the invariant if it calls what the entry leads to. *)
LEMMA LoopStep ==
  ASSUME IInv, UNCHANGED <<setup, open, handlers, evDataMap, kern, panicked>>,
         pc # "onclose", pc' \in {"wait", "next", "onwrite", "onread", "remove"},
         batch' \subseteq batch, pc' = "wait" => batch' = {},
         cur' \in Handlers \cup {None},
         pc' \in {"onwrite", "onread", "remove"} =>
           /\ cur' \in Handlers /\ hs[cur'] = "live"
           /\ entry' \in EntryType /\ entry'.ptr = PtrFor(hfd[cur'], cur')
           /\ setup.expiring = {} => cur' = entry'.file
           /\ \A e \in batch' : e.ptr # entry'.ptr
  PROVE  IInv'
<1>1. Registry'
  BY RegistryFrame DEF IInv
<1>2. Types' /\ SoundUse(setup)' /\ panicked' = FALSE
  BY DEF IInv, Types, SoundUse, handlers, evDataMap
<1>3. LoopInv'
  BY DEF LoopInv, Calling, PtrOf, handlers
<1>4. BatchInv'
  <2>1. hs' = hs /\ hfd' = hfd /\ \A h : PtrOf(h)' = PtrOf(h)
    BY DEF handlers, PtrOf
  <2>2. Calling' => \A e \in batch' : e.ptr # entry'.ptr
    BY DEF Calling
  <2>3. \A e \in batch', h \in Handlers :
          e.ptr = <<"heap", h>> => hs'[h] = "live" /\ PtrOf(h)' = e.ptr
    BY <2>1 DEF IInv, BatchInv
  <2>4. setup'.expiring = {} => \A e \in batch' : /\ e.file \in Handlers /\ hs'[e.file] = "live"
                                                  /\ PtrOf(e.file)' = e.ptr
    BY <2>1 DEF IInv, BatchInv
  <2>5. batch' \subseteq EntryType /\ \A e, f \in batch' : e.ptr = f.ptr => e = f
    BY DEF IInv, BatchInv
  <2> QED BY <2>2, <2>3, <2>4, <2>5 DEF BatchInv
<1> QED BY <1>1, <1>2, <1>3, <1>4 DEF IInv

(* The next entry of the batch. *)
LEMMA DispatchStep ==
  ASSUME IInv, NEW e \in batch, Dispatch(e)
  PROVE  IInv'
<1>1. /\ LoopFree /\ pc = "next" /\ batch' = batch \ {e} /\ entry' = e
      /\ UNCHANGED <<setup, open, handlers, evDataMap, kern, panicked>>
      /\ \E stage \in {"onwrite", "onread", "remove"} : CallOrSkip(e, stage)
  BY DEF Dispatch
<1>2. PICK stage \in {"onwrite", "onread", "remove"} : CallOrSkip(e, stage)
  BY <1>1
<1>3. e \in EntryType /\ \A f \in batch' : f.ptr # e.ptr
  BY <1>1 DEF IInv, BatchInv
<1>4. CASE ed[e.ptr].eh = None
  <2>1. pc' = "next" /\ cur' = None
    BY <1>2, <1>4 DEF CallOrSkip
  <2> QED BY <2>1, <1>1, LoopStep
<1>5. CASE ed[e.ptr].eh # None
  <2>1. pc' = stage /\ cur' = ed[e.ptr].eh
    BY <1>2, <1>5 DEF CallOrSkip
  <2>2. /\ cur' \in Handlers /\ hs[cur'] = "live" /\ PtrFor(hfd[cur'], cur') = e.ptr
        /\ setup.expiring = {} => cur' = e.file
    BY <2>1, <1>1, <1>5, EntryTarget DEF PtrOf
  <2> QED BY <2>1, <2>2, <1>1, <1>3, LoopStep
<1> QED BY <1>4, <1>5

(* The batch is done, or a callback returned. *)
LEMMA ReturnStep ==
  ASSUME IInv, BatchDone \/ ReturnTrue \/ ReturnFalse
  PROVE  IInv'
<1>1. CASE BatchDone
  <2>1. /\ pc # "onclose" /\ pc' = "wait" /\ cur' = None /\ batch' = batch /\ batch = {}
        /\ UNCHANGED <<setup, open, handlers, evDataMap, kern, panicked>>
    BY <1>1 DEF BatchDone
  <2> QED BY <2>1, LoopStep
<1>2. CASE ReturnTrue
  <2>1. /\ pc \in {"onwrite", "onread"} /\ batch' = batch /\ entry' = entry
        /\ UNCHANGED <<setup, open, handlers, evDataMap, kern, panicked>>
        /\ (pc' = "next" /\ cur' = None) \/ CallOrSkip(entry, "onread")
    BY <1>2 DEF ReturnTrue, InCallback
  <2>2. (pc' = "next" /\ cur' = None) \/ (pc' = "onread" /\ cur' = cur)
    BY <2>1, EntryOfCallback DEF CallOrSkip
  <2>3. CASE pc' = "next" /\ cur' = None
    BY <2>1, <2>3, LoopStep
  <2>4. CASE pc' = "onread" /\ cur' = cur
    <3>1. /\ cur' \in Handlers /\ hs[cur'] = "live"
          /\ entry' \in EntryType /\ entry'.ptr = PtrFor(hfd[cur'], cur')
          /\ setup.expiring = {} => cur' = entry'.file
          /\ \A e \in batch' : e.ptr # entry'.ptr
      BY <2>1, <2>4, EntryOfCallback DEF PtrOf
    <3> QED BY <2>1, <2>4, <3>1, LoopStep
  <2> QED BY <2>2, <2>3, <2>4
<1>3. CASE ReturnFalse
  <2>1. /\ pc \in {"onwrite", "onread"} /\ batch' = batch /\ entry' = entry
        /\ UNCHANGED <<setup, open, handlers, evDataMap, kern>>
        /\ cur' = ed[entry.ptr].eh /\ pc' = "remove"
    BY <1>3 DEF ReturnFalse, InCallback
  <2>2. cur' = cur /\ cur \in Handlers /\ ed[entry.ptr].eh # None
    BY <2>1, EntryOfCallback, EvPollAssumption
  <2>3. panicked' = panicked
    <3>1. panicked' = (ed[entry.ptr].eh = None) /\ panicked = FALSE
      BY <1>3 DEF ReturnFalse, IInv
    <3> QED BY <2>2, <3>1
  <2>4. /\ cur' \in Handlers /\ hs[cur'] = "live"
        /\ entry' \in EntryType /\ entry'.ptr = PtrFor(hfd[cur'], cur')
        /\ setup.expiring = {} => cur' = entry'.file
        /\ \A e \in batch' : e.ptr # entry'.ptr
    BY <2>1, <2>2, EntryOfCallback DEF PtrOf
  <2> QED BY <2>1, <2>3, <2>4, LoopStep
<1> QED BY <1>1, <1>2, <1>3

-----------------------------------------------------------------------------
(* Steps that leave run where it is. *)

(* As long as the live handlers stay, nothing changes for run and its batch. *)
LEMMA LoopFrame ==
  ASSUME LoopInv, BatchInv, UNCHANGED <<setup, loop>>,
         \A k \in Handlers : hs[k] = "live" => hs'[k] = "live" /\ hfd'[k] = hfd[k]
  PROVE  LoopInv' /\ BatchInv'
<1>1. UNCHANGED <<setup, batch, entry, pc, cur>>
  BY DEF loop
<1>2. \A k \in Handlers : hs[k] = "live" => hs'[k] = "live" /\ PtrOf(k)' = PtrOf(k)
  BY DEF PtrOf
<1>3. LoopInv'
  BY <1>1, <1>2 DEF LoopInv, Calling
<1>4. \A e \in batch', k \in Handlers :
        e.ptr = <<"heap", k>> => hs'[k] = "live" /\ PtrOf(k)' = e.ptr
  BY <1>1, <1>2 DEF BatchInv
<1>5. setup'.expiring = {} => \A e \in batch' : /\ e.file \in Handlers /\ hs'[e.file] = "live"
                                                /\ PtrOf(e.file)' = e.ptr
  BY <1>1, <1>2 DEF BatchInv
<1>6. BatchInv'
  BY <1>1, <1>4, <1>5 DEF BatchInv, Calling
<1> QED BY <1>3, <1>6

(* What one handler's step leaves of the others. *)
LEMMA OthersFrame ==
  ASSUME UNCHANGED loop, NEW h \in Handlers,
         \A k \in Handlers \ {h} : hs'[k] = hs[k] /\ hfd'[k] = hfd[k]
  PROVE  /\ \A k \in Handlers \ {h} : Entered(k)' = Entered(k) /\ PtrOf(k)' = PtrOf(k)
         /\ \A k : Dying(k)' = Dying(k)
<1>1. \A k : Dying(k)' = Dying(k)
  BY DEF Dying, loop
<1> QED BY <1>1 DEF Entered, PtrOf

(* Two handlers on open files have different descriptors and different evDatas. *)
LEMMA TwoFiles ==
  ASSUME Types, FilesInv, NEW h \in Handlers, NEW k \in Handlers \ {h},
         hs[h] \in {"accepted", "stored", "live"}, hs[k] \in {"accepted", "stored", "live"}
  PROVE  hfd[h] \in Fds /\ hfd[k] \in Fds /\ hfd[h] # hfd[k] /\ PtrOf(h) # PtrOf(k)
<1>1. /\ hfd[h] \in Fds /\ open[hfd[h]] = h
      /\ hfd[k] \in Fds /\ open[hfd[k]] = k
  BY DEF FilesInv
<1> QED BY <1>1, PtrOfInjective

(* accept: a new handler on a descriptor that was free. *)
LEMMA AcceptStep ==
  ASSUME IInv, NEW h \in Handlers, NEW fd \in Fds, Accept(h, fd)
  PROVE  IInv'
<1>1. /\ hs[h] = "new" /\ open[fd] = None
      /\ open' = [open EXCEPT ![fd] = h]
      /\ hs' = [hs EXCEPT ![h] = "accepted"] /\ hfd' = [hfd EXCEPT ![h] = fd]
      /\ UNCHANGED <<setup, ed, sMap, kern, panicked>> /\ UNCHANGED loop
  BY DEF Accept, evDataMap
<1>2. Types /\ FilesInv /\ SlotsInv /\ KernInv
  BY DEF IInv, Registry
<1>3. Types' /\ SoundUse(setup)' /\ panicked' = FALSE
  BY <1>1 DEF IInv, Types, SoundUse, loop
<1>4. /\ hs'[h] = "accepted" /\ hfd'[h] = fd
      /\ \A k \in Handlers \ {h} : /\ hs'[k] = hs[k] /\ hfd'[k] = hfd[k]
                                   /\ Entered(k)' = Entered(k) /\ PtrOf(k)' = PtrOf(k)
      /\ \A k : Dying(k)' = Dying(k)
  <2>1. /\ hs'[h] = "accepted" /\ hfd'[h] = fd
        /\ \A k \in Handlers \ {h} : hs'[k] = hs[k] /\ hfd'[k] = hfd[k]
    BY <1>1, <1>2 DEF Types
  <2> QED BY <2>1, <1>1, OthersFrame
<1>5. open'[fd] = h /\ \A gd \in Fds \ {fd} : open'[gd] = open[gd]
  BY <1>1, <1>2 DEF Types
<1>6. \A gd \in Fds : open[gd] # None => open[gd] \in Handlers \ {h} /\ gd # fd
  <2>1. hfd[h] = -1 /\ -1 \notin Fds
    BY <1>1, <1>2, EvPollAssumption DEF FilesInv
  <2> QED BY <2>1, <1>1, <1>2 DEF FilesInv, Types
<1>7. FilesInv'
  <2>1. ASSUME NEW k \in Handlers \ {h}
        PROVE  IF hs[k] \in {"accepted", "stored", "live"}
               THEN hfd[k] \in Fds /\ open'[hfd[k]] = k
               ELSE hfd[k] = -1
    BY <1>1, <1>2, <1>5, EvPollAssumption DEF FilesInv
  <2>2. \A gd \in Fds : open'[gd] # None => hfd'[open'[gd]] = gd
    BY <1>2, <1>4, <1>5, <1>6 DEF FilesInv
  <2> QED BY <2>1, <2>2, <1>4, <1>5 DEF FilesInv
<1>8. ~Entered(h)' /\ hs'[h] # "stored" /\ hs'[h] # "live"
  BY <1>4 DEF Entered
<1>9. SlotsInv'
  <2>1. \A k \in Handlers : Entered(k)' =>
                 /\ ed'[PtrOf(k)'].eh = k /\ ed'[PtrOf(k)'].fd = hfd'[k]
                 /\ ~InArr(hfd'[k]) => sMap'[hfd'[k]] = PtrOf(k)'
    BY <1>1, <1>2, <1>4, <1>8 DEF SlotsInv
  <2>2. \A k \in Handlers : hs'[k] = "stored" => ed'[PtrOf(k)'].events = EvIn
    BY <1>1, <1>2, <1>4, <1>8 DEF SlotsInv
  <2>3. ASSUME NEW gd \in Fds, InArr(gd), ed[<<"arr", gd>>].eh # None \/ ed[<<"arr", gd>>].fd > 0
        PROVE  open'[gd] # None /\ Entered(open[gd])' /\ open'[gd] = open[gd]
    <3>1. open[gd] # None /\ Entered(open[gd])
      BY <2>3, <1>2 DEF SlotsInv
    <3> QED BY <3>1, <1>4, <1>5, <1>6
  <2>4. ASSUME NEW gd \in Fds, InArr(gd), ed'[<<"arr", gd>>].eh # None \/ ed'[<<"arr", gd>>].fd > 0
        PROVE  open'[gd] # None /\ Entered(open[gd])'
    BY <2>3, <2>4, <1>1 DEF Entered, Dying
  <2> QED BY <2>1, <2>2, <2>4 DEF SlotsInv
<1>10. KernInv'
  <2>1. ASSUME NEW gd \in Fds, kern[gd] # None
        PROVE  open'[gd] # None /\ hs'[open'[gd]] = "live" /\ ~Dying(open[gd])' /\ open'[gd] = open[gd]
    <3>1. open[gd] # None /\ hs[open[gd]] = "live" /\ ~Dying(open[gd])
      BY <2>1, <1>2 DEF KernInv
    <3> QED BY <3>1, <1>4, <1>5, <1>6
  <2>2. \A k \in Handlers : hs'[k] = "live" /\ ~Dying(k)' =>
                kern'[hfd'[k]] = [mask |-> ed'[PtrOf(k)'].events, ptr |-> PtrOf(k)']
    BY <1>1, <1>2, <1>4, <1>8 DEF KernInv
  <2> QED BY <2>1, <2>2, <1>1 DEF KernInv, Dying
<1>11. LoopInv' /\ BatchInv'
  <2>1. \A k \in Handlers : hs[k] = "live" => hs'[k] = "live" /\ hfd'[k] = hfd[k]
    BY <1>1, <1>4
  <2> QED BY <2>1, <1>1, LoopFrame DEF IInv
<1> QED BY <1>3, <1>7, <1>9, <1>10, <1>11 DEF IInv, Registry

(* add, up to the system call.  The slot is free, so newOne does not panic. *)
LEMMA AddStoreStep ==
  ASSUME IInv, NEW h \in Handlers, AddStore(h)
  PROVE  IInv'
<1>1. Types /\ FilesInv /\ SlotsInv /\ KernInv /\ hs[h] = "accepted"
  BY DEF IInv, Registry, AddStore
<1>2. PICK fd : fd = hfd[h]
  OBVIOUS
<1>3. fd \in Fds /\ open[fd] = h /\ PtrFor(fd, h) = PtrOf(h) /\ PtrOf(h) \in Ptrs
  <2>1. fd \in Fds /\ open[fd] = h /\ PtrFor(fd, h) = PtrOf(h)
    BY <1>1, <1>2 DEF FilesInv, PtrOf
  <2> QED BY <2>1, PtrForFacts
<1>4. ~(InArr(fd) /\ ed[PtrOf(h)].fd > 0)
  <2> SUFFICES ASSUME InArr(fd), ed[PtrOf(h)].fd > 0 PROVE FALSE
    OBVIOUS
  <2>1. PtrOf(h) = <<"arr", fd>>
    BY <1>2 DEF PtrOf, PtrFor
  <2>2. Entered(h)
    BY <2>1, <1>1, <1>3 DEF SlotsInv
  <2> QED BY <2>2, <1>1 DEF Entered
<1>5. /\ ed' = [ed EXCEPT ![PtrOf(h)] = [events |-> EvIn, fd |-> fd, eh |-> h]]
      /\ sMap' = IF InArr(fd) THEN sMap ELSE [sMap EXCEPT ![fd] = PtrOf(h)]
      /\ hs' = [hs EXCEPT ![h] = "stored"]
      /\ UNCHANGED <<setup, open, hfd, kern, panicked>> /\ UNCHANGED loop
  BY <1>2, <1>3, <1>4 DEF AddStore
<1>6. Types' /\ SoundUse(setup)' /\ panicked' = FALSE
  BY <1>3, <1>5 DEF IInv, Types, SoundUse, loop, EvIn, EvOut
<1>7. /\ hs'[h] = "stored" /\ hfd' = hfd /\ PtrOf(h)' = PtrOf(h)
      /\ \A k \in Handlers \ {h} : /\ hs'[k] = hs[k]
                                   /\ Entered(k)' = Entered(k) /\ PtrOf(k)' = PtrOf(k)
      /\ \A k : Dying(k)' = Dying(k)
  <2>1. hs'[h] = "stored" /\ \A k \in Handlers \ {h} : hs'[k] = hs[k] /\ hfd'[k] = hfd[k]
    BY <1>1, <1>5 DEF Types
  <2>2. PtrOf(h)' = PtrOf(h)
    BY <1>5 DEF PtrOf
  <2> QED BY <2>1, <2>2, <1>5, OthersFrame
<1>8. FilesInv'
  BY <1>1, <1>5, <1>7 DEF FilesInv
<1>9. ed'[PtrOf(h)] = [events |-> EvIn, fd |-> fd, eh |-> h]
  BY <1>1, <1>3, <1>5 DEF Types
<1>10. ASSUME NEW k \in Handlers \ {h}, hs[k] \in {"stored", "live"}
       PROVE  ed'[PtrOf(k)] = ed[PtrOf(k)] /\ sMap'[hfd[k]] = sMap[hfd[k]]
  <2>1. hfd[k] \in Fds /\ hfd[k] # fd /\ PtrOf(h) # PtrOf(k)
    BY <1>1, <1>2, <1>10, TwoFiles
  <2>2. PtrOf(k) \in Ptrs
    BY <2>1, PtrForFacts DEF PtrOf
  <2> QED BY <2>1, <2>2, <1>1, <1>5 DEF Types
<1>11. SlotsInv'
  <2>1. ASSUME NEW k \in Handlers, Entered(k)'
        PROVE  /\ ed'[PtrOf(k)'].eh = k /\ ed'[PtrOf(k)'].fd = hfd'[k]
               /\ ~InArr(hfd'[k]) => sMap'[hfd'[k]] = PtrOf(k)'
    <3>1. CASE k = h
      BY <3>1, <1>1, <1>2, <1>3, <1>5, <1>7, <1>9 DEF Types
    <3>2. CASE k # h
      <4>1. Entered(k) /\ hs[k] \in {"stored", "live"}
        BY <2>1, <3>2, <1>7 DEF Entered
      <4>2. /\ ed[PtrOf(k)].eh = k /\ ed[PtrOf(k)].fd = hfd[k]
            /\ ~InArr(hfd[k]) => sMap[hfd[k]] = PtrOf(k)
        BY <4>1, <1>1 DEF SlotsInv
      <4> QED BY <3>2, <4>1, <4>2, <1>7, <1>10
    <3> QED BY <3>1, <3>2
  <2>2. ASSUME NEW k \in Handlers, hs'[k] = "stored" PROVE ed'[PtrOf(k)'].events = EvIn
    <3>1. CASE k = h
      BY <3>1, <1>7, <1>9
    <3>2. CASE k # h
      BY <2>2, <3>2, <1>1, <1>7, <1>10 DEF SlotsInv
    <3> QED BY <3>1, <3>2
  <2>3. ASSUME NEW gd \in Fds, InArr(gd), ed'[<<"arr", gd>>].eh # None \/ ed'[<<"arr", gd>>].fd > 0
        PROVE  open'[gd] # None /\ Entered(open[gd])'
    <3>1. CASE gd = fd
      <4>1. Entered(h)' /\ open'[gd] = h /\ h # None
        <5>1. ~Dying(h)'
          BY <1>1, <1>7 DEF Dying, IInv, LoopInv, Calling
        <5> QED BY <5>1, <3>1, <1>3, <1>5, <1>7, EvPollAssumption DEF Entered
      <4> QED BY <4>1 DEF Entered, Dying
    <3>2. CASE gd # fd
      <4>1. <<"arr", gd>> # PtrOf(h) /\ <<"arr", gd>> \in Ptrs
        BY <2>3, <3>2, <1>2 DEF PtrOf, PtrFor, Ptrs
      <4>2. ed'[<<"arr", gd>>] = ed[<<"arr", gd>>]
        BY <4>1, <1>1, <1>5 DEF Types
      <4>3. open[gd] # None /\ Entered(open[gd])
        BY <4>2, <2>3, <1>1 DEF SlotsInv
      <4>4. open[gd] \in Handlers \ {h}
        BY <4>3, <1>1 DEF Types, Entered
      <4> QED BY <4>3, <4>4, <1>5, <1>7 DEF Entered, Dying
    <3> QED BY <3>1, <3>2
  <2> QED BY <2>1, <2>2, <2>3 DEF SlotsInv
<1>12. KernInv'
  <2>1. ASSUME NEW gd \in Fds, kern'[gd] # None
        PROVE  open'[gd] # None /\ hs'[open'[gd]] = "live" /\ ~Dying(open[gd])'
    <3>1. open[gd] # None /\ hs[open[gd]] = "live" /\ ~Dying(open[gd])
      BY <2>1, <1>1, <1>5 DEF KernInv
    <3>2. open[gd] \in Handlers \ {h}
      BY <3>1, <1>1 DEF Types
    <3> QED BY <3>1, <3>2, <1>5, <1>7 DEF Dying
  <2>2. ASSUME NEW k \in Handlers, hs'[k] = "live", ~Dying(k)'
        PROVE  kern'[hfd'[k]] = [mask |-> ed'[PtrOf(k)'].events, ptr |-> PtrOf(k)']
    <3>1. k # h /\ hs[k] = "live" /\ ~Dying(k)
      BY <2>2, <1>7
    <3>2. kern[hfd[k]] = [mask |-> ed[PtrOf(k)].events, ptr |-> PtrOf(k)]
      BY <3>1, <1>1 DEF KernInv
    <3> QED BY <3>1, <3>2, <1>5, <1>7, <1>10
  <2> QED BY <2>1, <2>2 DEF KernInv, Dying
<1>13. LoopInv' /\ BatchInv'
  <2>1. \A k \in Handlers : hs[k] = "live" => hs'[k] = "live" /\ hfd'[k] = hfd[k]
    BY <1>1, <1>7
  <2> QED BY <2>1, <1>5, LoopFrame DEF IInv
<1> QED BY <1>6, <1>8, <1>11, <1>12, <1>13 DEF IInv, Registry

(* add: the kernel learns of the evData that is in place. *)
LEMMA AddCtlStep ==
  ASSUME IInv, NEW h \in Handlers, AddCtl(h)
  PROVE  IInv'
<1>1. /\ Types /\ FilesInv /\ SlotsInv /\ KernInv /\ hs[h] = "stored"
      /\ kern' = [kern EXCEPT ![hfd[h]] = [mask |-> EvIn, ptr |-> PtrOf(h)]]
      /\ hs' = [hs EXCEPT ![h] = "live"]
      /\ UNCHANGED <<setup, open, hfd, ed, sMap, panicked>> /\ UNCHANGED loop
  BY DEF IInv, Registry, AddCtl, PtrOf, evDataMap
<1>2. hfd[h] \in Fds /\ open[hfd[h]] = h /\ PtrOf(h) \in Ptrs
  <2>1. hfd[h] \in Fds /\ open[hfd[h]] = h
    BY <1>1 DEF FilesInv
  <2> QED BY <2>1, PtrForFacts DEF PtrOf
<1>3. ~Dying(h)
  BY <1>1 DEF Dying, IInv, LoopInv, Calling
<1>4. Types' /\ SoundUse(setup)' /\ panicked' = FALSE
  BY <1>1, <1>2 DEF IInv, Types, SoundUse, loop, EvIn, EvOut
<1>5. /\ hs'[h] = "live" /\ hfd' = hfd
      /\ \A k \in Handlers \ {h} : hs'[k] = hs[k]
      /\ \A k \in Handlers : Entered(k)' = Entered(k) /\ PtrOf(k)' = PtrOf(k)
      /\ \A k : Dying(k)' = Dying(k)
  <2>1. hs'[h] = "live" /\ \A k \in Handlers \ {h} : hs'[k] = hs[k] /\ hfd'[k] = hfd[k]
    BY <1>1 DEF Types
  <2>2. \A k : Dying(k)' = Dying(k)
    BY <2>1, <1>1, OthersFrame
  <2>3. PtrOf(h)' = PtrOf(h) /\ Entered(h)' = Entered(h)
    BY <2>1, <2>2, <1>1 DEF PtrOf, Entered
  <2> QED BY <2>1, <2>2, <2>3, <1>1, OthersFrame
<1>6. FilesInv'
  BY <1>1, <1>5 DEF FilesInv
<1>7. SlotsInv'
  <2>1. \A k \in Handlers : Entered(k)' =>
                 /\ ed'[PtrOf(k)'].eh = k /\ ed'[PtrOf(k)'].fd = hfd'[k]
                 /\ ~InArr(hfd'[k]) => sMap'[hfd'[k]] = PtrOf(k)'
    BY <1>1, <1>5 DEF SlotsInv
  <2>2. \A k \in Handlers : hs'[k] = "stored" => ed'[PtrOf(k)'].events = EvIn
    BY <1>1, <1>5 DEF SlotsInv
  <2>3. ASSUME NEW gd \in Fds, InArr(gd), ed'[<<"arr", gd>>].eh # None \/ ed'[<<"arr", gd>>].fd > 0
        PROVE  open'[gd] # None /\ Entered(open[gd])'
    <3>1. open[gd] # None /\ Entered(open[gd])
      BY <2>3, <1>1 DEF SlotsInv
    <3>2. open[gd] \in Handlers
      BY <3>1, <1>1 DEF Types
    <3> QED BY <3>1, <3>2, <1>1, <1>5 DEF Entered, Dying
  <2> QED BY <2>1, <2>2, <2>3 DEF SlotsInv
<1>8. KernInv'
  <2>1. ASSUME NEW gd \in Fds, kern'[gd] # None
        PROVE  open'[gd] # None /\ hs'[open'[gd]] = "live" /\ ~Dying(open[gd])'
    <3>1. CASE gd = hfd[h]
      BY <3>1, <1>1, <1>2, <1>3, <1>5, EvPollAssumption DEF Dying
    <3>2. CASE gd # hfd[h]
      <4>1. kern[gd] # None
        BY <2>1, <3>2, <1>1 DEF Types
      <4>2. open[gd] # None /\ hs[open[gd]] = "live" /\ ~Dying(open[gd])
        BY <4>1, <1>1 DEF KernInv
      <4>3. open[gd] \in Handlers \ {h}
        BY <4>2, <1>1 DEF Types
      <4> QED BY <4>2, <4>3, <1>1, <1>5 DEF Dying
    <3> QED BY <3>1, <3>2
  <2>2. ASSUME NEW k \in Handlers, hs'[k] = "live", ~Dying(k)'
        PROVE  kern'[hfd'[k]] = [mask |-> ed'[PtrOf(k)'].events, ptr |-> PtrOf(k)']
    <3>1. CASE k = h
      <4>1. ed[PtrOf(h)].events = EvIn
        BY <1>1 DEF SlotsInv
      <4> QED BY <3>1, <4>1, <1>1, <1>2, <1>5 DEF Types
    <3>2. CASE k # h
      <4>1. hs[k] = "live" /\ ~Dying(k)
        BY <2>2, <3>2, <1>5
      <4>2. kern[hfd[k]] = [mask |-> ed[PtrOf(k)].events, ptr |-> PtrOf(k)]
        BY <4>1, <1>1 DEF KernInv
      <4>3. hfd[k] \in Fds /\ hfd[k] # hfd[h]
        BY <3>2, <4>1, <1>1, TwoFiles
      <4>4. kern'[hfd[k]] = kern[hfd[k]]
        BY <4>3, <1>1 DEF Types
      <4> QED BY <4>2, <4>4, <1>1, <1>5
    <3> QED BY <3>1, <3>2
  <2> QED BY <2>1, <2>2 DEF KernInv, Dying
<1>9. LoopInv' /\ BatchInv'
  <2>1. \A k \in Handlers : hs[k] = "live" => hs'[k] = "live" /\ hfd'[k] = hfd[k]
    BY <1>1, <1>5
  <2> QED BY <2>1, <1>1, LoopFrame DEF IInv
<1> QED BY <1>4, <1>6, <1>7, <1>8, <1>9 DEF IInv, Registry

-----------------------------------------------------------------------------
(* Closing. *)

(* OnClose closes the descriptor of its handler and of no other. *)
LEMMA CloseFiles ==
  ASSUME Types, FilesInv, NEW h \in Handlers, hs[h] \in {"stored", "live"}, Close(h)
  PROVE  /\ open' \in [Fds -> Handlers \cup {None}]
         /\ hs' \in [Handlers -> {"new", "accepted", "stored", "live", "closed"}]
         /\ hfd' \in [Handlers -> Fds \cup {-1}]
         /\ FilesInv'
         /\ hfd[h] \in Fds /\ open[hfd[h]] = h /\ hs'[h] = "closed"
         /\ \A k \in Handlers \ {h} : hs'[k] = hs[k] /\ hfd'[k] = hfd[k]
         /\ \A gd \in Fds \ {hfd[h]} : /\ open'[gd] = open[gd]
                                       /\ open[gd] # None => open[gd] \in Handlers \ {h}
<1>1. hfd[h] \in Fds /\ open[hfd[h]] = h
  BY DEF FilesInv
<1>2. /\ hs'[h] = "closed" /\ hfd'[h] = -1
      /\ \A k \in Handlers \ {h} : hs'[k] = hs[k] /\ hfd'[k] = hfd[k]
      /\ \A gd \in Fds : open'[gd] = IF gd = hfd[h] THEN None ELSE open[gd]
  BY DEF Close, Types
<1>3. /\ open' \in [Fds -> Handlers \cup {None}]
      /\ hs' \in [Handlers -> {"new", "accepted", "stored", "live", "closed"}]
      /\ hfd' \in [Handlers -> Fds \cup {-1}]
  BY DEF Close, Types
<1>4. \A gd \in Fds \ {hfd[h]} : /\ open'[gd] = open[gd]
                                 /\ open[gd] # None => open[gd] \in Handlers \ {h}
  BY <1>2 DEF Types, FilesInv
<1>5. ASSUME NEW k \in Handlers \ {h}
      PROVE  IF hs[k] \in {"accepted", "stored", "live"}
             THEN hfd[k] \in Fds /\ open'[hfd[k]] = k
             ELSE hfd[k] = -1
  BY <1>1, <1>2 DEF FilesInv
<1>6. \A gd \in Fds : open'[gd] # None => hfd'[open'[gd]] = gd
  BY <1>2, <1>4 DEF FilesInv
<1>7. FilesInv'
  BY <1>2, <1>5, <1>6 DEF FilesInv
<1> QED BY <1>1, <1>2, <1>3, <1>4, <1>7

(* OnClose of a handler whose slot in the array is free and that the kernel does not
   know any more, run being where it is or on its way to the next entry. *)
LEMMA CloseRegistry ==
  ASSUME Types, Registry, NEW h \in Handlers, hs[h] \in {"stored", "live"}, Close(h),
         UNCHANGED <<evDataMap, kern>>,
         kern[hfd[h]] = None,
         InArr(hfd[h]) => ~Entered(h),
         \A k \in Handlers \ {h} : Dying(k)' = Dying(k)
  PROVE  Registry'
<1>1. FilesInv /\ SlotsInv /\ KernInv /\ UNCHANGED <<ed, sMap, kern>>
  BY DEF Registry, evDataMap
<1>2. hfd[h] \in Fds /\ open[hfd[h]] = h
  BY <1>1 DEF FilesInv
<1>3. /\ hs'[h] = "closed" /\ \A k \in Handlers \ {h} : hs'[k] = hs[k] /\ hfd'[k] = hfd[k]
  BY <1>1, CloseFiles
<1>4. \A gd \in Fds : gd # hfd[h] => open'[gd] = open[gd] /\ (open[gd] # None => open[gd] \in Handlers \ {h})
  BY <1>1, CloseFiles
<1>5. FilesInv'
  BY <1>1, CloseFiles
<1>6. /\ ~Entered(h)'
      /\ \A k \in Handlers \ {h} : Entered(k)' = Entered(k) /\ PtrOf(k)' = PtrOf(k)
  BY <1>3 DEF Entered, PtrOf
<1>7. SlotsInv'
  <2>1. \A k \in Handlers : Entered(k)' =>
                 /\ ed'[PtrOf(k)'].eh = k /\ ed'[PtrOf(k)'].fd = hfd'[k]
                 /\ ~InArr(hfd'[k]) => sMap'[hfd'[k]] = PtrOf(k)'
    BY <1>1, <1>3, <1>6 DEF SlotsInv
  <2>2. \A k \in Handlers : hs'[k] = "stored" => ed'[PtrOf(k)'].events = EvIn
    BY <1>1, <1>3, <1>6 DEF SlotsInv
  <2>3. ASSUME NEW gd \in Fds, InArr(gd), ed'[<<"arr", gd>>].eh # None \/ ed'[<<"arr", gd>>].fd > 0
        PROVE  open'[gd] # None /\ Entered(open[gd])'
    <3>1. open[gd] # None /\ Entered(open[gd])
      BY <2>3, <1>1 DEF SlotsInv
    <3>2. gd # hfd[h]
      BY <2>3, <3>1, <1>2
    <3>3. open'[gd] = open[gd] /\ open[gd] \in Handlers \ {h}
      BY <3>1, <3>2, <1>4
    <3>4. hs'[open[gd]] = hs[open[gd]] /\ Dying(open[gd]) = (pc' = "onclose" /\ cur' = open[gd])
      BY <3>3, <1>3 DEF Dying
    <3> QED BY <3>1, <3>3, <3>4 DEF Entered, Dying
  <2> QED BY <2>1, <2>2, <2>3 DEF SlotsInv
<1>8. KernInv'
  <2>1. ASSUME NEW gd \in Fds, kern'[gd] # None
        PROVE  open'[gd] # None /\ hs'[open'[gd]] = "live" /\ ~Dying(open[gd])'
    <3>1. open[gd] # None /\ hs[open[gd]] = "live" /\ ~Dying(open[gd]) /\ gd # hfd[h]
      BY <2>1, <1>1 DEF KernInv
    <3>2. open'[gd] = open[gd] /\ open[gd] \in Handlers \ {h}
      BY <3>1, <1>4
    <3>3. hs'[open[gd]] = hs[open[gd]] /\ Dying(open[gd]) = (pc' = "onclose" /\ cur' = open[gd])
      BY <3>2, <1>3 DEF Dying
    <3> QED BY <3>1, <3>2, <3>3 DEF Dying
  <2>2. ASSUME NEW k \in Handlers, hs'[k] = "live", ~Dying(k)'
        PROVE  kern'[hfd'[k]] = [mask |-> ed'[PtrOf(k)'].events, ptr |-> PtrOf(k)']
    <3>1. k # h /\ hs[k] = "live" /\ ~Dying(k)
      BY <2>2, <1>3
    <3>2. kern[hfd[k]] = [mask |-> ed[PtrOf(k)].events, ptr |-> PtrOf(k)]
      BY <3>1, <1>1 DEF KernInv
    <3> QED BY <3>1, <3>2, <1>1, <1>3, <1>6
  <2> QED BY <2>1, <2>2 DEF KernInv, Dying
<1> QED BY <1>5, <1>7, <1>8 DEF Registry

(* EPOLL_CTL_ADD fails, for a descriptor beyond the array. *)
LEMMA AddCtlFailsStep ==
  ASSUME IInv, NEW h \in Handlers, AddCtlFails(h)
  PROVE  IInv'
<1>1. /\ Types /\ Registry /\ hs[h] = "stored" /\ Close(h) /\ UNCHANGED <<evDataMap, kern>>
      /\ UNCHANGED <<setup, ed, sMap, panicked>> /\ UNCHANGED loop
  BY DEF IInv, AddCtlFails, evDataMap
<1>2. ~InArr(hfd[h])
  BY DEF IInv, SoundUse, AddCtlFails
<1>3. kern[hfd[h]] = None
  <2>1. hfd[h] \in Fds /\ open[hfd[h]] = h
    BY <1>1 DEF Registry, FilesInv
  <2> QED BY <2>1, <1>1 DEF Registry, KernInv
<1>4. \A k : Dying(k)' = Dying(k)
  BY <1>1 DEF Dying, loop
<1>5. /\ Registry' /\ open' \in [Fds -> Handlers \cup {None}]
      /\ hs' \in [Handlers -> {"new", "accepted", "stored", "live", "closed"}]
      /\ hfd' \in [Handlers -> Fds \cup {-1}]
      /\ \A k \in Handlers \ {h} : hs'[k] = hs[k] /\ hfd'[k] = hfd[k]
  <2>1. Registry'
    BY <1>1, <1>2, <1>3, <1>4, CloseRegistry
  <2> QED BY <2>1, <1>1, CloseFiles DEF Registry
<1>6. Types' /\ SoundUse(setup)' /\ panicked' = FALSE
  BY <1>1, <1>5 DEF IInv, Types, SoundUse, loop
<1>7. LoopInv' /\ BatchInv'
  <2>1. \A k \in Handlers : hs[k] = "live" => hs'[k] = "live" /\ hfd'[k] = hfd[k]
    BY <1>1, <1>5
  <2> QED BY <2>1, <1>1, LoopFrame DEF IInv
<1> QED BY <1>5, <1>6, <1>7 DEF IInv

(* remove frees the slot of its descriptor, or unlinks it, and leaves the others. *)
LEMMA RemoveAllFacts ==
  ASSUME Types, FilesInv, NEW h \in Handlers, hs[h] = "live", RemoveAll(hfd[h])
  PROVE  /\ ed' \in [Ptrs -> [events : SUBSET (EvIn \cup EvOut),
                              fd : Fds \cup {-1, 0}, eh : Handlers \cup {None}]]
         /\ sMap' \in [Fds -> Ptrs \cup {None}]
         /\ kern' \in [Fds -> [mask : SUBSET (EvIn \cup EvOut), ptr : Ptrs] \cup {None}]
         /\ kern'[hfd[h]] = None /\ \A gd \in Fds \ {hfd[h]} : kern'[gd] = kern[gd]
         /\ \A k \in Handlers \ {h} : hs[k] \in {"stored", "live"} =>
              ed'[PtrOf(k)] = ed[PtrOf(k)] /\ sMap'[hfd[k]] = sMap[hfd[k]]
         /\ \A gd \in Fds : InArr(gd) => IF gd = hfd[h]
                                         THEN ed'[<<"arr", gd>>].eh = None /\ ed'[<<"arr", gd>>].fd = -1
                                         ELSE ed'[<<"arr", gd>>] = ed[<<"arr", gd>>]
<1>1. PICK fd : fd = hfd[h]
  OBVIOUS
<1>2. fd \in Fds
  BY <1>1 DEF FilesInv
<1>3. /\ kern' = [kern EXCEPT ![fd] = None]
      /\ \/ /\ InArr(fd) /\ sMap' = sMap
            /\ ed' = [ed EXCEPT ![<<"arr", fd>>] = [events |-> {}, fd |-> -1, eh |-> None]]
         \/ /\ ~InArr(fd) /\ ed' = ed
            /\ sMap' = [sMap EXCEPT ![fd] = None]
  BY <1>1 DEF RemoveAll, Del
<1>4. /\ kern' \in [Fds -> [mask : SUBSET (EvIn \cup EvOut), ptr : Ptrs] \cup {None}]
      /\ kern'[fd] = None /\ \A gd \in Fds \ {fd} : kern'[gd] = kern[gd]
  BY <1>2, <1>3 DEF Types
<1>5. \A gd \in Fds : InArr(gd) => <<"arr", gd>> \in Ptrs
  BY DEF Ptrs
<1>6. ASSUME NEW k \in Handlers \ {h}, hs[k] \in {"stored", "live"}
      PROVE  /\ hfd[k] \in Fds /\ hfd[k] # fd /\ PtrOf(k) \in Ptrs
             /\ InArr(fd) => PtrOf(k) # <<"arr", fd>>
  <2>1. hfd[k] \in Fds /\ hfd[k] # fd /\ PtrOf(h) # PtrOf(k)
    BY <1>1, <1>6, TwoFiles
  <2>2. PtrOf(k) \in Ptrs
    BY <2>1, PtrForFacts DEF PtrOf
  <2> QED BY <2>1, <2>2, <1>1 DEF PtrOf, PtrFor
<1>7. CASE InArr(fd)
  <2>1. sMap' = sMap /\ ed' = [ed EXCEPT ![<<"arr", fd>>] = [events |-> {}, fd |-> -1, eh |-> None]]
    BY <1>3, <1>7
  <2>2. ed' \in [Ptrs -> [events : SUBSET (EvIn \cup EvOut),
                          fd : Fds \cup {-1, 0}, eh : Handlers \cup {None}]]
    BY <2>1, <1>2, <1>5, <1>7 DEF Types
  <2>3. ASSUME NEW k \in Handlers \ {h}, hs[k] \in {"stored", "live"}
        PROVE  ed'[PtrOf(k)] = ed[PtrOf(k)] /\ sMap'[hfd[k]] = sMap[hfd[k]]
    BY <2>1, <2>3, <1>6, <1>7 DEF Types
  <2>4. ASSUME NEW gd \in Fds, InArr(gd)
        PROVE  IF gd = fd THEN ed'[<<"arr", gd>>].eh = None /\ ed'[<<"arr", gd>>].fd = -1
                          ELSE ed'[<<"arr", gd>>] = ed[<<"arr", gd>>]
    BY <2>1, <2>4, <1>5, <1>7 DEF Types
  <2> QED BY <2>1, <2>2, <2>3, <2>4, <1>1, <1>4 DEF Types
<1>8. CASE ~InArr(fd)
  <2>1. ed' = ed /\ sMap' = [sMap EXCEPT ![fd] = None]
    BY <1>3, <1>8
  <2>2. sMap' \in [Fds -> Ptrs \cup {None}]
    BY <2>1, <1>2 DEF Types
  <2>3. ASSUME NEW k \in Handlers \ {h}, hs[k] \in {"stored", "live"}
        PROVE  ed'[PtrOf(k)] = ed[PtrOf(k)] /\ sMap'[hfd[k]] = sMap[hfd[k]]
    BY <2>1, <2>3, <1>6 DEF Types
  <2> QED BY <2>1, <2>2, <2>3, <1>1, <1>4, <1>8 DEF Types
<1> QED BY <1>7, <1>8

(* A handler that remove took out of the registry. *)
LEMMA RemoveRegistry ==
  ASSUME Types, Registry, NEW h \in Handlers, hs[h] = "live", RemoveAll(hfd[h]),
         \A k \in Handlers \ {h} : hs'[k] = hs[k] /\ hfd'[k] = hfd[k] /\ Dying(k)' = Dying(k),
         ~Entered(h)', hs'[h] # "stored", hs'[h] = "live" => Dying(h)',
         \A gd \in Fds \ {hfd[h]} : open'[gd] = open[gd]
  PROVE  SlotsInv' /\ KernInv'
<1>1. FilesInv /\ SlotsInv /\ KernInv /\ hfd[h] \in Fds
  BY DEF Registry, FilesInv
<1>2. /\ kern'[hfd[h]] = None /\ \A gd \in Fds \ {hfd[h]} : kern'[gd] = kern[gd]
      /\ \A k \in Handlers \ {h} : hs[k] \in {"stored", "live"} =>
           ed'[PtrOf(k)] = ed[PtrOf(k)] /\ sMap'[hfd[k]] = sMap[hfd[k]]
      /\ \A gd \in Fds : InArr(gd) => IF gd = hfd[h]
                                      THEN ed'[<<"arr", gd>>].eh = None /\ ed'[<<"arr", gd>>].fd = -1
                                      ELSE ed'[<<"arr", gd>>] = ed[<<"arr", gd>>]
  BY <1>1, RemoveAllFacts
<1>3. \A k \in Handlers \ {h} : Entered(k)' = Entered(k) /\ PtrOf(k)' = PtrOf(k)
  BY DEF Entered, PtrOf
<1>4. ASSUME NEW gd \in Fds \ {hfd[h]}, open[gd] # None
      PROVE  open'[gd] = open[gd] /\ open[gd] \in Handlers \ {h}
  BY <1>1, <1>4 DEF Types, FilesInv
<1>5. SlotsInv'
  <2>1. ASSUME NEW k \in Handlers, Entered(k)'
        PROVE  /\ ed'[PtrOf(k)'].eh = k /\ ed'[PtrOf(k)'].fd = hfd'[k]
               /\ ~InArr(hfd'[k]) => sMap'[hfd'[k]] = PtrOf(k)'
    <3>1. k \in Handlers \ {h} /\ Entered(k) /\ hs[k] \in {"stored", "live"}
      BY <2>1, <1>3 DEF Entered
    <3>2. /\ ed[PtrOf(k)].eh = k /\ ed[PtrOf(k)].fd = hfd[k]
          /\ ~InArr(hfd[k]) => sMap[hfd[k]] = PtrOf(k)
      BY <3>1, <1>1 DEF SlotsInv
    <3> QED BY <3>1, <3>2, <1>2, <1>3
  <2>2. ASSUME NEW k \in Handlers, hs'[k] = "stored" PROVE ed'[PtrOf(k)'].events = EvIn
    BY <2>2, <1>1, <1>2, <1>3 DEF SlotsInv
  <2>3. ASSUME NEW gd \in Fds, InArr(gd), ed'[<<"arr", gd>>].eh # None \/ ed'[<<"arr", gd>>].fd > 0
        PROVE  open'[gd] # None /\ Entered(open[gd])'
    <3>1. gd # hfd[h] /\ ed'[<<"arr", gd>>] = ed[<<"arr", gd>>]
      BY <2>3, <1>2
    <3>2. open[gd] # None /\ Entered(open[gd])
      BY <2>3, <3>1, <1>1 DEF SlotsInv
    <3>3. open'[gd] = open[gd] /\ open[gd] \in Handlers \ {h}
      BY <3>1, <3>2, <1>4
    <3>4. hs'[open[gd]] = hs[open[gd]] /\ Dying(open[gd]) = (pc' = "onclose" /\ cur' = open[gd])
      BY <3>3 DEF Dying
    <3> QED BY <3>2, <3>3, <3>4 DEF Entered, Dying
  <2> QED BY <2>1, <2>2, <2>3 DEF SlotsInv
<1>6. KernInv'
  <2>1. ASSUME NEW gd \in Fds, kern'[gd] # None
        PROVE  open'[gd] # None /\ hs'[open'[gd]] = "live" /\ ~Dying(open[gd])'
    <3>1. gd # hfd[h] /\ open[gd] # None /\ hs[open[gd]] = "live" /\ ~Dying(open[gd])
      BY <2>1, <1>1, <1>2 DEF KernInv
    <3>2. open'[gd] = open[gd] /\ open[gd] \in Handlers \ {h}
      BY <3>1, <1>4
    <3>3. hs'[open[gd]] = hs[open[gd]] /\ Dying(open[gd]) = (pc' = "onclose" /\ cur' = open[gd])
      BY <3>2 DEF Dying
    <3> QED BY <3>1, <3>2, <3>3 DEF Dying
  <2>2. ASSUME NEW k \in Handlers, hs'[k] = "live", ~Dying(k)'
        PROVE  kern'[hfd'[k]] = [mask |-> ed'[PtrOf(k)'].events, ptr |-> PtrOf(k)']
    <3>1. k \in Handlers \ {h} /\ hs[k] = "live" /\ ~Dying(k)
      BY <2>2
    <3>2. kern[hfd[k]] = [mask |-> ed[PtrOf(k)].events, ptr |-> PtrOf(k)]
      BY <3>1, <1>1 DEF KernInv
    <3>3. hfd[k] \in Fds \ {hfd[h]}
      BY <3>1, <1>1, TwoFiles
    <3> QED BY <3>1, <3>2, <3>3, <1>2, <1>3
  <2> QED BY <2>1, <2>2 DEF KernInv, Dying
<1> QED BY <1>5, <1>6

(* A timer removes and closes a descriptor of the array.  Entries for it that are in the
   batch keep the address of its slot, which the next handler may use. *)
LEMMA ExpireStep ==
  ASSUME IInv, NEW h \in Handlers, Expire(h)
  PROVE  IInv'
<1>1. /\ Types /\ Registry /\ FilesInv /\ pc = "next" /\ hs[h] = "live" /\ hfd[h] \in setup.expiring
      /\ RemoveAll(hfd[h]) /\ Close(h)
      /\ UNCHANGED <<setup, batch, entry, pc, cur, panicked>>
  BY DEF IInv, Registry, Expire, loop
<1>2. InArr(hfd[h]) /\ setup.expiring # {}
  BY <1>1 DEF IInv, SoundUse
<1>3. /\ open' \in [Fds -> Handlers \cup {None}]
      /\ hs' \in [Handlers -> {"new", "accepted", "stored", "live", "closed"}]
      /\ hfd' \in [Handlers -> Fds \cup {-1}]
      /\ FilesInv' /\ hs'[h] = "closed"
      /\ \A k \in Handlers \ {h} : hs'[k] = hs[k] /\ hfd'[k] = hfd[k]
      /\ \A gd \in Fds \ {hfd[h]} : open'[gd] = open[gd]
  BY <1>1, CloseFiles
<1>4. \A k : Dying(k)' = Dying(k)
  BY <1>1 DEF Dying
<1>5. SlotsInv' /\ KernInv'
  <2>1. ~Entered(h)'
    BY <1>3 DEF Entered
  <2> QED BY <2>1, <1>1, <1>3, <1>4, RemoveRegistry
<1>6. Types' /\ SoundUse(setup)' /\ panicked' = FALSE
  <2>1. /\ ed' \in [Ptrs -> [events : SUBSET (EvIn \cup EvOut),
                             fd : Fds \cup {-1, 0}, eh : Handlers \cup {None}]]
        /\ sMap' \in [Fds -> Ptrs \cup {None}]
        /\ kern' \in [Fds -> [mask : SUBSET (EvIn \cup EvOut), ptr : Ptrs] \cup {None}]
    BY <1>1, RemoveAllFacts
  <2> QED BY <2>1, <1>1, <1>3 DEF IInv, Types, SoundUse
<1>7. LoopInv'
  BY <1>1 DEF IInv, LoopInv, Calling
<1>8. ASSUME NEW e \in batch, NEW k \in Handlers, e.ptr = <<"heap", k>>
      PROVE  hs'[k] = "live" /\ PtrOf(k)' = e.ptr
  <2>1. hs[k] = "live" /\ PtrOf(k) = e.ptr
    BY <1>8 DEF IInv, BatchInv
  <2>2. k # h
    BY <2>1, <1>2, <1>8 DEF PtrOf, PtrFor
  <2> QED BY <2>1, <2>2, <1>3 DEF PtrOf
<1>9. BatchInv'
  BY <1>1, <1>2, <1>8 DEF IInv, BatchInv, Calling
<1> QED BY <1>3, <1>5, <1>6, <1>7, <1>9 DEF IInv, Registry

-----------------------------------------------------------------------------
(* A callback changes the mask of its own descriptor, in the evData and in the kernel. *)
LEMMA MaskStep ==
  ASSUME IInv, pc \in {"onwrite", "onread"}, NEW m \in SUBSET (EvIn \cup EvOut),
         ed' = [ed EXCEPT ![PtrOf(cur)].events = m],
         kern' = [kern EXCEPT ![hfd[cur]].mask = m, ![hfd[cur]].ptr = PtrOf(cur)],
         UNCHANGED <<setup, open, handlers, sMap, loop, panicked>>
  PROVE  IInv'
<1>1. /\ Types /\ FilesInv /\ SlotsInv /\ KernInv
      /\ UNCHANGED <<setup, open, hs, hfd, sMap, panicked>> /\ UNCHANGED loop
  BY DEF IInv, Registry, handlers
<1>2. /\ cur \in Handlers /\ hs[cur] = "live" /\ Entered(cur)
      /\ hfd[cur] \in Fds /\ PtrOf(cur) \in Ptrs
  BY EntryOfCallback
<1>3. /\ \A k : Dying(k)' = Dying(k)
      /\ \A k : Entered(k)' = Entered(k) /\ PtrOf(k)' = PtrOf(k)
  <2>1. \A k : Dying(k)' = Dying(k)
    BY <1>1 DEF Dying, loop
  <2> QED BY <2>1, <1>1 DEF Entered, PtrOf
<1>4. PICK r : r = kern[hfd[cur]]
  OBVIOUS
<1>5. r = [mask |-> ed[PtrOf(cur)].events, ptr |-> PtrOf(cur)]
  <2>1. ~Dying(cur)
    BY <1>2 DEF Entered
  <2> QED BY <2>1, <1>1, <1>2, <1>4 DEF KernInv
<1>6. /\ kern'[hfd[cur]] = [mask |-> m, ptr |-> PtrOf(cur)]
      /\ \A gd \in Fds \ {hfd[cur]} : kern'[gd] = kern[gd]
      /\ kern' \in [Fds -> [mask : SUBSET (EvIn \cup EvOut), ptr : Ptrs] \cup {None}]
  <2> DEFINE M == [mask : SUBSET (EvIn \cup EvOut), ptr : Ptrs] \cup {None}
  <2>1. kern \in [Fds -> M]
    BY <1>1 DEF Types
  <2>2. PICK p, a, fd : p = PtrOf(cur) /\ a = ed[PtrOf(cur)].events /\ fd = hfd[cur]
    OBVIOUS
  <2>3. r = kern[fd] /\ r = [mask |-> a, ptr |-> p] /\ fd \in Fds /\ p \in Ptrs
    BY <2>2, <1>2, <1>4, <1>5
  <2>4. [mask |-> m, ptr |-> p] \in M
    BY <2>3
  <2> HIDE DEF M
  <2>5. [kern EXCEPT ![fd].mask = m, ![fd].ptr = p] = [kern EXCEPT ![fd] = [mask |-> m, ptr |-> p]]
    <3>1. [r EXCEPT !.mask = m] = [mask |-> m, ptr |-> p]
      BY <2>3
    <3>2. PICK q : q = [r EXCEPT !.mask = m]
      OBVIOUS
    <3>3. [q EXCEPT !.ptr = p] = q
      BY <3>1, <3>2
    <3>4. [kern EXCEPT ![fd].mask = m, ![fd].ptr = p] = [kern EXCEPT ![fd] = [q EXCEPT !.ptr = p]]
      BY <3>2, <2>1, <2>3
    <3> QED BY <3>1, <3>2, <3>3, <3>4
  <2>6. kern' = [kern EXCEPT ![fd] = [mask |-> m, ptr |-> p]]
    BY <2>2, <2>5, Zenon
  <2>7. /\ kern'[fd] = [mask |-> m, ptr |-> p]
        /\ \A gd \in Fds \ {fd} : kern'[gd] = kern[gd]
        /\ kern' \in [Fds -> M]
    BY <2>1, <2>3, <2>4, <2>6
  <2> QED BY <2>2, <2>7 DEF M
<1>7. /\ ed'[PtrOf(cur)].events = m
      /\ \A p \in Ptrs : ed'[p].eh = ed[p].eh /\ ed'[p].fd = ed[p].fd
      /\ \A p \in Ptrs \ {PtrOf(cur)} : ed'[p] = ed[p]
      /\ ed' \in [Ptrs -> [events : SUBSET (EvIn \cup EvOut),
                           fd : Fds \cup {-1, 0}, eh : Handlers \cup {None}]]
  BY <1>1, <1>2 DEF Types
<1>8. Types' /\ SoundUse(setup)' /\ panicked' = FALSE
  BY <1>1, <1>6, <1>7 DEF IInv, Types, SoundUse, loop
<1>9. FilesInv'
  BY <1>1 DEF FilesInv
<1>10. ASSUME NEW k \in Handlers, hs[k] \in {"stored", "live"}
       PROVE  /\ hfd[k] \in Fds /\ PtrOf(k) \in Ptrs
              /\ k # cur => hfd[k] # hfd[cur] /\ PtrOf(k) # PtrOf(cur)
  <2>1. hfd[k] \in Fds
    BY <1>1, <1>10 DEF FilesInv
  <2>2. PtrOf(k) \in Ptrs
    BY <2>1, PtrForFacts DEF PtrOf
  <2>3. k # cur => hfd[k] # hfd[cur] /\ PtrOf(k) # PtrOf(cur)
    BY <1>1, <1>2, <1>10, TwoFiles
  <2> QED BY <2>1, <2>2, <2>3
<1>11. SlotsInv'
  <2>1. ASSUME NEW k \in Handlers, Entered(k)
        PROVE  /\ ed'[PtrOf(k)].eh = k /\ ed'[PtrOf(k)].fd = hfd[k]
               /\ ~InArr(hfd[k]) => sMap'[hfd[k]] = PtrOf(k)
    <3>1. PtrOf(k) \in Ptrs
      BY <2>1, <1>10 DEF Entered
    <3>2. /\ ed[PtrOf(k)].eh = k /\ ed[PtrOf(k)].fd = hfd[k]
          /\ ~InArr(hfd[k]) => sMap[hfd[k]] = PtrOf(k)
      BY <2>1, <1>1 DEF SlotsInv
    <3> QED BY <3>1, <3>2, <1>1, <1>7
  <2>2. ASSUME NEW k \in Handlers, hs[k] = "stored" PROVE ed'[PtrOf(k)].events = EvIn
    <3>1. PtrOf(k) \in Ptrs \ {PtrOf(cur)}
      BY <2>2, <1>2, <1>10
    <3> QED BY <3>1, <2>2, <1>1, <1>7 DEF SlotsInv
  <2>3. ASSUME NEW gd \in Fds, InArr(gd), ed'[<<"arr", gd>>].eh # None \/ ed'[<<"arr", gd>>].fd > 0
        PROVE  open[gd] # None /\ Entered(open[gd])
    <3>1. <<"arr", gd>> \in Ptrs
      BY <2>3 DEF Ptrs
    <3> QED BY <2>3, <3>1, <1>1, <1>7 DEF SlotsInv
  <2>4. ASSUME NEW gd \in Fds, InArr(gd), ed'[<<"arr", gd>>].eh # None \/ ed'[<<"arr", gd>>].fd > 0
        PROVE  open'[gd] # None /\ Entered(open[gd])'
    <3>1. open[gd] # None /\ Entered(open[gd])
      BY <2>3, <2>4
    <3> QED BY <3>1, <1>1 DEF Entered, Dying, loop
  <2> QED BY <2>1, <2>2, <2>4, <1>1, <1>3 DEF SlotsInv
<1>12. KernInv'
  <2>1. ASSUME NEW gd \in Fds, kern'[gd] # None
        PROVE  open'[gd] # None /\ hs'[open'[gd]] = "live" /\ ~Dying(open[gd])'
    <3>1. CASE gd = hfd[cur]
      <4>1. open[gd] = cur /\ cur # None /\ ~Dying(cur)
        BY <3>1, <1>1, <1>2, EvPollAssumption DEF FilesInv, Entered
      <4> QED BY <4>1, <1>1, <1>2 DEF Dying, loop
    <3>2. CASE gd # hfd[cur]
      <4>1. open[gd] # None /\ hs[open[gd]] = "live" /\ ~Dying(open[gd])
        BY <2>1, <3>2, <1>1, <1>6 DEF KernInv
      <4> QED BY <4>1, <1>1 DEF Dying, loop
    <3> QED BY <3>1, <3>2
  <2>2. ASSUME NEW k \in Handlers, hs[k] = "live", ~Dying(k)
        PROVE  kern'[hfd[k]] = [mask |-> ed'[PtrOf(k)].events, ptr |-> PtrOf(k)]
    <3>1. CASE k = cur
      BY <3>1, <1>6, <1>7
    <3>2. CASE k # cur
      <4>1. kern[hfd[k]] = [mask |-> ed[PtrOf(k)].events, ptr |-> PtrOf(k)]
        BY <2>2, <1>1 DEF KernInv
      <4>2. hfd[k] \in Fds \ {hfd[cur]} /\ PtrOf(k) \in Ptrs \ {PtrOf(cur)}
        BY <2>2, <3>2, <1>10
      <4> QED BY <4>1, <4>2, <1>6, <1>7
    <3> QED BY <3>1, <3>2
  <2> QED BY <2>1, <2>2, <1>1, <1>3 DEF KernInv, Dying
<1>13. LoopInv' /\ BatchInv'
  BY <1>1, LoopFrame DEF IInv
<1> QED BY <1>8, <1>9, <1>11, <1>12, <1>13 DEF IInv, Registry

(* Arming and disarming EvOut. *)
LEMMA CallbackStep ==
  ASSUME IInv, CallbackAppend \/ CallbackRemove
  PROVE  IInv'
<1>1. /\ pc \in {"onwrite", "onread"}
      /\ UNCHANGED <<setup, open, handlers, loop, panicked>>
      /\ AppendOut(hfd[cur], Load(hfd[cur])) \/ RemoveOut(hfd[cur], Load(hfd[cur]))
  BY DEF CallbackAppend, CallbackRemove, InCallback
<1>2. Load(hfd[cur]) = PtrOf(cur) /\ PtrOf(cur) \in Ptrs
  BY <1>1, EntryOfCallback
<1>3. ed[PtrOf(cur)].events \in SUBSET (EvIn \cup EvOut)
  BY <1>2 DEF IInv, Types
<1>4. \E m \in SUBSET (EvIn \cup EvOut) :
        /\ ed' = [ed EXCEPT ![PtrOf(cur)].events = m]
        /\ kern' = [kern EXCEPT ![hfd[cur]].mask = m, ![hfd[cur]].ptr = PtrOf(cur)]
        /\ UNCHANGED sMap
  <2>1. CASE AppendOut(hfd[cur], Load(hfd[cur]))
    <3>1. ed[PtrOf(cur)].events \cup EvOut \in SUBSET (EvIn \cup EvOut)
      BY <1>3
    <3> WITNESS ed[PtrOf(cur)].events \cup EvOut \in SUBSET (EvIn \cup EvOut)
    <3> QED BY <2>1, <1>2 DEF AppendOut
  <2>2. CASE RemoveOut(hfd[cur], Load(hfd[cur]))
    <3>1. ed[PtrOf(cur)].events \ EvOut \in SUBSET (EvIn \cup EvOut)
      BY <1>3
    <3> WITNESS ed[PtrOf(cur)].events \ EvOut \in SUBSET (EvIn \cup EvOut)
    <3> QED BY <2>2, <1>2 DEF RemoveOut
  <2> QED BY <1>1, <2>1, <2>2
<1>5. UNCHANGED <<setup, open, handlers, sMap, loop, panicked>>
  BY <1>1, <1>4
<1> QED BY <1>1, <1>4, <1>5, MaskStep

(* remove, then OnClose. *)
LEMMA TeardownStep ==
  ASSUME IInv, Teardown
  PROVE  IInv'
<1>1. /\ Types /\ Registry /\ FilesInv
      /\ UNCHANGED <<setup, batch, entry, cur, panicked>>
  BY DEF IInv, Registry, Teardown
<1>2. CASE pc = "remove" /\ RemoveAll(ed[entry.ptr].fd) /\ pc' = "onclose" /\ UNCHANGED <<open, handlers>>
  <2>1. /\ cur \in Handlers /\ hs[cur] = "live" /\ ed[entry.ptr].fd = hfd[cur]
    BY <1>2, EntryOfCallback
  <2>2. RemoveAll(hfd[cur]) /\ UNCHANGED <<open, hs, hfd>>
    BY <1>2, <2>1 DEF handlers
  <2>3. Dying(cur)' /\ \A k \in Handlers \ {cur} : Dying(k)' = Dying(k)
    BY <1>1, <1>2 DEF Dying
  <2>4. ~Entered(cur)'
    BY <2>3 DEF Entered, Dying
  <2>5. SlotsInv' /\ KernInv'
    BY <2>1, <2>2, <2>3, <2>4, <1>1, RemoveRegistry
  <2>6. FilesInv'
    BY <2>2, <1>1 DEF FilesInv
  <2>7. Types' /\ SoundUse(setup)' /\ panicked' = FALSE
    <3>1. /\ ed' \in [Ptrs -> [events : SUBSET (EvIn \cup EvOut),
                               fd : Fds \cup {-1, 0}, eh : Handlers \cup {None}]]
          /\ sMap' \in [Fds -> Ptrs \cup {None}]
          /\ kern' \in [Fds -> [mask : SUBSET (EvIn \cup EvOut), ptr : Ptrs] \cup {None}]
      BY <2>1, <2>2, <1>1, RemoveAllFacts
    <3> QED BY <3>1, <2>2, <1>1, <1>2 DEF IInv, Types, SoundUse
  <2>8. LoopInv'
    BY <2>2, <1>1, <1>2 DEF IInv, LoopInv, Calling, PtrOf
  <2>9. BatchInv'
    BY <2>2, <1>1, <1>2 DEF IInv, BatchInv, Calling, PtrOf
  <2> QED BY <2>5, <2>6, <2>7, <2>8, <2>9 DEF IInv, Registry
<1>3. CASE pc = "onclose" /\ Close(cur) /\ pc' = "next" /\ UNCHANGED <<evDataMap, kern>>
  <2>1. /\ cur \in Handlers /\ hs[cur] = "live" /\ entry.ptr = PtrOf(cur)
        /\ \A e \in batch : e.ptr # PtrOf(cur)
    BY <1>3 DEF IInv, LoopInv, BatchInv, Calling
  <2>2. /\ open' \in [Fds -> Handlers \cup {None}]
        /\ hs' \in [Handlers -> {"new", "accepted", "stored", "live", "closed"}]
        /\ hfd' \in [Handlers -> Fds \cup {-1}]
        /\ hfd[cur] \in Fds /\ open[hfd[cur]] = cur
        /\ \A k \in Handlers \ {cur} : hs'[k] = hs[k] /\ hfd'[k] = hfd[k]
    BY <2>1, <1>1, <1>3, CloseFiles
  <2>3. Dying(cur) /\ ~Entered(cur) /\ \A k \in Handlers \ {cur} : Dying(k)' = Dying(k)
    BY <1>1, <1>3 DEF Dying, Entered
  <2>4. kern[hfd[cur]] = None
    BY <2>2, <2>3, <1>1 DEF Registry, KernInv
  <2>5. Registry'
    BY <2>1, <2>3, <2>4, <1>1, <1>3, CloseRegistry
  <2>6. Types' /\ SoundUse(setup)' /\ panicked' = FALSE
    BY <2>2, <1>1, <1>3 DEF IInv, Types, SoundUse, evDataMap
  <2>7. LoopInv'
    BY <1>1, <1>3 DEF LoopInv, Calling
  <2>8. \A k \in Handlers \ {cur} : hs'[k] = hs[k] /\ PtrOf(k)' = PtrOf(k)
    BY <2>2 DEF PtrOf
  <2>9. \A e \in batch, k \in Handlers : e.ptr = <<"heap", k>> => hs'[k] = "live" /\ PtrOf(k)' = e.ptr
    BY <2>1, <2>8 DEF IInv, BatchInv
  <2>10. setup.expiring = {} => \A e \in batch : /\ e.file \in Handlers /\ hs'[e.file] = "live"
                                                 /\ PtrOf(e.file)' = e.ptr
    BY <2>1, <2>8 DEF IInv, BatchInv
  <2>11. BatchInv'
    BY <2>9, <2>10, <1>1, <1>3 DEF IInv, BatchInv, Calling
  <2> QED BY <2>5, <2>6, <2>7, <2>11 DEF IInv
<1> QED BY <1>2, <1>3 DEF Teardown

-----------------------------------------------------------------------------
(* Every step keeps the invariant. *)
LEMMA NextIInv == IInv /\ [Next]_vars => IInv'
<1> SUFFICES ASSUME IInv, [Next]_vars PROVE IInv'
  OBVIOUS
<1>1. CASE Run
  BY <1>1, EpollWaitStep, DispatchStep, ReturnStep, CallbackStep, TeardownStep DEF Run
<1>2. CASE Environment
  BY <1>2, AcceptStep, AddStoreStep, AddCtlStep, AddCtlFailsStep, ExpireStep DEF Environment
<1>3. CASE UNCHANGED vars
  <2>1. UNCHANGED <<setup, open, hs, hfd, ed, sMap, kern, batch, entry, pc, cur, panicked>>
    BY <1>3 DEF vars
  <2> QED BY <2>1 DEF IInv, Types, SoundUse, Registry, FilesInv, SlotsInv, KernInv, LoopInv,
                      BatchInv, Entered, Dying, PtrOf, Calling
<1> QED BY <1>1, <1>2, <1>3 DEF Next

(* In every sound use of the reactor the invariant holds throughout. *)
LEMMA SpecIInv == Spec /\ SoundUse(setup) => []IInv
  BY InitIInv, NextIInv, PTL DEF Spec

(* In every sound use of the reactor newOne never panics, run never calls a nil handler,
   and each registered handler is what the kernel's pointer leads to, with the kernel's
   mask, in an evData that evDataMap keeps reachable: for any number of connections,
   descriptors and pending entries, however reuse of a descriptor interleaves with them. *)
THEOREM RegistryAgreesWithKernel == Spec /\ SoundUse(setup) => []RegistryAgrees
  BY SpecIInv, IInvImplies, PTL

(* In every sound use of the reactor run calls no handler that OnClose was called on. *)
THEOREM NoClosedHandlerCalled == Spec /\ SoundUse(setup) => []NoCallbackAfterClose
  BY SpecIInv, IInvImplies, PTL

(* If no timer closes descriptors, every event reaches the handler of the file for which
   epoll_wait reported it. *)
THEOREM EventsReachTheirOwners == Spec /\ SoundUse(setup) => []OwnEventsUnlessExpiring
  BY SpecIInv, IInvImplies, PTL
=============================================================================
