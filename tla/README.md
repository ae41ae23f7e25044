# goev: a verification project in TLA+

goev is a Go network library built on epoll: a `Reactor` runs a few *evPolls*, each a
goroutine around `epoll_wait` with its own registry of handlers, timer heap and two
hand-over queues through which other goroutines reach it. This directory holds TLA+
modules translated from that code, TLC configurations that check them on small
instances, and TLAPS proofs for instances of any size. `PROJECT.json` lists for every
definition the source lines it models, and for every property a mutation of the code
that it catches.

Contents: [1 inventory](#1-inventory), [2 modules](#2-modules-and-how-they-correspond-to-the-code),
[3 runs](#3-runs), [4 fairness](#4-fairness), [5 proofs](#5-proofs),
[6 findings](#6-where-code-and-documentation-disagree), [7 what is not modelled](#7-what-is-not-modelled),
[8 plan](#8-plan).

## 1. Inventory

| Component | State | Operations | Hard behaviour | Correct if |
|---|---|---|---|---|
| `asyncWrite` (`async_write.go`), `pollSyncOpt` (`poll_sync_opt.go`): hand-over from any goroutine to one evPoll | two ring buffers, a mutex, an atomic flag `notified`, an eventfd | `push`; `OnRead` in the evPoll goroutine | a push at any point of `OnRead`; the flag, the eventfd and the queues are not changed together; `OnRead` stops after 256 (8) items | nothing lost, doubled or reordered; one wake-up at a time; every item is consumed |
| `RingBuffer` (`ringbuffer.go`) | array, head, tail, len | `PushBack`, `PushFront`, `PopFront`, `grow` | full and empty both have head = tail; growth at any position of head | it is a deque; vacated slots are cleared |
| `evDataMap` (`ev_data.go`) | array of evData by descriptor number, a map beyond it | `newOne`, `load`, `store`, `del` | numbers are reused by the kernel at once; evData must stay reachable because the kernel holds a raw pointer | a slot is released before its number comes back |
| `evPoll` (`epoll.go`) | the registry, the kernel's interest list, the batch of `epoll_wait` | `add`, `append`, `remove`, `run` | an entry of the batch outlives its handler; registration from another goroutine; a failing system call in the middle of `add` | no closed handler is called; registry and kernel agree; an event reaches its file's handler |
| `IOHandle`, sending side (`io_handle.go`, `io_handle_async.go`) | `asyncWriteBufQ`, `asyncWriteBufSize`, `asyncWriteWaiting`, the EvOut registration | `Write`, `AsyncWrite`, `asyncOrderedWrite`, `AsyncOrderedFlush`, `Destroy`, `Init` | short writes; direct and queued writes mixed; closing with data queued or on its way; reuse; `AsyncWrite` against a close | byte order; nothing of another connection; EvOut exactly while data is queued; each pooled buffer given back once |
| Buffer pool (`bufpool.go`) | size classes, `disabled`, `allocTimes` | `BMalloc`, `BFree`, the adjusting ticker | a class is switched off between two calls; class boundaries | the buffer is large enough; no index out of range |
| `timer4Heap` (`timer_4heap.go`) | 4-ary heap, `timerfdSettime`, the timerfd, `IOHandle.ti` | `schedule`, `cancel`, `OnRead`, `handleExpired`, `popOne` | `cancel` changes a key in place; schedule and cancel inside `OnTimeout`; a cached expiry | every timer runs or is cancelled, in time; `OnRead` returns |
| `Reactor` (`reactor.go`) | the evPolls, their `pCache`s | `AddEvHandler`, `AppendEvent`, `RemoveEvent`, `PollSyncOpt`, `Run` | called by any goroutine without a lock; one value for several evPolls; errors of several evPolls | a descriptor always goes to the same evPoll; the saved mask is the kernel's; the caches agree; `Run` outlives the evPolls |
| `Acceptor` (`acceptor.go`) | the listening descriptor, its registration, its timer | `NewAcceptor`, `OnRead`, `OnTimeout` | EMFILE: it removes itself and a timer adds it again; several acceptors share the limit on descriptors | it is registered or about to be; every client in the backlog is accepted |
| `Connector` (`connector.go`) | a descriptor per connect in progress, its timer | `Connect`; `OnOpen`, `OnRead`/`OnWrite`, `OnTimeout`, `OnClose` of `inProgressConnect` | time-out against completion; the timer is scheduled by the caller's goroutine | exactly one of OnOpen and OnConnectFail; the descriptor is closed once |
| `ConnectPool` (`connect_pool.go`) | idle list, `liveNum`, `toNewNum`, two channels | `Acquire`, `Release`, `keepNum`, callbacks of connections | goroutines blocked on each other; counters lowered by three kinds of goroutines | the counters are exact; a connection has one user; nobody blocks for ever |
| WebSocket example, receiving side (`example/websocket.go`) | `partialBuf`, `continueWsFrame`, `upgraded`, `closed` | `OnRead`, `onUpgrade`, `onFrame`, `parseFrameHeader` and the answers | a read ends anywhere in a frame; control frames between fragments; data after a close | frames are handled whole, in order, as soon as they are there |
| `Options`, `netfd`, other examples | none of their own | option values, system-call wrappers | none | not modelled |

How they interact. A handler is called by exactly one evPoll goroutine (chosen by
`fd % evPollNum`); `OnRead`, `OnWrite`, `OnTimeout` and `OnClose` run there.
`asyncWrite`, `pollSyncOpt`, `timer4Heap` and `Acceptor` are themselves handlers
registered with an evPoll. Goroutines outside may call `AddEvHandler` (which writes the
registry of the evPoll), `AppendEvent` and `RemoveEvent`, `AsyncWrite` and `PollSyncOpt` (which push to the queues), and
`BMalloc`/`BFree`. `AsyncWrite` → `asyncWrite.push` → `asyncWrite.OnRead` →
`asyncOrderedWrite` → `append(fd, EvOut)` → `run` → `OnWrite` → `AsyncOrderedFlush` is the
longest chain; the modules cut it at the hand-over queue, which is shown to be a FIFO.

## 2. Modules and how they correspond to the code

```
FifoHandoff  <-refines-  NotifyQueue  <-extends-  DataProofs,        MCNotifyQueue
Deque        <-refines-  RingBuffer   <-extends-  DataProofs,        MCRingBuffer
                         BufPool      <-extends-  DataProofs,        MCBufPool
                         EvPoll       <-extends-  EvPollProofs,      MCEvPoll
                         WritePath    <-extends-  StreamProofs,      MCWritePath
WsFrames     <-refines-  WebSocket    <-extends-  StreamProofs,      MCWebSocket
                         Timer4Heap   <-extends-  Timer4HeapProofs,  MCTimer4Heap
                         Connector    <-extends-  EndpointProofs,    MCConnector
                         Acceptor     <-extends-  EndpointProofs,    MCAcceptor
                         ConnectPool  <-extends-  ConnectPoolProofs, MCConnectPool
                         Reactor      <-extends-  ReactorProofs,     MCReactor
```

A definition named "Deviation: ..." in a module is a plausible mistake in the code; it is
used by no specification. Modules that share a module of proofs have a prefix in the names
that would clash (`RBInit`, `BPTypeOK`, `AccSpec`, `WSNext`).

**NotifyQueue** models `asyncWrite` and `pollSyncOpt`, which are the same algorithm with
different item types and batch sizes. One action is one critical section (`Push`, `Swap`),
one atomic operation (`Cas`, `Clear`), one system call (`WriteEfd`, `ReadEfd`) or one
iteration of the loop (`HandleOne`); producers and the evPoll goroutine interleave between
them. `accepted` and `handled` are history. **FifoHandoff** says what the pair promises:
items are delivered once each, in order of acceptance.

**RingBuffer** works on the array with the code's index arithmetic. **Deque** is a
sequence with pushes at both ends. The other modules use sequences where the code uses a
`RingBuffer`.

**EvPoll** models one evPoll: evDataMap as array slots (`<<"arr", fd>>`) below `ArrSize`
and separate objects (`<<"heap", h>>`) from there on; the kernel's interest list `kern`
holding mask and pointer; `open`, the kernel's table of descriptors, where closed numbers
become available at once. `add` is two steps, the registry (`AddStore`) and the system call
(`AddCtl`, `AddCtlFails`), since another goroutine may be running it while the evPoll
dispatches. `run` is `EpollWait` (any subset of the registered descriptors, with any events
their masks allow, and hang-up), `Dispatch` of one entry at a time through the pointer the
kernel returned, callbacks that may arm or disarm EvOut and return true or false, and
`Teardown`, `remove` before `OnClose`. `Setups` says how the reactor is used: who accepts
connections, which descriptors a timer may close, for which EPOLL_CTL_ADD may fail.

**WritePath** models the sending side of one `IOHandle`. Data are sequences of units
`<<connection, call, position>>`, so order, loss and data of another connection are visible;
the code keeps no note of the connection. The socket holds `SockCap` units; the peer reads and
may reset the connection. `Write` runs in the evPoll goroutine. `AsyncWrite` runs anywhere and is
two steps, its two looks at the descriptor: `calling` holds the calls between them, and
`AsyncPush` pushes the item or, if the handler was closed or reused meanwhile, panics (a reused
handler may have a descriptor of the same number, or of another). `Complete` includes the code's
`n > 0` test. After `OnClose`, the fields that `Destroy` and `Init` do not reset keep their values,
as in the code. `given` is what the evPoll goroutine was given for the present connection;
`stale` notes that a handler was reused with `asyncWriteWaiting` still set (finding 4), `late` that
it was reused with items or calls of its last connection still on their way (finding 19).

**BufPool** uses the real sizes. A client's `BMalloc` is two steps (choosing and counting,
then `Alloc`), with the ticker's `Adjust` and the garbage collector's `Evict` in between.

**Timer4Heap** models the heap on an array of items with `shiftUp` and `shiftDown`, the
cached `timerfdSettime`, and a timerfd that becomes readable at `tfd`. `OnRead` takes `now`
once; the clock may advance during `OnTimeout`, in which handlers may schedule and cancel.
An item no longer referred to is blanked so that its identity can be used again (in Go it
is garbage).

**Connector** models any number of concurrent connects: `Connect`, `AddEvHandler` and
`ScheduleTimer` are separate steps of the caller's goroutine, since the evPoll goroutine may
deal with the socket between them; the network answers when it likes, or never; a batch of
`epoll_wait` is dispatched entry by entry, with `OnTimeout` before, between or after the
entries. A callback, the `remove` and the `OnClose` after it are one step: they run in one
goroutine, and the only thing they share with the caller is the timer. `HandlerSeen` is the
difference between the array of `evDataMap`, whose slots `del` clears, and the map beyond it,
whose objects it only unlinks. `OnRead` of an `inProgressConnect` is not called by a kernel
that reports failures as EPOLLERR with EPOLLHUP, which `run` tests first.

**ConnectPool** has a step for every critical section, atomic operation, channel operation
and call of the connector: clients (`Acquire`, `EmptySig`, `Release`), `keepNumTiming`
(`Tick`, `IdleNum`, `LiveNum`, `Cas`, `Connect`), the evPolls (`OnOpen`, `Send`, which blocks
on a full channel), `handleNewConn` (`Receive`, `Count`, `ReleaseNew`) and connections that
are closed at any time (`Closed`). What becomes of a connect in progress is taken from Connector:
`OnOpen`, `OnConnectFail` when it times out, or `Refused`, which the pool is not told of and which
leaves a timer whose expiry ends the process (`Expires`, finding 10). For the connections in
`Beyond`, whose descriptors lie beyond the array, a time-out may be followed by `OnOpenAgain`, the
second report of finding 11, with a descriptor of -1. After a panic nothing happens (`Ended`).
A connection's identity is used again once nobody refers to it.

**Acceptor** has several listening sockets (SO_REUSEPORT), each served by a goroutine of its
own. One action is one iteration of `OnRead`'s loop, by the outcome of `accept4`: `Accept` with
the `OnOpen` and `OnClose` of the new handler, `AcceptInterrupted`, `AcceptBreak` (EAGAIN and
all other errors) and `AcceptEmfile` with `BackOff`, that is `ScheduleTimer` and `RemoveEvent`.
`AccOnTimeout` registers again; `addFails` notes that this failed. Clients arrive, wait in a
backlog the kernel bounds, and are closed some day.

**Reactor** composes several evPolls: callers are the goroutines of the application and the
evPolls in their callbacks. A call is a record in `op` and goes step by step: `AddStore` and
`AddCtl`; `Read`, `Save`, `Build` and `Mod` for the read-modify-write of `evData.events` and
the system call, with the recovery when it fails; `DelSlot` and `DelCtl`; one `Push` per evPoll
of `PollSyncOpt`. The hand-over queue is the FIFO NotifyQueue implements; `DoSync` and
`PCacheSet` are begin and end of the store to `pCache`, so that a read can meet it.
`Spawn`, `Fail`, `Done`, `Report` and `Returns` are `Run`. `raced`, `mixed`, `torn` and `last`
are history. It leaves dispatch and the reuse of numbers to EvPoll.

**WebSocket** is one connection of the example server. The stream of the client is a sequence
of frames, its bytes are units `<<frame, position>>`, so that a byte that is lost, doubled or
taken for another is visible; a group of bytes that `parseFrameHeader` tests as one is one unit.
`OnRead` takes any number of units; one action is one round of `onFrame`'s loop. What
follows a close within one read is dropped by the code, so that the next read may start inside
a frame (`Garbage`). **WsFrames** is the server that is given frames instead of bytes.

## 3. Runs

| Run | Bounds | What it shows |
|---|---|---|
| `notify_queue` | 2 producers, 3 pushes each, batch 2 | `FifoInv`, `OneWakeup`, `WorkKeepsEfdReadable`; refinement of `FifoHandoff`; a push that won its CAS is served (`CasWinnerServed`) |
| `notify_lost_wakeup` | 2 producers, 1 push each | violation: a push that lost its CAS may stay in `writeq` |
| `ring_buffer` | capacity 2, up to 6 elements, 2 values | `WindowInv` and refinement of `Deque` through two growths |
| `ev_poll` | 4 handlers, descriptors 1, 2 in the array and 3 beyond it | no panic in `newOne`, no call of a closed handler, registry and kernel agree, events reach their owners unless timers close descriptors |
| `write_path` | socket of 2 units, data of 1 and 3, 3 calls, 2 connections of one handler | byte order, and nothing of another connection (unless `late`); EvOut exactly while needed and size exact (unless `stale`); buffers given back once; the queue drains |
| `buf_pool` | 2 clients, 3 buffers, lengths 129, 256, 1047551, 16777217 | no panic, pools hold the class's size only |
| `timer_heap` | 2 handlers, 4 items, delays 2, 4, intervals 0, 2, time up to 7, 2 cancels | only cancelled items are out of heap order; every timer is accounted for; without cancels timers are armed in time and run; `OnRead` returns |
| `connector` | 3 connects, one with a descriptor beyond the array | a connect is notified once, its descriptor has one owner and is closed once, every connect is notified whatever the network does |
| `connect_pool` | 3 connections, 2 clients, `minIdleNum` 1, `addNumOnceTime` 2, `maxLiveNum` 3, a channel for 1, 1 failing `OnOpen`, 1 connection beyond the array, 1 second report | `CountersExact`: `toNewNum` is exact unless a connect was reported twice, `liveNum` unless an `OnOpen` fails; a connection has one user; up to the crash after a refused connect `Acquire` returns and (unless a connect was reported twice) rounds end |
| `acceptor` | 2 acceptors, 4 clients, backlog 4, descriptors for 2 connections, 1 failing registration | an acceptor is registered or has its timer, never both; every client in a backlog is accepted unless a registration in `OnTimeout` failed |
| `reactor` | 2 evPolls, 1 descriptor, 2 goroutines, 3 calls | `Run` returns after the evPolls; caches agree unless two `PollSyncOpt` overlapped; callbacks read no cache in the middle of a store and no value that goes back; masks agree unless two calls overlapped |
| `websocket` | all streams of up to 3 frames of 9 kinds, cut in every way | refinement of `WsFrames`; no frame waits in `partialBuf` that is whole or could be refused |

Why these bounds. *notify_queue*: the algorithm has one wake-up and one flag, so two
producers suffice for one to meet the other's wake-up in every phase, and six items with a
batch of two make `OnRead` return early, be called again and swap several times; the proofs
remove the bounds. *ring_buffer*: two doublings at every position of head, also proved in
general. *ev_poll*: two slots and four handlers let every number be used twice while entries
of an older batch are pending, and descriptor 3 takes the path through the map.
*write_path*: the socket is smaller than the large buffer and larger than the small one, so
writes fit, are cut and find the socket full; three calls allow two buffers behind a partly
written one, and an item and a call of the first connection to meet the second. *buf_pool*: two lengths of one class, one of them exactly its size, plus the
last class of `kbPool` and a length beyond the pools; the proofs cover all lengths.
*timer_heap*: with nodes of two children, four items make a heap of three levels, in which
a cancelled inner node can be passed by an insert and by a removal; the tolerance is 1
there (2 in the code) so that delays beyond it stay small. *connector*: connects share only the batch and the evPoll goroutine, so two
of them with the timer of each show every order of event and timer within a batch, and the
third lies beyond the array. *connect_pool*: a round makes two connections and the channel
holds one, so that an evPoll or `keepNum` itself blocks in `OnOpen` while clients wait on
`emptySig`; three connections let one be in use, one be idle and one be on its way. One second
report is enough to take `toNewNum` to -1 or to let two rounds overlap; more of them only drift
further, which nothing that is checked depends on.
*acceptor*: two descriptors and two acceptors with two iterations per `OnRead`, so that one
takes the descriptor the other backed off for, and both back off at once. *reactor*: three calls
are a registration with two changes that overlap, or two `PollSyncOpt`s with a registration
between their pushes; two evPolls suffice for the values to arrive in two orders. *websocket*:
three frames are a message in three fragments, too long for one answer, or one in two fragments
that just fits with a control frame between them; the kinds have headers with and without an
extended length, and payloads of 0, 1 and 2 units.

Where a defect is known, the passing runs keep to the ways of using the library that avoid it
and say so: `SoundSetups` lets EPOLL_CTL_ADD fail only for descriptors beyond the array
(finding 2), `OwnEventsUnlessExpiring` leaves out timers that close descriptors (finding 3),
`timer_heap` has delays and intervals above the tolerance (findings 5 and 6), `OutcomeOnce` leaves out
descriptors beyond the array (finding 11), `CountersExact` leaves out `liveNum` after a failing
`OnOpen` (finding 12). The other restrictions are recorded by the model while everything is
allowed: `stale` (finding 4), `doubled` (11), `addFails` (14), `raced` (16), `late` (19) and
`mixed`. `EveryConnectReported`, `RoundsEnd`, `AcquireReturns` and `QueueDrains` hold up to a panic
(findings 10 and 20). Each property says what it excepts and holds in all other states; what it
excepts it does not catch, which the notes of the hazards in `PROJECT.json` repeat.

Deadlock checking is off where the bounded model comes to a natural end (all pushes done,
all calls made, time used up, all connects reported, all clients closed, `Run` returned, the stream read); `ring_buffer`, `ev_poll`, `buf_pool`
and `connect_pool` check it.

## 4. Fairness

* `NotifyQueue`: weak fairness of the evPoll goroutine (`run` loops for ever, handlers
  return) and of a goroutine that is inside `push`; nobody is obliged to push.
* `WritePath`: weak fairness of `asyncOrderedWrite` for items handed over (a goroutine inside
  `AsyncWrite` is under no obligation), of `OnWrite` while EPOLLOUT is reported, and of
  the flush loop; the peer keeps reading; strong fairness of `OnClose` on a broken
  connection, because EPOLLERR is reported by every `epoll_wait` from the reset on while
  flushing disables the action only for moments.
* `Timer4Heap`: weak fairness of the dispatch loop and of `handleExpired`, and strong
  fairness of `Tick`: time goes on whatever the goroutine does. `OnTimeout` returns.
* `Connector`: weak fairness of goroutines inside `Connect`, of `epoll_wait` and the dispatch
  of each entry, and of expiring timers. The network is under no obligation: notification
  rests on the timer then.
* `ConnectPool`: weak fairness of the ticker, of `keepNum`, of `handleNewConn` and of some
  blocked send; of each connect in progress, that its event or its timer comes (`Report`: it may
  be opened, fail or be refused; Connector's `EveryConnectReported` is why one of them happens);
  of pending entries and of the timer of a refused connect; strong fairness of `EmptySig` for each client,
  because `keepNumTiming` comes back to its select again and again, whose choice among
  ready cases is random. No client is obliged to release, no connection to close.

* `Acceptor`: weak fairness of each evPoll goroutine, of timers and of the closing of
  connections, without which no descriptor becomes free; strong fairness of `Accept`, because
  EINTR and passing shortages do not hit every attempt of a level-triggered acceptor. The
  acceptors compete for descriptors; that the one that loses is served at last rests on the
  number of clients being finite.

`RingBuffer`, `EvPoll`, `BufPool`, `Reactor` and `WebSocket` are checked for safety only. The
violation of liveness (`notify_lost_wakeup`) is found under the same fairness.

## 5. Proofs

All theorems hold for every value of the constants that satisfies the ASSUME of the
module. Beyond that only the hypotheses in their statements are used: `Safe` lengths in
`SafeLengthsNeverPanic`, `SoundUse` in the theorems about EvPoll and `LongDelays` in
`TimersAreInTime`. Every inductive invariant was checked by TLC on the instance of its run
before it was proved.

*Recursion.* The library's induction theorems take an operator as a parameter, which the
provers cannot instantiate. What the proofs need of recursive functions is derived from the
well-foundedness of `<` on sets of naturals: a set has a smallest element (`MinNat`) and is
everything if it is closed under successors (`SetInduction`). Existence of the functions
themselves is a lemma as well: for `FlattenSeq` by induction (`IsFlatExists`), and for the loops
of the heap by `LoopExists`, which holds for any loop: the value is that of the place where the
loop stops, defined without recursion as the intersection of all sets closed under the step
(`Stops`).

**DataProofs**, NotifyQueue (assumes `MaxPush` a natural number, `Batch` positive).
`TypeCorrect`. `WakeupIsUnique` and `WorkIsScheduled`: the inductive invariant `WakeupInv`
is `OneWakeup`, `WorkKeepsEfdReadable` and "when `OnRead` is about to read the eventfd,
`readq` is empty". None is inductive alone: that the flag is up while the eventfd is
readable is needed to see that no producer writes a second time, and that the eventfd is
readable while `OnRead` works is needed to see that `Clear` is reached by the read only;
the third part closes the case of the early return. `FifoCorrect` is inductive with the
types, by laws of concatenation. `ImplementsHandoff` uses it: the head of `readq` is the item
after the consumed ones in `accepted` (`HeadIsNext`), so `HandleOne` is `Deliver`, `Push` is
`Send`, and everything else stutters.

**DataProofs**, RingBuffer (assumes `InitCap` positive, `Zero` not a value). The invariant is
`RBTypeOK /\ WindowInv`. `SlotOf` and `ElementOf` number slots and elements without `%`
(`NextSlot` and `PrevSlot` relate them to the code's index arithmetic, `SlotElement` shows
them inverse to each other, `HeadForward` and `HeadBack` say how they move with head). One
lemma per operation (`PushBackKeeps`, `PushFrontKeeps`, `PopFrontKeeps`, `GrowKeeps`) shows
that it keeps shape and window and what it does to the contents. `RBTypeCorrect`,
`WindowCorrect` and `ImplementsDeque` follow. Since `WindowInv` says that the slots outside
the window are exactly the cleared ones, it also rules out that popped pointers are kept.

**DataProofs**, BufPool (assumes lengths are natural numbers). `ClassFits` and `SafeInRange` are
the arithmetic of the classes over the real sizes. The invariant `BPInv` adds to
`PoolsHoldClassSize` who owns a buffer: one client or one pool, because otherwise freeing or
evicting could change the capacity of a buffer in another pool. `PoolsAreExact` and `BPTypeCorrect` hold
for all lengths. `SafeLengthsNeverPanic` needs lengths to be `Safe` (positive, and not above
1023 KiB up to 1 MiB) and adds that whatever a client holds is safe to free.
`GapIsOutOfRange` shows that the restriction is needed.

**EvPollProofs** (assumes that `None` is no address of an evData, besides the module's
assumptions). `RegistryAgreesWithKernel`, `NoClosedHandlerCalled`, `EventsReachTheirOwners`. The
invariant has three parts. *Registry*: files and handlers name each other (`FilesInv`); what was
entered can be loaded, and an occupied slot of the array belongs to the handler on its
descriptor (`SlotsInv`), which is why `newOne` finds slots free; the kernel knows the live
handlers, with their masks and addresses, and no others (`KernInv`). *LoopInv*: the handler
being called is live and the entry is that of its evData. *BatchInv*: the entries of a batch
lead to different evDatas, so that closing the handler of one entry cannot close that of
another; an entry beyond the array, whose evData nobody clears, belongs to a live handler. The
hypothesis `SoundUse` is where the findings begin: no failing EPOLL_CTL_ADD for a descriptor of
the array (finding 2), and timers close descriptors of the array only (the entry of a handler
closed beyond it would call it, as in finding 11), and only where the evPoll accepts its
connections itself, since EvPoll does not follow a goroutine that goes on registering a handler
closed under it. All setups of the run are sound uses.

**StreamProofs**, WritePath (assumes natural lengths and a positive `SockCap`, as the module).
`StreamKeepsOrder`, `QueuedDataIsArmed`, `SizeCountsTheQueue`, `BuffersFreedOnce`. What is queued is
`FlattenSeq` of the rests of the buffers, a recursive function of the community modules, of which
the module shows that it exists and is unique, and what appending and prepending do to the result
(`FlattenAppend`, `FlattenCons`). On top of these, three ways data moves (`EnterQueue`, `EnterSocket`,
`FlushQueue`) keep the stream and change its queued length by what they say, and four ways a
buffer moves (`PlaceNew`, `PlaceHandled`, `PlaceFlushed`, `PlaceDestroyed`) keep it in one place;
each action is one of the former with one of the latter. That a connection that is not `late` gets
its own data only rests on `OwnInv`: whatever is in a call or on its way was meant for the open
connection, because the last one left nothing behind (`OwnGiven` for what is added to `given`).
`QueuedIsArmed` needs `ArmedInv`:
`asyncWriteWaiting` and the registration agree on connections that are not stale, a flush runs
only while EvOut is registered, a stale connection never has it registered, and a handler
closed with the flag clear had size 0, without which the reuse of a handler would not start
with an exact size. `PlaceInv` adds that no buffer is twice in a queue and that a buffer of a call
yet to come is nowhere.

**StreamProofs**, WebSocket (assumes that `MaxFrames` is a number and that legal frames fit, as the
module). `Wire` is the flattened stream: its units are those of the frames one after the other
(`WireCuts`), the first unit of a frame is followed by the rest of it and then by the next frame
(`FrameAt`), and every unit belongs to a frame (`UnitsOfFrames`). The invariant `WSInv`: up to a
close, what has arrived and was not handled lies in `Wire` without a gap behind some unit p, and p
is the end of a frame (`Lies`); between reads it is less than the frame it begins needs. Without
the first part a read could append what does not belong behind `partialBuf`; after a close it is
given up, which is when `Garbage` becomes possible. `NoFrameIsLeftWaiting` follows. For
`ImplementsFrames` the frame to be handled next is the one that `Rest`, what is left of the stream,
begins with: reading and keeping leave `Rest` alone (`OnReadRest`, `PartialRest`), handling a frame
makes the one behind it the next (`NextIsBehindF`), so that each round of `onFrame` is `Handle`,
`Close`, `Refuse` or nothing.

**Timer4HeapProofs** (assumes that the arity is positive, that `None` is neither a number nor a
handler and that time begins after 1, as in the code). First what `ShiftUp` and `ShiftDown` return
for every heap: each is the value of a loop over heap and position; a round keeps that the heap is
a permutation of the one before and in order but for the item that is moved (`UpRound`,
`DownRound`), and the position falls, or rises, so that the loop ends (`ShiftUpWorks`,
`ShiftDownWorks`). *In order* (`InOrder`) has to make room for cancelled items: their key is 1, and a
child with key 1 may lie under any parent. It is this reading of the order that both loops keep;
`HeapOrder` follows. The invariant `Base` adds that handlers and items name each other (`OwnInv`)
and that nothing in the heap is there twice, or popped as well (`HeapInv`): `HeapKeepsOrder`,
`TimersAreAccounted`. `TimersAreInTime` needs `TimelyInv`: a `timerfdSettime` that lies ahead by more
than the tolerance is the time of an item of the heap, so that a `schedule` that does not arm the
timerfd finds it armed for that item. It is where the hypothesis `LongDelays` is used: a shorter
delay may equal the time of an item that has been run already, and the theorem would be false
(finding 5).

**EndpointProofs**, Connector. `ReportedAtMostOnce`, `DescriptorHasOneOwner`. `Progress` says per
connect what its phase allows: the ipc has the descriptor exactly while it is registered, and
then nothing was reported; an entry of a batch whose ipc is not registered any more is one that
timed out since `epoll_wait`, and has been reported once. Acceptor. `AcceptorIsWatched`: `WatchedOrTimed` becomes
inductive with "one that does not listen has left no trace"; that `OnRead` runs for registered
acceptors only is what makes `BackOff` find its timer free and `AccOnTimeout` its slot.

**ConnectPoolProofs** (assumes that the clients' states are no connections, besides the
module's limits). `CountersAreExact`, `NoConnectionShared`. `RoundInv` and `LiveInv` are the two
counters as cardinalities, `LiveInv` one less between `OnOpen` and `liveNum.Add(1)`; `ChanInv` and
`PoolInv` say that the idle list, the channel, the clients and the new connection have no
connection in common, which the cardinality of the changes rests on. A refused connect goes on
counting as one in progress (`InProgress`); `RoundInv` ends with the first second report, the other
parts do not need it.

**ReactorProofs**. `RunReturnsLast`: `wg` is the number of evPolls that have not called `Done`
(`RunInv`). `CachesAgree`, `CacheReadsAreSafe`: as long as no calls overlapped there is one
`PollSyncOpt` under way, with the latest value, and the evPolls it has passed will have stored
that value once their queues are empty (`OneSync`), and values reach an evPoll in ascending order
(`Forward`). `MasksAgree`: for a descriptor without overlapping calls, what each step of the one
call under way may rely on (`Alone`).

Only model-checked is liveness (`CasWinnerServed`, `QueueDrains`, `TimersRunUnlessCancelled`,
`OnReadReturns`, `EveryConnectReported`, `AcquireReturns`, `RoundsEnd`, `BacklogServed`), which is
beyond the prover, as is ENABLED. Every invariant and every refinement that a run checks is also
a theorem.

## 6. Where code and documentation disagree

Each is an entry of "findings" in `PROJECT.json`, with the lines quoted.

1. *Lost wake-up* (`async_write.go:105`, likewise `poll_sync_opt.go:128`), run
   `notify_lost_wakeup`: `OnRead` swaps first and lowers `notified` last. A push in between
   loses its CAS and its item waits for the next push.
2. *Failed add* (`epoll.go:63`): the slot stays occupied; the next registration of the number
   panics. `RegistryAgrees` fails as soon as a setup has a descriptor of the array in `failing`.
3. *Event for another file* (`epoll.go:134`): slots are reused by number within a batch.
   `EventReachesOwner` fails in setups with expiring descriptors.
4. *Reused handler* (`io_handle.go:26`): `asyncWriteWaiting` survives `Init`, and queued data of
   the next connection does not arm EvOut; `QueuedIsArmed` fails without its exception for `stale`.
5. *Timer never run* (`timer_4heap.go:89`): `schedule` trusts `timerfdSettime`, which `OnRead` does
   not maintain. A timer for that very time is not armed: after a cancel, which is why
   `TimersRunUnlessCancelled` is restricted to behaviours without one, and also for delays within
   the tolerance, for instance a delay of 0 in the millisecond of the last expiry. With delays of 0
   or 1 in the run `OnTimeUnlessCancelled` fails without a cancel; the attempt to prove it
   brought this up, and `LongDelays` is what excludes it.
6. *OnRead never returns* (`timer_4heap.go:125`): intervals of 1 or 2 ms; `OnReadReturns` fails
   with an interval within the tolerance.
7. *Late timers after cancel* (`timer_4heap.go:114`): why `OnTimeUnlessCancelled` is
   restricted to behaviours without a cancel.
8. *Cancel in the timer's own OnTimeout* (`timer_4heap.go:137`): a nil handler is called; the
   model has it as `panicked`.
9. *Gap of the size classes* (`bufpool.go:65`): lengths above 1023 KiB up to 1 MiB; theorem
   `GapIsOutOfRange`.
10. *Refused connect* (`connector.go:192`): EPOLLERR leads to `OnClose` only, the timer stays, and
    `OnTimeout` removes descriptor -1; `EveryConnectReported` ends at such a crash. In a pool
    `toNewNum` stays above 0 until then, and `RoundsEnd` ends at the crash, too.
11. *Two notifications* (`ev_data.go:84`): beyond the array, a connect that timed out in the
    batch that holds its event is reported by `OnConnectFail` and then by `OnOpen`, without a
    descriptor. A pool lowers `toNewNum` twice: at -1 no round ever starts again, or one starts
    while a connect of the last is under way.
12. *liveNum drifts* (`connect_pool.go:182`): a new handler whose `OnOpen` returns false is
    subtracted without having been added.
13. *Closed connections in the pool* (`connect_pool.go:105`): `Acquire` may return a connection
    that was closed while it was idle.
14. *Acceptor lost* (`acceptor.go:198`): an error of `AddEvHandler` in `OnTimeout` is ignored; the
    acceptor is neither registered nor timed any more.
15. *Run returns nil* (`reactor.go:118`): `wg.Done` comes before the error is collected.
16. *Masks differ* (`epoll.go:92`): two overlapping `AppendEvent` or `RemoveEvent` calls lose an
    update, or reach the kernel in the other order than `evData`.
17. *PCachedGet in OnOpen* (`io_handle.go:108`, `example/download.go:44`): a map is read in one
    goroutine while another writes it; `<<acceptor's caller, evPoll>>` appears in `torn`.
18. *Fragments stay masked* (`example/websocket.go:457`): only final frames are unmasked, and
    the answer to fragments of a binary message is text.
19. *Data of another connection* (`io_handle_async.go:87`): an item pushed by `AsyncWrite` before a
    close is written to the next connection of a reused handler. `Destroy` cannot reach what is
    still in the hand-over queue, and `asyncWriteItem.fd` is never compared. `StreamOrder` fails
    without its exception for `late` (`AsyncWrite`, `AsyncPush`, `OnClose`, `Reuse`,
    `AsyncOrderedWrite`).
20. *AsyncWrite panics* (`io_handle_async.go:72`): the check that handler and `IOHandle` are the
    same object compares two loads of the descriptor, between which the evPoll goroutine may close
    it. The model has it as `panicked`, at which `QueueDrains` ends.

## 7. What is not modelled

* The unsynchronised access to the timer heap by `schedule` outside the evPoll goroutine
  (`connector.go:142`): Connector models when the timer is set, Timer4Heap has one goroutine.
* Reuse of descriptor numbers in Connector; EvPoll is about it.
* Failures of system calls that cannot fail for valid arguments (reading an eventfd,
  `timerfd_settime`).
* No run of WritePath has empty data: the empty buffer of an `AsyncWrite` stays at the head of the
  queue for ever, since it is complete only if something of it was written, and giving it back
  panics (BufPool: 0 is not a `Safe` length). The theorems of StreamProofs include it, up to
  that panic.
* `Options`, `netfd`, address parsing and socket options: no control state. Of the examples only
  the receiving side of the WebSocket server keeps state between callbacks that is worth a
  model; `techempower.go` and `async_http.go` parse a request within one callback. The
  WebSocket server's `OnTimeout` (a ping) is never scheduled, its request parser and `maskBytes`
  are byte-level algorithms without state, and its writes are WritePath. `OnUpgrade`, `NewAcceptor`
  and Connector's `Connect` choose an outcome in place of the parsing and the socket options before
  it, which no entry of the map counts as modelled.
* An Acceptor that meets ENFILE has no back-off and is called again at once; the model has it as
  `AcceptBreak` with the backlog unchanged.
* In Reactor, a torn map access (a fatal error of Go's runtime) is recorded and has no effect.
* Memory is sequentially consistent: Go's atomics and mutexes are, and the unsynchronised
  accesses of `evData` by `add` and `run` are ordered by the system calls in between.

## 8. Plan

The order of the work followed the path of a connection: the hand-over queue and its ring
buffer, the evPoll, the sending side, buffers and timers, the ways connections come about, the
reactor, the WebSocket server. Every component with control state has a module, and every safety
property of a run has a theorem. What could follow: composing Connector with Timer4Heap for the
unsynchronised `schedule` of section 7, once it is decided what a torn slice write may leave; and
the byte-level algorithms of the examples.

Only one run exhibits a defect (`notify_lost_wakeup`). For the others the passing run allows
the behaviour and its property names the exception, so that it is clear how far the promise holds.
