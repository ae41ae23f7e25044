----------------------------- MODULE RingBuffer -----------------------------
(***************************************************************************)
(* ringbuffer.go: the growing ring buffer behind the two queues of         *)
(* asyncWrite and pollSyncOpt and behind IOHandle.asyncWriteBufQ.  Its     *)
(* owner serialises the calls, so each method is one step.                 *)
(***************************************************************************)
EXTENDS Integers, Sequences

CONSTANTS Values,       \* what may be stored
          Zero,         \* the zero value of the element type
          InitCap,      \* argument of NewRingBuffer
          MaxLen        \* bound: elements stored at a time

(* Every caller passes a positive constant (4, 8, 256); make([]T, 0) would never
   grow, twice nothing being nothing. *)
ASSUME RingBufferAssumption == /\ InitCap \in Nat \ {0}
                               /\ MaxLen \in Nat
                               /\ Zero \notin Values

VARIABLES rb,           \* the struct: size, head, tail, len and buffer
          ret           \* result of the last PopFront

rbVars == <<rb, ret>>

Slots(size) == 0..(size - 1)

-----------------------------------------------------------------------------
NewRingBuffer(initCap) ==
  [size |-> initCap, head |-> 0, tail |-> 0, len |-> 0,
   buffer |-> [i \in Slots(initCap) |-> Zero]]

RBInit == /\ rb = NewRingBuffer(InitCap)
          /\ ret = [data |-> Zero, ok |-> FALSE]

(* Deviation: the old array is copied as it lies, not starting from head. *)
GrowUnrotated(r) ==
  [size |-> 2 * r.size, head |-> 0, tail |-> r.size, len |-> r.len,
   buffer |-> [i \in Slots(2 * r.size) |-> IF i < r.size THEN r.buffer[i] ELSE Zero]]

(* grow: copy buffer[head:tail], or buffer[head:] and buffer[:tail], to the
   start of an array twice as large. *)
Grow(r) ==
  LET upper == IF r.tail > r.head THEN r.tail - r.head ELSE r.size - r.head
      lower == IF r.tail > r.head THEN 0 ELSE r.tail
  IN  [size |-> 2 * r.size, head |-> 0, tail |-> upper + lower, len |-> r.len,
       buffer |-> [i \in Slots(2 * r.size) |->
                     IF i < upper THEN r.buffer[r.head + i]
                     ELSE IF i < upper + lower THEN r.buffer[i - upper]
                     ELSE Zero]]

WithRoom(r) == IF r.len = r.size THEN Grow(r) ELSE r

(* Deviation: the index after the last slot is not wrapped. *)
BackNoWrap(r, v) == [size |-> r.size, head |-> r.head, tail |-> r.tail + 1,
                     len |-> r.len + 1,
                     buffer |-> [r.buffer EXCEPT ![r.tail] = v]]

(* What PushBack makes of a buffer with room. *)
Back(r, v) == [size |-> r.size, head |-> r.head, tail |-> (r.tail + 1) % r.size,
               len |-> r.len + 1,
               buffer |-> [r.buffer EXCEPT ![r.tail] = v]]

PushBack(v) == /\ rb.len < MaxLen
               /\ rb' = Back(WithRoom(rb), v)
               /\ UNCHANGED ret

(* What PushFront makes of a buffer with room. *)
Front(r, v) ==
  LET prev == (r.size + r.head - 1) % r.size
  IN  [size |-> r.size, head |-> prev, tail |-> r.tail, len |-> r.len + 1,
       buffer |-> [r.buffer EXCEPT ![prev] = v]]

PushFront(v) == /\ rb.len < MaxLen
                /\ rb' = Front(WithRoom(rb), v)
                /\ UNCHANGED ret

(* Deviation: the slot is read but not cleared. *)
PoppedUncleared(r) == [size |-> r.size, head |-> (r.head + 1) % r.size, tail |-> r.tail,
                       len |-> r.len - 1, buffer |-> r.buffer]

(* What PopFront makes of a buffer that is not empty. *)
Popped(r) == [size |-> r.size, head |-> (r.head + 1) % r.size, tail |-> r.tail,
              len |-> r.len - 1,
              buffer |-> [r.buffer EXCEPT ![r.head] = Zero]]

PopFront == \/ /\ rb.len = 0
               /\ ret' = [data |-> Zero, ok |-> FALSE]
               /\ UNCHANGED rb
            \/ /\ rb.len # 0
               /\ ret' = [data |-> rb.buffer[rb.head], ok |-> TRUE]
               /\ rb' = Popped(rb)

RBNext == (\E v \in Values : PushBack(v) \/ PushFront(v)) \/ PopFront

RBSpec == RBInit /\ [][RBNext]_rbVars

-----------------------------------------------------------------------------
(* The fields have their types: the indices are within the array. *)
Shape(r) == /\ r.size \in Nat \ {0}
            /\ r.head \in Slots(r.size)
            /\ r.tail \in Slots(r.size)
            /\ r.len \in 0..r.size
            /\ r.buffer \in [Slots(r.size) -> Values \cup {Zero}]

RBTypeOK == /\ Shape(rb)
            /\ ret \in [data : Values \cup {Zero}, ok : BOOLEAN]

(* In an array of n slots with the first element in slot h: the slot of element
   i, and the element of slot s; elements are counted from 0. *)
SlotOf(n, h, i) == IF h + i < n THEN h + i ELSE h + i - n
ElementOf(n, h, s) == IF s >= h THEN s - h ELSE s + n - h

Window(r) == /\ r.tail = SlotOf(r.size, r.head, r.len)
             /\ \A s \in Slots(r.size) :
                  r.buffer[s] # Zero <=> ElementOf(r.size, r.head, s) < r.len

(* The two ends of the window agree with its length, so that a full buffer,
   where tail = head, is told from an empty one; exactly the slots inside the
   window hold values, and every slot PopFront has vacated was cleared
   (ringbuffer.go:60), through any mix of pushes at both ends and growth. *)
WindowInv == Window(rb)

(* What the ring buffer represents. *)
ContentsOf(r) == [i \in 1..r.len |-> r.buffer[SlotOf(r.size, r.head, i - 1)]]
Contents == ContentsOf(rb)

DQ == INSTANCE Deque WITH items <- Contents

(* Through wrap-around, pushes at both ends and growth, the ring buffer behaves
   as an unbounded deque, PopFront returning its first element. *)
DequeSpec == DQ!Spec
=============================================================================
