----------------------------- MODULE DataProofs -----------------------------
(***************************************************************************)
(* The data structures, and the queue between goroutines.                  *)
(*                                                                         *)
(* BufPool: for every set of lengths, what lies in a pool has the class's  *)
(* size; for every set of lengths that avoids the one gap of the class     *)
(* boundaries, BMalloc and BFree never panic.  RingBuffer: for any initial *)
(* capacity and element type, it is a deque.  NotifyQueue: for any set of  *)
(* producers, any number of pushes and any batch size, nothing is lost,    *)
(* doubled or reordered, and at most one wake-up is under way.             *)
(***************************************************************************)
EXTENDS BufPool, RingBuffer, NotifyQueue, SequenceTheorems, TLAPS

-----------------------------------------------------------------------------
(* BufPool. *)

(* Lengths for which BMalloc and BFree agree on a class that exists: not empty,
   and not above 1023K up to 1M. *)
Safe(s) == s >= 1 /\ ~(s > K * KbLen /\ s <= M)

-----------------------------------------------------------------------------
(* The arithmetic of the classes *)

(* The three ranges of BMalloc's if-chain: the class found for s is large enough
   for s, and its size is a number. *)
LEMMA ClassFits ==
  ASSUME NEW s \in Nat, s >= 1
  PROVE  ClassSize(Class(s)) \in Nat /\ s <= ClassSize(Class(s))
<1>1. CASE s < 128 * 7 + 1
  <2>1. Class(s) = <<"bt", (s + 127) \div 128 - 1>>
    BY <1>1 DEF Class
  <2>2. ClassSize(Class(s)) = ((s + 127) \div 128) * 128
    BY <2>1 DEF ClassSize
  <2> QED BY <2>2
<1>2. CASE ~(s < 128 * 7 + 1) /\ s < M + 1
  <2>1. Class(s) = <<"kb", (s + 1023) \div K - 1>>
    BY <1>2 DEF Class
  <2>2. ClassSize(Class(s)) = ((s + 1023) \div 1024) * 1024
    BY <2>1 DEF ClassSize, K
  <2> QED BY <2>2
<1>3. CASE ~(s < 128 * 7 + 1) /\ ~(s < M + 1)
  <2>1. Class(s) = <<"mb", (s + (M - 1)) \div M - 1>>
    BY <1>3 DEF Class
  <2>2. ClassSize(Class(s)) = ((s + 1048575) \div 1048576) * 1048576
    BY <2>1 DEF ClassSize, M
  <2> QED BY <2>2
<1> QED BY <1>1, <1>2, <1>3

(* For a safe length the index is one of the array's, and a buffer of the class's
   size is safe to free. *)
LEMMA SafeInRange ==
  ASSUME NEW s \in Nat, Safe(s), Pooled(s)
  PROVE  InRange(Class(s)) /\ Safe(ClassSize(Class(s)))
<1>1. CASE s < 128 * 7 + 1
  <2>1. Class(s) = <<"bt", (s + 127) \div 128 - 1>>
    BY <1>1 DEF Class
  <2>2. ClassSize(Class(s)) = ((s + 127) \div 128) * 128
    BY <2>1 DEF ClassSize
  <2>3. (s + 127) \div 128 \in 1..7
    BY <1>1 DEF Safe
  <2>4. InRange(Class(s))
    BY <2>1, <2>3 DEF InRange, PoolLen, BtLen
  <2> QED BY <2>2, <2>3, <2>4 DEF Safe, K, KbLen
<1>2. CASE ~(s < 128 * 7 + 1) /\ s < M + 1
  <2>1. Class(s) = <<"kb", (s + 1023) \div K - 1>>
    BY <1>2 DEF Class
  <2>2. ClassSize(Class(s)) = ((s + 1023) \div 1024) * 1024
    BY <2>1 DEF ClassSize, K
  <2>3. (s + 1023) \div 1024 \in 1..1023
    BY <1>2 DEF Safe, K, M, KbLen
  <2>4. InRange(Class(s))
    BY <2>1, <2>3 DEF InRange, PoolLen, KbLen, K
  <2> QED BY <2>2, <2>3, <2>4 DEF Safe, K, KbLen
<1>3. CASE ~(s < 128 * 7 + 1) /\ ~(s < M + 1)
  <2>1. Class(s) = <<"mb", (s + (M - 1)) \div M - 1>>
    BY <1>3 DEF Class
  <2>2. ClassSize(Class(s)) = ((s + 1048575) \div 1048576) * 1048576
    BY <2>1 DEF ClassSize, M
  <2>3. (s + 1048575) \div 1048576 \in 2..16
    BY <1>3 DEF Pooled, M, MbLen
  <2>4. InRange(Class(s))
    BY <2>1, <2>3 DEF InRange, PoolLen, MbLen, M
  <2> QED BY <2>2, <2>3, <2>4 DEF Safe, K, M, KbLen
<1> QED BY <1>1, <1>2, <1>3

(* bufpool.go:65: every length above 1023K up to 1M selects kbPool[1023], which
   does not exist.  So the restriction to safe lengths below is needed. *)
THEOREM GapIsOutOfRange ==
  ASSUME NEW s \in Nat, s > K * KbLen, s <= M
  PROVE  Pooled(s) /\ ~InRange(Class(s))
<1>1. Class(s) = <<"kb", (s + 1023) \div K - 1>>
  BY DEF Class, K, KbLen, M
<1>2. (s + 1023) \div K - 1 = 1023
  BY DEF K, KbLen, M
<1> QED BY <1>1, <1>2 DEF InRange, PoolLen, KbLen, Pooled, M, MbLen

-----------------------------------------------------------------------------
(* Hand panics exactly if the slice bound is beyond the capacity. *)

(* A comparison is a truth value, so panicked stays one. *)
LEMMA HandSwitches ==
  ASSUME NEW g, NEW b, NEW k, NEW n, Hand(g, b, k, n)
  PROVE  panicked' \in BOOLEAN
<1>1. (n > k) \in BOOLEAN
  OBVIOUS
<1> QED BY <1>1, Zenon DEF Hand

(* A cut within the capacity does not panic. *)
LEMMA HandFits ==
  ASSUME NEW g, NEW b, NEW k \in Nat, NEW n \in Nat, n <= k, Hand(g, b, k, n)
  PROVE  ~panicked'
<1>1. ~(n > k)
  OBVIOUS
<1> QED BY <1>1, Zenon DEF Hand

-----------------------------------------------------------------------------
(* Ownership of buffers: in one client's hands, or in one pool, or gone. *)

Types == /\ pool \in [Classes -> SUBSET Buffers]
         /\ cap \in [Buffers -> Nat \cup {None}]
         /\ asking \in [Clients -> Lengths \cup {None}]
         /\ held \in [Clients -> Buffers \cup {None}]

Owned == /\ \A g \in Clients : held[g] # None => /\ cap[held[g]] # None
                                                 /\ \A c \in Classes : held[g] \notin pool[c]
         /\ \A g, h \in Clients : held[g] = held[h] /\ held[g] # None => g = h
         /\ \A c, d \in Classes : \A b \in pool[c] : b \in pool[d] => c = d

BPInv == Types /\ Owned /\ PoolsHoldClassSize

(* What a client is asking for has a class. *)
AskingInv == \A g \in Clients : asking[g] # None => asking[g] >= 1 /\ Pooled(asking[g])

(* Buffers handed out are fresh, or leave the one pool they were in; a buffer is
   freed by the one client that has it. *)
LEMMA OwnershipStep == BPInv /\ AskingInv /\ [BPNext]_bpVars => BPInv' /\ AskingInv'
<1> SUFFICES ASSUME BPInv, AskingInv, [BPNext]_bpVars
             PROVE  BPInv' /\ AskingInv'
  OBVIOUS
<1> USE BufPoolAssumption
<1>a. \A c \in Classes : ClassSize(c) \in Nat
  BY ClassFits DEF Classes
<1>b. \A s \in Lengths : s >= 1 /\ Pooled(s) => Class(s) \in Classes
  BY DEF Classes
<1> HIDE DEF Classes, Class, ClassSize, Pooled
<1>1. ASSUME NEW g \in Clients, NEW s \in Lengths, BMalloc(g, s)
      PROVE  BPInv' /\ AskingInv'
  <2>1. CASE UNCHANGED <<cap, held>>
    BY <1>1, <2>1 DEF BMalloc, Hand, BPInv, Types, Owned, PoolsHoldClassSize, AskingInv
  <2>2. CASE \E b \in Buffers : NoBuffer(b) /\ Hand(g, b, s, s)
    BY <1>1, <2>2, <1>a
       DEF BMalloc, NoBuffer, Hand, BPInv, Types, Owned, PoolsHoldClassSize, AskingInv
  <2> QED BY <1>1, <2>1, <2>2 DEF BMalloc
<1>2. ASSUME NEW g \in Clients, Alloc(g)
      PROVE  BPInv' /\ AskingInv'
  <2> DEFINE s == asking[g]
             c == Class(s)
  <2>1. s \in Lengths /\ s >= 1 /\ Pooled(s) /\ c \in Classes
    BY <1>2, <1>b DEF Alloc, BPInv, Types, AskingInv
  <2> HIDE DEF s, c
  <2>2. ASSUME NEW b \in Buffers, NEW k \in Nat, NEW n, NoBuffer(b), Hand(g, b, k, n), UNCHANGED pool
        PROVE  BPInv' /\ AskingInv'
    BY <2>2, <1>a DEF NoBuffer, Hand, BPInv, Types, Owned, PoolsHoldClassSize, AskingInv
  <2>3. ASSUME NEW b \in pool[c], NEW n, Hand(g, b, cap[b], n),
               pool' = [pool EXCEPT ![c] = @ \ {b}]
        PROVE  BPInv' /\ AskingInv'
    <3>1. b \in Buffers /\ cap[b] = ClassSize(c) /\ cap[b] \in Nat /\ cap' = cap
      BY <2>1, <2>3, <1>a DEF Hand, BPInv, Types, PoolsHoldClassSize
    <3>2. Types' /\ PoolsHoldClassSize' /\ AskingInv'
      BY <2>1, <2>3, <3>1 DEF Hand, BPInv, Types, PoolsHoldClassSize, AskingInv
    <3>3. Owned'
      BY <2>1, <2>3, <3>1 DEF Hand, BPInv, Types, Owned
    <3> QED BY <3>2, <3>3 DEF BPInv
  <2>4. s \in Nat /\ ClassSize(c) \in Nat
    BY <2>1, <1>a
  <2> QED
    BY <1>2, <2>2, <2>3, <2>4 DEF Alloc, s, c
<1>3. ASSUME NEW g \in Clients, BFree(g)
      PROVE  BPInv' /\ AskingInv'
  <2> DEFINE b == held[g]
             c == Class(cap[b])
  <2>1. b \in Buffers /\ cap[b] # None /\ cap[b] \in Nat
    BY <1>3 DEF BFree, BPInv, Types, Owned
  <2>2. held' = [held EXCEPT ![g] = None] /\ UNCHANGED asking
    BY <1>3 DEF BFree
  <2>3. CASE UNCHANGED <<pool, cap>>
    BY <2>2, <2>3 DEF BPInv, Types, Owned, PoolsHoldClassSize, AskingInv
  <2>4. CASE TakesBack(c, cap[b]) /\ pool' = [pool EXCEPT ![c] = @ \cup {b}] /\ UNCHANGED cap
    <3>1. cap[b] = ClassSize(c)
      BY <2>4 DEF TakesBack
    <3> HIDE DEF b, c
    <3>2. \A d \in Classes : b \notin pool[d]
      BY <2>1 DEF b, BPInv, Owned
    <3>3. Types' /\ PoolsHoldClassSize' /\ AskingInv'
      BY <2>1, <2>2, <2>4, <3>1 DEF BPInv, Types, PoolsHoldClassSize, AskingInv
    <3>4. \A h \in Clients : held'[h] # None => held'[h] = held[h] /\ held'[h] # b
      BY <2>1, <2>2 DEF b, BPInv, Types, Owned
    <3>5. Owned'
      BY <2>1, <2>4, <3>2, <3>4 DEF BPInv, Types, Owned
    <3> QED BY <3>3, <3>5 DEF BPInv
  <2>5. CASE cap' = [cap EXCEPT ![b] = None] /\ UNCHANGED pool
    BY <2>1, <2>2, <2>5 DEF BPInv, Types, Owned, PoolsHoldClassSize, AskingInv
  <2> QED BY <1>3, <2>3, <2>4, <2>5 DEF BFree
<1>4. ASSUME NEW c \in Classes, Evict(c)
      PROVE  BPInv' /\ AskingInv'
  BY <1>4 DEF Evict, BPInv, Types, Owned, PoolsHoldClassSize, AskingInv
<1>5. ASSUME NEW c \in Classes, Adjust(c)
      PROVE  BPInv' /\ AskingInv'
  BY <1>5 DEF Adjust, BPInv, Types, Owned, PoolsHoldClassSize, AskingInv
<1>6. CASE UNCHANGED bpVars
  BY <1>6 DEF bpVars, BPInv, Types, Owned, PoolsHoldClassSize, AskingInv
<1> QED BY <1>1, <1>2, <1>3, <1>4, <1>5, <1>6 DEF BPNext

(* The pools start empty. *)
LEMMA OwnershipInit == BPInit => BPInv /\ AskingInv
  BY DEF BPInit, BPInv, Types, Owned, PoolsHoldClassSize, AskingInv

(* buffPool.free (bufpool.go:134) keeps odd capacities out: for every set of
   lengths what lies in the pool of a class has the class's size. *)
THEOREM PoolsAreExact == BPSpec => []PoolsHoldClassSize
<1>1. BPInv => PoolsHoldClassSize
  BY DEF BPInv
<1> QED BY <1>1, OwnershipInit, OwnershipStep, PTL DEF BPSpec

(* The counters, switches and buffers of bufpool.go keep their types for every set
   of lengths, the length a client gets being one it asked for. *)
THEOREM BPTypeCorrect == BPSpec => []BPTypeOK
<1> USE BufPoolAssumption
<1> DEFINE Numbers == /\ allocTimes \in [Classes -> 0..MaxAllocs]
                      /\ len \in [Clients -> Lengths \cup {0}]
           Switches == disabled \in [Classes -> BOOLEAN] /\ panicked \in BOOLEAN
<1>1. BPInit => Numbers /\ Switches
  <2>1. BPInit => Numbers
    BY DEF BPInit
  <2>2. BPInit => Switches
    BY Zenon DEF BPInit
  <2> QED BY <2>1, <2>2
<1>2. BPInv /\ Numbers /\ [BPNext]_bpVars => Numbers'
  <2> SUFFICES ASSUME BPInv, Numbers, [BPNext]_bpVars
               PROVE  Numbers'
    OBVIOUS
  <2> HIDE DEF Classes, Class, ClassSize, Pooled
  <2>1. ASSUME NEW g \in Clients, NEW s \in Lengths, BMalloc(g, s)
        PROVE  Numbers'
    BY <2>1 DEF BMalloc, Hand
  <2>2. ASSUME NEW g \in Clients, Alloc(g)
        PROVE  Numbers'
    <3>1. asking[g] \in Lengths /\ Cut(Class(asking[g]), asking[g]) = asking[g]
      BY <2>2 DEF Alloc, Cut, BPInv, Types
    <3>2. len' = [len EXCEPT ![g] = asking[g]] /\ UNCHANGED allocTimes
      BY <2>2, <3>1 DEF Alloc, Hand
    <3> QED BY <3>1, <3>2
  <2>3. ASSUME NEW g \in Clients, BFree(g)
        PROVE  Numbers'
    BY <2>3 DEF BFree
  <2>4. ASSUME NEW c \in Classes, Evict(c) \/ Adjust(c)
        PROVE  Numbers'
    BY <2>4 DEF Evict, Adjust
  <2>5. CASE UNCHANGED bpVars
    BY <2>5 DEF bpVars
  <2> QED BY <2>1, <2>2, <2>3, <2>4, <2>5 DEF BPNext
<1>3. Switches /\ [BPNext]_bpVars => Switches'
  <2> SUFFICES ASSUME Switches, [BPNext]_bpVars
               PROVE  Switches'
    OBVIOUS
  <2>1. disabled' \in [Classes -> BOOLEAN]
    <3>1. CASE \E c \in Classes : Adjust(c)
      <4>1. PICK c \in Classes : disabled' = [disabled EXCEPT ![c] = allocTimes[c] < ActiveTimes]
        BY <3>1 DEF Adjust
      <4>2. (allocTimes[c] < ActiveTimes) \in BOOLEAN
        OBVIOUS
      <4> QED BY <4>1, <4>2, Zenon
    <3>2. CASE UNCHANGED disabled
      BY <3>2
    <3> QED BY <3>1, <3>2 DEF BPNext, BMalloc, Alloc, BFree, Evict, bpVars
  <2>2. panicked' \in BOOLEAN
    <3>1. ASSUME NEW g \in Clients, NEW s \in Lengths, BMalloc(g, s)
          PROVE  panicked' \in BOOLEAN
      BY <3>1, HandSwitches, Zenon DEF BMalloc
    <3>2. ASSUME NEW g \in Clients, Alloc(g)
          PROVE  panicked' \in BOOLEAN
      BY <3>2, HandSwitches, Zenon DEF Alloc
    <3>3. ASSUME NEW g \in Clients, BFree(g)
          PROVE  panicked' \in BOOLEAN
      BY <3>3, Zenon DEF BFree
    <3>4. ASSUME NEW c \in Classes, Evict(c) \/ Adjust(c)
          PROVE  panicked' \in BOOLEAN
      BY <3>4, Zenon DEF Evict, Adjust
    <3>5. CASE UNCHANGED bpVars
      BY <3>5, Zenon DEF bpVars
    <3> QED BY <3>1, <3>2, <3>3, <3>4, <3>5 DEF BPNext
  <2> QED BY <2>1, <2>2
<1>4. BPInv /\ Numbers /\ Switches => BPTypeOK
  BY DEF BPInv, Types, BPTypeOK
<1> HIDE DEF Numbers, Switches
<1> QED BY <1>1, <1>2, <1>3, <1>4, OwnershipInit, OwnershipStep, PTL DEF BPSpec

-----------------------------------------------------------------------------
(* Safe lengths *)

SafeInv == /\ ~panicked
           /\ \A g \in Clients : held[g] # None => Safe(cap[held[g]])

(* With safe lengths a client never comes by a buffer that BFree cannot place. *)
LEMMA SafeStep ==
  ASSUME \A s \in Lengths : Safe(s)
  PROVE  BPInv /\ AskingInv /\ SafeInv /\ [BPNext]_bpVars => SafeInv'
<1> SUFFICES ASSUME BPInv, AskingInv, SafeInv, [BPNext]_bpVars
             PROVE  SafeInv'
  OBVIOUS
<1> USE BufPoolAssumption
<1>a. ASSUME NEW c \in Classes PROVE Safe(ClassSize(c)) /\ ClassSize(c) \in Nat
  <2>1. PICK s \in Lengths : c = Class(s) /\ s > 0 /\ Pooled(s)
    BY DEF Classes
  <2>2. s \in Nat /\ s >= 1 /\ Safe(s)
    BY <2>1
  <2> QED BY <2>1, <2>2, SafeInRange, ClassFits
<1>b. \A s \in Lengths : s >= 1 /\ Pooled(s) =>
        Class(s) \in Classes /\ InRange(Class(s)) /\ s <= ClassSize(Class(s))
  BY SafeInRange, ClassFits DEF Classes
<1>c. \A s \in Lengths : s \in Nat /\ s >= 1
  BY DEF Safe
<1> HIDE DEF Classes, Class, ClassSize, Pooled, InRange, Safe
<1>1. ASSUME NEW g \in Clients, NEW s \in Lengths, BMalloc(g, s)
      PROVE  SafeInv'
  <2>1. CASE UNCHANGED <<cap, held, panicked>>
    BY <1>1, <2>1 DEF BMalloc, SafeInv
  <2>2. CASE \E b \in Buffers : NoBuffer(b) /\ Hand(g, b, s, s)
    <3>1. PICK b \in Buffers : NoBuffer(b) /\ Hand(g, b, s, s)
      BY <2>2
    <3>2. ~panicked'
      BY <1>c, <3>1, HandFits
    <3>3. /\ held' = [held EXCEPT ![g] = b] /\ cap' = [cap EXCEPT ![b] = s]
          /\ \A h \in Clients : held[h] # None => held[h] # b
          /\ Safe(s)
      BY <3>1 DEF NoBuffer, Hand, BPInv, Owned
    <3> QED BY <3>2, <3>3 DEF BPInv, Types, SafeInv
  <2> QED BY <1>1, <1>b, <2>1, <2>2 DEF BMalloc
<1>2. ASSUME NEW g \in Clients, Alloc(g)
      PROVE  SafeInv'
  <2> DEFINE s == asking[g]
             c == Class(s)
  <2>1. s \in Lengths /\ s \in Nat /\ c \in Classes /\ s <= ClassSize(c) /\ Safe(s)
    BY <1>2, <1>b DEF Alloc, BPInv, Types, AskingInv
  <2>2. Cut(c, s) = s /\ ClassSize(c) \in Nat /\ Safe(ClassSize(c))
    BY <2>1, <1>a DEF Cut
  <2> HIDE DEF s, c
  <2>3. ASSUME NEW b \in Buffers, NEW k \in Nat, Safe(k), s <= k, Hand(g, b, k, s),
               NoBuffer(b) \/ cap[b] = k
        PROVE  SafeInv'
    <3>1. ~panicked'
      BY <2>1, <2>3, HandFits
    <3>2. held' = [held EXCEPT ![g] = b] /\ cap' = [cap EXCEPT ![b] = k]
      BY <2>3 DEF Hand
    <3>3. \A h \in Clients : held[h] # None => held[h] # b \/ cap[b] = k
      BY <2>3 DEF NoBuffer, BPInv, Owned
    <3> QED BY <2>3, <3>1, <3>2, <3>3 DEF BPInv, Types, SafeInv
  <2>4. \A b \in pool[c] : b \in Buffers /\ cap[b] = ClassSize(c)
    BY <2>1 DEF BPInv, Types, PoolsHoldClassSize
  <2>5. CASE \E b \in Buffers : NoBuffer(b) /\ Hand(g, b, s, s)
    BY <2>1, <2>3, <2>5
  <2>6. CASE \E b \in pool[c] : Hand(g, b, cap[b], Cut(c, s))
    BY <2>1, <2>2, <2>3, <2>4, <2>6
  <2>7. CASE \E b \in Buffers : NoBuffer(b) /\ Hand(g, b, ClassSize(c), Cut(c, s))
    BY <2>1, <2>2, <2>3, <2>7
  <2> QED
    BY <1>2, <2>5, <2>6, <2>7 DEF Alloc, s, c
<1>3. ASSUME NEW g \in Clients, BFree(g)
      PROVE  SafeInv'
  <2>1. held[g] \in Buffers /\ cap[held[g]] \in Nat /\ Safe(cap[held[g]])
    BY <1>3 DEF BFree, BPInv, Types, Owned, SafeInv
  <2>2. Pooled(cap[held[g]]) => InRange(Class(cap[held[g]]))
    BY <2>1, SafeInRange
  <2>3. ~panicked' /\ held' = [held EXCEPT ![g] = None]
    BY <1>3, <2>2 DEF BFree, SafeInv
  <2>4. \A h \in Clients : held'[h] # None => held'[h] = held[h] /\ held[h] # held[g]
    BY <2>1, <2>3 DEF BPInv, Types, Owned
  <2>5. \A b \in Buffers : b # held[g] => cap'[b] = cap[b]
    BY <1>3 DEF BFree, BPInv, Types
  <2> QED
    BY <2>3, <2>4, <2>5 DEF SafeInv, BPInv, Types
<1>4. ASSUME NEW c \in Classes, Evict(c)
      PROVE  SafeInv'
  BY <1>4 DEF Evict, BPInv, Types, Owned, SafeInv
<1>5. ASSUME NEW c \in Classes, Adjust(c)
      PROVE  SafeInv'
  BY <1>5 DEF Adjust, SafeInv
<1>6. CASE UNCHANGED bpVars
  BY <1>6 DEF bpVars, SafeInv
<1> QED BY <1>1, <1>2, <1>3, <1>4, <1>5, <1>6 DEF BPNext

(* With lengths outside the gap of bufpool.go:65, BMalloc and BFree never index a
   pool that does not exist and never cut a buffer beyond its capacity, however
   allocation, switching and eviction interleave. *)
THEOREM SafeLengthsNeverPanic ==
  ASSUME \A s \in Lengths : Safe(s)
  PROVE  BPSpec => []NoPanic
<1>1. BPInit => SafeInv
  BY DEF BPInit, SafeInv
<1>2. SafeInv => NoPanic
  BY DEF SafeInv, NoPanic
<1>3. BPInv /\ AskingInv /\ SafeInv /\ [BPNext]_bpVars => SafeInv'
  BY SafeStep
<1> QED BY <1>1, <1>2, <1>3, OwnershipInit, OwnershipStep, PTL DEF BPSpec

-----------------------------------------------------------------------------
(* RingBuffer. *)

USE RingBufferAssumption

(* Moving an index one slot forward, as PushBack and PopFront do. *)
LEMMA NextSlot ==
  ASSUME NEW n \in Nat \ {0}, NEW i \in 0..(n - 1)
  PROVE  (i + 1) % n = IF i + 1 = n THEN 0 ELSE i + 1
OBVIOUS

(* Moving an index one slot back, as PushFront does. *)
LEMMA PrevSlot ==
  ASSUME NEW n \in Nat \ {0}, NEW i \in 0..(n - 1)
  PROVE  (n + i - 1) % n = IF i = 0 THEN n - 1 ELSE i - 1
OBVIOUS

(* SlotOf and ElementOf are inverse to each other. *)
LEMMA SlotElement ==
  ASSUME NEW n \in Nat \ {0}, NEW h \in 0..(n - 1), NEW i \in 0..(n - 1)
  PROVE  /\ SlotOf(n, h, i) \in 0..(n - 1)
         /\ ElementOf(n, h, i) \in 0..(n - 1)
         /\ ElementOf(n, h, SlotOf(n, h, i)) = i
         /\ SlotOf(n, h, ElementOf(n, h, i)) = i
BY DEF SlotOf, ElementOf

(* The slot after the last element moves on with it. *)
LEMMA SlotStep ==
  ASSUME NEW n \in Nat \ {0}, NEW h \in 0..(n - 1), NEW i \in 0..(n - 1)
  PROVE  SlotOf(n, h, i + 1) = (SlotOf(n, h, i) + 1) % n
<1>1. SlotOf(n, h, i) \in 0..(n - 1)
  BY SlotElement
<1>2. (SlotOf(n, h, i) + 1) % n = IF SlotOf(n, h, i) + 1 = n THEN 0 ELSE SlotOf(n, h, i) + 1
  BY <1>1, NextSlot
<1>3. QED
  BY <1>2 DEF SlotOf

(* What becomes of slots and elements when head moves from h one slot forward to
   k, or one slot back to k. *)
Forward(n, h, k) == \A i \in 0..(n - 1) :
  /\ k \in 0..(n - 1)
  /\ SlotOf(n, k, i) = SlotOf(n, h, i + 1)
  /\ i # h => ElementOf(n, k, i) = ElementOf(n, h, i) - 1
  /\ ElementOf(n, k, h) = n - 1 /\ ElementOf(n, h, h) = 0

Backward(n, h, k) == \A i \in 0..(n - 1) :
  /\ k \in 0..(n - 1) /\ SlotOf(n, k, 0) = k
  /\ SlotOf(n, k, i + 1) = SlotOf(n, h, i)
  /\ i # k => ElementOf(n, k, i) = ElementOf(n, h, i) + 1
  /\ ElementOf(n, k, k) = 0 /\ ElementOf(n, h, k) = n - 1

(* PopFront moves head forward: every element but the first gets a smaller number. *)
LEMMA HeadForward ==
  ASSUME NEW n \in Nat \ {0}, NEW h \in 0..(n - 1)
  PROVE  Forward(n, h, (h + 1) % n)
<1>1. (h + 1) % n = IF h + 1 = n THEN 0 ELSE h + 1
  BY NextSlot
<1>2. QED
  BY <1>1 DEF Forward, SlotOf, ElementOf

(* PushFront moves head back: every element gets a larger number. *)
LEMMA HeadBack ==
  ASSUME NEW n \in Nat \ {0}, NEW h \in 0..(n - 1)
  PROVE  Backward(n, h, (n + h - 1) % n)
<1>1. (n + h - 1) % n = IF h = 0 THEN n - 1 ELSE h - 1
  BY PrevSlot
<1>2. QED
  BY <1>1 DEF Backward, SlotOf, ElementOf

(* The facts about a struct that are about its indices alone. *)
LEMMA Indices ==
  ASSUME NEW r, Shape(r)
  PROVE  /\ r.size \in Nat \ {0} /\ r.head \in 0..(r.size - 1)
         /\ r.tail \in 0..(r.size - 1) /\ r.len \in 0..r.size
         /\ Slots(r.size) = 0..(r.size - 1)
BY DEF Shape, Slots

-----------------------------------------------------------------------------
(* Reading one element of the contents. *)
LEMMA ContentsAt ==
  ASSUME NEW r, Shape(r), Window(r)
  PROVE  /\ ContentsOf(r) \in Seq(Values) /\ Len(ContentsOf(r)) = r.len
         /\ \A i \in 1..r.len : ContentsOf(r)[i] = r.buffer[SlotOf(r.size, r.head, i - 1)]
<1>1. ASSUME NEW i \in 1..r.len
      PROVE  r.buffer[SlotOf(r.size, r.head, i - 1)] \in Values
  <2>0. i - 1 \in 0..(r.size - 1) /\ i - 1 < r.len
    BY Indices
  <2> DEFINE s == SlotOf(r.size, r.head, i - 1)
  <2>1. s \in Slots(r.size) /\ ElementOf(r.size, r.head, s) = i - 1
    BY <2>0, Indices, SlotElement, ZenonT(30)
  <2> HIDE DEF s
  <2>2. r.buffer[s] # Zero
    BY <2>0, <2>1 DEF Window
  <2>3. r.buffer[s] \in Values \cup {Zero}
    BY <2>1 DEF Shape
  <2>4. QED
    BY <2>2, <2>3 DEF s
<1>2. QED
  BY <1>1, Indices DEF ContentsOf

(* Equal contents, element by element. *)
LEMMA ContentsEqual ==
  ASSUME NEW q, q.len \in Nat, NEW t \in Seq(Values), Len(t) = q.len,
         \A i \in 1..q.len : q.buffer[SlotOf(q.size, q.head, i - 1)] = t[i]
  PROVE  ContentsOf(q) = t
<1>1. t = [i \in 1..q.len |-> t[i]]
  OBVIOUS
<1>2. ContentsOf(q) = [i \in 1..q.len |-> t[i]]
  BY DEF ContentsOf
<1>3. QED
  BY <1>1, <1>2

(* What PushBack makes of a buffer with room. *)
LEMMA PushBackKeeps ==
  ASSUME NEW r, Shape(r), Window(r), r.len < r.size, NEW v \in Values
  PROVE  /\ Shape(Back(r, v)) /\ Window(Back(r, v))
         /\ ContentsOf(Back(r, v)) = Append(ContentsOf(r), v)
<1> DEFINE q == Back(r, v)
<1>0. /\ r.size \in Nat \ {0} /\ r.head \in 0..(r.size - 1) /\ r.tail \in 0..(r.size - 1)
      /\ r.len \in 0..(r.size - 1)
      /\ Slots(r.size) = 0..(r.size - 1)
  BY Indices
<1>1. r.tail = SlotOf(r.size, r.head, r.len)
  BY DEF Window
<1>w. ElementOf(r.size, r.head, r.tail) = r.len
  <2>1. ElementOf(r.size, r.head, SlotOf(r.size, r.head, r.len)) = r.len
    BY <1>0, SlotElement
  <2>2. QED
    BY <1>1, <2>1
<1>2. /\ q.size = r.size /\ q.head = r.head /\ q.len = r.len + 1
      /\ q.tail = (r.tail + 1) % r.size
      /\ q.buffer = [r.buffer EXCEPT ![r.tail] = v]
  BY DEF Back
<1> HIDE DEF q
<1>3. Shape(q)
  <2>1. (r.tail + 1) % r.size \in 0..(r.size - 1)
    BY <1>0, NextSlot
  <2>2. q.buffer \in [Slots(r.size) -> Values \cup {Zero}]
    BY <1>2 DEF Shape
  <2>3. r.len + 1 \in 0..r.size
    BY <1>0
  <2>4. QED
    BY <1>0, <1>2, <2>1, <2>2, <2>3 DEF Shape
<1>4. ASSUME NEW s \in Slots(r.size)
      PROVE  q.buffer[s] = IF s = r.tail THEN v ELSE r.buffer[s]
  BY <1>2 DEF Shape
<1>5. Window(q)
  <2>1. q.tail = SlotOf(q.size, q.head, q.len)
    BY <1>0, <1>1, <1>2, SlotStep
  <2>2. ASSUME NEW s \in Slots(q.size)
        PROVE  q.buffer[s] # Zero <=> ElementOf(q.size, q.head, s) < q.len
    <3> DEFINE e == ElementOf(r.size, r.head, s)
    <3>1. s \in Slots(r.size) /\ e \in 0..(r.size - 1) /\ SlotOf(r.size, r.head, e) = s
      BY <1>0, <1>2, <2>2, SlotElement, ZenonT(30)
    <3>3. r.buffer[s] # Zero <=> e < r.len
      BY <3>1 DEF Window
    <3> HIDE DEF e
    <3>4. CASE s = r.tail
      BY <1>0, <1>2, <1>4, <1>w, <3>1, <3>4 DEF e
    <3>5. CASE s # r.tail
      <4>1. e # r.len
        BY <1>1, <3>1, <3>5
      <4>2. e < r.len + 1 <=> e < r.len
        BY <1>0, <3>1, <4>1
      <4>3. QED
        BY <1>2, <1>4, <3>1, <3>3, <3>5, <4>2 DEF e
    <3>6. QED
      BY <3>4, <3>5
  <2>3. QED
    BY <2>1, <2>2 DEF Window
<1>6. ContentsOf(q) = Append(ContentsOf(r), v)
  <2> DEFINE c == ContentsOf(r)
  <2>1. c \in Seq(Values) /\ Len(c) = r.len
        /\ \A i \in 1..r.len : c[i] = r.buffer[SlotOf(r.size, r.head, i - 1)]
    BY ContentsAt
  <2> HIDE DEF c
  <2>2. Append(c, v) \in Seq(Values) /\ Len(Append(c, v)) = q.len /\ q.len \in Nat
    BY <1>0, <1>2, <2>1
  <2>3. ASSUME NEW i \in 1..q.len
        PROVE  q.buffer[SlotOf(q.size, q.head, i - 1)] = Append(c, v)[i]
    <3> DEFINE s == SlotOf(r.size, r.head, i - 1)
    <3>0. i - 1 \in 0..(r.size - 1)
      BY <1>0, <1>2
    <3>1. s \in Slots(r.size) /\ ElementOf(r.size, r.head, s) = i - 1
      BY <1>0, <3>0, SlotElement
    <3>2. q.buffer[s] = IF s = r.tail THEN v ELSE r.buffer[s]
      BY <1>4, <3>1
    <3>4. CASE i = r.len + 1
      <4>1. i - 1 = r.len
        BY <1>0, <3>4
      <4>2. s = r.tail
        BY <1>1, <4>1
      <4>3. Append(c, v)[i] = v
        BY <1>0, <2>1, <3>4
      <4>4. QED
        BY <1>2, <3>2, <4>2, <4>3
    <3>5. CASE i # r.len + 1
      <4>1. i \in 1..r.len /\ i - 1 # r.len
        BY <1>0, <1>2, <3>5
      <4>2. s # r.tail
        BY <1>w, <3>1, <4>1
      <4>3. Append(c, v)[i] = c[i]
        BY <1>0, <2>1, <4>1
      <4>4. QED
        BY <1>2, <2>1, <3>2, <4>1, <4>2, <4>3
    <3>6. QED
      BY <3>4, <3>5
  <2>4. ContentsOf(q) = Append(c, v)
    BY <2>2, <2>3, ContentsEqual
  <2>5. QED
    BY <2>4 DEF c
<1>7. QED
  BY <1>3, <1>5, <1>6 DEF q

(* What PopFront makes of a buffer that is not empty. *)
LEMMA PopFrontKeeps ==
  ASSUME NEW r, Shape(r), Window(r), r.len # 0
  PROVE  /\ Shape(Popped(r)) /\ Window(Popped(r))
         /\ ContentsOf(r) # <<>>
         /\ ContentsOf(Popped(r)) = Tail(ContentsOf(r))
         /\ r.buffer[r.head] = Head(ContentsOf(r))
<1> DEFINE q == Popped(r)
           k == (r.head + 1) % r.size
<1>0. /\ r.size \in Nat \ {0} /\ r.head \in 0..(r.size - 1) /\ r.tail \in 0..(r.size - 1)
      /\ r.len \in 1..r.size
      /\ Slots(r.size) = 0..(r.size - 1)
  BY Indices
<1>2. /\ q.size = r.size /\ q.head = k /\ q.len = r.len - 1
      /\ q.tail = r.tail
      /\ q.buffer = [r.buffer EXCEPT ![r.head] = Zero]
  BY DEF Popped
<1>k. Forward(r.size, r.head, k)
  BY <1>0, HeadForward
<1> HIDE DEF k
<1>3. ASSUME NEW i \in 0..(r.size - 1)
      PROVE  /\ k \in 0..(r.size - 1)
             /\ SlotOf(r.size, k, i) = SlotOf(r.size, r.head, i + 1)
             /\ i # r.head => ElementOf(r.size, k, i) = ElementOf(r.size, r.head, i) - 1
             /\ ElementOf(r.size, k, r.head) = r.size - 1
             /\ ElementOf(r.size, r.head, r.head) = 0
  BY <1>k DEF Forward
<1>1. k \in 0..(r.size - 1)
  BY <1>0, <1>3
<1> HIDE DEF q
<1>4. Shape(q)
  <2>1. q.buffer \in [Slots(r.size) -> Values \cup {Zero}]
    BY <1>2 DEF Shape
  <2>2. r.len - 1 \in 0..r.size
    BY <1>0
  <2>3. QED
    BY <1>0, <1>1, <1>2, <2>1, <2>2 DEF Shape
<1>5. ASSUME NEW s \in Slots(r.size)
      PROVE  q.buffer[s] = IF s = r.head THEN Zero ELSE r.buffer[s]
  BY <1>2 DEF Shape
<1>6. Window(q)
  <2>1. q.tail = SlotOf(q.size, q.head, q.len)
    <3>1. r.len - 1 \in 0..(r.size - 1) /\ (r.len - 1) + 1 = r.len
      BY <1>0
    <3>2. SlotOf(r.size, k, r.len - 1) = SlotOf(r.size, r.head, (r.len - 1) + 1)
      BY <1>3, <3>1
    <3>3. QED
      BY <1>2, <3>1, <3>2 DEF Window
  <2>2. ASSUME NEW s \in Slots(q.size)
        PROVE  q.buffer[s] # Zero <=> ElementOf(q.size, q.head, s) < q.len
    <3> DEFINE e == ElementOf(r.size, r.head, s)
               f == ElementOf(r.size, k, s)
    <3>1. s \in Slots(r.size) /\ s \in 0..(r.size - 1) /\ e \in 0..(r.size - 1)
      BY <1>0, <1>2, <2>2, SlotElement
    <3>2. r.buffer[s] # Zero <=> e < r.len
      BY <3>1 DEF Window
    <3>3. (s # r.head => f = e - 1) /\ (s = r.head => f = r.size - 1)
      BY <1>3, <3>1
    <3> HIDE DEF e, f
    <3>4. s # r.head => (f < r.len - 1 <=> e < r.len)
      BY <1>0, <3>1, <3>3
    <3>5. s = r.head => ~(f < r.len - 1)
      BY <1>0, <3>3
    <3>6. QED
      BY <1>2, <1>5, <3>1, <3>2, <3>4, <3>5 DEF f
  <2>3. QED
    BY <2>1, <2>2 DEF Window
<1> DEFINE c == ContentsOf(r)
<1>7. c \in Seq(Values) /\ Len(c) = r.len
      /\ \A i \in 1..r.len : c[i] = r.buffer[SlotOf(r.size, r.head, i - 1)]
  BY ContentsAt
<1> HIDE DEF c
<1>8. c # <<>> /\ Head(c) = c[1]
  BY <1>0, <1>7
<1>9. r.buffer[r.head] = Head(c)
  <2>1. SlotOf(r.size, r.head, 0) = r.head
    BY <1>0 DEF SlotOf
  <2>2. c[1] = r.buffer[SlotOf(r.size, r.head, 1 - 1)]
    BY <1>0, <1>7
  <2>3. QED
    BY <1>8, <2>1, <2>2
<1>10. ContentsOf(q) = Tail(c)
  <2>1. Tail(c) \in Seq(Values) /\ Len(Tail(c)) = r.len - 1 /\ r.len - 1 \in Nat
    BY <1>0, <1>7, <1>8
  <2>2. ASSUME NEW i \in 1..q.len
        PROVE  q.buffer[SlotOf(q.size, q.head, i - 1)] = Tail(c)[i]
    <3> DEFINE s == SlotOf(r.size, r.head, i)
    <3>0. i \in 1..(r.len - 1) /\ i \in 0..(r.size - 1) /\ i - 1 \in 0..(r.size - 1)
          /\ i + 1 \in 1..r.len /\ (i + 1) - 1 = i /\ (i - 1) + 1 = i /\ i # 0
      BY <1>0, <1>2, <2>2
    <3>1. s \in 0..(r.size - 1) /\ ElementOf(r.size, r.head, s) = i
      BY <1>0, <3>0, SlotElement, ZenonT(30)
    <3>2. s # r.head
      BY <1>3, <3>0, <3>1
    <3>3. SlotOf(r.size, k, i - 1) = s
      BY <1>3, <3>0
    <3>4. Tail(c)[i] = c[i + 1]
      BY <1>7, <1>8, <2>1, <3>0
    <3>5. c[i + 1] = r.buffer[s]
      BY <1>7, <3>0
    <3> HIDE DEF s
    <3>6. q.buffer[s] = r.buffer[s]
      BY <1>0, <1>5, <3>1, <3>2
    <3>7. QED
      BY <1>2, <3>3, <3>4, <3>5, <3>6
  <2>3. QED
    BY <1>2, <2>1, <2>2, ContentsEqual
<1>11. QED
  BY <1>4, <1>6, <1>8, <1>9, <1>10 DEF q, c

(* What PushFront makes of a buffer with room. *)
LEMMA PushFrontKeeps ==
  ASSUME NEW r, Shape(r), Window(r), r.len < r.size, NEW v \in Values
  PROVE  /\ Shape(Front(r, v)) /\ Window(Front(r, v))
         /\ ContentsOf(Front(r, v)) = <<v>> \o ContentsOf(r)
<1> DEFINE q == Front(r, v)
           k == (r.size + r.head - 1) % r.size
<1>0. /\ r.size \in Nat \ {0} /\ r.head \in 0..(r.size - 1) /\ r.tail \in 0..(r.size - 1)
      /\ r.len \in 0..(r.size - 1)
      /\ Slots(r.size) = 0..(r.size - 1)
  BY Indices
<1>2. /\ q.size = r.size /\ q.head = k /\ q.len = r.len + 1
      /\ q.tail = r.tail
      /\ q.buffer = [r.buffer EXCEPT ![k] = v]
  BY DEF Front
<1>k. Backward(r.size, r.head, k)
  BY <1>0, HeadBack
<1> HIDE DEF k
<1>3. ASSUME NEW i \in 0..(r.size - 1)
      PROVE  /\ k \in 0..(r.size - 1) /\ SlotOf(r.size, k, 0) = k
             /\ SlotOf(r.size, k, i + 1) = SlotOf(r.size, r.head, i)
             /\ i # k => ElementOf(r.size, k, i) = ElementOf(r.size, r.head, i) + 1
             /\ ElementOf(r.size, k, k) = 0
             /\ ElementOf(r.size, r.head, k) = r.size - 1
  BY <1>k DEF Backward
<1>1. k \in 0..(r.size - 1) /\ SlotOf(r.size, k, 0) = k
  BY <1>0, <1>3
<1> HIDE DEF q
<1>4. Shape(q)
  <2>1. q.buffer \in [Slots(r.size) -> Values \cup {Zero}]
    BY <1>0, <1>1, <1>2 DEF Shape
  <2>2. r.len + 1 \in 0..r.size
    BY <1>0
  <2>3. QED
    BY <1>0, <1>1, <1>2, <2>1, <2>2 DEF Shape
<1>5. ASSUME NEW s \in Slots(r.size)
      PROVE  q.buffer[s] = IF s = k THEN v ELSE r.buffer[s]
  BY <1>2 DEF Shape
<1>6. Window(q)
  <2>1. q.tail = SlotOf(q.size, q.head, q.len)
    <3>1. SlotOf(r.size, k, r.len + 1) = SlotOf(r.size, r.head, r.len)
      BY <1>0, <1>3
    <3>2. QED
      BY <1>2, <3>1 DEF Window
  <2>2. ASSUME NEW s \in Slots(q.size)
        PROVE  q.buffer[s] # Zero <=> ElementOf(q.size, q.head, s) < q.len
    <3> DEFINE e == ElementOf(r.size, r.head, s)
               f == ElementOf(r.size, k, s)
    <3>1. s \in Slots(r.size) /\ s \in 0..(r.size - 1) /\ e \in 0..(r.size - 1)
      BY <1>0, <1>2, <2>2, SlotElement
    <3>2. r.buffer[s] # Zero <=> e < r.len
      BY <3>1 DEF Window
    <3>3. (s # k => f = e + 1) /\ (s = k => f = 0)
      BY <1>3, <3>1
    <3> HIDE DEF e, f
    <3>4. s # k => (f < r.len + 1 <=> e < r.len)
      BY <1>0, <3>1, <3>3
    <3>5. s = k => f < r.len + 1
      BY <1>0, <3>3
    <3>6. QED
      BY <1>2, <1>5, <3>1, <3>2, <3>4, <3>5 DEF f
  <2>3. QED
    BY <2>1, <2>2 DEF Window
<1> DEFINE c == ContentsOf(r)
<1>7. c \in Seq(Values) /\ Len(c) = r.len
      /\ \A i \in 1..r.len : c[i] = r.buffer[SlotOf(r.size, r.head, i - 1)]
  BY ContentsAt
<1> HIDE DEF c
<1>8. ContentsOf(q) = <<v>> \o c
  <2> DEFINE t == <<v>> \o c
  <2>1. t \in Seq(Values) /\ Len(t) = r.len + 1 /\ r.len + 1 \in Nat /\ t[1] = v
        /\ \A i \in 1..r.len : t[i + 1] = c[i]
    BY <1>0, <1>7
  <2> HIDE DEF t
  <2>2. ASSUME NEW i \in 1..q.len
        PROVE  q.buffer[SlotOf(q.size, q.head, i - 1)] = t[i]
    <3>1. CASE i = 1
      <4>1. SlotOf(r.size, k, i - 1) = k
        BY <1>1, <3>1
      <4>2. q.buffer[k] = v
        BY <1>0, <1>1, <1>5
      <4>3. QED
        BY <1>2, <2>1, <3>1, <4>1, <4>2
    <3>2. CASE i # 1
      <4> DEFINE j == i - 1
                 s == SlotOf(r.size, r.head, j - 1)
      <4>0. j \in 1..r.len /\ j - 1 \in 0..(r.size - 1) /\ j = (j - 1) + 1 /\ i = j + 1
            /\ j - 1 # r.size - 1
        BY <1>0, <1>2, <2>2, <3>2
      <4> HIDE DEF j
      <4>1. s \in 0..(r.size - 1) /\ ElementOf(r.size, r.head, s) = j - 1
        BY <1>0, <4>0, SlotElement, ZenonT(30)
      <4>2. s # k
        BY <1>3, <4>0, <4>1
      <4>3. SlotOf(r.size, k, (j - 1) + 1) = s
        BY <1>3, <4>0
      <4>4. t[i] = r.buffer[s]
        BY <1>7, <2>1, <4>0
      <4> HIDE DEF s
      <4>5. q.buffer[s] = r.buffer[s]
        BY <1>0, <1>5, <4>1, <4>2
      <4>6. SlotOf(q.size, q.head, i - 1) = s
        BY <1>2, <4>0, <4>3 DEF j
      <4>7. QED
        BY <4>4, <4>5, <4>6
    <3>3. QED
      BY <3>1, <3>2
  <2>3. ContentsOf(q) = t
    BY <1>2, <2>1, <2>2, ContentsEqual
  <2>4. QED
    BY <2>3 DEF t
<1>9. QED
  BY <1>4, <1>6, <1>8 DEF q, c

(* What grow makes of a full buffer: room, and the same contents. *)
LEMMA GrowKeeps ==
  ASSUME NEW r, Shape(r), Window(r), r.len = r.size
  PROVE  /\ Shape(Grow(r)) /\ Window(Grow(r))
         /\ Grow(r).len < Grow(r).size
         /\ ContentsOf(Grow(r)) = ContentsOf(r)
<1> DEFINE g == Grow(r)
           n == r.size
           h == r.head
           At(i) == r.buffer[SlotOf(n, h, i)]
<1>0. /\ n \in Nat \ {0} /\ h \in 0..(n - 1) /\ r.tail \in 0..(n - 1)
      /\ Slots(n) = 0..(n - 1) /\ Slots(2 * n) = 0..(2 * n - 1)
      /\ 2 * n \in Nat \ {0} /\ n \in 0..(2 * n - 1) /\ 0 \in 0..(2 * n - 1)
      /\ n < 2 * n
  BY Indices DEF Slots
<1>1. r.tail = h
  <2>1. r.tail = SlotOf(n, h, n)
    BY DEF Window
  <2>2. QED
    BY <1>0, <2>1 DEF SlotOf
<1>2. /\ g.size = 2 * n /\ g.head = 0 /\ g.tail = (n - h) + h /\ g.len = r.len
      /\ g.buffer = [i \in Slots(2 * n) |->
                       IF i < n - h THEN r.buffer[h + i]
                       ELSE IF i < (n - h) + h THEN r.buffer[i - (n - h)]
                       ELSE Zero]
  BY <1>0, <1>1 DEF Grow
<1>3. g.tail = n
  BY <1>0, <1>2
<1> HIDE DEF g
<1>4. ASSUME NEW i \in 0..(n - 1)
      PROVE  At(i) \in Values
  <2> DEFINE s == SlotOf(n, h, i)
  <2>1. s \in Slots(n) /\ ElementOf(n, h, s) = i
    BY <1>0, SlotElement, ZenonT(30)
  <2> HIDE DEF s
  <2>2. i < n
    BY <1>0
  <2>3. r.buffer[s] # Zero
    BY <2>1, <2>2 DEF Window
  <2>4. r.buffer[s] \in Values \cup {Zero}
    BY <2>1 DEF Shape
  <2>5. QED
    BY <2>3, <2>4 DEF s
<1>5. ASSUME NEW i \in 0..(2 * n - 1)
      PROVE  g.buffer[i] = IF i < n THEN At(i) ELSE Zero
  <2>1. g.buffer[i] = IF i < n - h THEN r.buffer[h + i]
                      ELSE IF i < (n - h) + h THEN r.buffer[i - (n - h)] ELSE Zero
    BY <1>0, <1>2
  <2>2. /\ i < n - h => SlotOf(n, h, i) = h + i
        /\ ~(i < n - h) => SlotOf(n, h, i) = i - (n - h)
        /\ i < n - h => i < n
        /\ i < (n - h) + h <=> i < n
    BY <1>0 DEF SlotOf
  <2>3. QED
    BY <2>1, <2>2
<1> HIDE DEF At
<1>6. ASSUME NEW i \in 0..(2 * n - 1)
      PROVE  g.buffer[i] \in Values \cup {Zero} /\ (g.buffer[i] # Zero <=> i < n)
  <2>1. i < n => i \in 0..(n - 1)
    BY <1>0
  <2>2. QED
    BY <1>4, <1>5, <2>1
<1>7. Shape(g)
  <2>1. g.buffer \in [Slots(2 * n) -> Values \cup {Zero}]
    <3>1. g.buffer = [i \in 0..(2 * n - 1) |-> g.buffer[i]]
      BY <1>0, <1>2
    <3>2. QED
      BY <1>0, <1>6, <3>1
  <2>2. n \in 0..(2 * n)
    BY <1>0
  <2>3. QED
    BY <1>0, <1>2, <1>3, <2>1, <2>2 DEF Shape
<1>8. Window(g)
  <2>1. SlotOf(2 * n, 0, n) = n /\ \A i \in 0..(2 * n - 1) : ElementOf(2 * n, 0, i) = i
    BY <1>0 DEF SlotOf, ElementOf
  <2>2. g.tail = SlotOf(g.size, g.head, g.len)
    BY <1>2, <1>3, <2>1
  <2>3. ASSUME NEW s \in Slots(g.size)
        PROVE  g.buffer[s] # Zero <=> ElementOf(g.size, g.head, s) < g.len
    <3>1. s \in 0..(2 * n - 1)
      BY <1>0, <1>2, <2>3
    <3>2. ElementOf(g.size, g.head, s) = s /\ g.len = n
      BY <1>2, <2>1, <3>1
    <3>3. QED
      BY <1>6, <3>1, <3>2
  <2>4. QED
    BY <2>2, <2>3 DEF Window
<1>9. ContentsOf(g) = ContentsOf(r)
  <2>1. ASSUME NEW i \in 1..r.len
        PROVE  g.buffer[SlotOf(g.size, g.head, i - 1)] = r.buffer[SlotOf(n, h, i - 1)]
    <3>1. i - 1 \in 0..(2 * n - 1) /\ i - 1 < n /\ SlotOf(2 * n, 0, i - 1) = i - 1
      BY <1>0, <2>1 DEF SlotOf
    <3>2. g.buffer[i - 1] = At(i - 1)
      BY <1>5, <3>1
    <3>3. QED
      BY <1>2, <3>1, <3>2 DEF At
  <2>2. QED
    BY <1>2, <2>1 DEF ContentsOf
<1>10. g.len < g.size
  BY <1>0, <1>2
<1>11. QED
  BY <1>7, <1>8, <1>9, <1>10 DEF g

(* Both pushes first make room, which changes neither shape nor contents. *)
LEMMA RoomIsMade ==
  ASSUME NEW r, Shape(r), Window(r)
  PROVE  /\ Shape(WithRoom(r)) /\ Window(WithRoom(r))
         /\ WithRoom(r).len < WithRoom(r).size
         /\ ContentsOf(WithRoom(r)) = ContentsOf(r)
<1>1. CASE r.len = r.size
  BY <1>1, GrowKeeps DEF WithRoom
<1>2. CASE r.len # r.size
  <2>1. r.len < r.size
    BY <1>2, Indices
  <2>2. QED
    BY <1>2, <2>1 DEF WithRoom
<1>3. QED
  BY <1>1, <1>2

-----------------------------------------------------------------------------
(* The inductive invariant: type correctness alone is not inductive, since a push
   into a full buffer would run over the window that WindowInv describes. *)
RBInv == RBTypeOK /\ WindowInv

(* The empty buffer satisfies the invariant and represents the empty deque. *)
LEMMA InitHolds == RBInit => RBInv /\ Contents = <<>>
<1> SUFFICES ASSUME RBInit PROVE RBInv /\ Contents = <<>>
  OBVIOUS
<1>1. /\ rb.size = InitCap /\ rb.head = 0 /\ rb.tail = 0 /\ rb.len = 0
      /\ rb.buffer = [i \in Slots(InitCap) |-> Zero]
  BY DEF RBInit, NewRingBuffer
<1>2. Shape(rb)
  BY <1>1 DEF Shape, Slots
<1>3. Window(rb)
  <2>1. SlotOf(InitCap, 0, 0) = 0 /\ \A s \in Slots(InitCap) : ~(ElementOf(InitCap, 0, s) < 0)
    BY DEF SlotOf, ElementOf, Slots
  <2>2. QED
    BY <1>1, <2>1 DEF Window
<1>4. Contents = <<>>
  BY <1>1 DEF Contents, ContentsOf
<1>5. QED
  BY <1>2, <1>3, <1>4 DEF RBInv, RBTypeOK, WindowInv, RBInit

(* Every step keeps the invariant and is a step of the deque. *)
LEMMA StepHolds ==
  ASSUME RBInv, [RBNext]_rbVars
  PROVE  RBInv' /\ [DQ!Next]_<<Contents, ret>>
<1>0. /\ Shape(rb) /\ Window(rb)
      /\ ret \in [data : Values \cup {Zero}, ok : BOOLEAN]
  BY DEF RBInv, RBTypeOK, WindowInv
<1> DEFINE w == WithRoom(rb)
<1>1. Shape(w) /\ Window(w) /\ w.len < w.size /\ ContentsOf(w) = Contents
  BY <1>0, RoomIsMade DEF Contents
<1> HIDE DEF w
<1>2. ASSUME NEW v \in Values, PushBack(v)
      PROVE  RBInv' /\ DQ!PushBack(v)
  <2>1. rb' = Back(w, v) /\ ret' = ret
    BY <1>2 DEF PushBack, w
  <2>2. Shape(rb') /\ Window(rb') /\ ContentsOf(rb') = Append(Contents, v)
    BY <1>1, <2>1, PushBackKeeps
  <2>3. QED
    BY <1>0, <2>1, <2>2 DEF RBInv, RBTypeOK, WindowInv, DQ!PushBack, Contents
<1>3. ASSUME NEW v \in Values, PushFront(v)
      PROVE  RBInv' /\ DQ!PushFront(v)
  <2>1. rb' = Front(w, v) /\ ret' = ret
    BY <1>3 DEF PushFront, w
  <2>2. Shape(rb') /\ Window(rb') /\ ContentsOf(rb') = <<v>> \o Contents
    BY <1>1, <2>1, PushFrontKeeps
  <2>3. QED
    BY <1>0, <2>1, <2>2 DEF RBInv, RBTypeOK, WindowInv, DQ!PushFront, Contents
<1>4. CASE PopFront
  <2>1. CASE rb.len = 0
    <3>1. ret' = [data |-> Zero, ok |-> FALSE] /\ rb' = rb
      BY <1>4, <2>1 DEF PopFront
    <3>2. Contents = <<>>
      BY <2>1 DEF Contents, ContentsOf
    <3>3. Contents' = Contents
      BY <3>1 DEF Contents
    <3>4. QED
      BY <1>0, <3>1, <3>2, <3>3 DEF RBInv, RBTypeOK, WindowInv, DQ!Next, DQ!PopFront
  <2>2. CASE rb.len # 0
    <3>1. ret' = [data |-> rb.buffer[rb.head], ok |-> TRUE] /\ rb' = Popped(rb)
      BY <1>4, <2>2 DEF PopFront
    <3>2. /\ Shape(rb') /\ Window(rb') /\ Contents # <<>>
          /\ ContentsOf(rb') = Tail(Contents) /\ rb.buffer[rb.head] = Head(Contents)
      BY <1>0, <2>2, <3>1, PopFrontKeeps DEF Contents
    <3>3. rb.buffer[rb.head] \in Values \cup {Zero}
      BY <1>0, Indices DEF Shape
    <3>4. QED
      BY <3>1, <3>2, <3>3 DEF RBInv, RBTypeOK, WindowInv, DQ!Next, DQ!PopFront, Contents
  <2>3. QED
    BY <2>1, <2>2
<1>5. CASE UNCHANGED rbVars
  <2>1. rb' = rb /\ ret' = ret
    BY <1>5 DEF rbVars
  <2>2. QED
    BY <1>0, <2>1 DEF RBInv, RBTypeOK, WindowInv, Contents
<1>6. QED
  BY <1>2, <1>3, <1>4, <1>5 DEF RBNext, DQ!Next

(* Indices stay within the array and every slot holds a value of the element type,
   for any capacity and any sequence of calls. *)
THEOREM RBTypeCorrect == RBSpec => []RBTypeOK
<1>1. RBInit => RBInv
  BY InitHolds
<1>2. RBInv /\ [RBNext]_rbVars => RBInv'
  BY StepHolds
<1>3. RBInv => RBTypeOK
  BY DEF RBInv
<1>4. QED
  BY <1>1, <1>2, <1>3, PTL DEF RBSpec

(* The window from head to tail agrees with len and is exactly what is occupied:
   vacated slots have been cleared. *)
THEOREM WindowCorrect == RBSpec => []WindowInv
<1>1. RBInit => RBInv
  BY InitHolds
<1>2. RBInv /\ [RBNext]_rbVars => RBInv'
  BY StepHolds
<1>3. RBInv => WindowInv
  BY DEF RBInv
<1>4. QED
  BY <1>1, <1>2, <1>3, PTL DEF RBSpec

(* The ring buffer implements an unbounded deque. *)
THEOREM ImplementsDeque == RBSpec => DequeSpec
<1>1. RBInit => RBInv /\ DQ!Init
  BY InitHolds DEF DQ!Init, RBInit
<1>2. RBInv /\ [RBNext]_rbVars => RBInv' /\ [DQ!Next]_<<Contents, ret>>
  BY StepHolds
<1>3. QED
  BY <1>1, <1>2, PTL DEF RBSpec, DequeSpec, DQ!Spec

HIDE RingBufferAssumption

-----------------------------------------------------------------------------
(* NotifyQueue. *)

USE NotifyQueueAssumption

(* The type invariant of the double-buffer queue is preserved by every step of push and OnRead. *)
THEOREM TypeCorrect == Spec => []TypeOK
<1>1. Init => TypeOK
  BY DEF Init, TypeOK, Items
<1>2. TypeOK /\ [Next]_vars => TypeOK'
  <2> SUFFICES ASSUME TypeOK, [Next]_vars
               PROVE  TypeOK'
    OBVIOUS
  <2> USE DEF TypeOK
  <2>1. ASSUME NEW p \in Producers, Push(p)
        PROVE  TypeOK'
    <3>1. <<p, pushed[p] + 1>> \in Items
      BY <2>1 DEF Push, Items
    <3>2. QED
      BY <2>1, <3>1 DEF Push
  <2>2. ASSUME NEW p \in Producers, Cas(p)
        PROVE  TypeOK'
    BY <2>2 DEF Cas, queues, history
  <2>3. ASSUME NEW p \in Producers, WriteEfd(p)
        PROVE  TypeOK'
    BY <2>3 DEF WriteEfd, queues, history
  <2>4. CASE EpollIn
    BY <2>4 DEF EpollIn, queues, history
  <2>5. CASE Swap
    BY <2>5 DEF Swap, queues, history
  <2>6. CASE HandleOne
    BY <2>6 DEF HandleOne
  <2>7. CASE DrainEnd
    BY <2>7 DEF DrainEnd, queues, history
  <2>8. CASE ReadEfd
    BY <2>8 DEF ReadEfd, queues, history
  <2>9. CASE Clear
    BY <2>9 DEF Clear, queues, history
  <2>10. CASE UNCHANGED vars
    BY <2>10 DEF vars
  <2>11. QED
    BY <2>1, <2>2, <2>3, <2>4, <2>5, <2>6, <2>7, <2>8, <2>9, <2>10
       DEF Next, Producer, Poller
<1>3. QED
  BY <1>1, <1>2, PTL DEF Spec

-----------------------------------------------------------------------------
(* OneWakeup and WorkKeepsEfdReadable support each other, and both need to know
   that OnRead reaches the read of the eventfd only with an empty readq. *)
WakeupInv == /\ OneWakeup
             /\ WorkKeepsEfdReadable
             /\ poller = "readefd" => readq = <<>>

(* Each step of push and OnRead hands the single wake-up on without losing or
   duplicating it. *)
LEMMA WakeupStep == TypeOK /\ WakeupInv /\ [Next]_vars => WakeupInv'
<1> SUFFICES ASSUME TypeOK, WakeupInv, [Next]_vars
             PROVE  WakeupInv'
  OBVIOUS
<1> USE DEF TypeOK, WakeupInv, OneWakeup, WorkKeepsEfdReadable, InWrite
<1>1. ASSUME NEW p \in Producers, Push(p)
      PROVE  WakeupInv'
  BY <1>1 DEF Push
<1>2. ASSUME NEW p \in Producers, Cas(p)
      PROVE  WakeupInv'
  <2>0. UNCHANGED <<writeq, readq, efd, poller>>
    BY <1>2 DEF Cas, queues
  <2>1. CASE notified = 0
    <3>1. notified' = 1 /\ pc' = [pc EXCEPT ![p] = "write"]
      BY <1>2, <2>1 DEF Cas
    <3>2. \A q \in Producers : pc'[q] = "write" <=> q = p
      BY <2>1, <3>1
    <3>3. efd = 0 /\ poller # "clear"
      BY <2>1
    <3>4. QED
      BY <2>0, <3>1, <3>2, <3>3
  <2>2. CASE notified # 0
    <3>1. notified' = notified /\ pc' = [pc EXCEPT ![p] = "idle"] /\ pc[p] = "cas"
      BY <1>2, <2>2 DEF Cas
    <3>2. \A q \in Producers : pc'[q] = "write" <=> pc[q] = "write"
      BY <3>1
    <3>3. QED
      BY <2>0, <3>1, <3>2
  <2>3. QED
    BY <2>1, <2>2
<1>3. ASSUME NEW p \in Producers, WriteEfd(p)
      PROVE  WakeupInv'
  BY <1>3 DEF WriteEfd, queues, history
<1>4. CASE EpollIn
  BY <1>4 DEF EpollIn, queues, history
<1>5. CASE Swap
  BY <1>5 DEF Swap, queues, history
<1>6. CASE HandleOne
  BY <1>6 DEF HandleOne
<1>7. CASE DrainEnd
  BY <1>7 DEF DrainEnd, queues, history
<1>8. CASE ReadEfd
  BY <1>8 DEF ReadEfd, queues, history
<1>9. CASE Clear
  BY <1>9 DEF Clear, queues, history
<1>10. CASE UNCHANGED vars
  BY <1>10 DEF vars
<1>11. QED
  BY <1>1, <1>2, <1>3, <1>4, <1>5, <1>6, <1>7, <1>8, <1>9, <1>10
     DEF Next, Producer, Poller

(* The wake-up invariant holds in every reachable state of push and OnRead. *)
LEMMA WakeupInvariant == Spec => []WakeupInv
<1>1. Init => WakeupInv
  BY DEF Init, WakeupInv, OneWakeup, WorkKeepsEfdReadable, InWrite
<1>2. QED
  BY <1>1, WakeupStep, TypeCorrect, PTL DEF Spec

(* notified, the eventfd and the goroutines hold exactly one wake-up between
   them, whatever the number of producers. *)
THEOREM WakeupIsUnique == Spec => []OneWakeup
BY WakeupInvariant, PTL DEF WakeupInv

(* OnRead is called again whenever it returns early, and never meets EAGAIN. *)
THEOREM WorkIsScheduled == Spec => []WorkKeepsEfdReadable
BY WakeupInvariant, PTL DEF WakeupInv

-----------------------------------------------------------------------------
(* Appending to the second of two sequences, as push does to writeq. *)
LEMMA AppendToConcat ==
  ASSUME NEW S, NEW s \in Seq(S), NEW t \in Seq(S), NEW e \in S
  PROVE  s \o Append(t, e) = Append(s \o t, e)
OBVIOUS

(* Moving the head of readq to the end of the consumed items, as OnRead does. *)
LEMMA ShiftHead ==
  ASSUME NEW S, NEW s \in Seq(S), NEW t \in Seq(S), t # <<>>
  PROVE  Append(s, Head(t)) \o Tail(t) = s \o t
OBVIOUS

(* Every step of push and OnRead preserves the order and the multiplicity of
   the items across consumed items, readq and writeq. *)
LEMMA FifoStep == TypeOK /\ FifoInv /\ [Next]_vars => FifoInv'
<1> SUFFICES ASSUME TypeOK, FifoInv, [Next]_vars
             PROVE  FifoInv'
  OBVIOUS
<1> USE DEF TypeOK, FifoInv
<1>0. handled \o readq \in Seq(Items)
  OBVIOUS
<1>1. ASSUME NEW p \in Producers, Push(p)
      PROVE  FifoInv'
  <2> DEFINE item == <<p, pushed[p] + 1>>
  <2>1. item \in Items
    BY <1>1 DEF Push, Items
  <2>2. /\ writeq' = Append(writeq, item) /\ accepted' = Append(accepted, item)
        /\ readq' = readq /\ handled' = handled
    BY <1>1 DEF Push
  <2> HIDE DEF item
  <2>3. (handled \o readq) \o Append(writeq, item) = Append((handled \o readq) \o writeq, item)
    <3> HIDE DEF TypeOK, FifoInv
    <3>1. writeq \in Seq(Items)
      BY DEF TypeOK
    <3>2. QED
      BY <1>0, <2>1, <3>1, AppendToConcat
  <2>4. QED
    BY <2>2, <2>3
<1>2. ASSUME NEW p \in Producers, Cas(p)
      PROVE  FifoInv'
  BY <1>2 DEF Cas, queues, history
<1>3. ASSUME NEW p \in Producers, WriteEfd(p)
      PROVE  FifoInv'
  BY <1>3 DEF WriteEfd, queues, history
<1>4. CASE EpollIn
  BY <1>4 DEF EpollIn, queues, history
<1>5. CASE Swap
  <2>1. handled \o <<>> = handled
    OBVIOUS
  <2>2. CASE readq = <<>>
    <3>1. handled' = handled /\ accepted' = accepted /\ readq' = writeq /\ writeq' = <<>>
      BY <1>5, <2>2 DEF Swap, queues, history
    <3>2. (handled \o writeq) \o <<>> = handled \o writeq
      OBVIOUS
    <3>3. QED
      BY <2>1, <2>2, <3>1, <3>2
  <2>3. CASE readq # <<>>
    BY <1>5, <2>3 DEF Swap, queues, history
  <2>4. QED
    BY <2>2, <2>3
<1>6. CASE HandleOne
  <2>1. /\ readq # <<>> /\ readq' = Tail(readq) /\ handled' = Append(handled, Head(readq))
        /\ writeq' = writeq /\ accepted' = accepted
    BY <1>6 DEF HandleOne
  <2>2. Append(handled, Head(readq)) \o Tail(readq) = handled \o readq
    BY <2>1, ShiftHead
  <2>3. QED
    BY <2>1, <2>2
<1>7. CASE DrainEnd
  BY <1>7 DEF DrainEnd, queues, history
<1>8. CASE ReadEfd
  BY <1>8 DEF ReadEfd, queues, history
<1>9. CASE Clear
  BY <1>9 DEF Clear, queues, history
<1>10. CASE UNCHANGED vars
  BY <1>10 DEF vars
<1>11. QED
  BY <1>1, <1>2, <1>3, <1>4, <1>5, <1>6, <1>7, <1>8, <1>9, <1>10
     DEF Next, Producer, Poller

(* Nothing handed to push is lost, duplicated or reordered. *)
THEOREM FifoCorrect == Spec => []FifoInv
<1>1. Init => FifoInv
  <2>1. <<>> \o <<>> \o <<>> = <<>>
    OBVIOUS
  <2>2. QED
    BY <2>1 DEF Init, FifoInv
<1>2. QED
  BY <1>1, FifoStep, TypeCorrect, PTL DEF Spec

-----------------------------------------------------------------------------
(* The item OnRead pops is the next one the abstract hand-over owes. *)
LEMMA HeadIsNext ==
  ASSUME NEW S, NEW s \in Seq(S), NEW t \in Seq(S), NEW u \in Seq(S), t # <<>>
  PROVE  /\ Len(s) < Len(s \o t \o u)
         /\ Head(t) = (s \o t \o u)[Len(s) + 1]
OBVIOUS

(* The double buffer, the flag and the eventfd implement the abstract FIFO
   hand-over: a push is a Send, a consumed item a Deliver, anything else a
   stuttering step. *)
THEOREM ImplementsHandoff == Spec => HandoffSpec
<1>1. Init => Handoff!Init
  BY DEF Init, Handoff!Init
<1>2. TypeOK /\ FifoInv /\ [Next]_vars => [Handoff!Next]_<<accepted, handled>>
  <2> SUFFICES ASSUME TypeOK, FifoInv, [Next]_vars
               PROVE  Handoff!Next \/ UNCHANGED <<accepted, handled>>
    OBVIOUS
  <2>1. ASSUME NEW p \in Producers, Push(p)
        PROVE  Handoff!Next
    <3>1. <<p, pushed[p] + 1>> \in Items
      BY <2>1 DEF Push, Items, TypeOK
    <3>2. Handoff!Send(<<p, pushed[p] + 1>>)
      BY <2>1 DEF Push, Handoff!Send
    <3>3. QED
      BY <3>1, <3>2 DEF Handoff!Next
  <2>2. CASE HandleOne
    <3>1. readq # <<>> /\ handled' = Append(handled, Head(readq)) /\ accepted' = accepted
      BY <2>2 DEF HandleOne
    <3>2. /\ Len(handled) < Len(accepted)
          /\ Head(readq) = accepted[Len(handled) + 1]
      BY <3>1, HeadIsNext, ZenonT(30) DEF TypeOK, FifoInv
    <3>3. Handoff!Deliver
      BY <3>1, <3>2 DEF Handoff!Deliver
    <3>4. QED
      BY <3>3 DEF Handoff!Next
  <2>3. ASSUME NEW p \in Producers, Cas(p) \/ WriteEfd(p)
        PROVE  UNCHANGED <<accepted, handled>>
    BY <2>3 DEF Cas, WriteEfd, history
  <2>4. CASE EpollIn \/ Swap \/ DrainEnd \/ ReadEfd \/ Clear \/ UNCHANGED vars
    BY <2>4 DEF EpollIn, Swap, DrainEnd, ReadEfd, Clear, history, vars
  <2>5. QED
    BY <2>1, <2>2, <2>3, <2>4 DEF Next, Producer, Poller
<1>3. QED
  BY <1>1, <1>2, TypeCorrect, FifoCorrect, PTL DEF Spec, HandoffSpec, Handoff!Spec
=============================================================================
