------------------------------ MODULE BufPool ------------------------------
(***************************************************************************)
(* bufpool.go: size classes backed by sync.Pools, each switched off and on *)
(* by a ticker according to how often it was used.  The module works with  *)
(* the real sizes; TLC is given the lengths at the edges of the classes.   *)
(***************************************************************************)
EXTENDS Integers

CONSTANTS Clients,      \* goroutines that allocate, each one buffer at a time
          Lengths,      \* arguments of BMalloc
          Buffers,      \* identities of the byte slices that exist at a time
          ActiveTimes,  \* bufPoolActiveTimes
          MaxAllocs,    \* bound: allocations counted between two adjustments
          None

K == 1024
M == 1024 * 1024
BtLen == 7
KbLen == 1023
MbLen == 16             \* bufPoolMaxMBytes

ASSUME BufPoolAssumption == /\ Lengths \subseteq Nat
                            /\ ActiveTimes \in Nat /\ MaxAllocs \in Nat
                            /\ None \notin Buffers \cup Nat

-----------------------------------------------------------------------------
(* Which pool BMalloc and BFree use for s bytes. *)
Class(s) == IF s < 128 * 7 + 1 THEN <<"bt", (s + 127) \div 128 - 1>>
            ELSE IF s < M + 1 THEN <<"kb", (s + 1023) \div K - 1>>
            ELSE <<"mb", (s + (M - 1)) \div M - 1>>

Pooled(s) == s < M * MbLen + 1

PoolLen(kind) == CASE kind = "bt" -> BtLen [] kind = "kb" -> KbLen [] kind = "mb" -> MbLen

(* The index is one of the array's: Go panics otherwise. *)
InRange(c) == c[2] \in 0..(PoolLen(c[1]) - 1)

(* init: the size of the buffers of a class. *)
ClassSize(c) == CASE c[1] = "bt" -> (c[2] + 1) * 128
                  [] c[1] = "kb" -> (c[2] + 1) * K
                  [] c[1] = "mb" -> (c[2] + 1) * M

Classes == {Class(s) : s \in {l \in Lengths : l > 0 /\ Pooled(l)}}

-----------------------------------------------------------------------------
VARIABLES disabled, allocTimes,   \* of each class
          pool,                   \* buffers in each class's sync.Pool
          cap,                    \* capacity of each buffer; None: no such buffer
          asking,                 \* length a client is allocating, or None
          held, len,              \* the client's buffer and its length
          panicked                \* an index or a slice bound was out of range

bpVars == <<disabled, allocTimes, pool, cap, asking, held, len, panicked>>

BPInit == /\ disabled = [c \in Classes |-> FALSE]
          /\ allocTimes = [c \in Classes |-> 0]
          /\ pool = [c \in Classes |-> {}]
          /\ cap = [b \in Buffers |-> None]
          /\ asking = [g \in Clients |-> None]
          /\ held = [g \in Clients |-> None]
          /\ len = [g \in Clients |-> 0]
          /\ panicked = FALSE

(* The client g now has buffer b, cut to n bytes; slicing beyond the capacity
   panics. *)
Hand(g, b, c, n) == /\ held' = [held EXCEPT ![g] = b]
                    /\ cap' = [cap EXCEPT ![b] = c]
                    /\ len' = [len EXCEPT ![g] = n]
                    /\ asking' = [asking EXCEPT ![g] = None]
                    /\ panicked' = (n > c)

NoBuffer(b) == cap[b] = None

(* BMalloc: find the class, count the allocation; an empty slice, or one too large
   for the pools, is made on the spot. *)
BMalloc(g, s) ==
  /\ ~panicked
  /\ held[g] = None /\ asking[g] = None
  /\ \/ /\ s >= 1 /\ Pooled(s) /\ InRange(Class(s))
        /\ allocTimes[Class(s)] < MaxAllocs
        /\ allocTimes' = [allocTimes EXCEPT ![Class(s)] = @ + 1]
        /\ asking' = [asking EXCEPT ![g] = s]
        /\ UNCHANGED <<cap, held, len, panicked>>
     \/ /\ s >= 1 /\ Pooled(s) /\ ~InRange(Class(s))
        /\ panicked' = TRUE
        /\ UNCHANGED <<allocTimes, asking, cap, held, len>>
     \/ /\ s < 1 \/ ~Pooled(s)
        /\ \E b \in Buffers : NoBuffer(b) /\ Hand(g, b, s, s)
        /\ UNCHANGED allocTimes
  /\ UNCHANGED <<disabled, pool>>

(* Deviation: the buffer is not cut to the length asked for. *)
CutNever(c, s) == ClassSize(c)

(* alloc: if s == size return bf, else bf[:s]. *)
Cut(c, s) == IF s = ClassSize(c) THEN ClassSize(c) ELSE s

(* alloc: a slice of exactly s bytes if the class is switched off, one of the
   pool's, or a new one of the class's size. *)
Alloc(g) ==
  LET s == asking[g]
      c == Class(s)
  IN  /\ ~panicked
      /\ s # None
      /\ \/ /\ disabled[c]
            /\ \E b \in Buffers : NoBuffer(b) /\ Hand(g, b, s, s)
            /\ UNCHANGED pool
         \/ /\ ~disabled[c]
            /\ \E b \in pool[c] : /\ Hand(g, b, cap[b], Cut(c, s))
                                  /\ pool' = [pool EXCEPT ![c] = @ \ {b}]
         \/ /\ ~disabled[c]
            /\ \E b \in Buffers : NoBuffer(b) /\ Hand(g, b, ClassSize(c), Cut(c, s))
            /\ UNCHANGED pool
      /\ UNCHANGED <<disabled, allocTimes>>

(* Deviation: every buffer is put into the pool its capacity falls into. *)
TakesBackAny(c, n) == Pooled(n)

(* free: only a buffer of exactly the class's size goes back to its pool. *)
TakesBack(c, n) == Pooled(n) /\ n = ClassSize(c)

(* BFree: the class is found from the capacity. *)
BFree(g) ==
  LET b == held[g]
      c == Class(cap[b])
  IN  /\ ~panicked
      /\ b # None
      /\ held' = [held EXCEPT ![g] = None]
      /\ len' = [len EXCEPT ![g] = 0]
      /\ \/ /\ Pooled(cap[b]) /\ ~InRange(c)
            /\ panicked' = TRUE
            /\ UNCHANGED <<pool, cap>>
         \/ /\ ~(Pooled(cap[b]) /\ ~InRange(c))
            /\ IF TakesBack(c, cap[b])
               THEN pool' = [pool EXCEPT ![c] = @ \cup {b}] /\ UNCHANGED cap
               ELSE cap' = [cap EXCEPT ![b] = None] /\ UNCHANGED pool
            /\ UNCHANGED panicked
      /\ UNCHANGED <<disabled, allocTimes, asking>>

(* sync.Pool gives up buffers when the garbage collector runs. *)
Evict(c) == /\ ~panicked
            /\ \E b \in pool[c] : /\ pool' = [pool EXCEPT ![c] = @ \ {b}]
                                  /\ cap' = [cap EXCEPT ![b] = None]
            /\ UNCHANGED <<disabled, allocTimes, asking, held, len, panicked>>

(* adjust: switch the class off if it was hardly used, on otherwise. *)
Adjust(c) == /\ ~panicked
             /\ disabled' = [disabled EXCEPT ![c] = allocTimes[c] < ActiveTimes]
             /\ allocTimes' = [allocTimes EXCEPT ![c] = 0]
             /\ UNCHANGED <<pool, cap, asking, held, len, panicked>>

BPNext == \/ \E g \in Clients : (\E s \in Lengths : BMalloc(g, s)) \/ Alloc(g) \/ BFree(g)
          \/ \E c \in Classes : Evict(c) \/ Adjust(c)

BPSpec == BPInit /\ [][BPNext]_bpVars

-----------------------------------------------------------------------------
BPTypeOK == /\ disabled \in [Classes -> BOOLEAN]
            /\ allocTimes \in [Classes -> 0..MaxAllocs]
            /\ pool \in [Classes -> SUBSET Buffers]
            /\ cap \in [Buffers -> Nat \cup {None}]
            /\ asking \in [Clients -> Lengths \cup {None}]
            /\ held \in [Clients -> Buffers \cup {None}]
            /\ len \in [Clients -> Lengths \cup {0}]
            /\ panicked \in BOOLEAN

(* BMalloc(s) returns s bytes within the capacity, and no index or slice bound
   is out of range, although a class that is switched off hands out buffers of
   odd capacities which come back after it was switched on again. *)
NoPanic == ~panicked

(* What lies in the pool of a class has the class's size, whatever was freed:
   pool.Get may hand it to any request of the class. *)
PoolsHoldClassSize == \A c \in Classes : \A b \in pool[c] : cap[b] = ClassSize(c)
=============================================================================
