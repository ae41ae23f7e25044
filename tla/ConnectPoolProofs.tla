------------------------- MODULE ConnectPoolProofs -------------------------
(***************************************************************************)
(* For any number of connections and clients and any configuration that    *)
(* NewConnectPool accepts: the counters are exact, and a connection is in  *)
(* one place.                                                              *)
(***************************************************************************)
EXTENDS ConnectPool, FiniteSetTheorems, SequenceTheorems, TLAPS

Alive == {c \in Conns : alive[c]}

(* Connects under way, and what is left of the round, make up toNewNum, until a connect
   is reported twice. *)
RoundInv == /\ IsFiniteSet(InProgress)
            /\ doubled = 0 =>
                 /\ toNewNum = Cardinality(InProgress) + (IF keeper = "connect" THEN left ELSE 0)
                 /\ toNewNum <= MaxLive

(* liveNum lags behind between OnOpen and liveNum.Add(1), even if the new connection
   is closed meanwhile. *)
LiveInv == /\ IsFiniteSet(Alive)
           /\ openFails = 0 =>
                liveNum = Cardinality(Alive) - (IF handling = "count" THEN 1 ELSE 0)

Distinct(s) == \A i, j \in 1..Len(s) : s[i] = s[j] => i = j

(* A connection that is registered is in the pool; one in the channel is there once. *)
ChanInv == /\ \A c \in Conns : alive[c] => where[c] = "pool"
           /\ Distinct(newConnChan)
           /\ \A i \in 1..Len(newConnChan) : where[newConnChan[i]] = "queued"

(* The idle ones, the clients' and the new one are different connections. *)
PoolInv ==
  /\ Distinct(conns)
  /\ \A i \in 1..Len(conns) : /\ where[conns[i]] = "pool" /\ conns[i] # fresh
                              /\ \A g \in Clients : client[g] # conns[i]
  /\ \A g \in Clients : client[g] \in Conns =>
       /\ where[client[g]] = "pool" /\ client[g] # fresh
       /\ \A h \in Clients : client[h] = client[g] => h = g
  /\ fresh # None => where[fresh] = "pool"
  /\ handling = "receive" <=> fresh = None

IInv == TypeOK /\ RoundInv /\ LiveInv /\ ChanInv /\ PoolInv

-----------------------------------------------------------------------------
(* Sequences *)

(* The sequences of bounded length. *)
LEMMA BoundedSeqDef ==
  ASSUME NEW S, NEW n \in Nat, NEW s
  PROVE  s \in BoundedSeq(S, n) <=> s \in Seq(S) /\ Len(s) <= n
<1>1. ASSUME s \in BoundedSeq(S, n) PROVE s \in Seq(S) /\ Len(s) <= n
  <2>1. PICK m \in 0..n : s \in [1..m -> S]
    BY <1>1 DEF BoundedSeq, SeqOf
  <2>2. s \in Seq(S)
    BY <2>1
  <2>3. Len(s) = m
    BY <2>1, <2>2
  <2> QED BY <2>1, <2>2, <2>3
<1>2. ASSUME s \in Seq(S), Len(s) <= n PROVE s \in BoundedSeq(S, n)
  <2>1. Len(s) \in 0..n /\ s \in [1..Len(s) -> S]
    BY <1>2
  <2> QED BY <2>1 DEF BoundedSeq, SeqOf
<1> QED BY <1>1, <1>2

(* What Append leaves where it was. *)
LEMMA AppendElements ==
  ASSUME NEW S, NEW s \in Seq(S), NEW e \in S
  PROVE  /\ Append(s, e) \in Seq(S)
         /\ Len(Append(s, e)) = Len(s) + 1 /\ Len(s) \in Nat
         /\ \A i \in 1..Len(s) : Append(s, e)[i] = s[i]
         /\ Append(s, e)[Len(s) + 1] = e
         /\ \A i \in 1..Len(Append(s, e)) : i \in 1..Len(s) \/ i = Len(s) + 1
  OBVIOUS

(* What Tail leaves, one place further to the front. *)
LEMMA TailElements ==
  ASSUME NEW S, NEW s \in Seq(S), s # <<>>
  PROVE  /\ Tail(s) \in Seq(S) /\ Head(s) \in S
         /\ Len(Tail(s)) = Len(s) - 1 /\ Len(s) \in Nat \ {0}
         /\ Head(s) = s[1] /\ 1 \in 1..Len(s)
         /\ \A i \in 1..Len(Tail(s)) : Tail(s)[i] = s[i + 1] /\ i + 1 \in 1..Len(s)
  OBVIOUS

(* An element that is not in a sequence may be appended; the others do not meet. *)
LEMMA AppendDistinct ==
  ASSUME NEW S, NEW s \in Seq(S), NEW e \in S, Distinct(s), \A i \in 1..Len(s) : s[i] # e
  PROVE  Distinct(Append(s, e))
<1> DEFINE t == Append(s, e)
<1>1. /\ \A i \in 1..Len(s) : t[i] = s[i]
      /\ t[Len(s) + 1] = e
      /\ \A i \in 1..Len(t) : i \in 1..Len(s) \/ i = Len(s) + 1
  BY AppendElements
<1> HIDE DEF t
<1>2. Distinct(t)
  BY <1>1 DEF Distinct
<1> QED BY <1>2 DEF t

(* The head of a sequence without repetitions is not in its tail. *)
LEMMA TailDistinct ==
  ASSUME NEW S, NEW s \in Seq(S), s # <<>>, Distinct(s)
  PROVE  Distinct(Tail(s)) /\ \A i \in 1..Len(Tail(s)) : Tail(s)[i] # Head(s)
<1> DEFINE t == Tail(s)
<1>1. /\ Len(t) \in Nat
      /\ Head(s) = s[1] /\ 1 \in 1..Len(s)
      /\ \A i \in 1..Len(t) : t[i] = s[i + 1] /\ i + 1 \in 1..Len(s)
  BY TailElements
<1> HIDE DEF t
<1>2. ASSUME NEW i \in 1..Len(t), NEW j \in 1..Len(t), t[i] = t[j] PROVE i = j
  <2>1. s[i + 1] = s[j + 1] /\ i + 1 \in 1..Len(s) /\ j + 1 \in 1..Len(s)
    BY <1>1, <1>2
  <2>2. i + 1 = j + 1
    BY <2>1 DEF Distinct
  <2> QED BY <2>2
<1>3. ASSUME NEW i \in 1..Len(t), t[i] = Head(s) PROVE FALSE
  <2>1. s[i + 1] = s[1] /\ i + 1 \in 1..Len(s)
    BY <1>1, <1>3
  <2>2. i + 1 = 1
    BY <1>1, <2>1 DEF Distinct
  <2> QED BY <2>2
<1>4. Distinct(t)
  BY <1>2 DEF Distinct
<1> QED BY <1>3, <1>4 DEF t

-----------------------------------------------------------------------------
(* The type invariant, with the channel as a sequence that has room for ChanCap. *)
TypeFacts == /\ conns \in Seq(Conns)
             /\ toNewNum \in Int
             /\ liveNum \in Int
             /\ newConnChan \in Seq(Conns) /\ Len(newConnChan) <= ChanCap
             /\ where \in [Conns -> {"none", "connecting", "refused", "again", "sending",
                                    "queued", "pool"}]
             /\ alive \in [Conns -> BOOLEAN]
             /\ keeper \in {"select", "idleNum", "liveNum", "cas", "connect"}
             /\ left \in 0..MaxLive /\ sending \in Conns \cup {None}
             /\ handling \in {"receive", "count", "release"} /\ fresh \in Conns \cup {None}
             /\ client \in [Clients -> Conns \cup {"nothing", "emptySig"}]
             /\ openFails \in 0..MaxOpenFails /\ doubled \in 0..MaxDoubled
             /\ panicked \in BOOLEAN

(* The type invariant, variable by variable, of a state and of the next one. *)
LEMMA TypeOKFacts == (TypeOK <=> TypeFacts) /\ (TypeOK' <=> TypeFacts')
<1>1. ChanCap \in Nat
  BY ConnectPoolAssumption
<1>2. TypeOK <=> TypeFacts
  BY <1>1, BoundedSeqDef DEF TypeOK, TypeFacts
<1>3. TypeOK' <=> TypeFacts'
  BY <1>1, BoundedSeqDef DEF TypeOK, TypeFacts
<1> QED BY <1>2, <1>3

(* The assumptions, one by one. *)
LEMMA ConstantFacts ==
  /\ MinIdle \in Nat /\ AddOnce \in Nat /\ MaxLive \in Nat /\ ChanCap \in Nat
  /\ MaxOpenFails \in Nat /\ MaxDoubled \in Nat
  /\ 1 <= MinIdle /\ MinIdle < MaxLive /\ AddOnce <= MaxLive
  /\ None \notin Conns /\ "nothing" \notin Conns /\ "emptySig" \notin Conns
  BY ConnectPoolAssumption

(* One of at most one. *)
LEMMA AtMostOneElement ==
  ASSUME NEW S, \A x, y \in S : x = y
  PROVE  IsFiniteSet(S) /\ Cardinality(S) \in 0..1 /\ (Cardinality(S) = 0 <=> S = {})
<1>1. CASE S = {}
  BY <1>1, FS_EmptySet
<1>2. CASE S # {}
  <2>1. PICK x : S = {x}
    BY <1>2
  <2>2. IsFiniteSet({x}) /\ Cardinality({x}) = 1
    BY FS_Singleton, Zenon
  <2>3. IsFiniteSet(S) /\ Cardinality(S) = 1
    BY <2>1, <2>2
  <2> QED BY <1>2, <2>3
<1> QED BY <1>1, <1>2

(* The invariant implies the two properties. *)
LEMMA IInvImplies == IInv => CountersExact /\ HeldOnce
<1> SUFFICES ASSUME IInv PROVE CountersExact /\ HeldOnce
  OBVIOUS
<1>1. CountersExact
  BY FS_CardinalityType DEF IInv, RoundInv, LiveInv, Alive, CountersExact
<1>2. ASSUME NEW c \in Conns
      PROVE  /\ Cardinality(Holders(c)) + Cardinality(Idle(c)) + (IF fresh = c THEN 1 ELSE 0) <= 1
             /\ where[c] # "pool" => Holders(c) = {} /\ Idle(c) = {}
  <2>1. \A g, h \in Holders(c) : g = h
    BY DEF IInv, PoolInv, Holders
  <2>2. \A i, j \in Idle(c) : i = j
    BY DEF IInv, PoolInv, Distinct, Idle
  <2>3. Holders(c) = {} \/ Idle(c) = {}
    BY DEF IInv, PoolInv, Holders, Idle
  <2>4. fresh = c => Holders(c) = {} /\ Idle(c) = {}
    BY DEF IInv, PoolInv, Holders, Idle
  <2>5. where[c] # "pool" => Holders(c) = {} /\ Idle(c) = {}
    BY DEF IInv, PoolInv, Holders, Idle
  <2>6. /\ Cardinality(Holders(c)) \in 0..1 /\ (Cardinality(Holders(c)) = 0 <=> Holders(c) = {})
        /\ Cardinality(Idle(c)) \in 0..1 /\ (Cardinality(Idle(c)) = 0 <=> Idle(c) = {})
    BY <2>1, <2>2, AtMostOneElement
  <2> QED BY <2>3, <2>4, <2>5, <2>6
<1> QED BY <1>1, <1>2 DEF HeldOnce

(* The pool is empty. *)
LEMMA InitIInv == Init => IInv
<1> SUFFICES ASSUME Init PROVE IInv
  OBVIOUS
<1>1. TypeFacts
  <2>1. panicked \in BOOLEAN
    BY Zenon DEF Init
  <2> QED BY <2>1, ConstantFacts DEF Init, TypeFacts
<1>2. InProgress = {} /\ Alive = {}
  BY DEF Init, InProgress, Alive
<1>3. RoundInv /\ LiveInv
  BY <1>2, FS_EmptySet, ConstantFacts DEF Init, RoundInv, LiveInv
<1>4. ChanInv /\ PoolInv
  BY ConstantFacts DEF Init, ChanInv, PoolInv, Distinct
<1> QED BY <1>1, <1>3, <1>4, TypeOKFacts DEF IInv

-----------------------------------------------------------------------------
(* Frames *)

(* Connects under way stay as they are. *)
LEMMA RoundFrame ==
  ASSUME RoundInv, InProgress' = InProgress, UNCHANGED <<toNewNum, doubled>>,
         \/ keeper' = keeper /\ left' = left
         \/ keeper # "connect" /\ keeper' # "connect"
  PROVE  RoundInv'
  BY DEF RoundInv

(* Nothing is registered, closed or counted. *)
LEMMA LiveFrame ==
  ASSUME LiveInv, UNCHANGED <<alive, liveNum, openFails>>,
         handling' = handling \/ (handling # "count" /\ handling' # "count")
  PROVE  LiveInv'
<1>1. Alive' = Alive
  BY DEF Alive
<1> QED BY <1>1 DEF LiveInv

(* What is in the pool or queued stays so. *)
LEMMA ChanFrame ==
  ASSUME TypeFacts, ChanInv, UNCHANGED <<alive, newConnChan>>,
         \A c \in Conns : where[c] \in {"pool", "queued"} => where'[c] = where[c]
  PROVE  ChanInv'
<1>1. \A i \in 1..Len(newConnChan) : newConnChan[i] \in Conns
  BY DEF TypeFacts
<1> QED BY <1>1 DEF ChanInv

(* A step that touches neither the connections in the pool nor who has them. *)
LEMMA PoolFrame ==
  ASSUME TypeFacts, PoolInv, UNCHANGED <<conns, client, fresh, handling>>,
         \A c \in Conns : where[c] = "pool" => where'[c] = "pool"
  PROVE  PoolInv'
<1>1. \A i \in 1..Len(conns) : conns[i] \in Conns
  BY DEF TypeFacts
<1> QED BY <1>1 DEF PoolInv, TypeFacts

(* The steps of keepNumTiming that change nothing but where it is. *)
LEMMA KeeperFrame ==
  ASSUME IInv, UNCHANGED <<conns, toNewNum, liveNum, newConnChan, where, alive, sending,
                           onNewConn, faults>>,
         keeper' \in {"select", "idleNum", "liveNum", "cas", "connect"}, left' \in 0..MaxLive,
         \/ keeper' = keeper /\ left' = left
         \/ keeper # "connect" /\ keeper' # "connect",
         client' = client
  PROVE  IInv'
<1>1. TypeFacts
  BY TypeOKFacts DEF IInv
<1>2. TypeFacts'
  BY <1>1 DEF TypeFacts, onNewConn, faults
<1>3. InProgress' = InProgress
  BY DEF InProgress
<1>4. RoundInv'
  BY <1>3, RoundFrame DEF IInv, faults
<1>5. LiveInv'
  BY LiveFrame DEF IInv, onNewConn, faults
<1>6. ChanInv'
  BY <1>1, ChanFrame DEF IInv
<1>7. PoolInv'
  BY <1>1, PoolFrame DEF IInv, onNewConn
<1> QED BY <1>2, <1>4, <1>5, <1>6, <1>7, TypeOKFacts DEF IInv

-----------------------------------------------------------------------------
(* Acquire and Release *)

(* Acquire takes the first idle connection out of the list. *)
LEMMA AcquireStep ==
  ASSUME IInv, NEW g \in Clients, Acquire(g)
  PROVE  IInv'
<1>1. TypeFacts /\ client[g] = "nothing"
  BY TypeOKFacts DEF IInv, Acquire
<1>2. UNCHANGED <<toNewNum, liveNum, newConnChan, where, alive, keeper, left, sending, handling,
                  fresh, openFails, doubled, panicked>>
  BY DEF Acquire, keepNum, onNewConn, faults
<1>3. InProgress' = InProgress
  BY <1>2 DEF InProgress
<1>4. RoundInv' /\ LiveInv' /\ ChanInv'
  BY <1>1, <1>2, <1>3, RoundFrame, LiveFrame, ChanFrame DEF IInv
<1>5. CASE conns # <<>> /\ client' = [client EXCEPT ![g] = Head(conns)] /\ conns' = Tail(conns)
  <2>1. /\ conns' \in Seq(Conns) /\ Head(conns) \in Conns
        /\ Head(conns) = conns[1] /\ 1 \in 1..Len(conns)
        /\ \A i \in 1..Len(conns') : conns'[i] = conns[i + 1] /\ i + 1 \in 1..Len(conns)
    BY <1>1, <1>5, TailElements DEF TypeFacts
  <2>2. Distinct(conns') /\ \A i \in 1..Len(conns') : conns'[i] # Head(conns)
    BY <1>1, <1>5, TailDistinct DEF TypeFacts, IInv, PoolInv
  <2>3. client'[g] = Head(conns) /\ \A h \in Clients : h # g => client'[h] = client[h]
    BY <1>1, <1>5 DEF TypeFacts
  <2>4. TypeFacts'
    BY <1>1, <1>2, <1>5, <2>1 DEF TypeFacts
  <2>5. where[Head(conns)] = "pool" /\ Head(conns) # fresh /\ \A h \in Clients : client[h] # Head(conns)
    BY <2>1 DEF IInv, PoolInv
  <2>6. \A i \in 1..Len(conns') : /\ where'[conns'[i]] = "pool" /\ conns'[i] # fresh'
                                  /\ \A h \in Clients : client'[h] # conns'[i]
    BY <1>2, <2>1, <2>2, <2>3 DEF IInv, PoolInv
  <2>7. ASSUME NEW h \in Clients, client'[h] \in Conns
        PROVE  /\ where'[client'[h]] = "pool" /\ client'[h] # fresh'
               /\ \A k \in Clients : client'[k] = client'[h] => k = h
    BY <1>2, <2>3, <2>5, <2>7 DEF IInv, PoolInv
  <2>8. PoolInv'
    BY <1>2, <2>2, <2>6, <2>7 DEF IInv, PoolInv
  <2> QED BY <1>4, <2>4, <2>8, TypeOKFacts DEF IInv
<1>6. CASE client' = [client EXCEPT ![g] = "emptySig"] /\ UNCHANGED conns
  <2>1. TypeFacts'
    BY <1>1, <1>2, <1>6 DEF TypeFacts
  <2>2. client'[g] = "emptySig" /\ \A h \in Clients : h # g => client'[h] = client[h]
    BY <1>1, <1>6 DEF TypeFacts
  <2>3. \A i \in 1..Len(conns) : conns[i] \in Conns
    BY <1>1 DEF TypeFacts
  <2>4. \A i \in 1..Len(conns) : conns[i] # "emptySig"
    BY <2>3, ConstantFacts
  <2>5. PoolInv'
    BY <1>2, <1>6, <2>2, <2>4, ConstantFacts DEF IInv, PoolInv
  <2> QED BY <1>4, <2>1, <2>5, TypeOKFacts DEF IInv
<1> QED BY <1>5, <1>6 DEF Acquire

(* A client's connection is put back, or dropped once it is closed. *)
LEMMA ReleaseStep ==
  ASSUME IInv, NEW g \in Clients, Release(g)
  PROVE  IInv'
<1>1. TypeFacts /\ client[g] \in Conns
  BY TypeOKFacts DEF IInv, Release
<1>2. PICK c \in Conns : c = client[g]
  BY <1>1
<1>3. UNCHANGED <<toNewNum, liveNum, newConnChan, alive, keeper, left, sending, handling,
                  fresh, openFails, doubled, panicked>>
  BY DEF Release, keepNum, onNewConn, faults
<1>4. client' = [client EXCEPT ![g] = "nothing"]
  BY DEF Release
<1>5. client'[g] = "nothing" /\ \A h \in Clients : h # g => client'[h] = client[h]
  BY <1>1, <1>4 DEF TypeFacts
<1>6. client' \in [Clients -> Conns \cup {"nothing", "emptySig"}]
  BY <1>1, <1>4 DEF TypeFacts
<1>7. where[c] = "pool" /\ c # fresh /\ \A h \in Clients : client[h] = c => h = g
  BY <1>1, <1>2 DEF IInv, PoolInv
<1>8. \A i \in 1..Len(conns) : conns[i] \in Conns /\ conns[i] # c /\ conns[i] # "nothing"
  <2>1. \A i \in 1..Len(conns) : conns[i] \in Conns
    BY <1>1 DEF TypeFacts
  <2> QED BY <1>2, <2>1, ConstantFacts DEF IInv, PoolInv
<1>9. CASE conns' = Append(conns, c) /\ UNCHANGED where
  <2>1. InProgress' = InProgress
    BY <1>9 DEF InProgress
  <2>2. RoundInv' /\ LiveInv' /\ ChanInv'
    BY <1>1, <1>3, <1>9, <2>1, RoundFrame, LiveFrame, ChanFrame DEF IInv
  <2>3. /\ conns' \in Seq(Conns)
        /\ \A i \in 1..Len(conns) : conns'[i] = conns[i]
        /\ conns'[Len(conns) + 1] = c
        /\ \A i \in 1..Len(conns') : i \in 1..Len(conns) \/ i = Len(conns) + 1
    BY <1>1, <1>9, AppendElements DEF TypeFacts
  <2>4. TypeFacts'
    BY <1>1, <1>3, <1>6, <1>9, <2>3 DEF TypeFacts
  <2>5. Distinct(conns')
    BY <1>1, <1>8, <1>9, AppendDistinct DEF TypeFacts, IInv, PoolInv
  <2>6. \A h \in Clients : client'[h] # c /\ (client'[h] \in Conns => client'[h] = client[h])
    BY <1>5, <1>7, ConstantFacts
  <2>7. \A i \in 1..Len(conns') : /\ where'[conns'[i]] = "pool" /\ conns'[i] # fresh'
                                  /\ \A h \in Clients : client'[h] # conns'[i]
    BY <1>3, <1>5, <1>7, <1>8, <1>9, <2>3, <2>6 DEF IInv, PoolInv
  <2>8. PoolInv'
    BY <1>3, <1>5, <1>9, <2>5, <2>6, <2>7, ConstantFacts DEF IInv, PoolInv
  <2> QED BY <2>2, <2>4, <2>8, TypeOKFacts DEF IInv
<1>10. CASE ~alive[c] /\ where' = [where EXCEPT ![c] = "none"] /\ UNCHANGED conns
  <2>1. where'[c] = "none" /\ \A d \in Conns : d # c => where'[d] = where[d]
    BY <1>1, <1>10 DEF TypeFacts
  <2>2. InProgress' = InProgress
    BY <1>7, <2>1 DEF InProgress
  <2>3. RoundInv' /\ LiveInv'
    BY <1>3, <2>2, RoundFrame, LiveFrame DEF IInv
  <2>4. \A i \in 1..Len(newConnChan) : newConnChan[i] \in Conns /\ where[newConnChan[i]] = "queued"
    BY <1>1 DEF TypeFacts, IInv, ChanInv
  <2>5. ChanInv'
    BY <1>3, <1>7, <1>10, <2>1, <2>4 DEF IInv, ChanInv
  <2>6. TypeFacts'
    BY <1>1, <1>3, <1>6, <1>10 DEF TypeFacts
  <2>7. \A h \in Clients : client'[h] # c /\ (client'[h] \in Conns => client'[h] = client[h])
    BY <1>5, <1>7, ConstantFacts
  <2>8. fresh # None => fresh \in Conns
    BY <1>1 DEF TypeFacts
  <2>9. PoolInv'
    BY <1>3, <1>5, <1>7, <1>8, <1>10, <2>1, <2>7, <2>8, ConstantFacts DEF IInv, PoolInv
  <2> QED BY <2>3, <2>5, <2>6, <2>9, TypeOKFacts DEF IInv
<1> QED BY <1>2, <1>9, <1>10 DEF Release

(* A registered connection is closed, wherever it is in the pool, and counted down. *)
LEMMA ClosedStep ==
  ASSUME IInv, NEW c \in Conns, Closed(c)
  PROVE  IInv'
<1>1. TypeFacts /\ alive[c]
  BY TypeOKFacts DEF IInv, Closed
<1>2. /\ alive' = [alive EXCEPT ![c] = FALSE] /\ liveNum' = liveNum - 1
      /\ UNCHANGED <<conns, toNewNum, newConnChan, where, keeper, left, sending, handling, fresh,
                     client, openFails, doubled, panicked>>
  BY DEF Closed, keepNum, onNewConn, faults
<1>3. alive' \in [Conns -> BOOLEAN]
  BY <1>1, <1>2, Zenon DEF TypeFacts
<1>4. ~alive'[c] /\ \A d \in Conns : d # c => alive'[d] = alive[d]
  BY <1>1, <1>2 DEF TypeFacts
<1>5. TypeFacts'
  BY <1>1, <1>2, <1>3 DEF TypeFacts
<1>6. InProgress' = InProgress
  BY <1>2 DEF InProgress
<1>7. RoundInv' /\ PoolInv'
  BY <1>1, <1>2, <1>6, RoundFrame, PoolFrame DEF IInv
<1>8. Alive' = Alive \ {c} /\ c \in Alive
  BY <1>1, <1>4 DEF Alive
<1>9. LiveInv'
  <2>1. IsFiniteSet(Alive') /\ Cardinality(Alive') = Cardinality(Alive) - 1
        /\ Cardinality(Alive) \in Nat
    BY <1>8, FS_RemoveElement, FS_CardinalityType DEF IInv, LiveInv
  <2> QED BY <1>2, <2>1 DEF IInv, LiveInv
<1>10. ChanInv'
  BY <1>2, <1>4 DEF IInv, ChanInv
<1> QED BY <1>5, <1>7, <1>9, <1>10, TypeOKFacts DEF IInv

-----------------------------------------------------------------------------
(* keepNumTiming *)

(* The ticker, and the decision whether there are enough idle connections. *)
LEMMA TickStep == ASSUME IInv, Tick PROVE IInv'
<1>1. left \in 0..MaxLive
  BY TypeOKFacts DEF IInv, TypeFacts
<1> QED BY <1>1, KeeperFrame DEF Tick

(* keepNum reads the number of idle connections. *)
LEMMA IdleNumStep == ASSUME IInv, IdleNum PROVE IInv'
<1>1. left \in 0..MaxLive
  BY TypeOKFacts DEF IInv, TypeFacts
<1> QED BY <1>1, KeeperFrame DEF IdleNum

(* The signal of a client. *)
LEMMA EmptySigStep ==
  ASSUME IInv, NEW g \in Clients, EmptySig(g)
  PROVE  IInv'
<1>1. TypeFacts /\ client[g] = "emptySig" /\ keeper = "select" /\ keeper' = "idleNum"
  BY TypeOKFacts DEF IInv, EmptySig
<1>2. /\ client' = [client EXCEPT ![g] = "nothing"]
      /\ UNCHANGED <<conns, toNewNum, liveNum, newConnChan, where, alive, left, sending, handling,
                     fresh, openFails, doubled, panicked>>
  BY DEF EmptySig, onNewConn, faults
<1>3. client'[g] = "nothing" /\ \A h \in Clients : h # g => client'[h] = client[h]
  BY <1>1, <1>2 DEF TypeFacts
<1>4. TypeFacts'
  BY <1>1, <1>2 DEF TypeFacts
<1>5. InProgress' = InProgress
  BY <1>2 DEF InProgress
<1>6. RoundInv' /\ LiveInv' /\ ChanInv'
  BY <1>1, <1>2, <1>5, RoundFrame, LiveFrame, ChanFrame DEF IInv
<1>7. \A i \in 1..Len(conns) : conns[i] \in Conns
  BY <1>1 DEF TypeFacts
<1>8. \A i \in 1..Len(conns) : conns[i] # "nothing"
  BY <1>7, ConstantFacts
<1>9. PoolInv'
  BY <1>2, <1>3, <1>8, ConstantFacts DEF IInv, PoolInv
<1> QED BY <1>4, <1>6, <1>9, TypeOKFacts DEF IInv

(* A round never makes more than MaxLive connects, though liveNum may be negative. *)
LEMMA ToNewBound ==
  ASSUME NEW live \in Int, ToNew(live) >= 1
  PROVE  ToNew(live) \in 1..MaxLive
  BY ConstantFacts DEF ToNew

(* keepNum reads liveNum and decides how many connections are missing. *)
LEMMA LiveNumStep == ASSUME IInv, LiveNum PROVE IInv'
<1>1. TypeFacts
  BY TypeOKFacts DEF IInv
<1>2. left' \in 0..MaxLive
  BY <1>1, ToNewBound DEF LiveNum, TypeFacts
<1> QED BY <1>2, KeeperFrame DEF LiveNum

(* A round begins only when no connect is under way. *)
LEMMA CasStep == ASSUME IInv, Cas PROVE IInv'
<1>1. TypeFacts /\ keeper = "cas"
  BY TypeOKFacts DEF IInv, Cas
<1>2. CASE toNewNum # 0 /\ keeper' = "select" /\ left' = 0 /\ UNCHANGED toNewNum
  <2>1. left' \in 0..MaxLive
    BY <1>2, ConstantFacts
  <2> QED BY <1>1, <1>2, <2>1, KeeperFrame DEF Cas
<1>3. CASE toNewNum = 0 /\ toNewNum' = left /\ keeper' = "connect" /\ UNCHANGED left
  <2>1. UNCHANGED <<conns, liveNum, newConnChan, where, alive, sending, handling, fresh, client,
                    openFails, doubled, panicked>>
    BY DEF Cas, onNewConn, faults
  <2>2. TypeFacts'
    BY <1>1, <1>3, <2>1 DEF TypeFacts
  <2>3. InProgress' = InProgress
    BY <2>1 DEF InProgress
  <2>4. RoundInv'
    <3>1. doubled = 0 => Cardinality(InProgress) = 0
      BY <1>1, <1>3, FS_CardinalityType DEF IInv, RoundInv
    <3>2. left \in 0..MaxLive
      BY <1>1 DEF TypeFacts
    <3> QED BY <1>3, <2>1, <2>3, <3>1, <3>2, ConstantFacts DEF IInv, RoundInv
  <2>5. LiveInv' /\ ChanInv' /\ PoolInv'
    BY <1>1, <2>1, LiveFrame, ChanFrame, PoolFrame DEF IInv
  <2> QED BY <2>2, <2>4, <2>5, TypeOKFacts DEF IInv
<1> QED BY <1>2, <1>3 DEF Cas

(* A connect of the round fails, is under way, or has succeeded. *)
LEMMA ConnectStep == ASSUME IInv, Connect PROVE IInv'
<1>1. TypeFacts /\ keeper = "connect"
  BY TypeOKFacts DEF IInv, Connect
<1>2. UNCHANGED <<conns, liveNum, newConnChan, alive, handling, fresh, client, openFails, doubled,
                  panicked>>
  BY DEF Connect, onNewConn, faults
<1>3. /\ IsFiniteSet(InProgress) /\ Cardinality(InProgress) \in Nat
      /\ doubled = 0 => toNewNum = Cardinality(InProgress) + left /\ toNewNum <= MaxLive
  BY <1>1, FS_CardinalityType DEF IInv, RoundInv
<1>4. CASE left = 0 /\ keeper' = "select" /\ UNCHANGED <<left, sending, toNewNum, where>>
  <2>1. TypeFacts'
    BY <1>1, <1>2, <1>4 DEF TypeFacts
  <2>2. InProgress' = InProgress
    BY <1>4 DEF InProgress
  <2>3. RoundInv'
    BY <1>2, <1>3, <1>4, <2>2 DEF RoundInv
  <2>4. LiveInv' /\ ChanInv' /\ PoolInv'
    BY <1>1, <1>2, <1>4, LiveFrame, ChanFrame, PoolFrame DEF IInv
  <2> QED BY <2>1, <2>3, <2>4, TypeOKFacts DEF IInv
<1>5. CASE left > 0 /\ left' = left - 1 /\ UNCHANGED keeper
  <2>1. /\ left \in 1..MaxLive /\ left' \in 0..MaxLive /\ MaxLive \in Nat
        /\ toNewNum \in Int /\ toNewNum - 1 \in Int
    BY <1>1, <1>5, ConstantFacts DEF TypeFacts
  <2>2. CASE ConnectError
    <3>1. toNewNum' = toNewNum - 1 /\ UNCHANGED <<where, sending>>
      BY <2>2 DEF ConnectError
    <3>2. TypeFacts'
      BY <1>1, <1>2, <1>5, <2>1, <3>1 DEF TypeFacts
    <3>3. InProgress' = InProgress
      BY <3>1 DEF InProgress
    <3>4. RoundInv'
      BY <1>1, <1>2, <1>3, <1>5, <2>1, <3>1, <3>3 DEF RoundInv
    <3>5. LiveInv' /\ ChanInv' /\ PoolInv'
      BY <1>1, <1>2, <3>1, LiveFrame, ChanFrame, PoolFrame DEF IInv
    <3> QED BY <3>2, <3>4, <3>5, TypeOKFacts DEF IInv
  <2>3. ASSUME NEW c \in Unused, NEW w \in {"connecting", "sending"},
               where' = [where EXCEPT ![c] = w], sending' \in Conns \cup {None},
               toNewNum' = IF w = "connecting" THEN toNewNum ELSE toNewNum - 1
        PROVE  IInv'
    <3>1. c \in Conns /\ where[c] = "none"
      BY DEF Unused
    <3>2. where'[c] = w /\ \A d \in Conns : d # c => where'[d] = where[d]
      BY <1>1, <2>3, <3>1 DEF TypeFacts
    <3>3. TypeFacts'
      BY <1>1, <1>2, <1>5, <2>1, <2>3, <3>1 DEF TypeFacts
    <3>4. RoundInv'
      <4>1. CASE w = "connecting"
        <5>1. InProgress' = InProgress \cup {c} /\ c \notin InProgress
          BY <3>1, <3>2, <4>1 DEF InProgress
        <5>2. IsFiniteSet(InProgress') /\ Cardinality(InProgress') = Cardinality(InProgress) + 1
          BY <1>3, <5>1, FS_AddElement
        <5> QED BY <1>1, <1>2, <1>3, <1>5, <2>1, <2>3, <4>1, <5>2 DEF RoundInv
      <4>2. CASE w = "sending"
        <5>1. InProgress' = InProgress
          BY <3>1, <3>2, <4>2 DEF InProgress
        <5> QED BY <1>1, <1>2, <1>3, <1>5, <2>1, <2>3, <4>2, <5>1 DEF RoundInv
      <4> QED BY <4>1, <4>2
    <3>5. LiveInv' /\ ChanInv' /\ PoolInv'
      BY <1>1, <1>2, <3>1, <3>2, LiveFrame, ChanFrame, PoolFrame DEF IInv
    <3> QED BY <3>3, <3>4, <3>5, TypeOKFacts DEF IInv
  <2>4. ASSUME NEW c \in Unused, where' = [where EXCEPT ![c] = "connecting"],
               UNCHANGED <<sending, toNewNum>>
        PROVE  IInv'
    BY <1>1, <2>3, <2>4 DEF TypeFacts
  <2>5. ASSUME NEW c \in Unused, where' = [where EXCEPT ![c] = "sending"],
               sending' = c, toNewNum' = toNewNum - 1
        PROVE  IInv'
    BY <2>3, <2>5 DEF Unused
  <2> QED BY <1>5, <2>2, <2>4, <2>5 DEF Connect
<1> QED BY <1>4, <1>5 DEF Connect

-----------------------------------------------------------------------------
(* New connections *)

(* A connect that is under way is reported, and counts no longer. *)
LEMMA ReportedStep ==
  ASSUME IInv, NEW c \in Conns, where[c] = "connecting",
         NEW w \in {"sending", "none", "again"}, where' = [where EXCEPT ![c] = w],
         toNewNum' = toNewNum - 1,
         UNCHANGED <<conns, liveNum, newConnChan, alive, keepNum, onNewConn, client, faults>>
  PROVE  IInv'
<1>1. TypeFacts
  BY TypeOKFacts DEF IInv
<1>2. UNCHANGED <<conns, liveNum, newConnChan, alive, keeper, left, sending, handling, fresh,
                  client, openFails, doubled, panicked>>
  BY DEF keepNum, onNewConn, faults
<1>3. where'[c] = w /\ \A d \in Conns : d # c => where'[d] = where[d]
  BY <1>1 DEF TypeFacts
<1>4. InProgress' = InProgress \ {c} /\ c \in InProgress
  BY <1>3 DEF InProgress
<1>5. /\ IsFiniteSet(InProgress') /\ Cardinality(InProgress') = Cardinality(InProgress) - 1
      /\ Cardinality(InProgress') \in Nat /\ Cardinality(InProgress) \in Nat
  BY <1>4, FS_RemoveElement, FS_CardinalityType DEF IInv, RoundInv
<1>6. toNewNum \in Int /\ left \in 0..MaxLive /\ MaxLive \in Nat
  BY <1>1, ConstantFacts DEF TypeFacts
<1>7. RoundInv'
  BY <1>2, <1>5, <1>6 DEF IInv, RoundInv
<1>8. TypeFacts'
  BY <1>1, <1>2, <1>6 DEF TypeFacts
<1>9. LiveInv' /\ ChanInv' /\ PoolInv'
  BY <1>1, <1>2, <1>3, LiveFrame, ChanFrame, PoolFrame DEF IInv
<1> QED BY <1>7, <1>8, <1>9, TypeOKFacts DEF IInv

(* A connection on its way into the pool goes on without being reported. *)
LEMMA WayFrame ==
  ASSUME IInv, NEW c \in Conns, NEW w \in {"refused", "sending", "none"},
         where' = [where EXCEPT ![c] = w],
         \/ where[c] = "connecting" /\ w = "refused" /\ UNCHANGED <<toNewNum, doubled>>
         \/ where[c] = "again" /\ w = "none" /\ UNCHANGED <<toNewNum, doubled>>
         \/ /\ where[c] = "again" /\ w = "sending"
            /\ toNewNum' = toNewNum - 1
            /\ doubled < MaxDoubled /\ doubled' = doubled + 1,
         UNCHANGED <<conns, liveNum, newConnChan, alive, keepNum, onNewConn, client, openFails,
                     panicked>>
  PROVE  IInv'
<1>1. TypeFacts
  BY TypeOKFacts DEF IInv
<1>2. UNCHANGED <<conns, liveNum, newConnChan, alive, keeper, left, sending, handling, fresh,
                  client, openFails, panicked>>
  BY DEF keepNum, onNewConn
<1>3. where'[c] = w /\ \A d \in Conns : d # c => where'[d] = where[d]
  BY <1>1 DEF TypeFacts
<1>4. InProgress' = InProgress
  BY <1>3 DEF InProgress
<1>5. doubled \in 0..MaxDoubled /\ MaxDoubled \in Nat /\ toNewNum \in Int
  BY <1>1, ConstantFacts DEF TypeFacts
<1>6. /\ doubled' \in 0..MaxDoubled /\ toNewNum' \in Int
      /\ doubled' = 0 => doubled = 0 /\ toNewNum' = toNewNum
  BY <1>5
<1>7. RoundInv'
  BY <1>2, <1>4, <1>6 DEF IInv, RoundInv
<1>8. TypeFacts'
  BY <1>1, <1>2, <1>6 DEF TypeFacts
<1>9. LiveInv' /\ ChanInv' /\ PoolInv'
  BY <1>1, <1>2, <1>3, LiveFrame, ChanFrame, PoolFrame DEF IInv
<1> QED BY <1>7, <1>8, <1>9, TypeOKFacts DEF IInv

(* A connect succeeds, fails or is refused. *)
LEMMA ReportStep ==
  ASSUME IInv, NEW c \in Conns, Report(c)
  PROVE  IInv'
<1>1. CASE OnOpen(c)
  BY <1>1, ReportedStep DEF OnOpen
<1>2. CASE OnConnectFail(c)
  BY <1>2, ReportedStep DEF OnConnectFail
<1>3. CASE Refused(c)
  BY <1>3, WayFrame DEF Refused, faults
<1> QED BY <1>1, <1>2, <1>3 DEF Report

(* An entry of a batch leads to a connect that timed out before. *)
LEMMA OnOpenAgainStep ==
  ASSUME IInv, NEW c \in Conns, OnOpenAgain(c)
  PROVE  IInv'
  BY WayFrame DEF OnOpenAgain

(* The timer of a refused connect ends the process. *)
LEMMA ExpiresStep ==
  ASSUME IInv, NEW c \in Conns, Expires(c)
  PROVE  IInv'
<1>1. TypeFacts
  BY TypeOKFacts DEF IInv
<1>2. UNCHANGED <<conns, toNewNum, liveNum, newConnChan, where, alive, keeper, left, sending,
                  handling, fresh, client, openFails, doubled>>
  BY DEF Expires, keepNum, onNewConn
<1>3. panicked' \in BOOLEAN
  BY Zenon DEF Expires
<1>4. TypeFacts'
  BY <1>1, <1>2, <1>3 DEF TypeFacts
<1>5. InProgress' = InProgress
  BY <1>2 DEF InProgress
<1>6. RoundInv' /\ LiveInv' /\ ChanInv' /\ PoolInv'
  BY <1>1, <1>2, <1>5, RoundFrame, LiveFrame, ChanFrame, PoolFrame DEF IInv
<1> QED BY <1>4, <1>6, TypeOKFacts DEF IInv

(* A connection goes into the channel, in which it is not yet. *)
LEMMA SendStep ==
  ASSUME IInv, NEW c \in Conns, Send(c)
  PROVE  IInv'
<1>1. TypeFacts /\ where[c] = "sending" /\ Len(newConnChan) < ChanCap
  BY TypeOKFacts DEF IInv, Send
<1>2. /\ newConnChan' = Append(newConnChan, c)
      /\ where' = [where EXCEPT ![c] = "queued"]
      /\ sending' = IF sending = c THEN None ELSE sending
      /\ UNCHANGED <<conns, toNewNum, liveNum, alive, keeper, left, handling, fresh, client,
                     openFails, doubled, panicked>>
  BY DEF Send, onNewConn, faults
<1>3. where'[c] = "queued" /\ \A d \in Conns : d # c => where'[d] = where[d]
  BY <1>1, <1>2 DEF TypeFacts
<1>4. /\ newConnChan' \in Seq(Conns) /\ Len(newConnChan') = Len(newConnChan) + 1
      /\ Len(newConnChan) \in Nat
      /\ \A i \in 1..Len(newConnChan) : newConnChan'[i] = newConnChan[i]
      /\ newConnChan'[Len(newConnChan) + 1] = c
      /\ \A i \in 1..Len(newConnChan') : i \in 1..Len(newConnChan) \/ i = Len(newConnChan) + 1
  BY <1>1, <1>2, AppendElements DEF TypeFacts
<1>5. TypeFacts'
  BY <1>1, <1>2, <1>4, ConstantFacts DEF TypeFacts
<1>6. InProgress' = InProgress
  BY <1>1, <1>3 DEF InProgress
<1>7. RoundInv' /\ LiveInv' /\ PoolInv'
  BY <1>1, <1>2, <1>3, <1>6, RoundFrame, LiveFrame, PoolFrame DEF IInv
<1>8. \A i \in 1..Len(newConnChan) : newConnChan[i] \in Conns /\ where[newConnChan[i]] = "queued"
  BY <1>1 DEF TypeFacts, IInv, ChanInv
<1>9. ChanInv'
  <2>1. \A i \in 1..Len(newConnChan) : newConnChan[i] # c
    BY <1>1, <1>8
  <2>2. Distinct(newConnChan')
    BY <1>1, <1>2, <2>1, AppendDistinct DEF TypeFacts, IInv, ChanInv
  <2>3. \A i \in 1..Len(newConnChan') : where'[newConnChan'[i]] = "queued"
    BY <1>3, <1>4, <1>8, <2>1
  <2>4. \A d \in Conns : alive'[d] => where'[d] = "pool"
    BY <1>1, <1>2, <1>3 DEF IInv, ChanInv
  <2> QED BY <2>2, <2>3, <2>4 DEF ChanInv
<1> QED BY <1>5, <1>7, <1>9, TypeOKFacts DEF IInv

(* A connection comes out of the channel, and its handler's OnOpen succeeds or fails. *)
LEMMA ReceiveStep == ASSUME IInv, Receive PROVE IInv'
<1>1. TypeFacts /\ handling = "receive" /\ newConnChan # <<>> /\ newConnChan' = Tail(newConnChan)
  BY TypeOKFacts DEF IInv, Receive, MayReceive
<1>2. PICK c \in Conns : c = Head(newConnChan)
  BY <1>1 DEF TypeFacts
<1>3. UNCHANGED <<conns, toNewNum, keeper, left, sending, client, doubled, panicked>>
  BY DEF Receive, keepNum
<1>4. /\ newConnChan' \in Seq(Conns) /\ Len(newConnChan') <= ChanCap
      /\ c = newConnChan[1] /\ 1 \in 1..Len(newConnChan)
      /\ \A i \in 1..Len(newConnChan') :
           newConnChan'[i] = newConnChan[i + 1] /\ i + 1 \in 1..Len(newConnChan)
  BY <1>1, <1>2, TailElements, ConstantFacts DEF TypeFacts
<1>5. Distinct(newConnChan') /\ \A i \in 1..Len(newConnChan') : newConnChan'[i] # c
  BY <1>1, <1>2, TailDistinct DEF TypeFacts, IInv, ChanInv
<1>6. \A i \in 1..Len(newConnChan) : newConnChan[i] \in Conns /\ where[newConnChan[i]] = "queued"
  BY <1>1 DEF TypeFacts, IInv, ChanInv
<1>7. where[c] = "queued" /\ ~alive[c] /\ fresh = None
  BY <1>1, <1>4, <1>6 DEF IInv, ChanInv, PoolInv
<1>8. \A i \in 1..Len(conns) : conns[i] \in Conns /\ where[conns[i]] = "pool"
  BY <1>1 DEF TypeFacts, IInv, PoolInv
<1>9. \A g \in Clients : client[g] \in Conns => where[client[g]] = "pool"
  BY DEF IInv, PoolInv
<1>10. CASE /\ handling' = "count" /\ fresh' = c
            /\ where' = [where EXCEPT ![c] = "pool"]
            /\ alive' = [alive EXCEPT ![c] = TRUE]
            /\ UNCHANGED <<liveNum, openFails>>
  <2>1. where'[c] = "pool" /\ \A d \in Conns : d # c => where'[d] = where[d]
    BY <1>1, <1>10 DEF TypeFacts
  <2>2. alive' \in [Conns -> BOOLEAN]
    BY <1>1, <1>10, Zenon DEF TypeFacts
  <2>3. alive'[c] /\ \A d \in Conns : d # c => alive'[d] = alive[d]
    BY <1>1, <1>10 DEF TypeFacts
  <2>4. TypeFacts'
    BY <1>1, <1>3, <1>4, <1>10, <2>2 DEF TypeFacts
  <2>5. InProgress' = InProgress
    BY <1>7, <2>1 DEF InProgress
  <2>6. RoundInv'
    BY <1>3, <2>5, RoundFrame DEF IInv
  <2>7. LiveInv'
    <3>1. Alive' = Alive \cup {c} /\ c \notin Alive
      BY <1>7, <2>3 DEF Alive
    <3>2. IsFiniteSet(Alive') /\ Cardinality(Alive') = Cardinality(Alive) + 1
          /\ Cardinality(Alive) \in Nat
      BY <3>1, FS_AddElement, FS_CardinalityType DEF IInv, LiveInv
    <3> QED BY <1>1, <1>10, <3>2 DEF IInv, LiveInv
  <2>8. ChanInv'
    <3>1. \A i \in 1..Len(newConnChan') : where'[newConnChan'[i]] = "queued"
      BY <1>4, <1>5, <1>6, <2>1
    <3>2. \A d \in Conns : alive'[d] => where'[d] = "pool"
      BY <2>1, <2>3 DEF IInv, ChanInv
    <3> QED BY <1>5, <3>1, <3>2 DEF ChanInv
  <2>9. PoolInv'
    <3>1. \A i \in 1..Len(conns) : conns[i] # c /\ where'[conns[i]] = "pool"
      BY <1>7, <1>8, <2>1
    <3>2. \A g \in Clients : client[g] \in Conns => client[g] # c /\ where'[client[g]] = "pool"
      BY <1>7, <1>9, <2>1
    <3> QED BY <1>3, <1>10, <2>1, <3>1, <3>2, ConstantFacts DEF IInv, PoolInv
  <2> QED BY <2>4, <2>6, <2>7, <2>8, <2>9, TypeOKFacts DEF IInv
<1>11. CASE /\ openFails < MaxOpenFails
            /\ openFails' = openFails + 1
            /\ liveNum' = liveNum - 1
            /\ where' = [where EXCEPT ![c] = "none"]
            /\ UNCHANGED <<handling, fresh, alive>>
  <2>1. where'[c] = "none" /\ \A d \in Conns : d # c => where'[d] = where[d]
    BY <1>1, <1>11 DEF TypeFacts
  <2>2. openFails' \in 1..MaxOpenFails /\ liveNum' \in Int
    BY <1>1, <1>11, ConstantFacts DEF TypeFacts
  <2>3. TypeFacts'
    BY <1>1, <1>3, <1>4, <1>11, <2>2 DEF TypeFacts
  <2>4. InProgress' = InProgress /\ Alive' = Alive
    BY <1>7, <1>11, <2>1 DEF InProgress, Alive
  <2>5. RoundInv'
    BY <1>3, <2>4, RoundFrame DEF IInv
  <2>6. LiveInv'
    BY <2>2, <2>4 DEF IInv, LiveInv
  <2>7. ChanInv'
    <3>1. \A i \in 1..Len(newConnChan') : where'[newConnChan'[i]] = "queued"
      BY <1>4, <1>5, <1>6, <2>1
    <3>2. \A d \in Conns : alive'[d] => where'[d] = "pool"
      BY <1>7, <1>11, <2>1 DEF IInv, ChanInv
    <3> QED BY <1>5, <3>1, <3>2 DEF ChanInv
  <2>8. PoolInv'
    BY <1>1, <1>3, <1>7, <1>11, <2>1, PoolFrame DEF IInv
  <2> QED BY <2>3, <2>5, <2>6, <2>7, <2>8, TypeOKFacts DEF IInv
<1> QED BY <1>2, <1>10, <1>11 DEF Receive

(* liveNum.Add(1). *)
LEMMA CountStep == ASSUME IInv, Count PROVE IInv'
<1>1. TypeFacts /\ handling = "count" /\ handling' = "release" /\ liveNum' = liveNum + 1
  BY TypeOKFacts DEF IInv, Count
<1>2. UNCHANGED <<conns, toNewNum, newConnChan, where, alive, keeper, left, sending, fresh, client,
                  openFails, doubled, panicked>>
  BY DEF Count, keepNum, faults
<1>3. TypeFacts'
  BY <1>1, <1>2 DEF TypeFacts
<1>4. InProgress' = InProgress /\ Alive' = Alive
  BY <1>2 DEF InProgress, Alive
<1>5. RoundInv' /\ ChanInv'
  BY <1>1, <1>2, <1>4, RoundFrame, ChanFrame DEF IInv
<1>6. LiveInv'
  <2>1. Cardinality(Alive) \in Nat
    BY FS_CardinalityType DEF IInv, LiveInv
  <2> QED BY <1>1, <1>2, <1>4, <2>1 DEF IInv, LiveInv
<1>7. PoolInv'
  BY <1>1, <1>2 DEF IInv, PoolInv
<1> QED BY <1>3, <1>5, <1>6, <1>7, TypeOKFacts DEF IInv

(* The new connection becomes an idle one. *)
LEMMA ReleaseNewStep == ASSUME IInv, ReleaseNew PROVE IInv'
<1>1. TypeFacts /\ handling = "release" /\ handling' = "receive" /\ fresh' = None
      /\ conns' = Append(conns, fresh)
  BY TypeOKFacts DEF IInv, ReleaseNew
<1>2. UNCHANGED <<toNewNum, liveNum, newConnChan, where, alive, keeper, left, sending, client,
                  openFails, doubled, panicked>>
  BY DEF ReleaseNew, keepNum, faults
<1>3. fresh \in Conns /\ where[fresh] = "pool"
  BY <1>1 DEF TypeFacts, IInv, PoolInv
<1>4. /\ conns' \in Seq(Conns)
      /\ \A i \in 1..Len(conns) : conns'[i] = conns[i]
      /\ conns'[Len(conns) + 1] = fresh
      /\ \A i \in 1..Len(conns') : i \in 1..Len(conns) \/ i = Len(conns) + 1
  BY <1>1, <1>3, AppendElements DEF TypeFacts
<1>5. TypeFacts'
  BY <1>1, <1>2, <1>4 DEF TypeFacts
<1>6. InProgress' = InProgress
  BY <1>2 DEF InProgress
<1>7. RoundInv' /\ LiveInv' /\ ChanInv'
  BY <1>1, <1>2, <1>6, RoundFrame, LiveFrame, ChanFrame DEF IInv
<1>8. Distinct(conns')
  BY <1>1, <1>3, AppendDistinct DEF TypeFacts, IInv, PoolInv
<1>9. \A i \in 1..Len(conns') : conns'[i] \in Conns
  BY <1>4
<1>10. \A g \in Clients : client[g] # fresh
  BY <1>3 DEF IInv, PoolInv
<1>11. \A i \in 1..Len(conns') : /\ where'[conns'[i]] = "pool" /\ conns'[i] # fresh'
                                 /\ \A g \in Clients : client'[g] # conns'[i]
  BY <1>1, <1>2, <1>3, <1>4, <1>9, <1>10, ConstantFacts DEF IInv, PoolInv
<1>12. PoolInv'
  BY <1>1, <1>2, <1>8, <1>11, ConstantFacts DEF IInv, PoolInv
<1> QED BY <1>5, <1>7, <1>12, TypeOKFacts DEF IInv

-----------------------------------------------------------------------------
(* Every step preserves the invariant. *)
LEMMA NextIInv == IInv /\ [Next]_vars => IInv'
<1> SUFFICES ASSUME IInv, [Next]_vars PROVE IInv'
  OBVIOUS
<1>1. CASE UNCHANGED vars
  <2>1. TypeFacts
    BY TypeOKFacts DEF IInv
  <2> QED BY <1>1, <2>1, KeeperFrame DEF vars, onNewConn, faults, TypeFacts
<1>2. CASE Next
  BY <1>2, TickStep, IdleNumStep, LiveNumStep, CasStep, ConnectStep, ReceiveStep, CountStep,
     ReleaseNewStep, AcquireStep, ReleaseStep, EmptySigStep, ReportStep, OnOpenAgainStep,
     ExpiresStep, SendStep, ClosedStep, <1>1
     DEF Next, KeepNum, HandleNewConn, Ended
<1> QED BY <1>1, <1>2

(* connect_pool.go:130: for any number of connections and clients, toNewNum counts the
   connects that are not reported yet or still to make, unless one was reported twice,
   and liveNum the connections that are registered and not closed, but for a handler
   whose OnOpen returned false. *)
THEOREM CountersAreExact == Spec => []CountersExact
  BY InitIInv, NextIInv, IInvImplies, PTL DEF Spec

(* For any number of connections and clients, no connection is idle twice, with two
   clients, or idle and with a client. *)
THEOREM NoConnectionShared == Spec => []HeldOnce
  BY InitIInv, NextIInv, IInvImplies, PTL DEF Spec
=============================================================================
