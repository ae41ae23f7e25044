-------------------------- MODULE Timer4HeapProofs --------------------------
(***************************************************************************)
(* Timer4Heap, for any number of handlers and items and any arity: what    *)
(* shiftUp and shiftDown return for every heap, that only cancelled items  *)
(* are out of order, that no timer is lost, run twice or run after it was  *)
(* cancelled, and that the timerfd goes off in time for every timer.       *)
(***************************************************************************)
EXTENDS Timer4Heap, WellFoundedInduction, TLAPS

-----------------------------------------------------------------------------
(* Induction and recursion over sets. *)

(* A set of naturals that is not empty has a smallest element. *)
LEMMA MinNat ==
  ASSUME NEW S \in SUBSET Nat, S # {}
  PROVE  \E x \in S : \A y \in S : x <= y
<1>1. PICK x \in S : \A y \in S : ~(<<y, x>> \in OpToRel(<, Nat))
  BY WFMin, NatLessThanWellFounded, Zenon
<1>2. \A y \in S : ~(y < x)
  BY <1>1 DEF OpToRel
<1> QED BY <1>2

(* Where a loop with the step `step' that started at s may stop. *)
Stops(S, step, stop, s) ==
  {t \in stop : \A P \in SUBSET S : s \in P /\ (\A p \in P \ stop : step[p] \in P) => t \in P}

(* A loop that has stopped stays where it is. *)
LEMMA StopsHere ==
  ASSUME NEW S, NEW step, NEW stop \in SUBSET S, NEW s \in stop
  PROVE  Stops(S, step, stop, s) = {s}
<1>1. s \in Stops(S, step, stop, s)
  BY DEF Stops
<1>2. ASSUME NEW t \in Stops(S, step, stop, s) PROVE t = s
  <2>1. {s} \in SUBSET S /\ s \in {s} /\ \A p \in {s} \ stop : step[p] \in {s}
    OBVIOUS
  <2> QED BY <2>1 DEF Stops
<1> QED BY <1>1, <1>2

(* A loop that goes on stops where it would have stopped from the next round. *)
LEMMA StopsThere ==
  ASSUME NEW S, NEW step \in [S -> S], NEW stop \in SUBSET S, NEW s \in S \ stop
  PROVE  Stops(S, step, stop, s) = Stops(S, step, stop, step[s])
<1>1. ASSUME NEW t \in Stops(S, step, stop, s) PROVE t \in Stops(S, step, stop, step[s])
  <2> SUFFICES ASSUME NEW P \in SUBSET S, step[s] \in P, \A p \in P \ stop : step[p] \in P
               PROVE  t \in P
    BY DEF Stops
  <2>1. /\ P \cup {s} \in SUBSET S /\ s \in P \cup {s}
        /\ \A p \in (P \cup {s}) \ stop : step[p] \in P \cup {s}
    OBVIOUS
  <2>2. t \in P \cup {s} /\ t \in stop
    BY <2>1 DEF Stops
  <2> QED BY <2>2
<1>2. ASSUME NEW t \in Stops(S, step, stop, step[s]) PROVE t \in Stops(S, step, stop, s)
  BY DEF Stops
<1> QED BY <1>1, <1>2

(* The function that a loop computes: `result' of the place where it stops. *)
IsLoop(f, S, step, stop, result) ==
  f = [s \in S |-> IF s \in stop THEN result[s] ELSE f[step[s]]]

(* There is such a function, whatever the loop. *)
LEMMA LoopExists ==
  ASSUME NEW S, NEW step \in [S -> S], NEW stop \in SUBSET S, NEW result
  PROVE  \E f : IsLoop(f, S, step, stop, result)
<1> DEFINE end(s) == CHOOSE t : t \in Stops(S, step, stop, s)
           f == [s \in S |-> result[end(s)]]
<1>1. ASSUME NEW s \in stop PROVE end(s) = s
  BY StopsHere
<1>2. ASSUME NEW s \in S \ stop PROVE end(s) = end(step[s])
  BY StopsThere
<1>3. ASSUME NEW s \in S PROVE s \notin stop => step[s] \in S
  OBVIOUS
<1> HIDE DEF end
<1>4. \A s \in S : f[s] = IF s \in stop THEN result[s] ELSE f[step[s]]
  <2> TAKE s \in S
  <2>1. CASE s \in stop
    BY <2>1, <1>1
  <2>2. CASE s \notin stop
    BY <2>2, <1>2, <1>3
  <2> QED BY <2>1, <2>2
<1> QED BY <1>4 DEF IsLoop

-----------------------------------------------------------------------------
(* The heap. *)

(* The parent of a node comes before it. *)
LEMMA ParentBefore ==
  ASSUME NEW i \in Nat, i > 1
  PROVE  Parent(i) \in 1..(i - 1)
<1>1. PICK a \in Nat \ {0} : a = Arity
  BY Timer4HeapAssumption
<1>2. (i - 2) \div a \in 0..(i - 2)
  OBVIOUS
<1> QED BY <1>1, <1>2 DEF Parent

(* Children are the nodes with this parent. *)
LEMMA ChildrenHaveParent ==
  ASSUME NEW n \in Nat, NEW i \in 1..n
  PROVE  Children(i, n) = {c \in 2..n : Parent(c) = i}
<1>1. PICK a \in Nat \ {0} : a = Arity
  BY Timer4HeapAssumption
<1>2. ASSUME NEW c \in 2..n
      PROVE  a * (i - 1) + 2 <= c /\ c <= a * i + 1 <=> (c - 2) \div a = i - 1
  <2>1. PICK x \in Nat : x = c - 2
    OBVIOUS
  <2>2. PICK j \in Nat : j = i - 1
    OBVIOUS
  <2>3. a * j <= x /\ x < a * j + a <=> x \div a = j
    OBVIOUS
  <2>4. a * i = a * j + a
    BY <2>2
  <2> QED BY <2>1, <2>2, <2>3, <2>4
<1>3. a * (i - 1) \in Nat /\ a * i \in Nat
  OBVIOUS
<1> QED BY <1>1, <1>2, <1>3 DEF Children, Parent

(* When the item at position k is due. *)
Key(h, k, it) == it[h[k]].expiredAt

(* Not before its parent, unless it was cancelled. *)
InOrder(h, k, it) == Key(h, k, it) = 1 \/ Key(h, Parent(k), it) <= Key(h, k, it)

Ordered(h, n, it) == \A k \in 2..n : InOrder(h, k, it)

(* r has the items of h, each as often. *)
Permuted(h, r, n) ==
  /\ r \in [1..n -> Items]
  /\ \A k \in 1..n : \E j \in 1..n : r[k] = h[j]
  /\ \A j \in 1..n : \E k \in 1..n : r[k] = h[j]
  /\ (\A j, k \in 1..n : h[j] = h[k] => j = k) => \A j, k \in 1..n : r[j] = r[k] => j = k

Keys(h, n, it) == \A k \in 1..n : Key(h, k, it) \in Nat \ {0}

(* What an exchange does. *)
LEMMA ExchangeIs ==
  ASSUME NEW n \in Nat, NEW h \in [1..n -> Items], NEW i \in 1..n, NEW j \in 1..n
  PROVE  /\ Exchange(h, i, j) \in [1..n -> Items]
         /\ Exchange(h, i, j)[i] = h[j]
         /\ Exchange(h, i, j)[j] = h[i]
         /\ \A k \in 1..n : k # i /\ k # j => Exchange(h, i, j)[k] = h[k]
BY DEF Exchange

(* An exchange permutes. *)
LEMMA ExchangePermutes ==
  ASSUME NEW n \in Nat, NEW h \in [1..n -> Items], NEW i \in 1..n, NEW j \in 1..n
  PROVE  Permuted(h, Exchange(h, i, j), n)
<1>1. PICK r : r = Exchange(h, i, j)
  OBVIOUS
<1>2. /\ r \in [1..n -> Items] /\ r[i] = h[j] /\ r[j] = h[i]
      /\ \A k \in 1..n : k # i /\ k # j => r[k] = h[k]
  BY <1>1, ExchangeIs
<1>3. Permuted(h, r, n)
  <2>1. ASSUME NEW k \in 1..n PROVE \E l \in 1..n : r[k] = h[l]
    BY <1>2
  <2>2. ASSUME NEW l \in 1..n PROVE \E k \in 1..n : r[k] = h[l]
    BY <1>2
  <2>3. ASSUME \A l, k \in 1..n : h[l] = h[k] => l = k
        PROVE  \A l, k \in 1..n : r[l] = r[k] => l = k
    BY <1>2, <2>3
  <2> QED BY <1>2, <2>1, <2>2, <2>3 DEF Permuted
<1> QED BY <1>1, <1>3

(* A heap is a permutation of itself. *)
LEMMA PermutedItself ==
  ASSUME NEW n \in Nat, NEW h \in [1..n -> Items]
  PROVE  Permuted(h, h, n)
BY DEF Permuted

(* Permutations compose. *)
LEMMA PermutedTwice ==
  ASSUME NEW n \in Nat, NEW h, NEW g, NEW r, Permuted(h, g, n), Permuted(g, r, n)
  PROVE  Permuted(h, r, n)
<1>1. ASSUME NEW k \in 1..n PROVE \E j \in 1..n : r[k] = h[j]
  <2>1. PICK l \in 1..n : r[k] = g[l]
    BY DEF Permuted
  <2>2. PICK j \in 1..n : g[l] = h[j]
    BY DEF Permuted
  <2> QED BY <2>1, <2>2
<1>2. ASSUME NEW j \in 1..n PROVE \E k \in 1..n : r[k] = h[j]
  <2>1. PICK l \in 1..n : g[l] = h[j]
    BY DEF Permuted
  <2>2. PICK k \in 1..n : r[k] = g[l]
    BY DEF Permuted
  <2> QED BY <2>1, <2>2
<1> QED BY <1>1, <1>2 DEF Permuted

(* The keys of a permuted heap are the same. *)
LEMMA PermutedKeys ==
  ASSUME NEW n \in Nat, NEW h, NEW r, NEW it, Permuted(h, r, n), Keys(h, n, it)
  PROVE  Keys(r, n, it)
<1> SUFFICES ASSUME NEW k \in 1..n PROVE Key(r, k, it) \in Nat \ {0}
  BY DEF Keys
<1>1. PICK j \in 1..n : r[k] = h[j]
  BY DEF Permuted
<1> QED BY <1>1 DEF Keys, Key

-----------------------------------------------------------------------------
(* shiftUp: the item at position i may be due before its parent. *)

Rises(h, i, it) == i > 1 /\ Key(h, i, it) < Key(h, Parent(i), it)

(* All is in order but for the item at i, and would be without it. *)
UpReady(h, n, i, it) ==
  /\ Keys(h, n, it)
  /\ \A k \in 2..n : k # i => InOrder(h, k, it)
  /\ i > 1 => \A c \in 2..n : Parent(c) = i => Key(h, c, it) = 1 \/ Key(h, Parent(i), it) <= Key(h, c, it)

(* An exchange with the parent keeps it so, one level up. *)
LEMMA UpRound ==
  ASSUME NEW n \in Nat, NEW h \in [1..n -> Items], NEW i \in 1..n, NEW it,
         UpReady(h, n, i, it), Rises(h, i, it)
  PROVE  UpReady(Exchange(h, i, Parent(i)), n, Parent(i), it)
<1>1. PICK j \in 1..n : j = Parent(i) /\ j < i
  BY ParentBefore DEF Rises
<1>2. PICK r : r = Exchange(h, i, j)
  OBVIOUS
<1>3. /\ r \in [1..n -> Items] /\ r[i] = h[j] /\ r[j] = h[i]
      /\ \A k \in 1..n : k # i /\ k # j => r[k] = h[k]
  BY <1>2, ExchangeIs
<1>4. Keys(r, n, it)
  BY <1>2, ExchangePermutes, PermutedKeys DEF UpReady
<1>5. Key(r, i, it) = Key(h, j, it) /\ Key(r, j, it) = Key(h, i, it)
  BY <1>3 DEF Key
<1>6. \A k \in 1..n : k # i /\ k # j => Key(r, k, it) = Key(h, k, it)
  BY <1>3 DEF Key
<1>7. \A k \in 1..n : Key(h, k, it) \in Nat \ {0}
  BY DEF UpReady, Keys
<1>8. Key(h, i, it) < Key(h, j, it) /\ Key(h, j, it) # 1
  BY <1>1, <1>7 DEF Rises
<1>9. ASSUME NEW k \in 2..n PROVE Parent(k) \in 1..n /\ Parent(k) < k
  BY ParentBefore
<1>10. \A k \in 2..n : k # i => Key(h, k, it) = 1 \/ Key(h, Parent(k), it) <= Key(h, k, it)
  BY DEF UpReady, InOrder
<1>11. \A c \in 2..n : Parent(c) = i => Key(h, c, it) = 1 \/ Key(h, j, it) <= Key(h, c, it)
  BY <1>1 DEF UpReady
<1>12. ASSUME NEW k \in 2..n, k # j
       PROVE  Key(r, k, it) = 1 \/ Key(r, Parent(k), it) <= Key(r, k, it)
  <2>1. CASE k = i
    BY <2>1, <1>1, <1>5, <1>7, <1>8
  <2>2. CASE k # i /\ Parent(k) = i
    BY <2>2, <1>5, <1>6, <1>11, <1>12
  <2>3. CASE k # i /\ Parent(k) = j
    BY <2>3, <1>5, <1>6, <1>7, <1>8, <1>10, <1>12
  <2>4. CASE k # i /\ Parent(k) # i /\ Parent(k) # j
    BY <2>4, <1>6, <1>9, <1>10, <1>12
  <2> QED BY <2>1, <2>2, <2>3, <2>4
<1>13. ASSUME j > 1, NEW c \in 2..n, Parent(c) = j
       PROVE  Key(r, c, it) = 1 \/ Key(r, Parent(j), it) <= Key(r, c, it)
  <2>1. Key(h, Parent(j), it) <= Key(h, j, it) /\ Parent(j) \in 1..n
    BY <1>1, <1>8, <1>9, <1>10, <1>13
  <2>2. Key(r, Parent(j), it) = Key(h, Parent(j), it)
    BY <1>1, <1>6, <1>9, <1>13, <2>1
  <2>3. CASE c = i
    BY <2>1, <2>2, <2>3, <1>5
  <2>4. CASE c # i
    <3>1. c # j
      BY <1>9, <1>13
    <3>2. Key(r, c, it) = Key(h, c, it)
      BY <2>4, <3>1, <1>6
    <3>3. Key(h, c, it) = 1 \/ Key(h, j, it) <= Key(h, c, it)
      BY <2>4, <1>10, <1>13
    <3>4. Key(h, Parent(j), it) \in Nat /\ Key(h, j, it) \in Nat /\ Key(h, c, it) \in Nat
      BY <1>7, <2>1
    <3> QED BY <2>1, <2>2, <3>2, <3>3, <3>4
  <2> QED BY <2>3, <2>4
<1>14. UpReady(r, n, j, it)
  BY <1>4, <1>12, <1>13 DEF UpReady, InOrder
<1> QED BY <1>1, <1>2, <1>14

(* When the item does not rise, all is in order. *)
LEMMA UpEnd ==
  ASSUME NEW n \in Nat, NEW h \in [1..n -> Items], NEW i \in 1..n, NEW it,
         UpReady(h, n, i, it), ~Rises(h, i, it)
  PROVE  Ordered(h, n, it)
<1>1. ASSUME i > 1 PROVE Parent(i) \in 1..n
  BY ParentBefore, <1>1
<1>2. \A k \in 1..n : Key(h, k, it) \in Nat
  BY DEF UpReady, Keys
<1>3. i > 1 => Key(h, Parent(i), it) <= Key(h, i, it)
  BY <1>1, <1>2 DEF Rises
<1> QED BY <1>3 DEF UpReady, Ordered, InOrder

(* The next round of the loop. *)
UpStep(n, it) == [s \in Places(n) |-> IF Rises(s[1], s[2], it)
                                     THEN <<Exchange(s[1], s[2], Parent(s[2])), Parent(s[2])>>
                                     ELSE s]

UpStop(n, it) == {s \in Places(n) : ~Rises(s[1], s[2], it)}

HeapOf(n) == [s \in Places(n) |-> s[1]]

(* ShiftUp is the loop. *)
LEMMA ShiftUpIsLoop ==
  ASSUME NEW h, NEW i, NEW n \in Nat, n = Len(h), NEW it
  PROVE  \E f : IsLoop(f, Places(n), UpStep(n, it), UpStop(n, it), HeapOf(n)) /\ ShiftUp(h, i, it) = f[<<h, i>>]
<1> DEFINE D(f) == [s \in Places(n) |->
                      IF s[2] > 1 /\ it[s[1][s[2]]].expiredAt < it[s[1][Parent(s[2])]].expiredAt
                      THEN f[<<Exchange(s[1], s[2], Parent(s[2])), Parent(s[2])>>]
                      ELSE s[1]]
<1>1. ASSUME NEW f PROVE IsLoop(f, Places(n), UpStep(n, it), UpStop(n, it), HeapOf(n)) <=> f = D(f)
  <2>1. ASSUME NEW s \in Places(n)
        PROVE  (IF s \in UpStop(n, it) THEN HeapOf(n)[s] ELSE f[UpStep(n, it)[s]]) = D(f)[s]
    BY DEF UpStop, UpStep, HeapOf, Rises, Key
  <2>2. [s \in Places(n) |-> IF s \in UpStop(n, it) THEN HeapOf(n)[s] ELSE f[UpStep(n, it)[s]]] = D(f)
    BY <2>1
  <2> QED BY <2>2 DEF IsLoop
<1>2. UpStep(n, it) \in [Places(n) -> Places(n)]
  <2> SUFFICES ASSUME NEW s \in Places(n), Rises(s[1], s[2], it)
               PROVE  <<Exchange(s[1], s[2], Parent(s[2])), Parent(s[2])>> \in Places(n)
    BY DEF UpStep
  <2>1. s[1] \in [1..n -> Items] /\ s[2] \in 1..n
    BY DEF Places
  <2>2. Parent(s[2]) \in 1..n
    BY <2>1, ParentBefore DEF Rises
  <2> QED BY <2>1, <2>2, ExchangeIs DEF Places
<1>3. UpStop(n, it) \in SUBSET Places(n)
  BY DEF UpStop
<1>4. \E f : f = D(f)
  <2>1. PICK f : IsLoop(f, Places(n), UpStep(n, it), UpStop(n, it), HeapOf(n))
    BY <1>2, <1>3, LoopExists, Zenon
  <2> QED BY <1>1, <2>1, Zenon
<1>5. PICK f : f = CHOOSE g : g = D(g)
  OBVIOUS
<1>6. f = D(f)
  BY <1>4, <1>5
<1>7. ShiftUp(h, i, it) = f[<<h, i>>]
  BY <1>5 DEF ShiftUp
<1> QED BY <1>1, <1>6, <1>7

(* shiftUp puts the item where it belongs, and no item gets lost. *)
LEMMA ShiftUpWorks ==
  ASSUME NEW n \in Nat, NEW h \in [1..n -> Items], Len(h) = n, NEW i \in 1..n, NEW it,
         UpReady(h, n, i, it)
  PROVE  Permuted(h, ShiftUp(h, i, it), n) /\ Ordered(ShiftUp(h, i, it), n, it)
<1>1. PICK f : IsLoop(f, Places(n), UpStep(n, it), UpStop(n, it), HeapOf(n)) /\ ShiftUp(h, i, it) = f[<<h, i>>]
  BY ShiftUpIsLoop
<1> DEFINE Works(k) == \A g \in [1..n -> Items] :
                         UpReady(g, n, k, it) => Permuted(g, f[<<g, k>>], n) /\ Ordered(f[<<g, k>>], n, it)
           Bad == {k \in 1..n : ~Works(k)}
<1>2. ASSUME NEW g \in [1..n -> Items], NEW k \in 1..n
      PROVE  f[<<g, k>>] = IF Rises(g, k, it) THEN f[<<Exchange(g, k, Parent(k)), Parent(k)>>] ELSE g
  <2>1. <<g, k>> \in Places(n) /\ <<g, k>>[1] = g /\ <<g, k>>[2] = k
    BY DEF Places
  <2> QED BY <1>1, <2>1 DEF IsLoop, UpStop, UpStep, HeapOf
<1>3. ASSUME NEW k \in 1..n, \A j \in 1..(k - 1) : Works(j) PROVE Works(k)
  <2> SUFFICES ASSUME NEW g \in [1..n -> Items], UpReady(g, n, k, it)
               PROVE  Permuted(g, f[<<g, k>>], n) /\ Ordered(f[<<g, k>>], n, it)
    OBVIOUS
  <2>1. CASE ~Rises(g, k, it)
    <3>1. f[<<g, k>>] = g
      BY <2>1, <1>2
    <3>2. Permuted(g, g, n) /\ Ordered(g, n, it)
      BY <2>1, UpEnd, PermutedItself
    <3> QED BY <3>1, <3>2
  <2>2. CASE Rises(g, k, it)
    <3>1. PICK j \in 1..(k - 1) : j = Parent(k)
      BY <2>2, ParentBefore DEF Rises
    <3>2. PICK r : r = Exchange(g, k, j)
      OBVIOUS
    <3>3. r \in [1..n -> Items] /\ Permuted(g, r, n) /\ UpReady(r, n, j, it)
      <4>1. j \in 1..n
        BY <3>1
      <4>2. r \in [1..n -> Items]
        BY <3>2, <4>1, ExchangeIs
      <4>3. Permuted(g, r, n)
        BY <3>2, <4>1, ExchangePermutes
      <4>4. UpReady(r, n, j, it)
        BY <2>2, <3>1, <3>2, UpRound
      <4> QED BY <4>2, <4>3, <4>4
    <3>4. f[<<g, k>>] = f[<<r, j>>]
      BY <1>2, <2>2, <3>1, <3>2
    <3>5. Permuted(r, f[<<r, j>>], n) /\ Ordered(f[<<r, j>>], n, it)
      BY <1>3, <3>1, <3>3
    <3> QED BY <3>3, <3>4, <3>5, PermutedTwice
  <2> QED BY <2>1, <2>2
<1>4. Bad = {}
  <2> SUFFICES ASSUME Bad # {} PROVE FALSE
    OBVIOUS
  <2>1. PICK k \in Bad : \A j \in Bad : k <= j
    <3>1. Bad \in SUBSET Nat
      OBVIOUS
    <3> HIDE DEF Bad
    <3> QED BY <3>1, MinNat
  <2>2. \A j \in 1..(k - 1) : j \notin Bad /\ j \in 1..n
    BY <2>1
  <2> QED BY <1>3, <2>1, <2>2
<1>5. Works(i)
  BY <1>4
<1> QED BY <1>1, <1>5

-----------------------------------------------------------------------------
(* shiftDown: the item at position i may be due after its children. *)

(* All is in order but for the children of i, and would be without the item there. *)
DownReady(h, n, i, it) ==
  /\ Keys(h, n, it)
  /\ \A k \in 2..n : Parent(k) # i => InOrder(h, k, it)
  /\ i > 1 => \A c \in 2..n : Parent(c) = i => Key(h, c, it) = 1 \/ Key(h, Parent(i), it) <= Key(h, c, it)

(* The children due before their parent. *)
LEMMA EarlierAre ==
  ASSUME NEW n \in Nat, NEW h \in [1..n -> Items], Len(h) = n, NEW i \in 1..n, NEW it
  PROVE  Earlier(h, i, it) = {c \in 2..n : Parent(c) = i /\ Key(h, c, it) < Key(h, i, it)}
BY ChildrenHaveParent DEF Earlier, Key

(* The child chosen is one of the earliest. *)
LEMMA SmallestIs ==
  ASSUME NEW n \in Nat, NEW h, NEW it, NEW cs \in SUBSET (1..n), cs # {},
         \A c \in cs : Key(h, c, it) \in Nat
  PROVE  /\ Smallest(h, cs, it) \in cs
         /\ \A d \in cs : Key(h, Smallest(h, cs, it), it) <= Key(h, d, it)
<1>1. \A c \in cs : Key(h, c, it) \in Nat
  OBVIOUS
<1>2. PICK m \in {Key(h, c, it) : c \in cs} : \A k \in {Key(h, c, it) : c \in cs} : m <= k
  <2>1. {Key(h, c, it) : c \in cs} \in SUBSET Nat /\ {Key(h, c, it) : c \in cs} # {}
    BY <1>1
  <2> QED BY <2>1, MinNat
<1>3. PICK c \in {d \in cs : Key(h, d, it) = m} : \A d \in {d \in cs : Key(h, d, it) = m} : c <= d
  <2>1. {d \in cs : Key(h, d, it) = m} \in SUBSET Nat /\ {d \in cs : Key(h, d, it) = m} # {}
    BY <1>2
  <2> QED BY <2>1, MinNat
<1> DEFINE First(e) ==
             \A d \in cs : \/ Key(h, e, it) < Key(h, d, it)
                           \/ Key(h, e, it) = Key(h, d, it) /\ e <= d
<1>4. c \in cs /\ First(c)
  <2>1. c \in cs /\ Key(h, c, it) = m
    BY <1>3
  <2>2. ASSUME NEW d \in cs PROVE Key(h, c, it) < Key(h, d, it) \/ (Key(h, c, it) = Key(h, d, it) /\ c <= d)
    <3>1. m <= Key(h, d, it) /\ m \in Nat /\ Key(h, d, it) \in Nat
      BY <1>1, <1>2
    <3>2. CASE Key(h, d, it) = m
      <4>1. d \in {e \in cs : Key(h, e, it) = m}
        BY <3>2
      <4> QED BY <1>3, <2>1, <3>2, <4>1
    <3>3. CASE Key(h, d, it) # m
      BY <2>1, <3>1, <3>3
    <3> QED BY <3>2, <3>3
  <2> QED BY <2>1, <2>2
<1>5. Smallest(h, cs, it) = CHOOSE e \in cs : First(e)
  BY Zenon DEF Smallest, Key
<1>6. Smallest(h, cs, it) \in cs /\ First(Smallest(h, cs, it))
  <2> HIDE DEF First
  <2> QED BY <1>4, <1>5, Zenon
<1>7. PICK e \in cs : e = Smallest(h, cs, it)
  BY <1>6
<1> QED BY <1>1, <1>6, <1>7

(* An exchange with the earliest child keeps it so, one level down. *)
LEMMA DownRound ==
  ASSUME NEW n \in Nat, NEW h \in [1..n -> Items], Len(h) = n, NEW i \in 1..n, NEW it, NEW s,
         DownReady(h, n, i, it), Earlier(h, i, it) # {}, s = Smallest(h, Earlier(h, i, it), it)
  PROVE  s \in (i + 1)..n /\ DownReady(Exchange(h, i, s), n, s, it)
<1>1. \A k \in 1..n : Key(h, k, it) \in Nat \ {0}
  BY DEF DownReady, Keys
<1>2. ASSUME NEW k \in 2..n PROVE Parent(k) \in 1..n /\ Parent(k) < k
  BY ParentBefore
<1>3. /\ s \in 2..n /\ Parent(s) = i /\ Key(h, s, it) < Key(h, i, it)
      /\ \A d \in 2..n : Parent(d) = i => Key(h, s, it) <= Key(h, d, it)
  <2>1. PICK cs : cs = Earlier(h, i, it)
    OBVIOUS
  <2>2. cs = {c \in 2..n : Parent(c) = i /\ Key(h, c, it) < Key(h, i, it)}
    BY <2>1, EarlierAre
  <2>3. s \in cs /\ \A d \in cs : Key(h, s, it) <= Key(h, d, it)
    <3>1. cs \in SUBSET (1..n) /\ \A c \in cs : Key(h, c, it) \in Nat
      BY <1>1, <2>2
    <3> QED BY <2>1, <3>1, SmallestIs
  <2>4. s \in 2..n /\ Parent(s) = i /\ Key(h, s, it) < Key(h, i, it)
    BY <2>2, <2>3
  <2>5. ASSUME NEW d \in 2..n, Parent(d) = i PROVE Key(h, s, it) <= Key(h, d, it)
    <3>1. Key(h, s, it) \in Nat /\ Key(h, d, it) \in Nat /\ Key(h, i, it) \in Nat
      BY <1>1, <2>4
    <3>2. CASE d \in cs
      BY <3>2, <2>3
    <3>3. CASE d \notin cs
      BY <3>1, <3>3, <2>2, <2>4, <2>5
    <3> QED BY <3>2, <3>3
  <2> QED BY <2>4, <2>5
<1>4. s \in 1..n /\ i < s
  BY <1>2, <1>3
<1>5. PICK r : r = Exchange(h, i, s)
  OBVIOUS
<1>6. /\ r \in [1..n -> Items] /\ r[i] = h[s] /\ r[s] = h[i]
      /\ \A k \in 1..n : k # i /\ k # s => r[k] = h[k]
  BY <1>4, <1>5 DEF Exchange
<1>7. Keys(r, n, it)
  BY <1>4, <1>5, ExchangePermutes, PermutedKeys DEF DownReady
<1>8. /\ Key(r, i, it) = Key(h, s, it) /\ Key(r, s, it) = Key(h, i, it)
      /\ \A k \in 1..n : k # i /\ k # s => Key(r, k, it) = Key(h, k, it)
  BY <1>6 DEF Key
<1>9. \A k \in 2..n : Parent(k) # i => Key(h, k, it) = 1 \/ Key(h, Parent(k), it) <= Key(h, k, it)
  BY DEF DownReady, InOrder
<1>10. ASSUME NEW k \in 2..n, Parent(k) # s
       PROVE  Key(r, k, it) = 1 \/ Key(r, Parent(k), it) <= Key(r, k, it)
  <2>1. CASE k = i
    <3>1. Key(h, s, it) = 1 \/ Key(h, Parent(i), it) <= Key(h, s, it)
      BY <2>1, <1>3 DEF DownReady
    <3>2. Parent(i) \in 1..n /\ Parent(i) # i /\ Parent(i) # s
      BY <2>1, <1>2, <1>10
    <3> QED BY <2>1, <3>1, <3>2, <1>8
  <2>2. CASE k = s
    BY <2>2, <1>1, <1>3, <1>4, <1>8
  <2>3. CASE k # s /\ Parent(k) = i
    <3>1. k # i
      BY <2>3, <1>2
    <3> QED BY <2>3, <3>1, <1>3, <1>8
  <2>4. CASE k # i /\ k # s /\ Parent(k) # i
    BY <2>4, <1>2, <1>8, <1>9, <1>10
  <2> QED BY <2>1, <2>2, <2>3, <2>4
<1>11. ASSUME NEW c \in 2..n, Parent(c) = s
       PROVE  Key(r, c, it) = 1 \/ Key(r, Parent(s), it) <= Key(r, c, it)
  <2>1. c # s /\ c # i
    BY <1>2, <1>4, <1>11
  <2>2. Key(h, c, it) = 1 \/ Key(h, s, it) <= Key(h, c, it)
    BY <1>4, <1>9, <1>11
  <2> QED BY <2>1, <2>2, <1>3, <1>8
<1>12. DownReady(r, n, s, it)
  BY <1>7, <1>10, <1>11 DEF DownReady, InOrder
<1> QED BY <1>4, <1>5, <1>12

(* When no child is due before the item, all is in order. *)
LEMMA DownEnd ==
  ASSUME NEW n \in Nat, NEW h \in [1..n -> Items], Len(h) = n, NEW i \in 1..n, NEW it,
         DownReady(h, n, i, it), Earlier(h, i, it) = {}
  PROVE  Ordered(h, n, it)
<1>1. \A k \in 1..n : Key(h, k, it) \in Nat
  BY DEF DownReady, Keys
<1>2. \A c \in 2..n : Parent(c) = i => Key(h, i, it) <= Key(h, c, it)
  BY <1>1, EarlierAre
<1> QED BY <1>2 DEF DownReady, Ordered, InOrder

(* The next round of the loop. *)
DownStep(n, it) ==
  [s \in Places(n) |-> IF Earlier(s[1], s[2], it) # {}
                      THEN <<Exchange(s[1], s[2], Smallest(s[1], Earlier(s[1], s[2], it), it)),
                             Smallest(s[1], Earlier(s[1], s[2], it), it)>>
                      ELSE s]

DownStop(n, it) == {s \in Places(n) : Earlier(s[1], s[2], it) = {}}

(* All items have a time. *)
Timed(it) == \A x \in Items : it[x].expiredAt \in Nat

(* The child chosen is a position of the heap. *)
LEMMA SmallestInHeap ==
  ASSUME NEW n \in Nat, NEW h \in [1..n -> Items], Len(h) = n, NEW i \in 1..n, NEW it, Timed(it),
         Earlier(h, i, it) # {}
  PROVE  Smallest(h, Earlier(h, i, it), it) \in 1..n
<1>1. PICK cs : cs = Earlier(h, i, it)
  OBVIOUS
<1>2. cs = {c \in 2..n : Parent(c) = i /\ Key(h, c, it) < Key(h, i, it)}
  BY <1>1, EarlierAre
<1>3. cs \in SUBSET (1..n) /\ \A c \in cs : Key(h, c, it) \in Nat
  BY <1>2 DEF Key, Timed
<1> QED BY <1>1, <1>3, SmallestIs

(* ShiftDown is the loop. *)
LEMMA ShiftDownIsLoop ==
  ASSUME NEW h, NEW i, NEW n \in Nat, n = Len(h), NEW it, Timed(it)
  PROVE  \E f : /\ IsLoop(f, Places(n), DownStep(n, it), DownStop(n, it), HeapOf(n))
               /\ ShiftDown(h, i, it) = f[<<h, i>>]
<1> DEFINE D(f) == [s \in Places(n) |->
                      IF Earlier(s[1], s[2], it) = {} THEN s[1]
                      ELSE f[<<Exchange(s[1], s[2], Smallest(s[1], Earlier(s[1], s[2], it), it)),
                               Smallest(s[1], Earlier(s[1], s[2], it), it)>>]]
<1>1. ASSUME NEW f PROVE IsLoop(f, Places(n), DownStep(n, it), DownStop(n, it), HeapOf(n)) <=> f = D(f)
  <2>1. ASSUME NEW s \in Places(n)
        PROVE  (IF s \in DownStop(n, it) THEN HeapOf(n)[s] ELSE f[DownStep(n, it)[s]]) = D(f)[s]
    BY DEF DownStop, DownStep, HeapOf
  <2>2. [s \in Places(n) |-> IF s \in DownStop(n, it) THEN HeapOf(n)[s] ELSE f[DownStep(n, it)[s]]] = D(f)
    BY <2>1
  <2> QED BY <2>2 DEF IsLoop
<1>2. DownStep(n, it) \in [Places(n) -> Places(n)]
  <2> SUFFICES ASSUME NEW s \in Places(n), Earlier(s[1], s[2], it) # {}
               PROVE  <<Exchange(s[1], s[2], Smallest(s[1], Earlier(s[1], s[2], it), it)),
                        Smallest(s[1], Earlier(s[1], s[2], it), it)>> \in Places(n)
    BY DEF DownStep
  <2>1. s[1] \in [1..n -> Items] /\ s[2] \in 1..n
    BY DEF Places
  <2>2. Len(s[1]) = n
    BY <2>1
  <2>3. PICK c \in 1..n : c = Smallest(s[1], Earlier(s[1], s[2], it), it)
    BY <2>1, <2>2, SmallestInHeap
  <2> QED BY <2>1, <2>3, ExchangeIs DEF Places
<1>3. DownStop(n, it) \in SUBSET Places(n)
  BY DEF DownStop
<1>4. \E f : f = D(f)
  <2>1. PICK f : IsLoop(f, Places(n), DownStep(n, it), DownStop(n, it), HeapOf(n))
    BY <1>2, <1>3, LoopExists, Zenon
  <2> QED BY <1>1, <2>1, Zenon
<1>5. PICK f : f = CHOOSE g : g = D(g)
  OBVIOUS
<1>6. f = D(f)
  BY <1>4, <1>5
<1>7. ShiftDown(h, i, it) = f[<<h, i>>]
  BY <1>5 DEF ShiftDown
<1> QED BY <1>1, <1>6, <1>7

(* shiftDown puts the item where it belongs, and no item gets lost. *)
LEMMA ShiftDownWorks ==
  ASSUME NEW n \in Nat, NEW h \in [1..n -> Items], Len(h) = n, NEW i \in 1..n, NEW it,
         DownReady(h, n, i, it), Timed(it)
  PROVE  Permuted(h, ShiftDown(h, i, it), n) /\ Ordered(ShiftDown(h, i, it), n, it)
<1>1. PICK f : /\ IsLoop(f, Places(n), DownStep(n, it), DownStop(n, it), HeapOf(n))
               /\ ShiftDown(h, i, it) = f[<<h, i>>]
  BY ShiftDownIsLoop
<1> DEFINE Works(k) == \A g \in [1..n -> Items] :
                         DownReady(g, n, k, it) => Permuted(g, f[<<g, k>>], n) /\ Ordered(f[<<g, k>>], n, it)
           Bad == {m \in 0..(n - 1) : ~Works(n - m)}
<1>2. ASSUME NEW g \in [1..n -> Items], NEW k \in 1..n
      PROVE  f[<<g, k>>] = IF Earlier(g, k, it) = {} THEN g
                           ELSE f[<<Exchange(g, k, Smallest(g, Earlier(g, k, it), it)),
                                    Smallest(g, Earlier(g, k, it), it)>>]
  <2>1. <<g, k>> \in Places(n) /\ <<g, k>>[1] = g /\ <<g, k>>[2] = k
    BY DEF Places
  <2> QED BY <1>1, <2>1 DEF IsLoop, DownStop, DownStep, HeapOf
<1>3. ASSUME NEW k \in 1..n, \A j \in (k + 1)..n : Works(j) PROVE Works(k)
  <2> SUFFICES ASSUME NEW g \in [1..n -> Items], DownReady(g, n, k, it)
               PROVE  Permuted(g, f[<<g, k>>], n) /\ Ordered(f[<<g, k>>], n, it)
    OBVIOUS
  <2>0. Len(g) = n
    OBVIOUS
  <2>1. CASE Earlier(g, k, it) = {}
    <3>1. f[<<g, k>>] = g
      BY <2>1, <1>2
    <3>2. Permuted(g, g, n) /\ Ordered(g, n, it)
      BY <2>0, <2>1, DownEnd, PermutedItself
    <3> QED BY <3>1, <3>2
  <2>2. CASE Earlier(g, k, it) # {}
    <3>1. PICK j \in (k + 1)..n : /\ j = Smallest(g, Earlier(g, k, it), it)
                                  /\ DownReady(Exchange(g, k, j), n, j, it)
      BY <2>0, <2>2, DownRound
    <3>2. PICK r : r = Exchange(g, k, j)
      OBVIOUS
    <3>3. j \in 1..n
      OBVIOUS
    <3>4. r \in [1..n -> Items]
      BY <3>2, <3>3, ExchangeIs
    <3>5. Permuted(g, r, n)
      BY <3>2, <3>3, ExchangePermutes
    <3>6. f[<<g, k>>] = f[<<r, j>>]
      BY <1>2, <2>2, <3>1, <3>2
    <3>7. Permuted(r, f[<<r, j>>], n) /\ Ordered(f[<<r, j>>], n, it)
      BY <1>3, <3>1, <3>2, <3>4
    <3> QED BY <3>5, <3>6, <3>7, PermutedTwice
  <2> QED BY <2>1, <2>2
<1>4. Bad = {}
  <2> SUFFICES ASSUME Bad # {} PROVE FALSE
    OBVIOUS
  <2>1. PICK m \in Bad : \A j \in Bad : m <= j
    <3>1. Bad \in SUBSET Nat
      OBVIOUS
    <3> HIDE DEF Bad
    <3> QED BY <3>1, MinNat
  <2>2. ASSUME NEW j \in (n - m + 1)..n PROVE Works(j)
    <3>1. n - j \in 0..(n - 1) /\ n - j < m /\ n - (n - j) = j
      OBVIOUS
    <3>2. n - j \notin Bad
      <4>1. m \in 0..(n - 1)
        OBVIOUS
      <4> HIDE DEF Bad
      <4> QED BY <2>1, <3>1, <4>1
    <3> QED BY <3>1, <3>2
  <2>3. n - m \in 1..n /\ ~Works(n - m)
    OBVIOUS
  <2> HIDE DEF Works
  <2> QED BY <1>3, <2>2, <2>3
<1>5. Works(i)
  <2>1. n - i \in 0..(n - 1) /\ n - (n - i) = i
    OBVIOUS
  <2> QED BY <1>4, <2>1
<1> QED BY <1>1, <1>5

-----------------------------------------------------------------------------
(* The invariant. *)

Elems(h) == {h[k] : k \in 1..Len(h)}

Distinct(h) == \A j, k \in 1..Len(h) : h[j] = h[k] => j = k

(* The items that have not been given up: those in the heap and the one that OnTimeout
   is being called for. *)
Live == Elems(fheap) \cup ({fired} \ {None})

(* Of a cancelled item the time is 1, of every other item that counts it is later. *)
HeapInv ==
  /\ Distinct(fheap)
  /\ Ordered(fheap, Len(fheap), item)
  /\ \A x \in Elems(fheap) : item[x].expiredAt >= 1 /\ (item[x].expiredAt = 1 => Cancelled(x))
  /\ fired \notin Elems(fheap)
  /\ pc = "ontimeout" <=> fired # None

(* Handlers and items name each other. *)
OwnInv ==
  /\ \A h \in Handlers : ti[h] # None => item[ti[h]].eh = h /\ ti[h] \in Live
  /\ \A x \in Live : Cancelled(x) \/ ti[item[x].eh] = x
  /\ cancels = 0 => \A x \in Live : ~Cancelled(x)

(* OnRead's time is past, and only OnTimeout takes time. *)
TimeInv ==
  /\ pc # "loop" => now \in StartTime..clock /\ (clock = now \/ clock <= MaxTime)
  /\ \A i \in Items : item[i].expiredAt <= MaxTime
  /\ tfd # None => tfd <= 2 * MaxTime

Base == TypeOK /\ HeapInv /\ OwnInv /\ TimeInv

(* The time that handleExpired compares with. *)
Present == IF pc = "loop" THEN clock ELSE now

(* timerfdSettime, if it lies ahead, is the time of a timer: one that lies ahead has not been
   popped.  This is why schedule may trust it. *)
SettimeInv == timerfdSettime > Present + ErrorVal =>
                \E x \in Elems(fheap) : item[x].expiredAt = timerfdSettime

TimelyInv == cancels = 0 => ArmedInTime /\ SettimeInv

-----------------------------------------------------------------------------
(* The operations on the heap. *)

(* What a permutation does to the items of a sequence. *)
LEMMA PermutedElems ==
  ASSUME NEW n \in Nat, NEW h \in Seq(Items), Len(h) = n, NEW r, Permuted(h, r, n)
  PROVE  /\ r \in Seq(Items) /\ Len(r) = n /\ Elems(r) = Elems(h)
         /\ Distinct(h) => Distinct(r)
<1>1. r \in [1..n -> Items]
  BY DEF Permuted
<1>2. r \in Seq(Items) /\ Len(r) = n
  BY <1>1
<1>3. Elems(r) = Elems(h)
  <2>1. ASSUME NEW x \in Elems(r) PROVE x \in Elems(h)
    <3>1. PICK k \in 1..n : x = r[k]
      BY <1>2 DEF Elems
    <3>2. PICK j \in 1..n : r[k] = h[j]
      BY DEF Permuted
    <3> QED BY <3>1, <3>2 DEF Elems
  <2>2. ASSUME NEW x \in Elems(h) PROVE x \in Elems(r)
    <3>1. PICK j \in 1..n : x = h[j]
      BY DEF Elems
    <3>2. PICK k \in 1..n : r[k] = h[j]
      BY DEF Permuted
    <3> QED BY <1>2, <3>1, <3>2 DEF Elems
  <2> QED BY <2>1, <2>2
<1>4. Distinct(h) => Distinct(r)
  BY <1>2 DEF Permuted, Distinct
<1> QED BY <1>2, <1>3, <1>4

(* Times that do not change for the items of a heap do not change its order. *)
LEMMA OrderedSame ==
  ASSUME NEW h \in Seq(Items), NEW it, NEW jt, \A x \in Elems(h) : jt[x].expiredAt = it[x].expiredAt,
         Ordered(h, Len(h), it)
  PROVE  Ordered(h, Len(h), jt)
<1>1. PICK n \in Nat : n = Len(h)
  OBVIOUS
<1>2. \A k \in 1..n : Key(h, k, jt) = Key(h, k, it)
  BY <1>1 DEF Key, Elems
<1>3. \A k \in 2..n : Parent(k) \in 1..n
  BY ParentBefore
<1> QED BY <1>1, <1>2, <1>3 DEF Ordered, InOrder

(* An item put into the heap. *)
LEMMA InsertWorks ==
  ASSUME NEW i \in Items, NEW it, fheap \in Seq(Items), Distinct(fheap), i \notin Elems(fheap),
         Ordered(fheap, Len(fheap), it),
         \A x \in Elems(fheap) \cup {i} : it[x].expiredAt \in Nat \ {0}
  PROVE  /\ Insert(i, it) \in Seq(Items) /\ Len(Insert(i, it)) = Len(fheap) + 1
         /\ Elems(Insert(i, it)) = Elems(fheap) \cup {i} /\ Distinct(Insert(i, it))
         /\ Ordered(Insert(i, it), Len(fheap) + 1, it)
<1>1. PICK n \in Nat : n = Len(fheap)
  OBVIOUS
<1>2. PICK m \in Nat : m = n + 1
  OBVIOUS
<1>3. PICK h : h = Append(fheap, i)
  OBVIOUS
<1>4. /\ h \in Seq(Items) /\ Len(h) = m /\ h \in [1..m -> Items]
      /\ h[m] = i /\ \A k \in 1..n : h[k] = fheap[k]
  <2>1. h \in Seq(Items) /\ Len(h) = m
    BY <1>1, <1>2, <1>3
  <2>2. h[m] = i /\ \A k \in 1..n : h[k] = fheap[k]
    BY <1>1, <1>2, <1>3
  <2> QED BY <2>1, <2>2
<1>5. Elems(h) = Elems(fheap) \cup {i}
  <2>1. \A k \in 1..m : k \in 1..n \/ k = m
    BY <1>2
  <2>2. m \in 1..m /\ \A k \in 1..n : k \in 1..m
    BY <1>2
  <2> QED BY <1>1, <1>4, <2>1, <2>2 DEF Elems
<1>6. Distinct(h)
  <2> SUFFICES ASSUME NEW j \in 1..m, NEW k \in 1..m, h[j] = h[k] PROVE j = k
    BY <1>4 DEF Distinct
  <2>1. \A l \in 1..n : fheap[l] # i
    BY <1>1 DEF Elems
  <2>2. CASE j \in 1..n /\ k \in 1..n
    BY <1>1, <1>4, <2>2 DEF Distinct
  <2>3. CASE j = m \/ k = m
    BY <1>2, <1>4, <2>1, <2>3
  <2> QED BY <1>2, <2>2, <2>3
<1>7. UpReady(h, m, m, it)
  <2>1. Keys(h, m, it)
    BY <1>4, <1>5 DEF Keys, Key, Elems
  <2>2. ASSUME NEW k \in 2..m PROVE Parent(k) \in 1..n
    BY <1>2, ParentBefore
  <2>3. ASSUME NEW k \in 2..m, k # m PROVE InOrder(h, k, it)
    <3>1. k \in 2..n
      BY <1>2, <2>3
    <3>2. h[k] = fheap[k] /\ h[Parent(k)] = fheap[Parent(k)]
      BY <1>4, <2>2, <3>1
    <3>3. InOrder(fheap, k, it)
      BY <1>1, <3>1 DEF Ordered
    <3> QED BY <3>2, <3>3 DEF InOrder, Key
  <2>4. \A c \in 2..m : Parent(c) # m
    BY <1>2, <2>2
  <2> QED BY <2>1, <2>3, <2>4 DEF UpReady
<1>8. PICK r : r = Insert(i, it)
  OBVIOUS
<1>9. r = ShiftUp(h, m, it)
  BY <1>1, <1>2, <1>3, <1>8 DEF Insert
<1>10. Permuted(h, r, m) /\ Ordered(r, m, it)
  <2>1. m \in 1..m
    BY <1>2
  <2> QED BY <1>4, <1>7, <1>9, <2>1, ShiftUpWorks
<1>11. r \in Seq(Items) /\ Len(r) = m /\ Elems(r) = Elems(h) /\ Distinct(r)
  BY <1>4, <1>6, <1>10, PermutedElems
<1> QED BY <1>1, <1>2, <1>5, <1>8, <1>10, <1>11

(* The root taken out of the heap. *)
LEMMA WithoutRootWorks ==
  ASSUME fheap \in Seq(Items), fheap # <<>>, Distinct(fheap), Ordered(fheap, Len(fheap), item),
         Timed(item), \A x \in Elems(fheap) : item[x].expiredAt \in Nat \ {0}
  PROVE  /\ WithoutRoot \in Seq(Items) /\ Len(WithoutRoot) = Len(fheap) - 1
         /\ Elems(WithoutRoot) = Elems(fheap) \ {fheap[1]} /\ Distinct(WithoutRoot)
         /\ Ordered(WithoutRoot, Len(fheap) - 1, item)
<1>1. PICK n \in Nat : n + 1 = Len(fheap)
  OBVIOUS
<1>2. PICK m \in Nat : m = n + 1
  OBVIOUS
<1>3. PICK h : h = SubSeq([fheap EXCEPT ![1] = fheap[m]], 1, n)
  OBVIOUS
<1>4. /\ h \in Seq(Items) /\ Len(h) = n /\ h \in [1..n -> Items]
      /\ \A k \in 1..n : h[k] = IF k = 1 THEN fheap[m] ELSE fheap[k]
  <2>1. PICK g : g = [fheap EXCEPT ![1] = fheap[m]]
    OBVIOUS
  <2>2. /\ g \in Seq(Items) /\ Len(g) = m
        /\ \A k \in 1..m : g[k] = IF k = 1 THEN fheap[m] ELSE fheap[k]
    BY <1>1, <1>2, <2>1
  <2>3. n <= Len(g) /\ h = SubSeq(g, 1, n)
    BY <1>2, <1>3, <2>1, <2>2
  <2>4. h \in Seq(Items) /\ Len(h) = n /\ \A k \in 1..n : h[k] = g[k]
    BY <2>2, <2>3
  <2> QED BY <1>2, <2>2, <2>4
<1>5. Elems(h) = Elems(fheap) \ {fheap[1]}
  <2>0. \A j, k \in 1..m : fheap[j] = fheap[k] => j = k
    BY <1>1, <1>2 DEF Distinct
  <2>1. ASSUME NEW k \in 1..n PROVE h[k] \in Elems(fheap) /\ h[k] # fheap[1]
    BY <1>1, <1>2, <1>4, <2>0 DEF Elems
  <2>2. ASSUME NEW k \in 1..m, k # 1 PROVE \E j \in 1..n : h[j] = fheap[k]
    <3>1. CASE k = m
      <4>1. 1 \in 1..n
        BY <1>2, <2>2, <3>1
      <4> QED BY <1>4, <3>1, <4>1
    <3>2. CASE k # m
      BY <1>2, <1>4, <2>2, <3>2
    <3> QED BY <3>1, <3>2
  <2>3. ASSUME NEW x \in Elems(fheap), x # fheap[1] PROVE x \in Elems(h)
    <3>1. PICK k \in 1..m : x = fheap[k]
      BY <1>1, <1>2 DEF Elems
    <3>2. PICK j \in 1..n : h[j] = fheap[k]
      BY <2>2, <2>3, <3>1
    <3> QED BY <1>4, <3>1, <3>2 DEF Elems
  <2>4. ASSUME NEW x \in Elems(h) PROVE x \in Elems(fheap) \ {fheap[1]}
    <3>1. PICK k \in 1..n : x = h[k]
      BY <1>4 DEF Elems
    <3> QED BY <2>1, <3>1
  <2> QED BY <2>3, <2>4
<1>6. Distinct(h)
  <2>0. \A j, k \in 1..m : fheap[j] = fheap[k] => j = k
    BY <1>1, <1>2 DEF Distinct
  <2> QED BY <1>2, <1>4, <2>0 DEF Distinct
<1>7. Len(fheap) = m /\ m - 1 = n
  BY <1>1, <1>2
<1>8. WithoutRoot = IF h = <<>> THEN h ELSE ShiftDown(h, 1, item)
  BY <1>7, <1>3, Zenon DEF WithoutRoot
<1>9. CASE n = 0
  <2>1. h = <<>>
    BY <1>4, <1>9
  <2>2. WithoutRoot = h
    BY <1>8, <2>1
  <2>3. Ordered(h, n, item)
    BY <1>9 DEF Ordered
  <2> QED BY <1>7, <1>4, <1>5, <1>6, <2>2, <2>3
<1>10. CASE n # 0
  <2>1. h # <<>> /\ 1 \in 1..n
    BY <1>4, <1>10
  <2>2. WithoutRoot = ShiftDown(h, 1, item)
    BY <1>8, <2>1
  <2>3. DownReady(h, n, 1, item)
    <3>1. Keys(h, n, item)
      BY <1>4, <1>5 DEF Keys, Key, Elems
    <3>2. ASSUME NEW k \in 2..n, Parent(k) # 1 PROVE InOrder(h, k, item)
      <4>1. Parent(k) \in 2..n /\ k \in 2..m
        BY <1>2, <3>2, ParentBefore
      <4>2. h[k] = fheap[k] /\ h[Parent(k)] = fheap[Parent(k)]
        BY <1>4, <4>1
      <4>3. InOrder(fheap, k, item)
        BY <1>1, <1>2, <4>1 DEF Ordered
      <4> QED BY <4>2, <4>3 DEF InOrder, Key
    <3> QED BY <3>1, <3>2 DEF DownReady
  <2>4. PICK r : r = WithoutRoot
    OBVIOUS
  <2>5. Permuted(h, r, n) /\ Ordered(r, n, item)
    BY <1>4, <2>1, <2>2, <2>3, <2>4, ShiftDownWorks
  <2>6. r \in Seq(Items) /\ Len(r) = n /\ Elems(r) = Elems(h) /\ Distinct(r)
    BY <1>4, <1>6, <2>5, PermutedElems
  <2> QED BY <1>1, <1>5, <2>4, <2>5, <2>6
<1> QED BY <1>9, <1>10

-----------------------------------------------------------------------------
(* Every step keeps Base. *)

(* The set of timerItems. *)
Record == [expiredAt : Nat, interval : Intervals \cup {0}, eh : Handlers \cup {None}]

(* Times of items, and their place. *)
LEMMA BaseFacts ==
  ASSUME Base
  PROVE  /\ item \in [Items -> Record] /\ fheap \in Seq(Items) /\ Timed(item)
         /\ Elems(fheap) \subseteq Items /\ Live \subseteq Items
         /\ \A x \in Elems(fheap) : item[x].expiredAt \in Nat \ {0}
         /\ \A x \in Items : InHeap(x) <=> x \in Elems(fheap)
         /\ Distinct(fheap) /\ Ordered(fheap, Len(fheap), item)
         /\ None \notin Items /\ None \notin Handlers
<1>1. item \in [Items -> Record] /\ fheap \in Seq(Items) /\ fired \in Items \cup {None}
  BY DEF Base, TypeOK, Record
<1>2. Timed(item)
  BY <1>1 DEF Timed, Record
<1>3. Elems(fheap) \subseteq Items
  BY <1>1 DEF Elems
<1>4. \A x \in Elems(fheap) : item[x].expiredAt \in Nat \ {0}
  BY <1>2, <1>3 DEF Base, HeapInv, Timed
<1>5. \A x \in Items : InHeap(x) <=> x \in Elems(fheap)
  BY DEF InHeap, Elems
<1> QED BY <1>1, <1>2, <1>3, <1>4, <1>5, Timer4HeapAssumption DEF Base, HeapInv, Live

(* The item that schedule makes, and where it goes. *)
LEMMA ScheduleIs ==
  ASSUME Base, NEW h \in Handlers, NEW d \in Delays, NEW v \in Intervals, Schedule(h, d, v)
  PROVE  \E i \in Items :
           /\ i \notin Live /\ \A g \in Handlers : ti[g] # i
           /\ item' = [item EXCEPT ![i] = [expiredAt |-> clock + d, interval |-> v, eh |-> h]]
           /\ ti' = [ti EXCEPT ![h] = i]
           /\ fheap' \in Seq(Items) /\ Len(fheap') = Len(fheap) + 1
           /\ Elems(fheap') = Elems(fheap) \cup {i} /\ Distinct(fheap')
           /\ Ordered(fheap', Len(fheap'), item')
<1>1. Unused \in SUBSET Nat /\ Unused # {}
  BY Timer4HeapAssumption DEF Schedule, Unused
<1>2. PICK i : i = CHOOSE u \in Unused : \A w \in Unused : u <= w
  OBVIOUS
<1>3. i \in Unused
  <2>1. \E u \in Unused : \A w \in Unused : u <= w
    BY <1>1, MinNat
  <2> QED BY <1>2, <2>1
<1>4. i \in Items /\ i \notin Live /\ \A g \in Handlers : ti[g] # i
  BY <1>3, BaseFacts DEF Unused, Live
<1>5. /\ item' = [item EXCEPT ![i] = [expiredAt |-> clock + d, interval |-> v, eh |-> h]]
      /\ fheap' = Insert(i, item')
      /\ ti' = [ti EXCEPT ![h] = i]
  BY <1>2 DEF Schedule
<1>6. clock + d \in Nat \ {0} /\ item \in [Items -> Record]
  BY Timer4HeapAssumption, BaseFacts DEF Base, TypeOK, StartTime
<1>7. item'[i].expiredAt = clock + d /\ \A x \in Items : x # i => item'[x] = item[x]
  BY <1>4, <1>5, <1>6
<1>8. i \notin Elems(fheap) /\ Elems(fheap) \subseteq Items
  BY <1>4, BaseFacts DEF Live
<1>9. Ordered(fheap, Len(fheap), item')
  BY <1>7, <1>8, BaseFacts, OrderedSame
<1>10. \A x \in Elems(fheap) \cup {i} : item'[x].expiredAt \in Nat \ {0}
  BY <1>6, <1>7, <1>8, BaseFacts
<1>11. PICK r : r = Insert(i, item')
  OBVIOUS
<1>12. /\ r \in Seq(Items) /\ Len(r) = Len(fheap) + 1
       /\ Elems(r) = Elems(fheap) \cup {i} /\ Distinct(r)
       /\ Ordered(r, Len(fheap) + 1, item')
  BY <1>4, <1>8, <1>9, <1>10, <1>11, BaseFacts, InsertWorks
<1>13. fheap' = r
  BY <1>5, <1>11
<1> QED BY <1>4, <1>5, <1>12, <1>13

(* The root of a heap is one of its items. *)
LEMMA RootIsElem ==
  ASSUME NEW h \in Seq(Items), Len(h) > 0
  PROVE  h[1] \in Elems(h) /\ h[1] \in Items
BY DEF Elems

(* schedule keeps Base. *)
LEMMA ScheduleKeepsBase ==
  ASSUME Base, NEW h \in Handlers, NEW d \in Delays, NEW v \in Intervals, Schedule(h, d, v)
  PROVE  Base'
<1>1. PICK i \in Items :
           /\ i \notin Live /\ \A g \in Handlers : ti[g] # i
           /\ item' = [item EXCEPT ![i] = [expiredAt |-> clock + d, interval |-> v, eh |-> h]]
           /\ ti' = [ti EXCEPT ![h] = i]
           /\ fheap' \in Seq(Items) /\ Len(fheap') = Len(fheap) + 1
           /\ Elems(fheap') = Elems(fheap) \cup {i} /\ Distinct(fheap')
           /\ Ordered(fheap', Len(fheap'), item')
  BY ScheduleIs
<1>2. /\ item \in [Items -> Record] /\ ti \in [Handlers -> Items \cup {None}]
      /\ clock \in StartTime..(2 * MaxTime) /\ d \in Nat /\ clock + d <= MaxTime /\ MaxTime \in Nat
      /\ ti[h] = None
      /\ UNCHANGED <<clock, reported, pc, now, fired, cancels, panicked>>
  BY Timer4HeapAssumption, BaseFacts DEF Base, TypeOK, Schedule, onread, StartTime
<1>3. /\ item'[i] = [expiredAt |-> clock + d, interval |-> v, eh |-> h]
      /\ \A x \in Items : x # i => item'[x] = item[x]
      /\ ti'[h] = i /\ \A g \in Handlers : g # h => ti'[g] = ti[g]
  BY <1>1, <1>2
<1>4. item' \in [Items -> Record] /\ ti' \in [Handlers -> Items \cup {None}]
  <2>1. [expiredAt |-> clock + d, interval |-> v, eh |-> h] \in Record
    BY <1>2 DEF Record, StartTime
  <2> QED BY <1>1, <1>2, <2>1
<1>5. PICK min \in Nat : /\ min = item'[fheap'[1]].expiredAt
                         /\ min <= MaxTime
  <2>1. fheap'[1] \in Items
    BY <1>1, RootIsElem, BaseFacts
  <2>2. \A x \in Items : item[x].expiredAt <= MaxTime
    BY DEF Base, TimeInv
  <2> QED BY <1>2, <1>3, <1>4, <2>1, <2>2 DEF Record
<1>6. /\ timerfdSettime' \in Nat /\ drift' \in Nat /\ tfd' \in Nat \cup {None}
      /\ tfd' # None => tfd' <= 2 * MaxTime
  <2>1. /\ timerfdSettime \in Nat /\ drift \in Nat /\ tfd \in Nat \cup {None}
        /\ tfd # None => tfd <= 2 * MaxTime
    BY DEF Base, TypeOK, TimeInv
  <2>2. CASE UNCHANGED <<tfd, timerfdSettime, drift>>
    BY <2>1, <2>2
  <2>3. CASE /\ AdjustTimerfd(min - clock)
             /\ timerfdSettime' = min
             /\ drift' = 0
    BY <1>2, <1>5, <2>3 DEF AdjustTimerfd, StartTime
  <2> QED BY <1>5, <2>2, <2>3 DEF Schedule
<1>7. TypeOK'
  BY <1>1, <1>2, <1>4, <1>6 DEF Base, TypeOK, Record
<1>8. Live' = Live \cup {i}
  BY <1>1, <1>2 DEF Live
<1>9. HeapInv'
  <2>1. ASSUME NEW x \in Elems(fheap')
        PROVE  item'[x].expiredAt >= 1 /\ (item'[x].expiredAt = 1 => item'[x].eh = None)
    <3>1. CASE x = i
      BY <1>2, <1>3, <3>1 DEF StartTime
    <3>2. CASE x # i
      BY <1>1, <1>3, <3>2, BaseFacts DEF Base, HeapInv, Cancelled
    <3> QED BY <3>1, <3>2
  <2>2. fired' \notin Elems(fheap')
    BY <1>1, <1>2, BaseFacts DEF Base, HeapInv, Live
  <2> QED BY <1>1, <1>2, <2>1, <2>2 DEF Base, HeapInv, Cancelled
<1>10. OwnInv'
  <2>1. ASSUME NEW g \in Handlers, ti'[g] # None PROVE item'[ti'[g]].eh = g /\ ti'[g] \in Live'
    <3>1. CASE g = h
      BY <1>3, <1>8, <3>1
    <3>2. CASE g # h
      <4>1. ti'[g] = ti[g] /\ ti[g] # i /\ ti[g] \in Items
        BY <1>1, <1>2, <1>3, <2>1, <3>2
      <4> QED BY <1>3, <1>8, <2>1, <4>1 DEF Base, OwnInv
    <3> QED BY <3>1, <3>2
  <2>2. ASSUME NEW x \in Live', item'[x].eh # None PROVE ti'[item'[x].eh] = x
    <3>1. CASE x = i
      BY <1>3, <3>1
    <3>2. CASE x # i
      <4>1. x \in Live /\ x \in Items /\ item'[x] = item[x]
        BY <1>3, <1>8, <3>2, BaseFacts
      <4>2. ti[item[x].eh] = x /\ item[x].eh \in Handlers
        BY <1>2, <2>2, <4>1 DEF Base, OwnInv, Cancelled, Record
      <4>3. item[x].eh # h
        BY <1>2, <4>1, <4>2, BaseFacts
      <4> QED BY <1>3, <4>1, <4>2, <4>3
    <3> QED BY <3>1, <3>2
  <2>3. ASSUME cancels' = 0, NEW x \in Live' PROVE item'[x].eh # None
    <3>1. CASE x = i
      BY <1>3, <3>1, BaseFacts
    <3>2. CASE x # i
      BY <1>2, <1>3, <1>8, <2>3, <3>2, BaseFacts DEF Base, OwnInv, Cancelled
    <3> QED BY <3>1, <3>2
  <2> QED BY <2>1, <2>2, <2>3 DEF OwnInv, Cancelled
<1>11. TimeInv'
  <2>1. ASSUME NEW x \in Items PROVE item'[x].expiredAt <= MaxTime
    <3>1. CASE x = i
      BY <1>2, <1>3, <3>1
    <3>2. CASE x # i
      BY <1>3, <3>2 DEF Base, TimeInv
    <3> QED BY <3>1, <3>2
  <2> QED BY <1>2, <1>6, <2>1 DEF Base, TimeInv
<1> QED BY <1>7, <1>9, <1>10, <1>11 DEF Base

(* cancel keeps Base. *)
LEMMA CancelKeepsBase ==
  ASSUME Base, NEW h \in Handlers, Cancel(h)
  PROVE  Base'
<1>1. PICK i \in Items : i = ti[h] /\ item[i].eh = h /\ i \in Live
  BY DEF Base, TypeOK, OwnInv, Cancel
<1>2. /\ item \in [Items -> Record] /\ ti \in [Handlers -> Items \cup {None}]
      /\ item' = [item EXCEPT ![i].eh = None, ![i].expiredAt = 1]
      /\ ti' = [ti EXCEPT ![h] = None]
      /\ cancels' = cancels + 1 /\ cancels < MaxCancels /\ cancels \in Nat
      /\ UNCHANGED <<clock, fheap, timerfdSettime, tfd, reported, pc, now, fired, drift, panicked>>
  BY <1>1, BaseFacts DEF Base, TypeOK, Cancel, onread
<1>3. /\ item'[i].eh = None /\ item'[i].expiredAt = 1 /\ item'[i].interval = item[i].interval
      /\ \A x \in Items : x # i => item'[x] = item[x]
      /\ ti'[h] = None /\ \A g \in Handlers : g # h => ti'[g] = ti[g]
  BY <1>2 DEF Record
<1>4. item' \in [Items -> Record] /\ ti' \in [Handlers -> Items \cup {None}]
  BY <1>2 DEF Record
<1>5. TypeOK'
  <2>1. cancels' \in 0..MaxCancels
    BY <1>2, Timer4HeapAssumption
  <2> QED BY <1>2, <1>4, <2>1 DEF Base, TypeOK, Record
<1>6. Live' = Live
  BY <1>2 DEF Live
<1>7. HeapInv'
  <2>1. ASSUME NEW x \in Elems(fheap)
        PROVE  item'[x].expiredAt >= 1 /\ (item'[x].expiredAt = 1 => item'[x].eh = None)
    <3>1. CASE x = i
      BY <1>3, <3>1
    <3>2. CASE x # i
      BY <1>3, <3>2, BaseFacts DEF Base, HeapInv, Cancelled
    <3> QED BY <3>1, <3>2
  <2>2. Ordered(fheap, Len(fheap), item')
    <3>1. PICK n \in Nat : n = Len(fheap)
      BY BaseFacts
    <3>2. ASSUME NEW k \in 1..n
          PROVE  /\ Key(fheap, k, item) \in Nat \ {0}
                 /\ Key(fheap, k, item') = 1 \/ Key(fheap, k, item') = Key(fheap, k, item)
      <4>1. fheap[k] \in Elems(fheap) /\ fheap[k] \in Items
        BY <3>1, BaseFacts DEF Elems
      <4> QED BY <1>3, <4>1, BaseFacts DEF Key
    <3>3. ASSUME NEW k \in 2..n PROVE InOrder(fheap, k, item')
      <4>1. Parent(k) \in 1..n
        BY ParentBefore
      <4>2. InOrder(fheap, k, item)
        BY <3>1, BaseFacts DEF Ordered
      <4> QED BY <3>2, <4>1, <4>2 DEF InOrder
    <3> QED BY <3>1, <3>3 DEF Ordered
  <2> QED BY <1>2, <2>1, <2>2 DEF Base, HeapInv, Cancelled
<1>8. OwnInv'
  <2>1. ASSUME NEW g \in Handlers, ti'[g] # None PROVE item'[ti'[g]].eh = g /\ ti'[g] \in Live'
    <3>1. g # h /\ ti'[g] = ti[g]
      BY <1>3, <2>1
    <3>2. item[ti[g]].eh = g /\ ti[g] \in Live /\ ti[g] \in Items
      BY <1>2, <2>1, <3>1 DEF Base, OwnInv
    <3>3. ti[g] # i
      BY <1>1, <3>1, <3>2
    <3> QED BY <1>3, <1>6, <3>1, <3>2, <3>3
  <2>2. ASSUME NEW x \in Live', item'[x].eh # None PROVE ti'[item'[x].eh] = x
    <3>1. x \in Live /\ x \in Items /\ x # i /\ item'[x] = item[x]
      BY <1>3, <1>6, <2>2, BaseFacts
    <3>2. ti[item[x].eh] = x /\ item[x].eh \in Handlers
      BY <1>2, <2>2, <3>1 DEF Base, OwnInv, Cancelled, Record
    <3>3. item[x].eh # h
      BY <1>1, <3>1, <3>2
    <3> QED BY <1>3, <3>1, <3>2, <3>3
  <2>3. cancels' # 0
    BY <1>2
  <2> QED BY <2>1, <2>2, <2>3 DEF OwnInv, Cancelled
<1>9. TimeInv'
  <2>1. ASSUME NEW x \in Items PROVE item'[x].expiredAt <= MaxTime
    <3>1. CASE x = i
      BY <1>3, <3>1, Timer4HeapAssumption DEF StartTime
    <3>2. CASE x # i
      BY <1>3, <3>2 DEF Base, TimeInv
    <3> QED BY <3>1, <3>2
  <2> QED BY <1>2, <2>1 DEF Base, TimeInv
<1> QED BY <1>5, <1>7, <1>8, <1>9 DEF Base

(* Steps that leave heap, items and handlers alone. *)
LEMMA HeapUntouched ==
  ASSUME Base, UNCHANGED <<fheap, item, ti, fired, cancels>>, pc' = "ontimeout" <=> pc = "ontimeout"
  PROVE  HeapInv' /\ OwnInv'
<1>1. Live' = Live
  BY DEF Live
<1> QED BY <1>1 DEF Base, HeapInv, OwnInv, Cancelled

(* epoll_wait and the beginning of OnRead keep Base. *)
LEMMA EpollInKeepsBase ==
  ASSUME Base, EpollIn
  PROVE  Base'
<1>1. TypeOK'
  BY DEF Base, TypeOK, EpollIn, onread
<1>2. HeapInv' /\ OwnInv'
  BY HeapUntouched DEF EpollIn, onread
<1>3. TimeInv'
  BY DEF Base, TimeInv, EpollIn, onread
<1> QED BY <1>1, <1>2, <1>3 DEF Base

(* The same of OnRead. *)
LEMMA OnReadKeepsBase ==
  ASSUME Base, OnRead
  PROVE  Base'
<1>1. clock \in StartTime..(2 * MaxTime) /\ clock \in Nat /\ MaxTime \in Nat
  BY Timer4HeapAssumption DEF Base, TypeOK, StartTime
<1>2. TypeOK'
  BY <1>1 DEF Base, TypeOK, OnRead
<1>3. HeapInv' /\ OwnInv'
  BY HeapUntouched DEF OnRead
<1>4. TimeInv'
  BY <1>1 DEF Base, TimeInv, OnRead
<1> QED BY <1>2, <1>3, <1>4 DEF Base

(* The passing of time keeps Base. *)
LEMMA TickKeepsBase ==
  ASSUME Base, Tick
  PROVE  Base'
<1>1. /\ clock \in StartTime..(2 * MaxTime) /\ MaxTime \in Nat /\ now \in Nat /\ tfd \in Nat \cup {None}
      /\ tfd # None => tfd <= 2 * MaxTime
      /\ pc # "loop" => now \in StartTime..clock
  BY Timer4HeapAssumption DEF Base, TypeOK, TimeInv
<1>2. /\ clock' = clock + 1
      /\ clock < MaxTime \/ (pc = "loop" /\ tfd # None /\ clock < tfd)
      /\ UNCHANGED <<fheap, item, ti, timerfdSettime, tfd, reported, pc, now, fired, cancels, drift, panicked>>
  BY DEF Tick, onread
<1>3. clock' \in StartTime..(2 * MaxTime)
  BY <1>1, <1>2 DEF StartTime
<1>4. TypeOK'
  BY <1>2, <1>3 DEF Base, TypeOK
<1>5. HeapInv' /\ OwnInv'
  BY <1>2, HeapUntouched
<1>6. pc # "loop" => now \in StartTime..clock' /\ clock' <= MaxTime
  BY <1>1, <1>2 DEF StartTime
<1>7. TimeInv'
  BY <1>2, <1>6 DEF Base, TimeInv
<1> QED BY <1>4, <1>5, <1>7 DEF Base

(* The end of OnRead keeps Base. *)
LEMMA RearmKeepsBase ==
  ASSUME Base, Rearm
  PROVE  Base'
<1>1. /\ clock \in StartTime..(2 * MaxTime) /\ MaxTime \in Nat /\ tfd \in Nat \cup {None} /\ drift \in Nat
      /\ tfd # None => tfd <= 2 * MaxTime
      /\ now \in StartTime..clock /\ (clock = now \/ clock <= MaxTime) /\ ErrorVal \in Nat
  BY Timer4HeapAssumption DEF Base, TypeOK, TimeInv, Rearm
<1>2. /\ pc = "expired" /\ pc' = "loop" /\ now' = 0
      /\ UNCHANGED <<clock, fheap, item, ti, timerfdSettime, reported, fired, cancels, panicked>>
  BY DEF Rearm
<1>3. /\ tfd' \in Nat \cup {None} /\ drift' \in Nat
      /\ tfd' # None => tfd' <= 2 * MaxTime
  <2>1. CASE UNCHANGED <<tfd, drift>>
    BY <1>1, <2>1
  <2>2. CASE /\ fheap # <<>>
             /\ item[fheap[1]].expiredAt - now > ErrorVal
             /\ AdjustTimerfd(item[fheap[1]].expiredAt - now)
             /\ drift' = clock - now
    <3>1. fheap[1] \in Items
      BY <2>2, RootIsElem, BaseFacts
    <3>2. PICK e \in Nat : e = item[fheap[1]].expiredAt /\ e <= MaxTime
      BY <3>1, BaseFacts DEF Timed, Base, TimeInv
    <3>3. (tfd' = clock \/ tfd' = clock + (e - now)) /\ drift' = clock - now /\ e > now
      BY <1>1, <2>2, <3>2 DEF AdjustTimerfd, StartTime
    <3>4. clock \in Nat /\ clock <= 2 * MaxTime /\ now \in Nat /\ now <= clock
      BY <1>1 DEF StartTime
    <3> QED BY <1>1, <3>2, <3>3, <3>4
  <2> QED BY <2>1, <2>2 DEF Rearm
<1>4. TypeOK'
  BY <1>2, <1>3 DEF Base, TypeOK
<1>5. HeapInv' /\ OwnInv'
  BY <1>2, HeapUntouched
<1>6. TimeInv'
  BY <1>2, <1>3 DEF Base, TimeInv
<1> QED BY <1>4, <1>5, <1>6 DEF Base

(* popOne keeps Base. *)
LEMMA PopOneKeepsBase ==
  ASSUME Base, PopOne
  PROVE  Base'
<1>1. /\ fheap # <<>> /\ fheap' = WithoutRoot /\ pc = "expired" /\ fired = None
      /\ UNCHANGED <<clock, ti, timerfdSettime, tfd, reported, now, cancels, drift, panicked>>
  BY DEF PopOne, Base, HeapInv
<1>2. PICK x : x = fheap[1]
  OBVIOUS
<1>3. x \in Elems(fheap) /\ x \in Items
  BY <1>1, <1>2, RootIsElem, BaseFacts
<1>4. /\ fheap' \in Seq(Items) /\ Len(fheap') = Len(fheap) - 1
      /\ Elems(fheap') = Elems(fheap) \ {x} /\ Distinct(fheap')
      /\ Ordered(fheap', Len(fheap'), item)
  BY <1>1, <1>2, BaseFacts, WithoutRootWorks
<1>5. x # None /\ Live = Elems(fheap)
  BY <1>1, <1>3, BaseFacts DEF Live
<1>6. CASE /\ item[x].eh = None
           /\ item' = [item EXCEPT ![x] = Blank]
           /\ UNCHANGED <<pc, fired>>
  <2>1. item' \in [Items -> Record] /\ \A y \in Items : y # x => item'[y] = item[y]
    <3>1. Blank \in Record
      BY DEF Blank, Record
    <3> QED BY <1>3, <1>6, <3>1, BaseFacts
  <2>2. Live' = Live \ {x}
    BY <1>1, <1>4, <1>5, <1>6 DEF Live
  <2>3. TypeOK'
    BY <1>1, <1>4, <1>6, <2>1 DEF Base, TypeOK, Record
  <2>4. HeapInv'
    <3>1. Ordered(fheap', Len(fheap'), item')
      <4>1. \A y \in Elems(fheap') : item'[y].expiredAt = item[y].expiredAt
        BY <1>4, <2>1, BaseFacts
      <4> QED BY <1>4, <4>1, OrderedSame
    <3> QED BY <1>1, <1>4, <1>6, <2>1, <3>1, BaseFacts DEF Base, HeapInv, Cancelled
  <2>5. OwnInv'
    <3>1. ASSUME NEW g \in Handlers, ti[g] # None PROVE item'[ti[g]].eh = g /\ ti[g] \in Live'
      <4>1. item[ti[g]].eh = g /\ ti[g] \in Live /\ ti[g] \in Items
        BY <3>1, BaseFacts DEF Base, OwnInv
      <4>2. ti[g] # x
        BY <1>6, <4>1, BaseFacts
      <4> QED BY <2>1, <2>2, <4>1, <4>2
    <3>2. \A y \in Live' : y \in Live /\ item'[y] = item[y]
      BY <2>1, <2>2, BaseFacts
    <3> QED BY <1>1, <3>1, <3>2 DEF Base, OwnInv, Cancelled
  <2>6. TimeInv'
    <3>1. \A y \in Items : item'[y].expiredAt <= MaxTime
      <4>1. item'[x].expiredAt <= MaxTime
        BY <1>3, <1>6, BaseFacts, Timer4HeapAssumption DEF Blank
      <4> QED BY <2>1, <4>1 DEF Base, TimeInv
    <3> QED BY <1>1, <1>6, <3>1 DEF Base, TimeInv
  <2> QED BY <2>3, <2>4, <2>5, <2>6 DEF Base
<1>7. CASE /\ item[x].eh # None
           /\ pc' = "ontimeout" /\ fired' = x
           /\ UNCHANGED item
  <2>1. Live' = Live
    BY <1>3, <1>4, <1>5, <1>7 DEF Live
  <2>2. TypeOK'
    BY <1>1, <1>3, <1>4, <1>7 DEF Base, TypeOK
  <2>3. HeapInv'
    BY <1>4, <1>5, <1>7 DEF Base, HeapInv, Cancelled
  <2>4. OwnInv'
    BY <1>1, <1>7, <2>1 DEF Base, OwnInv, Cancelled
  <2>5. TimeInv'
    BY <1>1, <1>7 DEF Base, TimeInv
  <2> QED BY <2>2, <2>3, <2>4, <2>5 DEF Base
<1> QED BY <1>2, <1>6, <1>7 DEF PopOne

(* The renewal of a periodic timer keeps Base. *)
LEMMA AgainIs ==
  ASSUME Base, Again
  PROVE  /\ fired \in Items /\ fired \in Live /\ fired \notin Elems(fheap)
         /\ item' = [item EXCEPT ![fired].expiredAt = now + item[fired].interval]
         /\ now \in StartTime..clock /\ item[fired].interval \in Nat \ {0}
         /\ now + item[fired].interval <= MaxTime
         /\ fheap' \in Seq(Items) /\ Len(fheap') = Len(fheap) + 1
         /\ Elems(fheap') = Elems(fheap) \cup {fired} /\ Distinct(fheap')
         /\ Ordered(fheap', Len(fheap'), item')
<1>1. fired \in Items /\ fired \in Live /\ fired \notin Elems(fheap)
  BY DEF Again, Base, TypeOK, HeapInv, Live
<1>2. now \in StartTime..clock /\ item[fired].interval \in Nat \ {0} /\ clock \in Nat
  BY <1>1, BaseFacts, Timer4HeapAssumption DEF Again, Base, TypeOK, TimeInv, Record, StartTime
<1>3. /\ item' = [item EXCEPT ![fired].expiredAt = now + item[fired].interval]
      /\ fheap' = Insert(fired, item') /\ now + item[fired].interval <= MaxTime
  BY DEF Again
<1>4. item'[fired].expiredAt = now + item[fired].interval /\ \A x \in Items : x # fired => item'[x] = item[x]
  BY <1>1, <1>3, BaseFacts DEF Record
<1>5. Ordered(fheap, Len(fheap), item')
  BY <1>1, <1>4, BaseFacts, OrderedSame
<1>6. \A x \in Elems(fheap) \cup {fired} : item'[x].expiredAt \in Nat \ {0}
  <2>1. now + item[fired].interval \in Nat \ {0}
    BY <1>2 DEF StartTime
  <2> QED BY <1>1, <1>4, <2>1, BaseFacts
<1>7. PICK r : r = Insert(fired, item')
  OBVIOUS
<1>8. /\ r \in Seq(Items) /\ Len(r) = Len(fheap) + 1
      /\ Elems(r) = Elems(fheap) \cup {fired} /\ Distinct(r)
      /\ Ordered(r, Len(fheap) + 1, item')
  BY <1>1, <1>5, <1>6, <1>7, BaseFacts, InsertWorks
<1>9. fheap' = r
  BY <1>3, <1>7
<1> QED BY <1>1, <1>2, <1>3, <1>8, <1>9

(* The same: Base. *)
LEMMA AgainKeepsBase ==
  ASSUME Base, Again
  PROVE  Base'
<1>1. PICK x : x = fired
  OBVIOUS
<1>2. /\ x \in Items /\ x \in Live /\ x \notin Elems(fheap) /\ x # None
      /\ item' = [item EXCEPT ![x].expiredAt = now + item[x].interval]
      /\ now \in StartTime..clock /\ item[x].interval \in Nat \ {0}
      /\ now + item[x].interval <= MaxTime
      /\ fheap' \in Seq(Items) /\ Len(fheap') = Len(fheap) + 1
      /\ Elems(fheap') = Elems(fheap) \cup {x} /\ Distinct(fheap')
      /\ Ordered(fheap', Len(fheap'), item')
  BY <1>1, AgainIs, BaseFacts
<1>3. /\ pc' = "expired" /\ fired' = None
      /\ UNCHANGED <<clock, ti, timerfdSettime, tfd, reported, now, cancels, drift, panicked>>
      /\ pc = "ontimeout" /\ clock \in Nat
  BY Timer4HeapAssumption DEF Again, Base, TypeOK, StartTime
<1>4. PICK t \in Nat \ {0, 1} : t = now + item[x].interval
  BY <1>2, <1>3 DEF StartTime
<1>5. /\ item'[x].expiredAt = t /\ item'[x].eh = item[x].eh
      /\ \A y \in Items : y # x => item'[y] = item[y]
      /\ \A y \in Items : item'[y].eh = item[y].eh
  <2>1. item \in [Items -> Record] /\ item' = [item EXCEPT ![x].expiredAt = t]
    BY <1>2, <1>4, BaseFacts
  <2>2. item[x] \in Record /\ item'[x] = [item[x] EXCEPT !.expiredAt = t]
    BY <1>2, <2>1
  <2>3. item'[x].expiredAt = t /\ item'[x].eh = item[x].eh
    BY <2>2 DEF Record
  <2>4. \A y \in Items : y # x => item'[y] = item[y]
    BY <1>2, <2>1
  <2> QED BY <2>3, <2>4
<1>6. item' \in [Items -> Record]
  <2>1. item \in [Items -> Record] /\ item' = [item EXCEPT ![x].expiredAt = t]
    BY <1>2, <1>4, BaseFacts
  <2>2. item[x] \in Record
    BY <1>2, <2>1
  <2>3. [item[x] EXCEPT !.expiredAt = t] \in Record
    BY <2>2 DEF Record
  <2> QED BY <2>1, <2>3
<1>7. Live' = Live
  BY <1>1, <1>2, <1>3 DEF Live
<1>8. TypeOK'
  BY <1>2, <1>3, <1>6 DEF Base, TypeOK, Record
<1>9. HeapInv'
  <2>1. ASSUME NEW y \in Elems(fheap')
        PROVE  item'[y].expiredAt >= 1 /\ (item'[y].expiredAt = 1 => item'[y].eh = None)
    <3>1. CASE y = x
      BY <1>5, <3>1
    <3>2. CASE y # x
      BY <1>2, <1>5, <3>2, BaseFacts DEF Base, HeapInv, Cancelled
    <3> QED BY <3>1, <3>2
  <2>2. None \notin Elems(fheap')
    BY <1>2, BaseFacts
  <2> QED BY <1>2, <1>3, <2>1, <2>2 DEF Base, HeapInv, Cancelled
<1>10. OwnInv'
  <2>1. \A g \in Handlers : ti[g] # None => ti[g] \in Items
    BY DEF Base, TypeOK
  <2> QED BY <1>3, <1>5, <1>7, <2>1, BaseFacts DEF Base, OwnInv, Cancelled
<1>11. TimeInv'
  <2>1. \A y \in Items : item'[y].expiredAt <= MaxTime
    BY <1>2, <1>4, <1>5 DEF Base, TimeInv
  <2> QED BY <1>3, <2>1 DEF Base, TimeInv
<1> QED BY <1>8, <1>9, <1>10, <1>11 DEF Base

(* The end of a timer keeps Base. *)
LEMMA DoneKeepsBase ==
  ASSUME Base, Done
  PROVE  Base'
<1>1. PICK x : x = fired
  OBVIOUS
<1>2. x \in Items /\ x \in Live /\ x \notin Elems(fheap) /\ x # None
  BY <1>1, BaseFacts DEF Done, Base, TypeOK, HeapInv, Live
<1>3. /\ panicked' = (item[x].eh = None)
      /\ ti' = [h \in Handlers |-> IF h = item[x].eh THEN None ELSE ti[h]]
      /\ item' = [item EXCEPT ![x] = Blank]
      /\ pc' = "expired" /\ fired' = None /\ pc = "ontimeout"
      /\ UNCHANGED <<clock, fheap, timerfdSettime, tfd, reported, now, cancels, drift>>
  BY <1>1 DEF Done
<1>4. item' \in [Items -> Record] /\ item'[x] = Blank /\ \A y \in Items : y # x => item'[y] = item[y]
  <2>1. Blank \in Record
    BY DEF Blank, Record
  <2> QED BY <1>2, <1>3, <2>1, BaseFacts
<1>5. ti' \in [Handlers -> Items \cup {None}] /\ panicked' \in BOOLEAN
  <2>1. ti' \in [Handlers -> Items \cup {None}]
    BY <1>3 DEF Base, TypeOK
  <2>2. panicked' \in BOOLEAN
    BY <1>3, Zenon
  <2> QED BY <2>1, <2>2
<1>6. TypeOK'
  BY <1>3, <1>4, <1>5 DEF Base, TypeOK, Record
<1>7. Live' = Live \ {x} /\ Live' = Elems(fheap)
  BY <1>1, <1>2, <1>3 DEF Live
<1>8. HeapInv'
  <2>1. Ordered(fheap, Len(fheap), item')
    BY <1>2, <1>4, BaseFacts, OrderedSame
  <2>2. None \notin Elems(fheap)
    BY BaseFacts
  <2>3. \A y \in Elems(fheap) : item'[y] = item[y]
    BY <1>2, <1>4, BaseFacts
  <2> QED BY <1>3, <2>1, <2>2, <2>3 DEF Base, HeapInv, Cancelled
<1>9. OwnInv'
  <2>1. ASSUME NEW g \in Handlers, ti'[g] # None PROVE item'[ti'[g]].eh = g /\ ti'[g] \in Live'
    <3>1. g # item[x].eh /\ ti'[g] = ti[g]
      BY <1>3, <2>1
    <3>2. item[ti[g]].eh = g /\ ti[g] \in Live /\ ti[g] \in Items
      BY <2>1, <3>1, BaseFacts DEF Base, OwnInv
    <3> QED BY <1>4, <1>7, <3>1, <3>2
  <2>2. ASSUME NEW y \in Live', item'[y].eh # None PROVE ti'[item'[y].eh] = y
    <3>1. y \in Live /\ y \in Items /\ y # x /\ item'[y] = item[y]
      BY <1>2, <1>4, <1>7, BaseFacts
    <3>2. ti[item[y].eh] = y /\ item[y].eh \in Handlers
      BY <2>2, <3>1, BaseFacts DEF Base, OwnInv, Cancelled, Record
    <3>3. item[y].eh # item[x].eh
      <4>1. Cancelled(x) \/ ti[item[x].eh] = x
        BY <1>2 DEF Base, OwnInv
      <4> QED BY <2>2, <3>1, <3>2, <4>1 DEF Cancelled
    <3> QED BY <1>3, <3>1, <3>2, <3>3
  <2>3. ASSUME cancels' = 0, NEW y \in Live' PROVE item'[y].eh # None
    BY <1>2, <1>3, <1>4, <1>7, <2>3, BaseFacts DEF Base, OwnInv, Cancelled
  <2> QED BY <2>1, <2>2, <2>3 DEF OwnInv, Cancelled
<1>10. TimeInv'
  <2>1. \A y \in Items : item'[y].expiredAt <= MaxTime
    BY <1>4, Timer4HeapAssumption DEF Base, TimeInv, Blank
  <2> QED BY <1>3, <2>1 DEF Base, TimeInv
<1> QED BY <1>6, <1>8, <1>9, <1>10 DEF Base

(* Every step keeps Base. *)
LEMMA NextKeepsBase == Base /\ [Next]_vars => Base'
<1> SUFFICES ASSUME Base, [Next]_vars PROVE Base'
  OBVIOUS
<1>1. CASE UNCHANGED vars
  <2>1. UNCHANGED <<fheap, item, ti, fired, cancels>> /\ pc' = pc
    BY <1>1 DEF vars
  <2>2. HeapInv' /\ OwnInv'
    BY <2>1, HeapUntouched
  <2> QED BY <1>1, <2>2 DEF vars, Base, TypeOK, TimeInv
<1>2. CASE Next
  BY <1>2, ScheduleKeepsBase, CancelKeepsBase, EpollInKeepsBase, OnReadKeepsBase, PopOneKeepsBase,
     AgainKeepsBase, DoneKeepsBase, RearmKeepsBase, TickKeepsBase DEF Next, HandleExpired
<1> QED BY <1>1, <1>2

(* Base holds at the start. *)
LEMMA InitBase == Init => Base
<1> SUFFICES ASSUME Init PROVE Base
  OBVIOUS
<1>1. fheap = <<>> /\ Elems(fheap) = {} /\ fired = None /\ Live = {}
  BY DEF Init, Elems, Live
<1>2. TypeOK
  <2>1. StartTime \in StartTime..(2 * MaxTime) /\ 0 \in 0..MaxCancels
    BY Timer4HeapAssumption DEF StartTime
  <2>2. item \in [Items -> Record]
    <3>1. Blank \in Record
      BY DEF Blank, Record
    <3> QED BY <3>1 DEF Init
  <2>3. ti \in [Handlers -> Items \cup {None}] /\ fheap \in Seq(Items)
    BY DEF Init
  <2>4. reported \in BOOLEAN /\ panicked \in BOOLEAN
    BY Zenon DEF Init
  <2> QED BY <2>1, <2>2, <2>3, <2>4 DEF Init, TypeOK, Record
<1>3. HeapInv
  BY <1>1 DEF Init, HeapInv, Distinct, Ordered
<1>4. OwnInv
  BY <1>1 DEF Init, OwnInv
<1>5. TimeInv
  BY Timer4HeapAssumption DEF Init, TimeInv, Blank
<1> QED BY <1>2, <1>3, <1>4, <1>5 DEF Base

-----------------------------------------------------------------------------
(* The timerfd. *)

(* The root of a heap without cancelled items is the first to expire: a first item that
   expires before it would expire before its parent, too. *)
LEMMA RootIsFirst ==
  ASSUME NEW n \in Nat, NEW h, NEW it, Ordered(h, n, it),
         \A k \in 1..n : Key(h, k, it) \in Nat \ {0, 1}
  PROVE  \A k \in 1..n : Key(h, 1, it) <= Key(h, k, it)
<1> SUFFICES ASSUME NEW k \in 1..n, ~(Key(h, 1, it) <= Key(h, k, it)) PROVE FALSE
  OBVIOUS
<1> DEFINE Before == {j \in 1..n : ~(Key(h, 1, it) <= Key(h, j, it))}
<1>1. Before \in SUBSET Nat /\ Before # {}
  OBVIOUS
<1>2. PICK j \in Before : \A y \in Before : j <= y
  <2> HIDE DEF Before
  <2> QED BY <1>1, MinNat
<1>3. j \in 1..n /\ ~(Key(h, 1, it) <= Key(h, j, it))
  OBVIOUS
<1>4. j # 1
  BY <1>3
<1>5. j \in 2..n
  BY <1>3, <1>4
<1>6. Parent(j) \in 1..n /\ Parent(j) < j
  BY <1>5, ParentBefore
<1>7. Key(h, 1, it) <= Key(h, Parent(j), it)
  BY <1>2, <1>3, <1>6
<1>8. Key(h, Parent(j), it) <= Key(h, j, it)
  BY <1>3, <1>5 DEF Ordered, InOrder
<1> QED BY <1>3, <1>6, <1>7, <1>8

(* The same for the items of the heap. *)
LEMMA RootElemIsFirst ==
  ASSUME NEW h \in Seq(Items), NEW it, Ordered(h, Len(h), it),
         \A x \in Elems(h) : it[x].expiredAt \in Nat \ {0, 1}
  PROVE  \A x \in Elems(h) : it[h[1]].expiredAt <= it[x].expiredAt
<1>1. PICK n \in Nat : n = Len(h)
  OBVIOUS
<1>2. \A k \in 1..n : Key(h, k, it) \in Nat \ {0, 1}
  BY <1>1 DEF Key, Elems
<1>3. \A k \in 1..n : Key(h, 1, it) <= Key(h, k, it)
  BY <1>1, <1>2, RootIsFirst
<1> QED BY <1>1, <1>3 DEF Key, Elems

(* The timerfd goes off in time for x. *)
InTimeFor(x) == reported \/ Readable \/ (tfd # None /\ tfd <= item[x].expiredAt + drift)

(* The same for all items of the heap, as long as none was cancelled. *)
LEMMA ArmedElems ==
  ASSUME fheap \in Seq(Items), \A x \in Elems(fheap) : ~Cancelled(x)
  PROVE  ArmedInTime <=> (pc = "loop" => \A x \in Elems(fheap) : InTimeFor(x))
BY DEF ArmedInTime, Elems, InTimeFor

(* What is known of the heap as long as nothing was cancelled. *)
LEMMA NothingCancelled ==
  ASSUME Base, cancels = 0
  PROVE  /\ \A x \in Elems(fheap) : ~Cancelled(x) /\ item[x].expiredAt \in Nat \ {0, 1}
         /\ fheap # <<>> => \A x \in Elems(fheap) : item[fheap[1]].expiredAt <= item[x].expiredAt
<1>1. \A x \in Elems(fheap) : ~Cancelled(x) /\ item[x].expiredAt \in Nat \ {0, 1}
  BY BaseFacts DEF Base, OwnInv, HeapInv, Live
<1>2. fheap # <<>> => \A x \in Elems(fheap) : item[fheap[1]].expiredAt <= item[x].expiredAt
  BY <1>1, BaseFacts, RootElemIsFirst
<1> QED BY <1>1, <1>2

(* Every delay is longer than what handleExpired runs ahead of time. *)
LongDelays == \A d \in Delays : d > ErrorVal

(* schedule: it arms the timerfd for the root, or the timerfd is armed for an item of the
   heap that expires when the root does. *)
LEMMA ScheduleInTime ==
  ASSUME LongDelays, Base, TimelyInv, NEW h \in Handlers, NEW d \in Delays, NEW v \in Intervals,
         Schedule(h, d, v)
  PROVE  TimelyInv'
<1> SUFFICES ASSUME cancels' = 0 PROVE ArmedInTime' /\ SettimeInv'
  BY DEF TimelyInv
<1>1. Base'
  BY ScheduleKeepsBase
<1>2. PICK i \in Items :
           /\ i \notin Live /\ \A g \in Handlers : ti[g] # i
           /\ item' = [item EXCEPT ![i] = [expiredAt |-> clock + d, interval |-> v, eh |-> h]]
           /\ ti' = [ti EXCEPT ![h] = i]
           /\ fheap' \in Seq(Items) /\ Len(fheap') = Len(fheap) + 1
           /\ Elems(fheap') = Elems(fheap) \cup {i} /\ Distinct(fheap')
           /\ Ordered(fheap', Len(fheap'), item')
  BY ScheduleIs
<1>3. UNCHANGED <<clock, reported, pc, now, cancels>> /\ cancels = 0
  BY DEF Schedule, onread
<1>4. /\ clock \in Nat /\ now \in Nat /\ drift \in Nat /\ tfd \in Nat \cup {None} /\ timerfdSettime \in Nat
      /\ ErrorVal \in Nat /\ d \in Nat /\ d > ErrorVal /\ None \notin Nat
      /\ pc # "loop" => now <= clock
  BY Timer4HeapAssumption DEF Base, TypeOK, TimeInv, StartTime, LongDelays
<1>5. item'[i].expiredAt = clock + d /\ \A x \in Elems(fheap) : x \in Items /\ x # i /\ item'[x] = item[x]
  BY <1>2, BaseFacts DEF Live
<1>6. PICK r : r = fheap'[1]
  OBVIOUS
<1>7. r \in Elems(fheap')
  BY <1>2, <1>6, BaseFacts, RootIsElem
<1>8. \A x \in Elems(fheap') : ~Cancelled(x)' /\ item'[x].expiredAt \in Nat \ {0, 1}
  <2>1. ASSUME NEW x \in Elems(fheap')
        PROVE  /\ ~Cancelled(x)' /\ item'[x].expiredAt >= 1
               /\ item'[x].expiredAt = 1 => Cancelled(x)'
    BY <1>1 DEF Base, OwnInv, HeapInv, Live
  <2>2. ASSUME NEW x \in Elems(fheap') PROVE item'[x].expiredAt \in Nat
    BY <1>1, <1>2 DEF Base, TypeOK, Elems
  <2> QED BY <2>1, <2>2
<1>9. \A x \in Elems(fheap') : item'[r].expiredAt <= item'[x].expiredAt
  BY <1>2, <1>6, <1>8, RootElemIsFirst
<1>10. PICK min \in Nat : min = item'[r].expiredAt
  BY <1>7, <1>8
<1>11. CASE /\ AdjustTimerfd(min - clock)
            /\ timerfdSettime' = min
            /\ drift' = 0
  <2>1. ASSUME pc' = "loop", NEW x \in Elems(fheap') PROVE InTimeFor(x)'
    <3>1. item'[x].expiredAt \in Nat /\ min <= item'[x].expiredAt
      BY <1>8, <1>9, <1>10, <2>1
    <3>2. (tfd' = clock /\ clock' = clock) \/ tfd' = min
      BY <1>3, <1>4, <1>10, <1>11 DEF AdjustTimerfd
    <3> QED BY <1>4, <1>11, <3>1, <3>2 DEF InTimeFor, Readable
  <2>2. ArmedInTime'
    BY <1>2, <1>8, <2>1 DEF ArmedInTime, Elems, InTimeFor
  <2>3. SettimeInv'
    BY <1>7, <1>10, <1>11 DEF SettimeInv
  <2> QED BY <2>2, <2>3
<1>12. CASE min = timerfdSettime /\ UNCHANGED <<tfd, timerfdSettime, drift>>
  <2>1. SettimeInv'
    BY <1>2, <1>3, <1>5, <1>12 DEF SettimeInv, Present, TimelyInv
  <2>2. ASSUME pc' = "loop", NEW x \in Elems(fheap') PROVE InTimeFor(x)'
    <3>1. PICK y \in Elems(fheap) : item[y].expiredAt = min
      <4>1. CASE r \in Elems(fheap)
        BY <1>5, <1>10, <4>1
      <4>2. CASE r = i
        <5>1. timerfdSettime > Present + ErrorVal
          <6>1. Present = clock
            BY <1>3, <2>2 DEF Present
          <6>2. timerfdSettime = clock + d
            BY <1>5, <1>10, <1>12, <4>2
          <6> QED BY <1>4, <6>1, <6>2
        <5> QED BY <1>3, <1>12, <5>1 DEF TimelyInv, SettimeInv
      <4> QED BY <1>2, <1>7, <4>1, <4>2
    <3>2. InTimeFor(y)
      BY <1>3, <2>2, BaseFacts, NothingCancelled, ArmedElems DEF TimelyInv
    <3>3. item'[x].expiredAt \in Nat /\ min <= item'[x].expiredAt
      BY <1>8, <1>9, <1>10, <2>2
    <3>4. reported' = reported /\ Readable' = Readable
      BY <1>3, <1>12 DEF Readable
    <3>5. CASE reported \/ Readable
      BY <3>4, <3>5 DEF InTimeFor
    <3>6. CASE tfd # None /\ tfd <= min + drift
      BY <1>4, <1>12, <3>3, <3>6 DEF InTimeFor
    <3> QED BY <3>1, <3>2, <3>5, <3>6 DEF InTimeFor
  <2>3. ArmedInTime'
    BY <1>2, <1>8, <2>2 DEF ArmedInTime, Elems, InTimeFor
  <2> QED BY <2>1, <2>3
<1> QED BY <1>6, <1>10, <1>11, <1>12 DEF Schedule, MustArm

(* The timerfd stays readable until OnRead, or until schedule arms it anew. *)
LEMMA OthersInTime ==
  ASSUME Base, TimelyInv, EpollIn \/ OnRead \/ Tick
  PROVE  TimelyInv'
<1> SUFFICES ASSUME cancels' = 0 PROVE ArmedInTime' /\ SettimeInv'
  BY DEF TimelyInv
<1>1. UNCHANGED <<fheap, item, timerfdSettime, drift, cancels>>
  BY DEF EpollIn, OnRead, Tick, onread
<1>2. /\ clock \in Nat /\ now \in Nat /\ tfd \in Nat \cup {None}
      /\ ErrorVal \in Nat /\ timerfdSettime \in Nat
  BY Timer4HeapAssumption DEF Base, TypeOK, StartTime
<1>3. SettimeInv'
  <2>1. Present' >= Present /\ Present \in Nat /\ Present' \in Nat
    BY <1>2 DEF EpollIn, OnRead, Tick, onread, Present
  <2>2. timerfdSettime > Present' + ErrorVal => timerfdSettime > Present + ErrorVal
    <3>1. PICK p \in Nat : p = Present
      BY <2>1
    <3>2. PICK q \in Nat : q = Present' /\ q >= p
      BY <2>1, <3>1
    <3>3. timerfdSettime > q + ErrorVal => timerfdSettime > p + ErrorVal
      <4>1. PICK t \in Nat : t = timerfdSettime
        BY <1>2
      <4>2. PICK e \in Nat : e = ErrorVal
        BY <1>2
      <4>3. q >= p
        BY <3>2
      <4> QED BY <4>1, <4>2, <4>3
    <3> QED BY <3>1, <3>2, <3>3
  <2> QED BY <1>1, <2>2 DEF SettimeInv, TimelyInv
<1>4. ArmedInTime'
  <2>1. CASE OnRead
    BY <2>1 DEF OnRead, ArmedInTime
  <2>2. CASE EpollIn
    BY <2>2 DEF EpollIn, ArmedInTime
  <2>3. CASE Tick
    <3>1. Readable => Readable'
      BY <1>2, <2>3 DEF Tick, Readable
    <3> QED BY <1>1, <2>3, <3>1 DEF Tick, onread, ArmedInTime, TimelyInv, Cancelled
  <2> QED BY <2>1, <2>2, <2>3
<1> QED BY <1>3, <1>4

(* handleExpired pops no timer that lies ahead, and OnRead ends by arming the timerfd for the
   root, too late by the time it took. *)
LEMMA ExpiredInTime ==
  ASSUME Base, TimelyInv, HandleExpired
  PROVE  TimelyInv'
<1> SUFFICES ASSUME cancels' = 0 PROVE ArmedInTime' /\ SettimeInv'
  BY DEF TimelyInv
<1>1. cancels = 0 /\ UNCHANGED <<clock, timerfdSettime>> /\ pc # "loop"
  BY DEF HandleExpired, PopOne, Again, Done, Rearm
<1>2. /\ clock \in Nat /\ now \in Nat /\ tfd \in Nat \cup {None} /\ now <= clock
      /\ ErrorVal \in Nat /\ timerfdSettime \in Nat /\ None \notin Nat
  BY <1>1, Timer4HeapAssumption DEF Base, TypeOK, TimeInv, StartTime
<1>3. Present = now
  BY <1>1 DEF Present
<1>4. SettimeInv
  BY <1>1 DEF TimelyInv
<1>5. CASE PopOne
  <2>1. pc' # "loop" /\ now' = now
    BY <1>1, <1>5 DEF PopOne
  <2>2. /\ Elems(fheap') = Elems(fheap) \ {fheap[1]}
        /\ fheap[1] \in Elems(fheap) /\ item[fheap[1]].expiredAt <= now + ErrorVal
    <3>1. fheap # <<>> /\ fheap' = WithoutRoot /\ item[fheap[1]].expiredAt - now <= ErrorVal
      BY <1>5 DEF PopOne
    <3>2. fheap[1] \in Elems(fheap)
      BY <3>1, BaseFacts, RootIsElem
    <3>3. item[fheap[1]].expiredAt \in Nat
      BY <3>2, BaseFacts
    <3>4. Elems(fheap') = Elems(fheap) \ {fheap[1]}
      BY <3>1, BaseFacts, WithoutRootWorks
    <3> QED BY <1>2, <3>1, <3>2, <3>3, <3>4
  <2>3. ASSUME NEW x \in Elems(fheap) \ {fheap[1]} PROVE item'[x] = item[x]
    <3>1. x \in Items /\ item \in [Items -> Record]
      BY BaseFacts
    <3> QED BY <1>5, <3>1, <2>3 DEF PopOne
  <2>4. SettimeInv'
    <3> SUFFICES ASSUME timerfdSettime > now + ErrorVal
                 PROVE  \E x \in Elems(fheap') : item'[x].expiredAt = timerfdSettime
      BY <1>1, <2>1 DEF SettimeInv, Present
    <3>1. PICK x \in Elems(fheap) : item[x].expiredAt = timerfdSettime
      BY <1>3, <1>4 DEF SettimeInv
    <3>2. x # fheap[1]
      BY <1>2, <2>2, <3>1
    <3> QED BY <2>2, <2>3, <3>1, <3>2
  <2> QED BY <2>1, <2>4 DEF ArmedInTime
<1>6. CASE Again \/ Done
  <2>1. pc' # "loop" /\ now' = now
    BY <1>1, <1>6 DEF Again, Done
  <2>2. \A x \in Elems(fheap) : x \in Elems(fheap') /\ item'[x] = item[x]
    <3>1. fired \in Items /\ fired \notin Elems(fheap)
      BY <1>6 DEF Again, Done, Base, TypeOK, HeapInv
    <3>2. Elems(fheap) \subseteq Elems(fheap')
      BY <1>6, AgainIs DEF Done
    <3>3. \A x \in Items : x # fired => item'[x] = item[x]
      BY <1>6, <3>1, BaseFacts DEF Again, Done
    <3> QED BY <3>1, <3>2, <3>3, BaseFacts
  <2>3. SettimeInv'
    BY <1>1, <1>3, <1>4, <2>1, <2>2 DEF SettimeInv, Present
  <2> QED BY <2>1, <2>3 DEF ArmedInTime
<1>7. CASE Rearm
  <2>1. UNCHANGED <<fheap, item, reported>> /\ pc' = "loop"
    BY <1>7 DEF Rearm
  <2>2. SettimeInv'
    <3>1. timerfdSettime > clock + ErrorVal => timerfdSettime > now + ErrorVal
      BY <1>2
    <3>2. Present' = clock
      BY <1>1, <2>1 DEF Present
    <3>3. timerfdSettime > now + ErrorVal => \E x \in Elems(fheap) : item[x].expiredAt = timerfdSettime
      BY <1>3, <1>4 DEF SettimeInv
    <3> QED BY <1>1, <2>1, <3>1, <3>2, <3>3 DEF SettimeInv
  <2>3. CASE fheap = <<>>
    <3>1. Len(fheap') = 0
      BY <2>1, <2>3
    <3> QED BY <2>2, <3>1 DEF ArmedInTime
  <2>4. CASE fheap # <<>>
    <3>1. /\ item[fheap[1]].expiredAt - now > ErrorVal
          /\ AdjustTimerfd(item[fheap[1]].expiredAt - now)
          /\ drift' = clock - now
      BY <1>7, <2>4 DEF Rearm
    <3>2. PICK min \in Nat : min = item[fheap[1]].expiredAt
      BY <2>4, BaseFacts, RootIsElem
    <3>3. tfd' = clock + (min - now) /\ tfd' = min + drift' /\ tfd' \in Nat /\ drift' \in Nat
      BY <1>2, <3>1, <3>2 DEF AdjustTimerfd
    <3>4. ASSUME NEW x \in Elems(fheap) PROVE tfd' <= item[x].expiredAt + drift'
      <4>1. item[x].expiredAt \in Nat /\ min <= item[x].expiredAt
        BY <1>1, <2>4, <3>2, NothingCancelled
      <4> QED BY <3>3, <4>1
    <3>5. \A k \in 1..Len(fheap) : fheap[k] \in Elems(fheap)
      BY DEF Elems
    <3>6. tfd' # None
      BY <1>2, <3>3
    <3> QED BY <2>1, <2>2, <3>4, <3>5, <3>6 DEF ArmedInTime
  <2>5. ArmedInTime'
    BY <2>3, <2>4
  <2> QED BY <2>2, <2>5
<1> QED BY <1>5, <1>6, <1>7 DEF HandleExpired

(* Every step keeps the timerfd in time. *)
LEMMA NextInTime == LongDelays /\ Base /\ TimelyInv /\ [Next]_vars => TimelyInv'
<1> SUFFICES ASSUME LongDelays, Base, TimelyInv, [Next]_vars PROVE TimelyInv'
  OBVIOUS
<1>1. CASE UNCHANGED vars
  BY <1>1 DEF vars, TimelyInv, ArmedInTime, SettimeInv, Present, Readable, Cancelled, Elems
<1>2. ASSUME NEW h \in Handlers, Cancel(h) PROVE TimelyInv'
  <2>1. cancels' # 0
    BY <1>2 DEF Cancel, Base, TypeOK
  <2> QED BY <2>1 DEF TimelyInv
<1>3. CASE Next
  BY <1>2, <1>3, ScheduleInTime, OthersInTime, ExpiredInTime DEF Next
<1> QED BY <1>1, <1>3

-----------------------------------------------------------------------------
(* The theorems. *)

(* The types, and that the heap holds every item once. *)
THEOREM Timer4HeapInvariant == Spec => []Base
BY InitBase, NextKeepsBase, PTL DEF Spec

(* Of a heap of any arity, only cancelled items are out of order, whatever schedule, cancel,
   popOne and the renewal of periodic timers do to it. *)
THEOREM HeapKeepsOrder == Spec => []HeapOrder
<1>1. ASSUME Base PROVE HeapOrder
  <2>1. PICK n \in Nat : n = Len(fheap)
    BY <1>1, BaseFacts
  <2>2. ASSUME NEW k \in 2..n, ~Cancelled(fheap[k])
        PROVE  item[fheap[Parent(k)]].expiredAt <= item[fheap[k]].expiredAt
    <3>1. fheap[k] \in Elems(fheap)
      BY <2>1 DEF Elems
    <3>2. item[fheap[k]].expiredAt # 1
      BY <1>1, <2>2, <3>1 DEF Base, HeapInv
    <3> QED BY <1>1, <2>1, <3>2 DEF Base, HeapInv, Ordered, InOrder, Key
  <2> QED BY <2>1, <2>2 DEF HeapOrder
<1> QED BY <1>1, Timer4HeapInvariant, PTL

(* No timer is lost, run twice or run after its cancel: a handler with a timer is named by
   exactly one item, in the heap once or just popped. *)
THEOREM TimersAreAccounted == Spec => []TimersAccounted
<1>1. ASSUME Base PROVE TimersAccounted
  <2>1. TypeOK /\ Distinct(fheap)
    BY <1>1 DEF Base, HeapInv
  <2>2. ASSUME NEW h \in Handlers, ti[h] # None
        PROVE  item[ti[h]].eh = h /\ (InHeap(ti[h]) \/ fired = ti[h])
    <3>1. item[ti[h]].eh = h /\ ti[h] \in Live /\ ti[h] \in Items
      BY <1>1, <2>2 DEF Base, OwnInv, TypeOK
    <3> QED BY <1>1, <3>1, BaseFacts DEF Live
  <2>3. ASSUME NEW k \in 1..Len(fheap) PROVE Cancelled(fheap[k]) \/ ti[item[fheap[k]].eh] = fheap[k]
    <3>1. fheap[k] \in Live
      BY DEF Live, Elems
    <3> QED BY <1>1, <3>1 DEF Base, OwnInv
  <2> QED BY <2>1, <2>2, <2>3 DEF TimersAccounted, Distinct
<1> QED BY <1>1, Timer4HeapInvariant, PTL

(* Without cancels, and if every delay is longer than what handleExpired runs ahead of time,
   the timerfd goes off in time for every timer, late at most by the time that the callbacks
   of the last OnRead took. *)
THEOREM TimersAreInTime ==
  ASSUME LongDelays
  PROVE  Spec => []OnTimeUnlessCancelled
<1>1. Init => TimelyInv
  <2> SUFFICES ASSUME Init PROVE ArmedInTime /\ SettimeInv
    BY DEF TimelyInv
  <2>1. fheap = <<>> /\ timerfdSettime = 0
    BY DEF Init
  <2>2. Present \in Nat /\ ErrorVal \in Nat
    BY Timer4HeapAssumption DEF Init, Present, StartTime
  <2> QED BY <2>1, <2>2 DEF ArmedInTime, SettimeInv
<1>2. Base /\ TimelyInv /\ [Next]_vars => TimelyInv'
  BY NextInTime
<1>3. TimelyInv => OnTimeUnlessCancelled
  BY DEF TimelyInv, OnTimeUnlessCancelled
<1> QED BY <1>1, <1>2, <1>3, Timer4HeapInvariant, PTL DEF Spec

=============================================================================
