---------------------------- MODULE StreamProofs ----------------------------
(***************************************************************************)
(* Both directions of a connection's stream.                               *)
(*                                                                         *)
(* WritePath: for any data, any size of the socket's buffer and any number *)
(* of calls and connections, the sending side of an IOHandle keeps the     *)
(* stream in order, counts what it queues, registers EvOut for it and      *)
(* gives every buffer back once.  WebSocket: for any stream of frames, cut *)
(* into reads in any way, no whole frame is left waiting, and the frames   *)
(* are handled one by one.                                                 *)
(***************************************************************************)
EXTENDS WritePath, WebSocket, SequenceTheorems, FiniteSetTheorems, WellFoundedInduction, TLAPS

-----------------------------------------------------------------------------
(* Flattening a sequence of sequences. *)

(* Induction, for a set of natural numbers. *)
LEMMA SetInduction ==
  ASSUME NEW S \in SUBSET Nat, 0 \in S, \A n \in S : n + 1 \in S
  PROVE  S = Nat
<1> SUFFICES ASSUME Nat \ S # {} PROVE FALSE
  OBVIOUS
<1>1. PICK x \in Nat \ S : \A y \in Nat \ S : ~(<<y, x>> \in OpToRel(<, Nat))
  <2>1. Nat \ S \subseteq Nat
    OBVIOUS
  <2> QED BY <2>1, NatLessThanWellFounded, WFMin, Zenon
<1>2. x # 0 /\ x - 1 \in Nat
  OBVIOUS
<1>3. <<x - 1, x>> \in OpToRel(<, Nat)
  BY <1>2 DEF OpToRel
<1>4. x - 1 \in S
  BY <1>1, <1>2, <1>3
<1> QED BY <1>2, <1>4

(* A sequence that is not empty has a last element. *)
LEMMA SplitLast ==
  ASSUME NEW Q, NEW s \in Seq(Q), NEW n \in Nat, Len(s) = n + 1
  PROVE  \E t \in Seq(Q), x \in Q : s = Append(t, x) /\ Len(t) = n
<1>1. s # <<>>
  OBVIOUS
<1>2. PICK t \in Seq(Q), x \in Q : s = Append(t, x)
  BY <1>1, SequenceEmptyOrAppend
<1>3. Len(t) = n
  BY <1>2, AppendProperties
<1> QED BY <1>2, <1>3

(* The function by which FlattenSeq is defined: f[i] joins the first i sequences. *)
IsFlat(f, s) == f = [i \in 1..Len(s) |-> IF i = 1 THEN s[i] ELSE f[i - 1] \o s[i]]
Flat(s) == CHOOSE f : IsFlat(f, s)

(* FlattenSeq in terms of that function. *)
LEMMA FlattenSeqFlat ==
  ASSUME NEW s
  PROVE  FlattenSeq(s) = IF Len(s) = 0 THEN s ELSE Flat(s)[Len(s)]
  BY Zenon DEF FlattenSeq, Flat, IsFlat

(* Of the sequences s and one more, t is the join of s, and of all, f is the function. *)
LEMMA IsFlatAppend ==
  ASSUME NEW U, NEW s \in Seq(Seq(U)), NEW x \in Seq(U),
         NEW f \in [1..Len(s) -> Seq(U)], IsFlat(f, s)
  PROVE  \E g \in [1..(Len(s) + 1) -> Seq(U)] :
           /\ IsFlat(g, Append(s, x))
           /\ g[Len(s) + 1] = IF Len(s) = 0 THEN x ELSE f[Len(s)] \o x
<1>1. PICK n \in Nat : n = Len(s)
  OBVIOUS
<1>2. PICK t : t = Append(s, x)
  OBVIOUS
<1>3. Len(t) = n + 1 /\ t[n + 1] = x /\ \A i \in 1..n : t[i] = s[i]
  BY <1>1, <1>2, AppendProperties
<1>4. PICK last : last = IF n = 0 THEN x ELSE f[n] \o x
  OBVIOUS
<1>5. last \in Seq(U)
  <2>1. CASE n = 0
    BY <2>1, <1>4
  <2>2. CASE n # 0
    <3>1. f[n] \in Seq(U)
      BY <2>2, <1>1
    <3> QED BY <2>2, <3>1, <1>4, ConcatProperties
  <2> QED BY <2>1, <2>2
<1>6. PICK g : g = [i \in 1..(n + 1) |-> IF i = n + 1 THEN last ELSE f[i]]
  OBVIOUS
<1>7. g \in [1..(n + 1) -> Seq(U)]
  BY <1>1, <1>5, <1>6
<1>8. \A i \in 1..n : f[i] = IF i = 1 THEN s[i] ELSE f[i - 1] \o s[i]
  BY <1>1 DEF IsFlat
<1>9. ASSUME NEW i \in 1..(n + 1) PROVE g[i] = IF i = 1 THEN t[i] ELSE g[i - 1] \o t[i]
  <2>1. CASE i = n + 1 /\ n = 0
    BY <2>1, <1>3, <1>4, <1>6
  <2>2. CASE i = n + 1 /\ n # 0
    <3>1. g[i] = f[n] \o x /\ g[n] = f[n] /\ i - 1 = n /\ i # 1 /\ t[i] = x
      BY <2>2, <1>3, <1>4, <1>6
    <3> QED BY <3>1
  <2>3. CASE i # n + 1
    <3>1. i \in 1..n /\ g[i] = f[i] /\ t[i] = s[i]
      BY <2>3, <1>3, <1>6
    <3>2. i # 1 => g[i - 1] = f[i - 1]
      BY <3>1, <1>6
    <3> QED BY <3>1, <3>2, <1>8
  <2> QED BY <2>1, <2>2, <2>3
<1>10. g = [i \in 1..(n + 1) |-> IF i = 1 THEN t[i] ELSE g[i - 1] \o t[i]]
  BY <1>7, <1>9
<1>11. IsFlat(g, t)
  BY <1>3, <1>10 DEF IsFlat
<1>12. g[n + 1] = IF n = 0 THEN x ELSE f[n] \o x
  BY <1>4, <1>6
<1> QED BY <1>1, <1>2, <1>7, <1>11, <1>12

(* There is such a function. *)
LEMMA IsFlatExists ==
  ASSUME NEW U
  PROVE  \A s \in Seq(Seq(U)) : \E f \in [1..Len(s) -> Seq(U)] : IsFlat(f, s)
<1> DEFINE S == {n \in Nat : \A s \in Seq(Seq(U)) : Len(s) = n =>
                               \E f \in [1..Len(s) -> Seq(U)] : IsFlat(f, s)}
<1>1. 0 \in S
  <2>1. ASSUME NEW s \in Seq(Seq(U)), Len(s) = 0
        PROVE  \E f \in [1..Len(s) -> Seq(U)] : IsFlat(f, s)
    <3>1. PICK f : f = [i \in {} |-> i]
      OBVIOUS
    <3>2. 1..Len(s) = {}
      BY <2>1
    <3>3. IsFlat(f, s) /\ f \in [1..Len(s) -> Seq(U)]
      BY <3>1, <3>2 DEF IsFlat
    <3> QED BY <3>3
  <2> QED BY <2>1
<1>2. ASSUME NEW n \in S PROVE n + 1 \in S
  <2>1. ASSUME NEW s \in Seq(Seq(U)), Len(s) = n + 1
        PROVE  \E f \in [1..Len(s) -> Seq(U)] : IsFlat(f, s)
    <3>1. PICK t \in Seq(Seq(U)), x \in Seq(U) : s = Append(t, x) /\ Len(t) = n
      BY <2>1, SplitLast
    <3>2. Len(t) = n
      BY <3>1
    <3>3. PICK f \in [1..Len(t) -> Seq(U)] : IsFlat(f, t)
      BY <3>2
    <3>4. \E g \in [1..(Len(t) + 1) -> Seq(U)] : IsFlat(g, Append(t, x))
      BY <3>3, IsFlatAppend
    <3> QED BY <2>1, <3>1, <3>2, <3>4
  <2> QED BY <2>1
<1>3. S = Nat
  <2> HIDE DEF S
  <2>1. S \in SUBSET Nat
    BY DEF S
  <2> QED BY <1>1, <1>2, <2>1, SetInduction
<1> QED BY <1>3

(* There is only one. *)
LEMMA IsFlatUnique ==
  ASSUME NEW s, Len(s) \in Nat, NEW f, NEW g, IsFlat(f, s), IsFlat(g, s)
  PROVE  f = g
<1>1. PICK n \in Nat : n = Len(s)
  OBVIOUS
<1>2. /\ f = [i \in 1..n |-> IF i = 1 THEN s[i] ELSE f[i - 1] \o s[i]]
      /\ g = [i \in 1..n |-> IF i = 1 THEN s[i] ELSE g[i - 1] \o s[i]]
  BY <1>1 DEF IsFlat
<1>3. DOMAIN f = 1..n /\ DOMAIN g = 1..n
  BY <1>2
<1>4. \A i \in 1..n : /\ f[i] = IF i = 1 THEN s[i] ELSE f[i - 1] \o s[i]
                      /\ g[i] = IF i = 1 THEN s[i] ELSE g[i - 1] \o s[i]
  BY <1>2
<1> DEFINE S == {i \in Nat : i + 1 \in 1..n => f[i + 1] = g[i + 1]}
<1>5. 0 \in S
  BY <1>4
<1>6. ASSUME NEW i \in S PROVE i + 1 \in S
  <2> SUFFICES ASSUME i + 2 \in 1..n PROVE f[i + 2] = g[i + 2]
    OBVIOUS
  <2>1. i + 1 \in 1..n /\ i + 2 # 1 /\ (i + 2) - 1 = i + 1
    OBVIOUS
  <2>2. f[i + 1] = g[i + 1]
    BY <2>1
  <2> QED BY <1>4, <2>1, <2>2
<1>7. S = Nat
  <2> HIDE DEF S
  <2>1. S \in SUBSET Nat
    BY DEF S
  <2> QED BY <1>5, <1>6, <2>1, SetInduction
<1>8. ASSUME NEW i \in 1..n PROVE f[i] = g[i]
  <2>1. PICK j \in Nat : i = j + 1
    <3>1. i - 1 \in Nat /\ i = (i - 1) + 1
      OBVIOUS
    <3> QED BY <3>1
  <2>2. j \in S
    BY <1>7
  <2> QED BY <2>1, <2>2
<1> QED BY <1>2, <1>3, <1>8

(* What FlattenSeq does with the last sequence. *)
LEMMA FlattenAppend ==
  ASSUME NEW U, NEW s \in Seq(Seq(U)), NEW x \in Seq(U)
  PROVE  /\ FlattenSeq(s) \in Seq(U)
         /\ FlattenSeq(Append(s, x)) = FlattenSeq(s) \o x
<1>1. PICK f \in [1..Len(s) -> Seq(U)] : IsFlat(f, s)
  BY IsFlatExists
<1>2. PICK g \in [1..(Len(s) + 1) -> Seq(U)] :
        /\ IsFlat(g, Append(s, x))
        /\ g[Len(s) + 1] = IF Len(s) = 0 THEN x ELSE f[Len(s)] \o x
  BY <1>1, IsFlatAppend
<1>3. IsFlat(Flat(s), s) /\ IsFlat(Flat(Append(s, x)), Append(s, x))
  BY <1>1, <1>2, Zenon DEF Flat
<1>4. Len(s) \in Nat /\ Len(Append(s, x)) = Len(s) + 1
  OBVIOUS
<1>5. Flat(s) = f /\ Flat(Append(s, x)) = g
  <2>1. Flat(s) = f
    BY <1>1, <1>3, <1>4, IsFlatUnique
  <2>2. Len(Append(s, x)) \in Nat
    BY <1>4
  <2> QED BY <2>1, <2>2, <1>2, <1>3, IsFlatUnique
<1>6. FlattenSeq(s) = IF Len(s) = 0 THEN s ELSE f[Len(s)]
  BY <1>5, FlattenSeqFlat
<1>7. FlattenSeq(Append(s, x)) = g[Len(s) + 1]
  <2>1. FlattenSeq(Append(s, x)) = IF Len(Append(s, x)) = 0 THEN Append(s, x) ELSE g[Len(Append(s, x))]
    BY <1>5, FlattenSeqFlat, Zenon
  <2>2. Len(Append(s, x)) # 0
    BY <1>4
  <2> QED BY <2>1, <2>2, <1>4, Zenon
<1>8. CASE Len(s) = 0
  <2>1. s = <<>> /\ FlattenSeq(s) = <<>>
    BY <1>6, <1>8
  <2>2. <<>> \o x = x /\ <<>> \in Seq(U)
    BY ConcatEmptySeq
  <2>3. FlattenSeq(Append(s, x)) = x
    BY <1>2, <1>7, <1>8
  <2> QED BY <2>1, <2>2, <2>3, Zenon
<1>9. CASE Len(s) # 0
  <2>1. FlattenSeq(s) = f[Len(s)] /\ FlattenSeq(Append(s, x)) = f[Len(s)] \o x
    BY <1>2, <1>6, <1>7, <1>9, Zenon
  <2>2. Len(s) \in 1..Len(s)
    BY <1>4, <1>9
  <2>3. f[Len(s)] \in Seq(U)
    BY <2>2
  <2> QED BY <2>1, <2>3, Zenon
<1> QED BY <1>8, <1>9

(* And with the first. *)
LEMMA FlattenCons ==
  ASSUME NEW U
  PROVE  \A s \in Seq(Seq(U)), x \in Seq(U) : FlattenSeq(<<x>> \o s) = x \o FlattenSeq(s)
<1> DEFINE S == {n \in Nat : \A s \in Seq(Seq(U)), x \in Seq(U) :
                               Len(s) = n => FlattenSeq(<<x>> \o s) = x \o FlattenSeq(s)}
<1>0. <<>> \in Seq(Seq(U)) /\ FlattenSeq(<<>>) = <<>>
  BY FlattenSeqFlat
<1>1. 0 \in S
  <2>1. ASSUME NEW s \in Seq(Seq(U)), NEW x \in Seq(U), Len(s) = 0
        PROVE  FlattenSeq(<<x>> \o s) = x \o FlattenSeq(s)
    <3>1. s = <<>> /\ <<x>> \o s = Append(<<>>, x)
      BY <2>1
    <3>2. FlattenSeq(Append(<<>>, x)) = FlattenSeq(<<>>) \o x
      BY <1>0, FlattenAppend
    <3> QED BY <3>1, <3>2, <1>0, ConcatEmptySeq
  <2> QED BY <2>1
<1>2. ASSUME NEW n \in S PROVE n + 1 \in S
  <2>1. ASSUME NEW s \in Seq(Seq(U)), NEW x \in Seq(U), Len(s) = n + 1
        PROVE  FlattenSeq(<<x>> \o s) = x \o FlattenSeq(s)
    <3>1. PICK t \in Seq(Seq(U)), y \in Seq(U) : s = Append(t, y) /\ Len(t) = n
      BY <2>1, SplitLast
    <3>2. Len(t) = n
      BY <3>1
    <3>3. FlattenSeq(<<x>> \o t) = x \o FlattenSeq(t)
      BY <3>2
    <3>4. <<x>> \o t \in Seq(Seq(U)) /\ <<x>> \o s = Append(<<x>> \o t, y)
      BY <3>1
    <3>5. FlattenSeq(Append(<<x>> \o t, y)) = FlattenSeq(<<x>> \o t) \o y
      BY <3>4, FlattenAppend
    <3>6. FlattenSeq(s) = FlattenSeq(t) \o y /\ FlattenSeq(t) \in Seq(U)
      BY <3>1, FlattenAppend
    <3>7. (x \o FlattenSeq(t)) \o y = x \o (FlattenSeq(t) \o y)
      BY <3>6, ConcatAssociative
    <3> QED BY <3>3, <3>4, <3>5, <3>6, <3>7
  <2> QED BY <2>1
<1>3. S = Nat
  <2> HIDE DEF S
  <2>1. S \in SUBSET Nat
    BY DEF S
  <2> QED BY <1>1, <1>2, <2>1, SetInduction
<1>4. ASSUME NEW s \in Seq(Seq(U)), NEW x \in Seq(U)
      PROVE  FlattenSeq(<<x>> \o s) = x \o FlattenSeq(s)
  <2>1. PICK n : n = Len(s)
    OBVIOUS
  <2>2. n \in S
    <3>1. n \in Nat
      BY <2>1, LenProperties
    <3> QED BY <3>1, <1>3
  <2> QED BY <2>1, <2>2
<1> QED BY <1>4

-----------------------------------------------------------------------------
(* What a queue of buffers still has to send. *)
Rests(q) == [i \in 1..Len(q) |-> q[i].rest]
Left(q) == FlattenSeq(Rests(q))

(* A queue, and one with another buffer behind it or in front of it. *)
LEMMA LeftProperties ==
  ASSUME NEW q \in Seq(BufType), NEW b \in BufType
  PROVE  /\ Left(q) \in Seq(Units)
         /\ Left(Append(q, b)) = Left(q) \o b.rest
         /\ Left(<<b>> \o q) = b.rest \o Left(q)
<1>1. Rests(q) \in Seq(Seq(Units)) /\ Len(Rests(q)) = Len(q) /\ b.rest \in Seq(Units)
  <2>1. \A i \in 1..Len(q) : q[i].rest \in Seq(Units)
    <3>1. \A i \in 1..Len(q) : q[i] \in BufType
      BY ElementOfSeq
    <3>2. \A x \in BufType : x.rest \in Seq(Units)
      BY DEF BufType
    <3> QED BY <3>1, <3>2
  <2> QED BY <2>1, LenProperties, IsASeq DEF Rests, BufType
<1>2. Rests(Append(q, b)) = Append(Rests(q), b.rest)
  <2>1. PICK t : t = Append(q, b)
    OBVIOUS
  <2>2. Len(t) = Len(q) + 1 /\ t[Len(q) + 1] = b /\ \A i \in 1..Len(q) : t[i] = q[i]
    BY <2>1, AppendProperties
  <2>3. PICK u : u = Append(Rests(q), b.rest)
    OBVIOUS
  <2>4. u \in Seq(Seq(Units)) /\ Len(u) = Len(q) + 1 /\ u[Len(q) + 1] = b.rest /\ \A i \in 1..Len(q) : u[i] = Rests(q)[i]
    BY <2>3, <1>1, AppendProperties
  <2>5. \A i \in 1..(Len(q) + 1) : u[i] = t[i].rest
    <3>1. \A i \in 1..(Len(q) + 1) : i = Len(q) + 1 \/ i \in 1..Len(q)
      BY LenProperties
    <3> QED BY <3>1, <2>2, <2>4 DEF Rests
  <2>6. u = [i \in 1..(Len(q) + 1) |-> t[i].rest]
    BY <2>4, <2>5, LenProperties
  <2> QED BY <2>1, <2>2, <2>3, <2>6 DEF Rests
<1>3. Rests(<<b>> \o q) = <<b.rest>> \o Rests(q)
  <2>1. PICK t : t = <<b>> \o q
    OBVIOUS
  <2>2. Len(t) = Len(q) + 1 /\ \A i \in 1..(Len(q) + 1) : t[i] = IF i = 1 THEN b ELSE q[i - 1]
    <3>1. <<b>> \in Seq(BufType) /\ Len(<<b>>) = 1 /\ <<b>>[1] = b
      OBVIOUS
    <3>2. /\ Len(t) = Len(<<b>>) + Len(q)
          /\ \A i \in 1..(Len(<<b>>) + Len(q)) : t[i] = IF i <= Len(<<b>>) THEN <<b>>[i] ELSE q[i - Len(<<b>>)]
      BY <2>1, <3>1, ConcatProperties
    <3> QED BY <3>1, <3>2, LenProperties
  <2>3. PICK u : u = <<b.rest>> \o Rests(q)
    OBVIOUS
  <2>4. u \in Seq(Seq(Units)) /\ Len(u) = Len(q) + 1 /\ \A i \in 1..(Len(q) + 1) : u[i] = IF i = 1 THEN b.rest ELSE Rests(q)[i - 1]
    <3>1. <<b.rest>> \in Seq(Seq(Units)) /\ Len(<<b.rest>>) = 1 /\ <<b.rest>>[1] = b.rest
      BY <1>1
    <3>2. /\ u \in Seq(Seq(Units)) /\ Len(u) = Len(<<b.rest>>) + Len(Rests(q))
          /\ \A i \in 1..(Len(<<b.rest>>) + Len(Rests(q))) :
               u[i] = IF i <= Len(<<b.rest>>) THEN <<b.rest>>[i] ELSE Rests(q)[i - Len(<<b.rest>>)]
      BY <2>3, <3>1, <1>1, ConcatProperties
    <3> QED BY <3>1, <3>2, <1>1, LenProperties
  <2>5. \A i \in 1..(Len(q) + 1) : u[i] = t[i].rest
    <3>1. \A i \in 1..(Len(q) + 1) : i # 1 => i - 1 \in 1..Len(q)
      BY LenProperties
    <3> QED BY <3>1, <2>2, <2>4 DEF Rests
  <2>6. u = [i \in 1..(Len(q) + 1) |-> t[i].rest]
    BY <2>4, <2>5, LenProperties
  <2> QED BY <2>1, <2>2, <2>3, <2>6 DEF Rests
<1>4. Left(q) \in Seq(Units) /\ Left(Append(q, b)) = Left(q) \o b.rest
  BY <1>1, <1>2, FlattenAppend DEF Left
<1>5. Left(<<b>> \o q) = b.rest \o Left(q)
  BY <1>1, <1>3, FlattenCons DEF Left
<1> QED BY <1>4, <1>5

(* The empty queue, and the first buffer of another. *)
LEMMA LeftFirst ==
  /\ Left(<<>>) = <<>>
  /\ \A q \in Seq(BufType) : q # <<>> => /\ Head(q) \in BufType /\ Tail(q) \in Seq(BufType)
                                         /\ q = <<Head(q)>> \o Tail(q)
                                         /\ Left(q) = Head(q).rest \o Left(Tail(q))
<1>1. Left(<<>>) = <<>>
  <2>1. Rests(<<>>) = <<>>
    BY DEF Rests
  <2> QED BY <2>1, FlattenSeqFlat DEF Left
<1>2. ASSUME NEW q \in Seq(BufType), q # <<>>
      PROVE  /\ Head(q) \in BufType /\ Tail(q) \in Seq(BufType)
             /\ q = <<Head(q)>> \o Tail(q)
             /\ Left(q) = Head(q).rest \o Left(Tail(q))
  <2>1. Head(q) \in BufType /\ Tail(q) \in Seq(BufType)
    BY <1>2, HeadTailProperties
  <2>2. q = <<Head(q)>> \o Tail(q)
    BY <1>2, <2>1
  <2>3. Left(<<Head(q)>> \o Tail(q)) = Head(q).rest \o Left(Tail(q))
    BY <2>1, LeftProperties
  <2> QED BY <2>1, <2>2, <2>3, Zenon
<1> QED BY <1>1, <1>2

(* A system call splits the data. *)
LEMMA TakeDrop ==
  ASSUME NEW S, NEW s \in Seq(S), NEW n \in 0..Len(s)
  PROVE  /\ Take(s, n) \in Seq(S) /\ Drop(s, n) \in Seq(S)
         /\ Take(s, n) \o Drop(s, n) = s
         /\ Len(Drop(s, n)) = Len(s) - n
         /\ (Drop(s, n) = <<>> <=> n = Len(s))
<1>1. Len(s) \in Nat /\ \A i \in 1..Len(s) : s[i] \in S
  BY LenProperties, ElementOfSeq
<1>2. Take(s, n) \in Seq(S) /\ Drop(s, n) \in Seq(S) /\ Len(Drop(s, n)) = Len(s) - n
  BY <1>1, SubSeqProperties DEF Take, Drop
<1>3. Take(s, n) \o Drop(s, n) = SubSeq(s, 1, Len(s))
  <2>1. 1 \in 1..(Len(s) + 1) /\ n \in (1 - 1)..Len(s) /\ Len(s) \in n..Len(s)
    BY <1>1
  <2>2. SubSeq(s, 1, n) \o SubSeq(s, n + 1, Len(s)) = SubSeq(s, 1, Len(s))
    BY <2>1, ConcatAdjacentSubSeq
  <2> QED BY <2>2 DEF Take, Drop
<1>4. SubSeq(s, 1, Len(s)) = s
  BY SubSeqFull
<1>5. Drop(s, n) = <<>> <=> n = Len(s)
  BY <1>1, <1>2, EmptySeq
<1> QED BY <1>2, <1>3, <1>4, <1>5

(* So it does with the units of the handler. *)
LEMMA CutUnits ==
  \A u \in Seq(Units) : \A n \in 0..Len(u) :
    /\ Take(u, n) \in Seq(Units) /\ Drop(u, n) \in Seq(Units)
    /\ Len(Drop(u, n)) = Len(u) - n /\ (Drop(u, n) = <<>> <=> n = Len(u))
<1> SUFFICES ASSUME NEW u \in Seq(Units), NEW n \in 0..Len(u)
             PROVE  /\ Take(u, n) \in Seq(Units) /\ Drop(u, n) \in Seq(Units)
                    /\ Len(Drop(u, n)) = Len(u) - n /\ (Drop(u, n) = <<>> <=> n = Len(u))
  OBVIOUS
<1> QED BY TakeDrop

(* What the socket takes. *)
LEMMA TookProperties ==
  ASSUME NEW len \in Nat, inSock \in 0..SockCap
  PROVE  Took(len) \in 0..len /\ inSock + Took(len) \in 0..SockCap
<1>1. SockCap \in Nat
  BY WritePathAssumption
<1>2. ASSUME NEW a \in Nat, NEW b \in Nat PROVE Min({a, b}) = IF a <= b THEN a ELSE b
  <2>1. \E x \in {a, b} : \A y \in {a, b} : x <= y
    OBVIOUS
  <2>2. Min({a, b}) \in {a, b} /\ \A y \in {a, b} : Min({a, b}) <= y
    BY <2>1, Zenon DEF Min
  <2> QED BY <2>2
<1>3. SockCap - inSock \in Nat
  BY <1>1
<1>4. Took(len) = 0 \/ Took(len) = IF len <= SockCap - inSock THEN len ELSE SockCap - inSock
  BY <1>2, <1>3, Zenon DEF Took
<1> QED BY <1>1, <1>3, <1>4

-----------------------------------------------------------------------------
(* The inductive invariant. *)

BoolTypes == /\ stale \in BOOLEAN /\ isOpen \in BOOLEAN /\ armed \in BOOLEAN
             /\ waiting \in BOOLEAN /\ broken \in BOOLEAN

DataTypes == /\ conn \in 1..MaxConns
             /\ size \in Nat
             /\ bufQ \in Seq(BufType) /\ pend \in Seq(BufType)
             /\ flushing \in -1..MaxBufs
             /\ inSock \in 0..SockCap
             /\ calls \in 0..MaxBufs
             /\ freed \in [Bufs -> Nat]
             /\ given \in Seq(Units) /\ wire \in Seq(Units)

(* While AsyncOrderedFlush runs EvOut is registered.  asyncWriteWaiting tells whether
   EvOut is registered, except on a connection for which it was stale: it stays set
   there, EvOut is never registered and OnWrite never called, so that it stays so.
   A handler closed with asyncWriteWaiting clear had nothing queued. *)
ArmedInv == /\ flushing # -1 => isOpen /\ ~stale /\ armed /\ flushing <= Len(bufQ)
            /\ ~isOpen => bufQ = <<>> /\ ~armed /\ (~waiting => size = 0)
            /\ isOpen /\ stale => waiting /\ ~armed
            /\ isOpen /\ ~stale => /\ waiting <=> armed
                                   /\ bufQ # <<>> => armed
                                   /\ Idle /\ armed => bufQ # <<>>

StreamInv == isOpen => wire \o Left(bufQ) = given

SizeInv == isOpen /\ ~stale => size = Len(Left(bufQ))

(* A call that has not pushed yet, or is yet to come, has its buffer nowhere; every
   other buffer is in one place. *)
Started(b) == b <= calls /\ ~Called(b)
Nowhere(b) == freed[b] = 0 /\ ~InSeq(b, pend) /\ ~InSeq(b, bufQ)
OnePlace(b) == \/ freed[b] = 1 /\ ~InSeq(b, pend) /\ ~InSeq(b, bufQ)
               \/ freed[b] = 0 /\ InSeq(b, pend) /\ ~InSeq(b, bufQ)
               \/ freed[b] = 0 /\ ~InSeq(b, pend) /\ InSeq(b, bufQ)

NoDup(s) == \A i, j \in 1..Len(s) : s[i].id = s[j].id => i = j

Pushed == calls - Cardinality(calling)

PlaceInv == /\ \A b \in Bufs : IF Started(b) THEN OnePlace(b) ELSE Nowhere(b)
            /\ NoDup(pend) /\ NoDup(bufQ)
            /\ Pushed \in Nat /\ Len(pend) + Len(bufQ) <= Pushed

Core == /\ BoolTypes /\ DataTypes
        /\ ArmedInv /\ StreamInv /\ SizeInv /\ PlaceInv

(* Calls of AsyncWrite under way: each has a buffer of its own. *)
CallInv == /\ late \in BOOLEAN /\ panicked \in BOOLEAN
           /\ calling \subseteq CallType /\ IsFiniteSet(calling)
           /\ \A call \in calling : call.abf.id <= calls
           /\ \A c, d \in calling : c.abf.id = d.abf.id => c = d

(* The units u were meant for connection c. *)
MeantFor(c, u) == \A i \in 1..Len(u) : u[i][1] = c

(* Unless the handler was reused too early, whatever is on its way to the evPoll
   goroutine or has got there was meant for the connection that is open. *)
OwnInv == isOpen /\ ~late => /\ \A call \in calling : MeantFor(conn, call.abf.rest)
                             /\ \A i \in 1..Len(pend) : MeantFor(conn, pend[i].rest)
                             /\ MeantFor(conn, given)

IInv == Core /\ CallInv /\ OwnInv

(* The types are part of it. *)
LEMMA TypeOKFacts == BoolTypes /\ DataTypes /\ CallInv => TypeOK
  BY Zenon DEF TypeOK, BoolTypes, DataTypes, CallInv

(* The invariant implies the four properties. *)
LEMMA IInvImplies == IInv => StreamOrder /\ QueuedIsArmed /\ SizeIsExact /\ BuffersAccounted
<1> SUFFICES ASSUME IInv PROVE StreamOrder /\ QueuedIsArmed /\ SizeIsExact /\ BuffersAccounted
  OBVIOUS
<1>1. Queued = Left(bufQ)
  BY DEF Queued, Left, Rests
<1>2. StreamOrder /\ SizeIsExact
  BY <1>1, TypeOKFacts DEF IInv, Core, StreamInv, SizeInv, OwnInv, MeantFor, StreamOrder, SizeIsExact
<1>3. QueuedIsArmed
  BY DEF IInv, Core, ArmedInv, QueuedIsArmed
<1>4. BuffersAccounted
  <2>1. calls \in 0..MaxBufs /\ MaxBufs \in Nat
    BY WritePathAssumption DEF IInv, Core, DataTypes
  <2>2. ASSUME NEW b \in 1..calls PROVE IF Called(b) THEN Nowhere(b) ELSE OnePlace(b)
    BY <2>1 DEF IInv, Core, PlaceInv, Bufs, Started
  <2> QED BY <2>2 DEF BuffersAccounted, OnePlace, Nowhere
<1> QED BY <1>2, <1>3, <1>4

(* Nothing was asked for. *)
LEMMA InitIInv == Init => IInv
<1> SUFFICES ASSUME Init PROVE IInv
  OBVIOUS
<1>1. BoolTypes
  BY Zenon DEF Init, BoolTypes
<1>2. DataTypes
  BY WritePathAssumption DEF Init, DataTypes
<1>3. ArmedInv
  BY DEF Init, ArmedInv
<1>4. StreamInv /\ SizeInv
  <2>1. Left(bufQ) = <<>> /\ wire = <<>> /\ given = <<>> /\ size = 0
    BY LeftFirst DEF Init
  <2> QED BY <2>1 DEF StreamInv, SizeInv
<1>5. PlaceInv
  <2>1. calls = 0 /\ Len(pend) = 0 /\ Len(bufQ) = 0 /\ \A b \in Bufs : freed[b] = 0 /\ ~(b <= 0)
    BY WritePathAssumption DEF Init, Bufs
  <2>2. Pushed = 0
    BY <2>1, FS_EmptySet DEF Init, Pushed
  <2> QED BY <2>1, <2>2 DEF PlaceInv, Nowhere, Started, NoDup, InSeq
<1>6. CallInv
  BY FS_EmptySet DEF Init, CallInv
<1>7. OwnInv
  BY DEF Init, OwnInv, MeantFor
<1> QED BY <1>1, <1>2, <1>3, <1>4, <1>5, <1>6, <1>7 DEF IInv, Core

-----------------------------------------------------------------------------
(* Concatenation of three sequences is associative; the name keeps the provers from
   looking for other ways to regroup. *)
Assoc(x, y, z) == (x \o y) \o z = x \o (y \o z)

(* The library's theorem, under that name. *)
LEMMA ConcatThree ==
  ASSUME NEW S, NEW x \in Seq(S), NEW y \in Seq(S), NEW z \in Seq(S)
  PROVE  Assoc(x, y, z)
  BY ConcatAssociative DEF Assoc

(* So is that of four. *)
Regroup(w, x, y, z) == (w \o x) \o (y \o z) = w \o ((x \o y) \o z)

(* By twice that of three. *)
LEMMA ConcatFour ==
  ASSUME NEW S, NEW w \in Seq(S), NEW x \in Seq(S), NEW y \in Seq(S), NEW z \in Seq(S)
  PROVE  Regroup(w, x, y, z)
<1>1. Assoc(x, y, z)
  BY ConcatThree
<1>2. PICK e \in Seq(S) : e = y \o z
  BY ConcatProperties
<1>3. Assoc(w, x, e)
  BY ConcatThree
<1> QED BY <1>1, <1>2, <1>3, Zenon DEF Regroup, Assoc

(* The stream w of the socket and l of the queue: data u enters behind l, or is cut
   after n units on its way into the socket, with an empty queue or from its front. *)
Joins(w, l, u) == w \o (l \o u) = (w \o l) \o u
CutAlone(w, u, n) == (w \o Take(u, n)) \o Drop(u, n) = w \o u
CutFirst(w, u, n, l) == (w \o Take(u, n)) \o (Drop(u, n) \o l) = w \o (u \o l)

(* Neither loses, repeats or reorders anything. *)
LEMMA EnterStream ==
  ASSUME NEW S, NEW w \in Seq(S), NEW l \in Seq(S), NEW u \in Seq(S), NEW n \in 0..Len(u)
  PROVE  Joins(w, l, u) /\ CutAlone(w, u, n) /\ CutFirst(w, u, n, l)
<1>1. Take(u, n) \in Seq(S) /\ Drop(u, n) \in Seq(S) /\ Take(u, n) \o Drop(u, n) = u
  BY TakeDrop
<1>2. PICK x \in Seq(S), y \in Seq(S) : x = Take(u, n) /\ y = Drop(u, n)
  BY <1>1
<1>3. x \o y = u
  BY <1>1, <1>2
<1>4. Assoc(w, l, u)
  BY ConcatThree
<1>5. (w \o x) \o y = w \o u
  <2>1. Assoc(w, x, y)
    BY ConcatThree
  <2> QED BY <2>1, <1>3, Zenon DEF Assoc
<1>6. (w \o x) \o (y \o l) = w \o (u \o l)
  <2>1. Regroup(w, x, y, l)
    BY ConcatFour
  <2> QED BY <2>1, <1>3, Zenon DEF Regroup
<1>7. Joins(w, l, u)
  BY <1>4, Zenon DEF Assoc, Joins
<1> QED BY <1>2, <1>5, <1>6, <1>7, Zenon DEF CutAlone, CutFirst

(* Where a buffer is when one is appended. *)
LEMMA AppendPlaces ==
  ASSUME NEW q \in Seq(BufType), NEW x \in BufType
  PROVE  /\ Append(q, x) \in Seq(BufType) /\ Append(q, x) # <<>> /\ Len(Append(q, x)) = Len(q) + 1
         /\ \A b : InSeq(b, Append(q, x)) <=> InSeq(b, q) \/ b = x.id
         /\ NoDup(q) /\ ~InSeq(x.id, q) => NoDup(Append(q, x))
<1>1. PICK t : t = Append(q, x)
  OBVIOUS
<1>2. /\ t \in Seq(BufType) /\ t # <<>> /\ Len(t) = Len(q) + 1
      /\ t[Len(q) + 1] = x /\ \A i \in 1..Len(q) : t[i] = q[i]
  BY <1>1, AppendProperties
<1>3. \A i \in 1..(Len(q) + 1) : i = Len(q) + 1 \/ i \in 1..Len(q)
  BY LenProperties
<1>4. Len(q) + 1 \in 1..(Len(q) + 1) /\ \A i \in 1..Len(q) : i \in 1..(Len(q) + 1)
  BY LenProperties
<1>5. \A b : InSeq(b, t) <=> InSeq(b, q) \/ b = x.id
  BY <1>2, <1>3, <1>4 DEF InSeq
<1>6. NoDup(q) /\ ~InSeq(x.id, q) => NoDup(t)
  BY <1>2, <1>3 DEF InSeq, NoDup
<1> QED BY <1>1, <1>2, <1>5, <1>6

(* Where a buffer is when the first one leaves. *)
LEMMA TailPlaces ==
  ASSUME NEW q \in Seq(BufType), q # <<>>
  PROVE  /\ Head(q) \in BufType /\ Tail(q) \in Seq(BufType) /\ Len(Tail(q)) = Len(q) - 1
         /\ \A b : InSeq(b, q) <=> InSeq(b, Tail(q)) \/ b = Head(q).id
         /\ NoDup(q) => NoDup(Tail(q)) /\ ~InSeq(Head(q).id, Tail(q))
<1>1. PICK t : t = Tail(q)
  OBVIOUS
<1>2. /\ Head(q) \in BufType /\ t \in Seq(BufType) /\ Len(t) = Len(q) - 1
      /\ \A i \in 1..Len(t) : t[i] = q[i + 1]
  BY <1>1, HeadTailProperties
<1>3. Head(q) = q[1] /\ Len(q) \in Nat /\ Len(q) >= 1
  BY EmptySeq, LenProperties
<1>4. 1 \in 1..Len(q) /\ \A i \in 1..Len(t) : i + 1 \in 1..Len(q) /\ i + 1 # 1
  BY <1>2, <1>3
<1>5. \A i \in 1..Len(q) : i = 1 \/ (i - 1 \in 1..Len(t) /\ q[i] = t[i - 1])
  <2>1. \A i \in 1..Len(q) : i = 1 \/ (i - 1 \in 1..Len(t) /\ (i - 1) + 1 = i)
    BY <1>2, <1>3
  <2> QED BY <2>1, <1>2
<1>6. \A b : InSeq(b, q) <=> InSeq(b, t) \/ b = Head(q).id
  BY <1>2, <1>3, <1>4, <1>5 DEF InSeq
<1>7. ASSUME NoDup(q) PROVE NoDup(t) /\ ~InSeq(Head(q).id, t)
  <2>1. ASSUME NEW i \in 1..Len(t), NEW j \in 1..Len(t), t[i].id = t[j].id PROVE i = j
    <3>1. i + 1 = j + 1
      BY <2>1, <1>2, <1>4, <1>7 DEF NoDup
    <3> QED BY <3>1
  <2>2. ASSUME NEW i \in 1..Len(t) PROVE t[i].id # Head(q).id
    BY <1>2, <1>3, <1>4, <1>7 DEF NoDup
  <2> QED BY <2>1, <2>2 DEF NoDup, InSeq
<1> QED BY <1>1, <1>2, <1>6, <1>7

(* Where a buffer is when the rest of the first one comes back to the front. *)
LEMMA FrontPlaces ==
  ASSUME NEW q \in Seq(BufType), q # <<>>, NEW x \in BufType, x.id = Head(q).id
  PROVE  /\ <<x>> \o Tail(q) \in Seq(BufType) /\ Len(<<x>> \o Tail(q)) = Len(q)
         /\ <<x>> \o Tail(q) # <<>>
         /\ \A b : InSeq(b, <<x>> \o Tail(q)) <=> InSeq(b, q)
         /\ NoDup(q) => NoDup(<<x>> \o Tail(q))
<1>1. PICK t : t = Tail(q)
  OBVIOUS
<1>2. /\ t \in Seq(BufType) /\ Len(t) = Len(q) - 1 /\ \A i \in 1..Len(t) : t[i] = q[i + 1]
  BY <1>1, HeadTailProperties
<1>3. Head(q) = q[1] /\ Len(q) \in Nat /\ Len(q) >= 1
  BY EmptySeq, LenProperties
<1>4. PICK u : u = <<x>> \o t
  OBVIOUS
<1>5. /\ u \in Seq(BufType) /\ Len(u) = Len(q)
      /\ \A i \in 1..Len(q) : u[i] = IF i = 1 THEN x ELSE t[i - 1]
  <2>1. <<x>> \in Seq(BufType) /\ Len(<<x>>) = 1 /\ <<x>>[1] = x
    OBVIOUS
  <2>2. /\ u \in Seq(BufType) /\ Len(u) = Len(<<x>>) + Len(t)
        /\ \A i \in 1..(Len(<<x>>) + Len(t)) : u[i] = IF i <= Len(<<x>>) THEN <<x>>[i] ELSE t[i - Len(<<x>>)]
    BY <1>2, <1>4, <2>1, ConcatProperties
  <2> QED BY <2>1, <2>2, <1>2, <1>3
<1>6. \A i \in 1..Len(q) : u[i].id = q[i].id
  <2>1. \A i \in 1..Len(q) : i = 1 \/ (i - 1 \in 1..Len(t) /\ (i - 1) + 1 = i)
    BY <1>2, <1>3
  <2> QED BY <2>1, <1>2, <1>3, <1>5
<1>7. u # <<>>
  BY <1>3, <1>5
<1> QED BY <1>1, <1>4, <1>5, <1>6, <1>7 DEF InSeq, NoDup

-----------------------------------------------------------------------------
(* Steps of the stream. *)

(* The data of a call, and of a buffer of which n units were written. *)
LEMMA DataFacts ==
  ASSUME DataTypes, NEW b \in Bufs, NEW len \in Lens
  PROVE  /\ Data(b, len) \in Seq(Units) /\ Len(Data(b, len)) = len
         /\ MeantFor(conn, Data(b, len))
<1>1. len \in Nat
  BY WritePathAssumption
<1>2. \A k \in 1..len : <<conn, b, k>> \in Units
  BY <1>1 DEF Units, DataTypes
<1>3. Data(b, len) \in Seq(Units) /\ Len(Data(b, len)) = len
  BY <1>1, <1>2, IsASeq DEF Data
<1> QED BY <1>3 DEF Data, MeantFor

(* Data joins the queue behind other data. *)
LEMMA EnterQueue ==
  ASSUME DataTypes, StreamInv, isOpen, NEW y \in BufType,
         bufQ' = Append(bufQ, y), wire' = wire, given' = given \o y.rest
  PROVE  /\ StreamInv' /\ given' \in Seq(Units)
         /\ Len(Left(bufQ)') = Len(Left(bufQ)) + Len(y.rest)
<1>1. PICK l, u : l = Left(bufQ) /\ u = y.rest
  OBVIOUS
<1>2. /\ l \in Seq(Units) /\ u \in Seq(Units) /\ wire \in Seq(Units) /\ given \in Seq(Units)
      /\ Left(bufQ)' = l \o u
  BY <1>1, LeftProperties DEF DataTypes, BufType
<1>3. wire \o l = given
  BY <1>1 DEF StreamInv
<1>4. wire \o (l \o u) = (wire \o l) \o u
  <2>1. 0 \in 0..Len(u)
    BY <1>2, LenProperties
  <2>2. Joins(wire, l, u)
    BY <2>1, <1>2, EnterStream
  <2> QED BY <2>2 DEF Joins
<1>5. given \o u \in Seq(Units) /\ Len(l \o u) = Len(l) + Len(u)
  BY <1>2, ConcatProperties
<1>6. wire' \o Left(bufQ)' = given'
  BY <1>1, <1>2, <1>3, <1>4
<1> QED BY <1>1, <1>2, <1>5, <1>6 DEF StreamInv

(* Data goes into the socket, and what it does not take becomes the queue. *)
LEMMA EnterSocket ==
  ASSUME DataTypes, StreamInv, isOpen, bufQ = <<>>, NEW u \in Seq(Units), NEW n \in 0..Len(u),
         wire' = wire \o Take(u, n), given' = given \o u,
         \/ bufQ' = <<>> /\ n = Len(u)
         \/ \E y \in BufType : y.rest = Drop(u, n) /\ bufQ' = Append(bufQ, y)
  PROVE  /\ StreamInv' /\ given' \in Seq(Units) /\ wire' \in Seq(Units)
         /\ Len(Left(bufQ)) = 0 /\ Len(Left(bufQ)') = Len(u) - n
<1>1. wire \in Seq(Units) /\ given \in Seq(Units) /\ bufQ \in Seq(BufType) /\ Left(bufQ) = <<>>
  BY LeftFirst DEF DataTypes
<1>2. /\ Take(u, n) \in Seq(Units) /\ Drop(u, n) \in Seq(Units)
      /\ Len(Drop(u, n)) = Len(u) - n /\ (Drop(u, n) = <<>> <=> n = Len(u))
  BY CutUnits
<1>3. PICK d \in Seq(Units) : d = Drop(u, n)
  BY <1>2
<1>4. Left(bufQ)' = d
  <2>1. CASE bufQ' = <<>> /\ n = Len(u)
    BY <2>1, <1>2, <1>3, LeftFirst
  <2>2. ASSUME NEW y \in BufType, y.rest = Drop(u, n), bufQ' = Append(bufQ, y)
        PROVE  Left(bufQ)' = d
    <3>1. Left(bufQ)' = Left(bufQ) \o y.rest
      BY <2>2, <1>1, LeftProperties
    <3>2. <<>> \o d = d
      BY ConcatEmptySeq
    <3> QED BY <2>2, <3>1, <3>2, <1>1, <1>3
  <2> QED BY <2>1, <2>2
<1>5. wire = given
  <2>1. wire \o <<>> = given
    BY <1>1 DEF StreamInv
  <2> QED BY <2>1, <1>1, ConcatEmptySeq
<1>6. (wire \o Take(u, n)) \o d = wire \o u
  <2>1. <<>> \in Seq(Units)
    OBVIOUS
  <2>2. CutAlone(wire, u, n)
    BY <2>1, <1>1, EnterStream
  <2> QED BY <2>2, <1>3 DEF CutAlone
<1>7. wire' \o Left(bufQ)' = given'
  BY <1>4, <1>5, <1>6
<1>8. given \o u \in Seq(Units) /\ wire \o Take(u, n) \in Seq(Units)
  BY <1>1, <1>2, ConcatProperties
<1>9. Len(Left(bufQ)) = 0 /\ Len(Left(bufQ)') = Len(u) - n
  BY <1>1, <1>2, <1>3, <1>4
<1> QED BY <1>7, <1>8, <1>9 DEF StreamInv

(* A flush moves units of the first buffer from the queue into the socket. *)
LEMMA FlushQueue ==
  ASSUME DataTypes, StreamInv, isOpen, bufQ # <<>>, NEW n \in 0..Len(Head(bufQ).rest),
         wire' = wire \o Take(Head(bufQ).rest, n), given' = given,
         \/ bufQ' = Tail(bufQ) /\ n = Len(Head(bufQ).rest)
         \/ \E y \in BufType : y.rest = Drop(Head(bufQ).rest, n) /\ bufQ' = <<y>> \o Tail(bufQ)
  PROVE  /\ StreamInv' /\ wire' \in Seq(Units)
         /\ Len(Left(bufQ)) \in Nat /\ n <= Len(Left(bufQ))
         /\ Len(Left(bufQ)') = Len(Left(bufQ)) - n
<1>1. /\ wire \in Seq(Units) /\ Head(bufQ) \in BufType /\ Tail(bufQ) \in Seq(BufType)
      /\ Left(bufQ) = Head(bufQ).rest \o Left(Tail(bufQ))
  BY LeftFirst DEF DataTypes
<1>2. Left(Tail(bufQ)) \in Seq(Units) /\ Head(bufQ).rest \in Seq(Units)
  BY <1>1, LeftProperties DEF BufType
<1>3. PICK l \in Seq(Units), u \in Seq(Units) : l = Left(Tail(bufQ)) /\ u = Head(bufQ).rest
  BY <1>2
<1>4. /\ Take(u, n) \in Seq(Units) /\ Drop(u, n) \in Seq(Units)
      /\ Len(Drop(u, n)) = Len(u) - n /\ (Drop(u, n) = <<>> <=> n = Len(u))
  <2>1. n \in 0..Len(u)
    BY <1>3
  <2> QED BY <2>1, CutUnits
<1>5. PICK d \in Seq(Units) : d = Drop(u, n)
  BY <1>4
<1>6. Left(bufQ)' = d \o l
  <2>1. CASE bufQ' = Tail(bufQ) /\ n = Len(Head(bufQ).rest)
    <3>1. Left(bufQ)' = l /\ d = <<>>
      BY <2>1, <1>3, <1>4, <1>5
    <3> QED BY <3>1, ConcatEmptySeq
  <2>2. ASSUME NEW y \in BufType, y.rest = Drop(Head(bufQ).rest, n), bufQ' = <<y>> \o Tail(bufQ)
        PROVE  Left(bufQ)' = d \o l
    <3>1. Left(bufQ)' = y.rest \o Left(Tail(bufQ))
      BY <2>2, <1>1, LeftProperties
    <3> QED BY <2>2, <3>1, <1>3, <1>5
  <2> QED BY <2>1, <2>2
<1>7. wire \o (u \o l) = given
  BY <1>1, <1>3 DEF StreamInv
<1>8. (wire \o Take(u, n)) \o (d \o l) = wire \o (u \o l)
  <2>1. n \in 0..Len(u)
    BY <1>3
  <2>2. CutFirst(wire, u, n, l)
    BY <2>1, <1>1, EnterStream
  <2> QED BY <2>2, <1>5 DEF CutFirst
<1>9. wire' \o Left(bufQ)' = given'
  BY <1>3, <1>6, <1>7, <1>8
<1>10. wire \o Take(u, n) \in Seq(Units)
  BY <1>1, <1>4, ConcatProperties
<1>11. Len(u \o l) = Len(u) + Len(l) /\ Len(d \o l) = Len(d) + Len(l)
  BY ConcatProperties
<1>12. Len(Left(bufQ)) \in Nat /\ n <= Len(Left(bufQ)) /\ Len(Left(bufQ)') = Len(Left(bufQ)) - n
  <2>1. Len(u) \in Nat /\ Len(l) \in Nat
    BY LenProperties
  <2>2. Left(bufQ) = u \o l
    BY <1>1, <1>3
  <2>3. Len(Left(bufQ)) = Len(u) + Len(l) /\ Len(Left(bufQ)') = (Len(u) - n) + Len(l) /\ n \in 0..Len(u)
    BY <2>2, <1>3, <1>4, <1>5, <1>6, <1>11
  <2> QED BY <2>1, <2>3
<1> QED BY <1>3, <1>9, <1>10, <1>12 DEF StreamInv

-----------------------------------------------------------------------------
(* Steps of the buffers. *)

(* What Free does. *)
LEMMA FreeFacts ==
  ASSUME DataTypes, NEW bs, Free(bs)
  PROVE  /\ freed' \in [Bufs -> Nat]
         /\ \A b \in Bufs : freed'[b] = IF b \in bs THEN freed[b] + 1 ELSE freed[b]
  BY DEF DataTypes, Free

(* Numbers of buffers. *)
LEMMA CallFacts ==
  ASSUME DataTypes, calls < MaxBufs, calls' = calls + 1
  PROVE  /\ calls + 1 \in Bufs /\ calls' \in 0..MaxBufs
         /\ \A b \in Bufs : b <= calls' <=> b <= calls \/ b = calls + 1
         /\ ~(calls + 1 <= calls)
  BY WritePathAssumption DEF DataTypes, Bufs

(* A call gives its buffer to asyncWrite, puts it into the queue, or needs none. *)
LEMMA PlaceNew ==
  ASSUME DataTypes, PlaceInv, NEW b \in Bufs, ~Started(b), Pushed' = Pushed + 1,
         \A a \in Bufs : Started(a)' <=> Started(a) \/ a = b,
         \/ /\ UNCHANGED <<freed, bufQ>>
            /\ \E x \in BufType : x.id = b /\ pend' = Append(pend, x)
         \/ /\ UNCHANGED <<freed, pend>>
            /\ \E x \in BufType : x.id = b /\ bufQ' = Append(bufQ, x)
         \/ UNCHANGED <<pend, bufQ>> /\ Free({b})
  PROVE  /\ PlaceInv' /\ freed' \in [Bufs -> Nat]
         /\ pend' \in Seq(BufType) /\ bufQ' \in Seq(BufType)
<1>1. Pushed' \in Nat
  BY DEF PlaceInv
<1>2. Nowhere(b)
  BY DEF PlaceInv
<1>3. /\ bufQ \in Seq(BufType) /\ pend \in Seq(BufType) /\ freed \in [Bufs -> Nat] /\ Pushed \in Nat
      /\ Len(pend) \in Nat /\ Len(bufQ) \in Nat /\ Len(pend) + Len(bufQ) <= Pushed
      /\ NoDup(pend) /\ NoDup(bufQ)
      /\ \A a \in Bufs : IF Started(a) THEN OnePlace(a) ELSE Nowhere(a)
  BY LenProperties DEF DataTypes, PlaceInv
<1>4. ASSUME UNCHANGED <<freed, bufQ>>, NEW x \in BufType, x.id = b, pend' = Append(pend, x)
      PROVE  PlaceInv' /\ freed' \in [Bufs -> Nat] /\ pend' \in Seq(BufType) /\ bufQ' \in Seq(BufType)
  <2>1. /\ pend' \in Seq(BufType) /\ Len(pend') = Len(pend) + 1
        /\ \A a : InSeq(a, pend') <=> InSeq(a, pend) \/ a = b
        /\ NoDup(pend) /\ ~InSeq(b, pend) => NoDup(pend')
    BY <1>3, <1>4, AppendPlaces
  <2>2. NoDup(pend') /\ NoDup(bufQ') /\ Len(pend') + Len(bufQ') <= Pushed'
    BY <2>1, <1>2, <1>3, <1>4 DEF Nowhere
  <2>3. ASSUME NEW a \in Bufs PROVE IF Started(a)' THEN OnePlace(a)' ELSE Nowhere(a)'
    BY <2>1, <1>1, <1>2, <1>3, <1>4 DEF OnePlace, Nowhere
  <2> QED BY <2>1, <2>2, <2>3, <1>3, <1>4 DEF PlaceInv
<1>5. ASSUME UNCHANGED <<freed, pend>>, NEW x \in BufType, x.id = b, bufQ' = Append(bufQ, x)
      PROVE  PlaceInv' /\ freed' \in [Bufs -> Nat] /\ pend' \in Seq(BufType) /\ bufQ' \in Seq(BufType)
  <2>1. /\ bufQ' \in Seq(BufType) /\ Len(bufQ') = Len(bufQ) + 1
        /\ \A a : InSeq(a, bufQ') <=> InSeq(a, bufQ) \/ a = b
        /\ NoDup(bufQ) /\ ~InSeq(b, bufQ) => NoDup(bufQ')
    BY <1>3, <1>5, AppendPlaces
  <2>2. NoDup(pend') /\ NoDup(bufQ') /\ Len(pend') + Len(bufQ') <= Pushed'
    BY <2>1, <1>2, <1>3, <1>5 DEF Nowhere
  <2>3. ASSUME NEW a \in Bufs PROVE IF Started(a)' THEN OnePlace(a)' ELSE Nowhere(a)'
    BY <2>1, <1>1, <1>2, <1>3, <1>5 DEF OnePlace, Nowhere
  <2> QED BY <2>1, <2>2, <2>3, <1>3, <1>5 DEF PlaceInv
<1>6. ASSUME UNCHANGED <<pend, bufQ>>, Free({b})
      PROVE  PlaceInv' /\ freed' \in [Bufs -> Nat] /\ pend' \in Seq(BufType) /\ bufQ' \in Seq(BufType)
  <2>1. /\ freed' \in [Bufs -> Nat]
        /\ \A a \in Bufs : freed'[a] = IF a = b THEN freed[a] + 1 ELSE freed[a]
    BY <1>6, FreeFacts
  <2>2. NoDup(pend') /\ NoDup(bufQ') /\ Len(pend') + Len(bufQ') <= Pushed'
    BY <1>3, <1>6
  <2>3. ASSUME NEW a \in Bufs PROVE IF Started(a)' THEN OnePlace(a)' ELSE Nowhere(a)'
    BY <2>1, <1>1, <1>2, <1>3, <1>6 DEF OnePlace, Nowhere
  <2> QED BY <2>1, <2>2, <2>3, <1>3, <1>6 DEF PlaceInv
<1> QED BY <1>4, <1>5, <1>6

(* An item handed over is given back or queued. *)
LEMMA PlaceHandled ==
  ASSUME DataTypes, PlaceInv, UNCHANGED <<calls, calling>>, pend # <<>>, pend' = Tail(pend),
         \/ Free({Head(pend).id}) /\ UNCHANGED bufQ
         \/ /\ UNCHANGED freed
            /\ \E x \in BufType : x.id = Head(pend).id /\ bufQ' = Append(bufQ, x)
  PROVE  /\ PlaceInv' /\ freed' \in [Bufs -> Nat]
         /\ pend' \in Seq(BufType) /\ bufQ' \in Seq(BufType)
<1>1. /\ bufQ \in Seq(BufType) /\ pend \in Seq(BufType) /\ freed \in [Bufs -> Nat] /\ Pushed \in Nat /\ Pushed' = Pushed
      /\ Len(pend) \in Nat /\ Len(bufQ) \in Nat /\ Len(pend) + Len(bufQ) <= Pushed
      /\ NoDup(pend) /\ NoDup(bufQ)
      /\ \A b \in Bufs : IF Started(b) THEN OnePlace(b) ELSE Nowhere(b)
      /\ \A b \in Bufs : Started(b)' <=> Started(b)
  BY LenProperties DEF DataTypes, PlaceInv, Pushed, Started, Called
<1>2. PICK h : h = Head(pend).id
  OBVIOUS
<1>3. /\ h \in Bufs /\ pend' \in Seq(BufType) /\ Len(pend') = Len(pend) - 1
      /\ \A b : InSeq(b, pend) <=> InSeq(b, pend') \/ b = h
      /\ NoDup(pend') /\ ~InSeq(h, pend')
  BY <1>1, <1>2, TailPlaces DEF BufType
<1>4. InSeq(h, pend) /\ Started(h) /\ freed[h] = 0 /\ ~InSeq(h, bufQ)
  BY <1>1, <1>3 DEF OnePlace, Nowhere
<1>5. ASSUME Free({h}), UNCHANGED bufQ
      PROVE  PlaceInv' /\ freed' \in [Bufs -> Nat] /\ bufQ' \in Seq(BufType)
  <2>1. /\ freed' \in [Bufs -> Nat]
        /\ \A b \in Bufs : freed'[b] = IF b = h THEN freed[b] + 1 ELSE freed[b]
    BY <1>5, FreeFacts
  <2>2. ASSUME NEW b \in Bufs PROVE IF Started(b)' THEN OnePlace(b)' ELSE Nowhere(b)'
    BY <2>1, <1>1, <1>3, <1>4, <1>5 DEF OnePlace, Nowhere
  <2>3. NoDup(bufQ') /\ Len(pend') + Len(bufQ') <= Pushed'
    BY <1>1, <1>3, <1>5
  <2> QED BY <2>1, <2>2, <2>3, <1>1, <1>3, <1>5 DEF PlaceInv
<1>6. ASSUME UNCHANGED freed, NEW x \in BufType, x.id = h, bufQ' = Append(bufQ, x)
      PROVE  PlaceInv' /\ freed' \in [Bufs -> Nat] /\ bufQ' \in Seq(BufType)
  <2>1. /\ bufQ' \in Seq(BufType) /\ Len(bufQ') = Len(bufQ) + 1
        /\ \A b : InSeq(b, bufQ') <=> InSeq(b, bufQ) \/ b = h
        /\ NoDup(bufQ')
    BY <1>1, <1>4, <1>6, AppendPlaces
  <2>2. ASSUME NEW b \in Bufs PROVE IF Started(b)' THEN OnePlace(b)' ELSE Nowhere(b)'
    BY <2>1, <1>1, <1>3, <1>4, <1>6 DEF OnePlace, Nowhere
  <2>3. Len(pend') + Len(bufQ') <= Pushed'
    BY <2>1, <1>1, <1>3
  <2> QED BY <2>1, <2>2, <2>3, <1>1, <1>3, <1>6 DEF PlaceInv
<1> QED BY <1>2, <1>3, <1>5, <1>6

(* A flush gives the first buffer of the queue back, or keeps it there. *)
LEMMA PlaceFlushed ==
  ASSUME DataTypes, PlaceInv, UNCHANGED <<calls, calling, pend>>, bufQ # <<>>,
         \/ Free({Head(bufQ).id}) /\ bufQ' = Tail(bufQ)
         \/ /\ UNCHANGED freed
            /\ \E x \in BufType : x.id = Head(bufQ).id /\ bufQ' = <<x>> \o Tail(bufQ)
  PROVE  PlaceInv' /\ freed' \in [Bufs -> Nat] /\ bufQ' \in Seq(BufType)
<1>1. /\ bufQ \in Seq(BufType) /\ freed \in [Bufs -> Nat] /\ Pushed \in Nat /\ Pushed' = Pushed
      /\ Len(pend) \in Nat /\ Len(bufQ) \in Nat /\ Len(pend) + Len(bufQ) <= Pushed
      /\ NoDup(pend) /\ NoDup(bufQ)
      /\ \A b \in Bufs : IF Started(b) THEN OnePlace(b) ELSE Nowhere(b)
      /\ \A b \in Bufs : Started(b)' <=> Started(b)
  BY LenProperties DEF DataTypes, PlaceInv, Pushed, Started, Called
<1>2. PICK h : h = Head(bufQ).id
  OBVIOUS
<1>3. ASSUME Free({h}), bufQ' = Tail(bufQ)
      PROVE  PlaceInv' /\ freed' \in [Bufs -> Nat] /\ bufQ' \in Seq(BufType)
  <2>1. /\ h \in Bufs /\ bufQ' \in Seq(BufType) /\ Len(bufQ') = Len(bufQ) - 1
        /\ \A b : InSeq(b, bufQ) <=> InSeq(b, bufQ') \/ b = h
        /\ NoDup(bufQ') /\ ~InSeq(h, bufQ')
    BY <1>1, <1>2, <1>3, TailPlaces DEF BufType
  <2>2. InSeq(h, bufQ) /\ Started(h) /\ freed[h] = 0 /\ ~InSeq(h, pend)
    BY <2>1, <1>1 DEF OnePlace, Nowhere
  <2>3. /\ freed' \in [Bufs -> Nat]
        /\ \A b \in Bufs : freed'[b] = IF b = h THEN freed[b] + 1 ELSE freed[b]
    BY <1>3, FreeFacts
  <2>4. ASSUME NEW b \in Bufs PROVE IF Started(b)' THEN OnePlace(b)' ELSE Nowhere(b)'
    BY <2>1, <2>2, <2>3, <1>1 DEF OnePlace, Nowhere
  <2>5. NoDup(pend') /\ Len(pend') + Len(bufQ') <= Pushed'
    BY <2>1, <1>1
  <2> QED BY <2>1, <2>3, <2>4, <2>5, <1>1 DEF PlaceInv
<1>4. ASSUME UNCHANGED freed, NEW x \in BufType, x.id = h, bufQ' = <<x>> \o Tail(bufQ)
      PROVE  PlaceInv' /\ freed' \in [Bufs -> Nat] /\ bufQ' \in Seq(BufType)
  <2>1. /\ bufQ' \in Seq(BufType) /\ Len(bufQ') = Len(bufQ)
        /\ \A b : InSeq(b, bufQ') <=> InSeq(b, bufQ)
        /\ NoDup(bufQ')
    BY <1>1, <1>2, <1>4, FrontPlaces
  <2>2. ASSUME NEW b \in Bufs PROVE IF Started(b)' THEN OnePlace(b)' ELSE Nowhere(b)'
    BY <2>1, <1>1, <1>4 DEF OnePlace, Nowhere
  <2>3. NoDup(pend') /\ Len(pend') + Len(bufQ') <= Pushed'
    BY <2>1, <1>1
  <2> QED BY <2>1, <2>2, <2>3, <1>1, <1>4 DEF PlaceInv
<1> QED BY <1>2, <1>3, <1>4

(* Destroy gives the whole queue back. *)
LEMMA PlaceDestroyed ==
  ASSUME DataTypes, PlaceInv, UNCHANGED <<calls, calling, pend>>, Free(Unsent), bufQ' = <<>>
  PROVE  PlaceInv' /\ freed' \in [Bufs -> Nat]
<1>1. /\ Pushed \in Nat /\ Pushed' = Pushed
      /\ Len(pend) \in Nat /\ Len(bufQ) \in Nat /\ Len(pend) + Len(bufQ) <= Pushed
      /\ NoDup(pend)
      /\ \A b \in Bufs : IF Started(b) THEN OnePlace(b) ELSE Nowhere(b)
      /\ \A b \in Bufs : Started(b)' <=> Started(b)
  BY LenProperties DEF DataTypes, PlaceInv, Pushed, Started, Called
<1>2. \A b : b \in Unsent <=> InSeq(b, bufQ)
  BY DEF Unsent, InSeq
<1>3. /\ freed' \in [Bufs -> Nat]
      /\ \A b \in Bufs : freed'[b] = IF InSeq(b, bufQ) THEN freed[b] + 1 ELSE freed[b]
  BY <1>2, FreeFacts
<1>4. Len(bufQ') = 0 /\ NoDup(bufQ') /\ \A b : ~InSeq(b, bufQ')
  BY DEF NoDup, InSeq
<1>5. ASSUME NEW b \in Bufs PROVE IF Started(b)' THEN OnePlace(b)' ELSE Nowhere(b)'
  BY <1>1, <1>3, <1>4 DEF OnePlace, Nowhere
<1>6. NoDup(pend') /\ Len(pend') + Len(bufQ') <= Pushed'
  BY <1>1, <1>4
<1> QED BY <1>1, <1>3, <1>4, <1>5, <1>6 DEF PlaceInv

-----------------------------------------------------------------------------
(* The actions. *)

(* A step that moves no buffer. *)
LEMMA PlaceFrame ==
  ASSUME PlaceInv, UNCHANGED <<calls, calling, freed, pend, bufQ>>
  PROVE  PlaceInv'
  BY DEF PlaceInv, OnePlace, Nowhere, Started, Called, Pushed

(* A call of Write has a buffer of its own. *)
LEMMA NewCall ==
  ASSUME DataTypes, CallInv, calls < MaxBufs, calls' = calls + 1, calling' = calling
  PROVE  /\ ~Started(calls + 1) /\ Pushed' = Pushed + 1
         /\ \A a \in Bufs : Started(a)' <=> Started(a) \/ a = calls + 1
<1>1. calls \in Nat /\ Cardinality(calling) \in Nat
  BY FS_CardinalityType DEF DataTypes, CallInv
<1>2. Pushed' = Pushed + 1
  BY <1>1 DEF Pushed
<1>3. \A call \in calling : call.abf.id \in Bufs /\ call.abf.id <= calls
  BY DEF CallInv, CallType, BufType
<1>4. ~Called(calls + 1)
  BY <1>1, <1>3 DEF Called, Bufs
<1>5. ASSUME NEW a \in Bufs PROVE Started(a)' <=> Started(a) \/ a = calls + 1
  BY <1>1, <1>4, WritePathAssumption DEF Started, Called, Bufs
<1>6. ~Started(calls + 1)
  BY <1>1 DEF Started
<1> QED BY <1>2, <1>5, <1>6

(* A step that leaves EvOut, the queue and the connection alone. *)
LEMMA ArmedFrame ==
  ASSUME ArmedInv, UNCHANGED <<isOpen, stale, armed, waiting, flushing, bufQ, size>>
  PROVE  ArmedInv'
  BY DEF ArmedInv, Idle

(* Data joins a queue that is not empty, or EvOut is registered for a new one. *)
LEMMA ArmedGrows ==
  ASSUME BoolTypes, ArmedInv, isOpen, Idle, bufQ' # <<>>,
         UNCHANGED <<isOpen, stale, flushing, broken>>,
         \/ bufQ # <<>> /\ UNCHANGED <<waiting, armed>>
         \/ ArmOut
  PROVE  ArmedInv' /\ BoolTypes'
<1>1. BoolTypes'
  BY Zenon DEF BoolTypes, ArmOut
<1>2. ArmedInv'
  BY DEF BoolTypes, ArmedInv, Idle, ArmOut
<1> QED BY <1>1, <1>2

(* Write queues its data, or what the socket did not take of it. *)
LEMMA WriteStep ==
  ASSUME IInv, NEW len \in Lens, Write(len)
  PROVE  Core'
<1>1. /\ isOpen /\ Idle /\ calls < MaxBufs /\ calls' = calls + 1
      /\ given' = given \o Data(calls + 1, len)
      /\ UNCHANGED <<conn, stale, isOpen, calling, pend, flushing>>
  BY DEF Write, async
<1>2. PICK b, u : b = calls + 1 /\ u = Data(b, len)
  OBVIOUS
<1>3. b \in Bufs /\ calls' \in 0..MaxBufs /\ u \in Seq(Units) /\ Len(u) = len /\ len \in Nat
  BY <1>1, <1>2, CallFacts, DataFacts, WritePathAssumption DEF IInv, Core
<1>4. PICK n : n = Took(len)
  OBVIOUS
<1>5. n \in 0..Len(u) /\ inSock + n \in 0..SockCap
  BY <1>3, <1>4, TookProperties DEF IInv, Core, DataTypes
<1>6. Drop(u, n) \in Seq(Units) /\ Len(Drop(u, n)) = len - n /\ (Drop(u, n) = <<>> <=> n = Len(u))
  BY <1>3, <1>5, CutUnits
<1>7. \/ /\ bufQ # <<>>
         /\ bufQ' = Append(bufQ, [id |-> b, rest |-> u])
         /\ size' = size + len
         /\ UNCHANGED <<sock, wire, freed, waiting, armed>>
      \/ /\ bufQ = <<>> /\ SysWrite(u) /\ Drop(u, n) = <<>>
         /\ Free({b})
         /\ UNCHANGED <<bufQ, size, waiting, armed>>
      \/ /\ bufQ = <<>> /\ SysWrite(u) /\ Drop(u, n) # <<>>
         /\ bufQ' = Append(bufQ, [id |-> b, rest |-> Drop(u, n)])
         /\ size' = size + Len(Drop(u, n))
         /\ ArmOut
         /\ UNCHANGED freed
  BY <1>2, <1>4, Zenon DEF Write, Behind, GrownSize
<1>8. /\ DataTypes /\ BoolTypes /\ StreamInv /\ SizeInv /\ ArmedInv /\ PlaceInv
      /\ size \in Nat /\ bufQ \in Seq(BufType)
      /\ ~Started(b) /\ Pushed' = Pushed + 1
      /\ \A a \in Bufs : Started(a)' <=> Started(a) \/ a = b
  BY <1>1, <1>2, NewCall DEF IInv, Core, DataTypes
<1>9. CASE /\ bufQ # <<>>
           /\ bufQ' = Append(bufQ, [id |-> b, rest |-> u])
           /\ size' = size + len
           /\ UNCHANGED <<sock, wire, freed, waiting, armed>>
  <2>1. PICK y \in BufType : y = [id |-> b, rest |-> u]
    BY <1>3 DEF BufType
  <2>2. y.id = b /\ y.rest = u /\ bufQ' = Append(bufQ, y)
    BY <1>9, <2>1
  <2>3. /\ StreamInv' /\ given' \in Seq(Units)
        /\ Len(Left(bufQ)') = Len(Left(bufQ)) + len
    <3>1. wire' = wire /\ given' = given \o y.rest
      BY <1>1, <1>2, <1>9, <2>2
    <3> QED BY <3>1, <2>2, <1>1, <1>3, <1>8, EnterQueue
  <2>4. PlaceInv' /\ bufQ' \in Seq(BufType) /\ freed' \in [Bufs -> Nat] /\ pend' \in Seq(BufType)
    BY <2>2, <1>1, <1>3, <1>8, <1>9, PlaceNew
  <2>5. bufQ' # <<>>
    BY <2>2, <1>8, AppendPlaces
  <2>6. ArmedInv' /\ BoolTypes'
    <3>1. UNCHANGED <<waiting, armed>> /\ broken' = broken
      BY <1>9 DEF sock
    <3> QED BY <3>1, <2>5, <1>1, <1>8, <1>9, ArmedGrows
  <2>7. SizeInv'
    BY <2>3, <1>1, <1>8, <1>9 DEF SizeInv
  <2>8. DataTypes'
    BY <2>3, <2>4, <1>1, <1>3, <1>8, <1>9 DEF DataTypes, sock
  <2> QED BY <2>3, <2>4, <2>6, <2>7, <2>8 DEF IInv, Core
<1>10. ASSUME bufQ = <<>>, SysWrite(u) PROVE inSock' \in 0..SockCap /\ wire' = wire \o Take(u, n) /\ broken' = broken
  BY <1>10, <1>3, <1>4, <1>5 DEF SysWrite
<1>11. CASE /\ bufQ = <<>> /\ SysWrite(u) /\ Drop(u, n) = <<>>
            /\ Free({b})
            /\ UNCHANGED <<bufQ, size, waiting, armed>>
  <2>1. inSock' \in 0..SockCap /\ wire' = wire \o Take(u, n) /\ broken' = broken /\ n = Len(u)
    BY <1>6, <1>10, <1>11
  <2>2. /\ StreamInv' /\ given' \in Seq(Units) /\ wire' \in Seq(Units)
        /\ Len(Left(bufQ)) = 0 /\ Len(Left(bufQ)') = Len(u) - n
    <3>1. given' = given \o u /\ bufQ' = <<>> /\ bufQ = <<>>
      BY <1>1, <1>2, <1>11
    <3> QED BY <3>1, <2>1, <1>1, <1>3, <1>5, <1>8, EnterSocket
  <2>3. PlaceInv' /\ bufQ' \in Seq(BufType) /\ freed' \in [Bufs -> Nat] /\ pend' \in Seq(BufType)
    BY <1>1, <1>3, <1>8, <1>11, PlaceNew
  <2>4. ArmedInv'
    BY <1>1, <1>8, <1>11, ArmedFrame
  <2>5. BoolTypes'
    BY <2>1, <1>1, <1>8, <1>11, Zenon DEF BoolTypes
  <2>6. SizeInv'
    BY <2>1, <2>2, <1>1, <1>3, <1>8, <1>11 DEF SizeInv
  <2>7. DataTypes'
    BY <2>1, <2>2, <2>3, <1>1, <1>3, <1>8, <1>11 DEF DataTypes
  <2> QED BY <2>2, <2>3, <2>4, <2>5, <2>6, <2>7 DEF IInv, Core
<1>12. CASE /\ bufQ = <<>> /\ SysWrite(u) /\ Drop(u, n) # <<>>
            /\ bufQ' = Append(bufQ, [id |-> b, rest |-> Drop(u, n)])
            /\ size' = size + Len(Drop(u, n))
            /\ ArmOut
            /\ UNCHANGED freed
  <2>1. inSock' \in 0..SockCap /\ wire' = wire \o Take(u, n) /\ broken' = broken
    BY <1>10, <1>12
  <2>2. PICK y \in BufType : y = [id |-> b, rest |-> Drop(u, n)]
    BY <1>3, <1>6 DEF BufType
  <2>3. y.id = b /\ y.rest = Drop(u, n) /\ bufQ' = Append(bufQ, y)
    BY <1>12, <2>2
  <2>4. /\ StreamInv' /\ given' \in Seq(Units) /\ wire' \in Seq(Units)
        /\ Len(Left(bufQ)) = 0 /\ Len(Left(bufQ)') = Len(u) - n
    <3>1. given' = given \o u /\ bufQ = <<>>
      BY <1>1, <1>2, <1>12
    <3> QED BY <3>1, <2>1, <2>3, <1>1, <1>3, <1>5, <1>8, EnterSocket
  <2>5. PlaceInv' /\ bufQ' \in Seq(BufType) /\ freed' \in [Bufs -> Nat] /\ pend' \in Seq(BufType)
    BY <2>3, <1>1, <1>3, <1>8, <1>12, PlaceNew
  <2>6. bufQ' # <<>>
    BY <2>3, <1>8, AppendPlaces
  <2>7. ArmedInv' /\ BoolTypes'
    BY <2>1, <2>6, <1>1, <1>8, <1>12, ArmedGrows
  <2>8. SizeInv'
    BY <2>4, <1>1, <1>3, <1>5, <1>6, <1>8, <1>12 DEF SizeInv
  <2>9. DataTypes'
    <3>1. size' \in Nat
      BY <1>3, <1>5, <1>6, <1>8, <1>12
    <3> QED BY <3>1, <2>1, <2>4, <2>5, <1>1, <1>3, <1>8 DEF DataTypes
  <2> QED BY <2>4, <2>5, <2>7, <2>8, <2>9 DEF IInv, Core
<1> QED BY <1>7, <1>9, <1>11, <1>12

(* A call of AsyncWrite begins: its buffer is not there yet. *)
LEMMA AsyncWriteStep ==
  ASSUME IInv, NEW len \in Lens, AsyncWrite(len)
  PROVE  IInv'
<1>1. /\ isOpen /\ calls < MaxBufs /\ calls' = calls + 1
      /\ calling' = calling \cup {[conn |-> conn, abf |-> [id |-> calls + 1, rest |-> Data(calls + 1, len)]]}
      /\ UNCHANGED <<conn, stale, late, isOpen, armed, waiting, size, bufQ, pend, flushing, inSock, broken,
                     freed, given, wire, panicked>>
  BY DEF AsyncWrite, sock
<1>2. /\ DataTypes /\ BoolTypes /\ StreamInv /\ SizeInv /\ ArmedInv /\ PlaceInv
      /\ CallInv /\ OwnInv /\ calls \in Nat
  BY DEF IInv, Core, DataTypes
<1>3. PICK b : b = calls + 1
  OBVIOUS
<1>4. b \in Bufs /\ calls' \in 0..MaxBufs /\ calls' = b /\ ~(b <= calls)
  BY <1>1, <1>2, <1>3, CallFacts
<1>5. Data(b, len) \in Seq(Units) /\ MeantFor(conn, Data(b, len))
  BY <1>2, <1>4, DataFacts
<1>6. PICK c : c = [conn |-> conn, abf |-> [id |-> b, rest |-> Data(b, len)]]
  OBVIOUS
<1>7. c \in CallType /\ c.abf.id = b /\ MeantFor(conn, c.abf.rest)
  BY <1>2, <1>4, <1>5, <1>6 DEF CallType, BufType, DataTypes
<1>8. calling' = calling \cup {c} /\ c \notin calling
  BY <1>1, <1>2, <1>3, <1>4, <1>6, <1>7 DEF CallInv
<1>9. IsFiniteSet(calling') /\ Cardinality(calling') = Cardinality(calling) + 1 /\ Cardinality(calling) \in Nat
  BY <1>2, <1>8, FS_AddElement, FS_CardinalityType DEF CallInv
<1>10. CallInv'
  <2>1. \A d \in calling : d.abf.id \in Nat /\ d.abf.id <= calls
    BY <1>2 DEF CallInv, CallType, BufType, Bufs
  <2>2. \A d \in calling' : d.abf.id <= calls'
    BY <2>1, <1>1, <1>2, <1>3, <1>4, <1>7, <1>8
  <2>3. \A d, e \in calling' : d.abf.id = e.abf.id => d = e
    BY <2>1, <1>2, <1>4, <1>7, <1>8 DEF CallInv
  <2>4. calling' \subseteq CallType
    BY <1>2, <1>7, <1>8 DEF CallInv
  <2>5. late' \in BOOLEAN /\ panicked' \in BOOLEAN
    BY <1>1, <1>2, Zenon DEF CallInv
  <2> QED BY <2>2, <2>3, <2>4, <2>5, <1>9 DEF CallInv
<1>11. OwnInv'
  BY <1>1, <1>2, <1>7, <1>8 DEF OwnInv
<1>12. PlaceInv'
  <2>1. Pushed' = Pushed
    BY <1>1, <1>2, <1>9 DEF Pushed
  <2>2. ASSUME NEW a \in Bufs PROVE Started(a)' <=> Started(a)
    <3>1. Called(a)' <=> Called(a) \/ a = b
      BY <1>7, <1>8 DEF Called
    <3>2. a <= calls' <=> a <= calls \/ a = b
      BY <1>1, <1>2, <1>3 DEF Bufs
    <3> QED BY <3>1, <3>2, <1>4 DEF Started
  <2> QED BY <2>1, <2>2, <1>1, <1>2 DEF PlaceInv, OnePlace, Nowhere
<1>13. DataTypes'
  BY <1>1, <1>2, <1>4 DEF DataTypes
<1>14. BoolTypes'
  BY <1>1, <1>2, Zenon DEF BoolTypes
<1>15. ArmedInv' /\ StreamInv' /\ SizeInv'
  BY <1>1, <1>2, ArmedFrame DEF StreamInv, SizeInv
<1> QED BY <1>10, <1>11, <1>12, <1>13, <1>14, <1>15 DEF IInv, Core

(* It ends with an item pushed, or with a panic that leaves everything as it is. *)
LEMMA AsyncPushStep ==
  ASSUME IInv, NEW c \in calling, AsyncPush(c)
  PROVE  IInv'
<1>1. UNCHANGED <<conn, stale, late, isOpen, armed, waiting, size, bufQ, flushing, inSock, broken,
                  calls, freed, given, wire>>
  BY DEF AsyncPush, sock
<1>2. /\ DataTypes /\ BoolTypes /\ StreamInv /\ SizeInv /\ ArmedInv /\ PlaceInv
      /\ CallInv /\ OwnInv /\ calls \in Nat /\ pend \in Seq(BufType)
  BY DEF IInv, Core, DataTypes
<1>3. BoolTypes' /\ ArmedInv' /\ StreamInv' /\ SizeInv'
  <2>1. BoolTypes'
    BY <1>1, <1>2, Zenon DEF BoolTypes
  <2> QED BY <2>1, <1>1, <1>2, ArmedFrame DEF StreamInv, SizeInv
<1>4. CASE isOpen /\ calling' = calling \ {c} /\ pend' = Append(pend, c.abf) /\ UNCHANGED panicked
  <2>1. PICK b, x : x = c.abf /\ b = x.id
    OBVIOUS
  <2>2. x \in BufType /\ b \in Bufs /\ b <= calls /\ Called(b) /\ pend' = Append(pend, x)
    BY <2>1, <1>2, <1>4 DEF CallInv, CallType, BufType, Called
  <2>3. IsFiniteSet(calling') /\ Cardinality(calling') = Cardinality(calling) - 1
        /\ Cardinality(calling) \in Nat
    BY <1>2, <1>4, FS_RemoveElement, FS_CardinalityType DEF CallInv
  <2>4. CallInv'
    <3>1. late' \in BOOLEAN /\ panicked' \in BOOLEAN
      BY <1>1, <1>2, <1>4, Zenon DEF CallInv
    <3> QED BY <3>1, <2>3, <1>1, <1>2, <1>4 DEF CallInv
  <2>5. ~Started(b) /\ Pushed' = Pushed + 1 /\ \A a \in Bufs : Started(a)' <=> Started(a) \/ a = b
    <3>1. Pushed' = Pushed + 1
      BY <2>3, <1>1, <1>2 DEF Pushed
    <3>2. ASSUME NEW a PROVE Called(a)' <=> Called(a) /\ a # b
      BY <2>1, <1>2, <1>4 DEF Called, CallInv
    <3> QED BY <3>1, <3>2, <2>2, <1>1 DEF Started
  <2>6. PlaceInv' /\ pend' \in Seq(BufType)
    BY <2>1, <2>2, <2>5, <1>1, <1>2, PlaceNew
  <2>7. DataTypes'
    BY <2>6, <1>1, <1>2 DEF DataTypes
  <2>8. OwnInv'
    <3>1. SUFFICES ASSUME isOpen, ~late
                   PROVE  /\ \A call \in calling' : MeantFor(conn, call.abf.rest)
                          /\ \A i \in 1..Len(pend') : MeantFor(conn, pend'[i].rest)
                          /\ MeantFor(conn, given)
      BY <1>1 DEF OwnInv
    <3>2. /\ \A call \in calling : MeantFor(conn, call.abf.rest)
          /\ \A i \in 1..Len(pend) : MeantFor(conn, pend[i].rest)
          /\ MeantFor(conn, given) /\ MeantFor(conn, x.rest)
      BY <3>1, <2>1, <1>2 DEF OwnInv
    <3>3. /\ Len(pend') = Len(pend) + 1 /\ Len(pend) \in Nat
          /\ pend'[Len(pend) + 1] = x /\ \A i \in 1..Len(pend) : pend'[i] = pend[i]
      BY <2>2, <1>2, AppendProperties, LenProperties
    <3>4. \A i \in 1..(Len(pend) + 1) : i = Len(pend) + 1 \/ i \in 1..Len(pend)
      BY <3>3
    <3>5. \A i \in 1..Len(pend') : MeantFor(conn, pend'[i].rest)
      BY <3>2, <3>3, <3>4
    <3> QED BY <3>2, <3>5, <1>4
  <2> QED BY <2>4, <2>6, <2>7, <2>8, <1>3 DEF IInv, Core
<1>5. CASE panicked' = TRUE /\ UNCHANGED <<calling, pend>>
  <2>1. PlaceInv'
    BY <1>1, <1>2, <1>5, PlaceFrame
  <2>2. CallInv'
    <3>1. late' \in BOOLEAN /\ panicked' \in BOOLEAN
      BY <1>1, <1>2, <1>5, Zenon DEF CallInv
    <3> QED BY <3>1, <1>1, <1>2, <1>5 DEF CallInv
  <2>3. DataTypes'
    BY <1>1, <1>2, <1>5 DEF DataTypes
  <2>4. OwnInv'
    BY <1>1, <1>2, <1>5 DEF OwnInv
  <2> QED BY <2>1, <2>2, <2>3, <2>4, <1>3 DEF IInv, Core
<1> QED BY <1>4, <1>5 DEF AsyncPush

(* asyncOrderedWrite drops the item, queues it, or writes it and queues the rest. *)
LEMMA AsyncOrderedWriteStep ==
  ASSUME IInv, AsyncOrderedWrite
  PROVE  Core'
<1>1. /\ Idle /\ pend # <<>> /\ pend' = Tail(pend)
      /\ UNCHANGED <<conn, stale, isOpen, flushing, calls, calling>>
  BY DEF AsyncOrderedWrite, async
<1>2. /\ DataTypes /\ BoolTypes /\ StreamInv /\ SizeInv /\ ArmedInv /\ PlaceInv
      /\ size \in Nat /\ bufQ \in Seq(BufType) /\ pend \in Seq(BufType)
  BY DEF IInv, Core, DataTypes
<1>3. PICK abf, u : abf = Head(pend) /\ u = abf.rest
  OBVIOUS
<1>4. abf \in BufType /\ u \in Seq(Units) /\ Len(u) \in Nat
  BY <1>1, <1>2, <1>3, TailPlaces, LenProperties DEF BufType
<1>5. PICK n : n = Took(Len(u))
  OBVIOUS
<1>6. n \in 0..Len(u) /\ inSock + n \in 0..SockCap
  BY <1>2, <1>4, <1>5, TookProperties DEF DataTypes
<1>7. \/ /\ ~isOpen
         /\ Free({abf.id})
         /\ UNCHANGED <<bufQ, size, sock, wire, given, waiting, armed>>
      \/ /\ isOpen /\ bufQ # <<>>
         /\ given' = given \o u
         /\ bufQ' = Append(bufQ, abf)
         /\ size' = size + Len(u)
         /\ UNCHANGED <<freed, sock, wire, waiting, armed>>
      \/ /\ isOpen /\ bufQ = <<>>
         /\ given' = given \o u
         /\ SysWrite(u)
         /\ size' = (size + Len(u)) - n
         /\ \/ /\ Complete(abf, n)
               /\ Free({abf.id})
               /\ UNCHANGED <<bufQ, waiting, armed>>
            \/ /\ ~Complete(abf, n)
               /\ bufQ' = Append(bufQ, [abf EXCEPT !.rest = Drop(@, n)])
               /\ ArmOut
               /\ UNCHANGED freed
  BY <1>3, <1>5, Zenon DEF AsyncOrderedWrite, Behind, GrownSize
<1>8. CASE /\ ~isOpen
           /\ Free({abf.id})
           /\ UNCHANGED <<bufQ, size, sock, wire, given, waiting, armed>>
  <2>1. UNCHANGED <<bufQ, size, inSock, broken, wire, given, waiting, armed>>
    BY <1>8 DEF sock
  <2>2. PlaceInv' /\ freed' \in [Bufs -> Nat] /\ pend' \in Seq(BufType) /\ bufQ' \in Seq(BufType)
    BY <1>1, <1>2, <1>3, <1>8, PlaceHandled
  <2>3. DataTypes'
    BY <2>1, <2>2, <1>1, <1>2 DEF DataTypes
  <2>4. BoolTypes'
    BY <2>1, <1>1, <1>2, Zenon DEF BoolTypes
  <2>5. ArmedInv'
    BY <2>1, <1>1, <1>2, ArmedFrame
  <2>6. StreamInv' /\ SizeInv'
    BY <1>1, <1>8 DEF StreamInv, SizeInv
  <2> QED BY <2>2, <2>3, <2>4, <2>5, <2>6 DEF IInv, Core
<1>9. CASE /\ isOpen /\ bufQ # <<>>
           /\ given' = given \o u
           /\ bufQ' = Append(bufQ, abf)
           /\ size' = size + Len(u)
           /\ UNCHANGED <<freed, sock, wire, waiting, armed>>
  <2>1. UNCHANGED <<freed, inSock, broken, wire, waiting, armed>>
    BY <1>9 DEF sock
  <2>2. /\ StreamInv' /\ given' \in Seq(Units)
        /\ Len(Left(bufQ)') = Len(Left(bufQ)) + Len(u)
    BY <2>1, <1>2, <1>3, <1>4, <1>9, EnterQueue
  <2>3. PlaceInv' /\ freed' \in [Bufs -> Nat] /\ pend' \in Seq(BufType) /\ bufQ' \in Seq(BufType)
    BY <1>1, <1>2, <1>3, <1>4, <1>9, PlaceHandled
  <2>4. bufQ' # <<>>
    BY <1>2, <1>4, <1>9, AppendPlaces
  <2>5. ArmedInv' /\ BoolTypes'
    BY <2>1, <2>4, <1>1, <1>2, <1>9, ArmedGrows
  <2>6. SizeInv'
    BY <2>2, <1>1, <1>2, <1>9 DEF SizeInv
  <2>7. DataTypes'
    BY <2>1, <2>2, <2>3, <1>1, <1>2, <1>4, <1>9 DEF DataTypes
  <2> QED BY <2>2, <2>3, <2>5, <2>6, <2>7 DEF IInv, Core
<1>10. ASSUME SysWrite(u) PROVE inSock' \in 0..SockCap /\ wire' = wire \o Take(u, n) /\ broken' = broken
  BY <1>10, <1>5, <1>6 DEF SysWrite
<1>11. CASE /\ isOpen /\ bufQ = <<>>
            /\ given' = given \o u
            /\ SysWrite(u)
            /\ size' = (size + Len(u)) - n
            /\ Complete(abf, n)
            /\ Free({abf.id})
            /\ UNCHANGED <<bufQ, waiting, armed>>
  <2>1. inSock' \in 0..SockCap /\ wire' = wire \o Take(u, n) /\ broken' = broken
    BY <1>10, <1>11
  <2>2. n = Len(u) /\ size' = size
    BY <1>2, <1>3, <1>4, <1>11 DEF Complete
  <2>3. /\ StreamInv' /\ given' \in Seq(Units) /\ wire' \in Seq(Units)
        /\ Len(Left(bufQ)) = 0 /\ Len(Left(bufQ)') = Len(u) - n
    <3>1. bufQ' = <<>> /\ bufQ = <<>>
      BY <1>11
    <3> QED BY <3>1, <2>1, <2>2, <1>2, <1>4, <1>6, <1>11, EnterSocket
  <2>4. PlaceInv' /\ freed' \in [Bufs -> Nat] /\ pend' \in Seq(BufType) /\ bufQ' \in Seq(BufType)
    BY <1>1, <1>2, <1>3, <1>11, PlaceHandled
  <2>5. ArmedInv'
    BY <2>2, <1>1, <1>2, <1>11, ArmedFrame
  <2>6. BoolTypes'
    BY <2>1, <1>1, <1>2, <1>11, Zenon DEF BoolTypes
  <2>7. SizeInv'
    BY <2>2, <2>3, <1>1, <1>2, <1>4, <1>11 DEF SizeInv
  <2>8. DataTypes'
    BY <2>1, <2>2, <2>3, <2>4, <1>1, <1>2 DEF DataTypes
  <2> QED BY <2>3, <2>4, <2>5, <2>6, <2>7, <2>8 DEF IInv, Core
<1>12. CASE /\ isOpen /\ bufQ = <<>>
            /\ given' = given \o u
            /\ SysWrite(u)
            /\ size' = (size + Len(u)) - n
            /\ bufQ' = Append(bufQ, [abf EXCEPT !.rest = Drop(@, n)])
            /\ ArmOut
            /\ UNCHANGED freed
  <2>1. inSock' \in 0..SockCap /\ wire' = wire \o Take(u, n) /\ broken' = broken
    BY <1>10, <1>12
  <2>2. PICK y : y = [abf EXCEPT !.rest = Drop(@, n)]
    OBVIOUS
  <2>3. y \in BufType /\ y.id = abf.id /\ y.rest = Drop(u, n) /\ bufQ' = Append(bufQ, y)
    <3>1. Drop(u, n) \in Seq(Units)
      BY <1>4, <1>6, CutUnits
    <3> QED BY <3>1, <2>2, <1>3, <1>4, <1>12 DEF BufType
  <2>4. /\ StreamInv' /\ given' \in Seq(Units) /\ wire' \in Seq(Units)
        /\ Len(Left(bufQ)) = 0 /\ Len(Left(bufQ)') = Len(u) - n
    <3>1. given' = given \o u /\ bufQ = <<>>
      BY <1>12
    <3> QED BY <3>1, <2>1, <2>3, <1>2, <1>4, <1>6, <1>12, EnterSocket
  <2>5. PlaceInv' /\ freed' \in [Bufs -> Nat] /\ pend' \in Seq(BufType) /\ bufQ' \in Seq(BufType)
    BY <2>3, <1>1, <1>2, <1>3, <1>12, PlaceHandled
  <2>6. bufQ' # <<>>
    BY <2>3, <1>2, AppendPlaces
  <2>7. ArmedInv' /\ BoolTypes'
    BY <2>1, <2>6, <1>1, <1>2, <1>12, ArmedGrows
  <2>8. size' \in Nat /\ size' = size + (Len(u) - n)
    BY <1>2, <1>4, <1>6, <1>12
  <2>9. SizeInv'
    BY <2>4, <2>8, <1>1, <1>2, <1>4, <1>6, <1>12 DEF SizeInv
  <2>10. DataTypes'
    BY <2>1, <2>4, <2>5, <2>8, <1>1, <1>2 DEF DataTypes
  <2> QED BY <2>4, <2>5, <2>7, <2>9, <2>10 DEF IInv, Core
<1> QED BY <1>7, <1>8, <1>9, <1>11, <1>12

(* AsyncOrderedFlush starts only with EvOut registered, so not with a stale flag. *)
LEMMA OnWriteStep ==
  ASSUME IInv, OnWrite
  PROVE  Core'
<1>1. /\ isOpen /\ armed /\ flushing' = Len(bufQ)
      /\ UNCHANGED <<conn, stale, isOpen, armed, waiting, size, bufQ, calling, pend, inSock, broken, calls,
                     freed, given, wire>>
  BY DEF OnWrite, sock, async
<1>2. DataTypes /\ BoolTypes /\ StreamInv /\ SizeInv /\ ArmedInv /\ PlaceInv /\ CallInv
  BY DEF IInv, Core
<1>3. Len(bufQ) \in 0..MaxBufs
  <2>1. Len(bufQ) \in Nat /\ Len(pend) \in Nat /\ MaxBufs \in Nat
    BY <1>2, LenProperties, WritePathAssumption DEF DataTypes
  <2>2. Len(pend) + Len(bufQ) <= calls /\ calls \in 0..MaxBufs
    <3>1. Cardinality(calling) \in Nat /\ calls \in 0..MaxBufs
      BY <1>2, FS_CardinalityType DEF CallInv, DataTypes
    <3> QED BY <3>1, <2>1, <1>2 DEF PlaceInv, Pushed
  <2> QED BY <2>1, <2>2
<1>4. DataTypes'
  BY <1>1, <1>2, <1>3, WritePathAssumption DEF DataTypes
<1>5. BoolTypes'
  BY <1>1, <1>2, Zenon DEF BoolTypes
<1>6. ArmedInv'
  BY <1>1, <1>2, <1>3 DEF ArmedInv, BoolTypes, Idle
<1>7. StreamInv' /\ SizeInv'
  BY <1>1, <1>2 DEF StreamInv, SizeInv
<1>8. PlaceInv'
  BY <1>1, <1>2, PlaceFrame
<1> QED BY <1>4, <1>5, <1>6, <1>7, <1>8 DEF IInv, Core

(* One iteration of AsyncOrderedFlush moves units from the queue into the socket. *)
LEMMA FlushOneStep ==
  ASSUME IInv, FlushOne
  PROVE  Core'
<1>1. /\ flushing > 0
      /\ UNCHANGED <<conn, stale, isOpen, armed, waiting, calling, pend, calls, given>>
  BY DEF FlushOne, async
<1>2. /\ DataTypes /\ BoolTypes /\ StreamInv /\ SizeInv /\ ArmedInv /\ PlaceInv
      /\ size \in Nat /\ bufQ \in Seq(BufType) /\ Len(bufQ) \in Nat /\ flushing \in -1..MaxBufs /\ MaxBufs \in Nat
  BY LenProperties, WritePathAssumption DEF IInv, Core, DataTypes
<1>3. isOpen /\ ~stale /\ armed /\ waiting /\ flushing <= Len(bufQ) /\ size = Len(Left(bufQ))
  BY <1>1, <1>2 DEF ArmedInv, SizeInv
<1>4. bufQ # <<>>
  BY <1>1, <1>2, <1>3
<1>5. PICK abf, u : abf = Head(bufQ) /\ u = abf.rest
  OBVIOUS
<1>6. abf \in BufType /\ u \in Seq(Units) /\ Len(u) \in Nat /\ Len(Tail(bufQ)) = Len(bufQ) - 1
  BY <1>2, <1>4, <1>5, TailPlaces, LenProperties DEF BufType
<1>7. PICK n : n = Took(Len(u))
  OBVIOUS
<1>8. n \in 0..Len(u) /\ inSock + n \in 0..SockCap
  BY <1>2, <1>6, <1>7, TookProperties DEF DataTypes
<1>9. /\ SysWrite(u) /\ size' = size - n
      /\ \/ /\ Complete(abf, n)
            /\ Free({abf.id})
            /\ bufQ' = Tail(bufQ)
            /\ flushing' = flushing - 1
         \/ /\ ~Complete(abf, n)
            /\ bufQ' = <<[abf EXCEPT !.rest = Drop(@, n)]>> \o Tail(bufQ)
            /\ flushing' = 0
            /\ UNCHANGED freed
  BY <1>5, <1>7, Zenon DEF FlushOne, RestToFront
<1>10. inSock' \in 0..SockCap /\ wire' = wire \o Take(u, n) /\ broken' = broken
  BY <1>7, <1>8, <1>9 DEF SysWrite
<1>11. BoolTypes'
  BY <1>1, <1>2, <1>10, Zenon DEF BoolTypes
<1>12. CASE Complete(abf, n) /\ Free({abf.id}) /\ bufQ' = Tail(bufQ) /\ flushing' = flushing - 1
  <2>1. n = Len(u)
    BY <1>5, <1>12 DEF Complete
  <2>2. /\ StreamInv' /\ wire' \in Seq(Units)
        /\ Len(Left(bufQ)) \in Nat /\ n <= Len(Left(bufQ))
        /\ Len(Left(bufQ)') = Len(Left(bufQ)) - n
    <3>1. n \in 0..Len(Head(bufQ).rest) /\ n = Len(Head(bufQ).rest) /\ wire' = wire \o Take(Head(bufQ).rest, n)
      BY <2>1, <1>5, <1>8, <1>10
    <3> QED BY <3>1, <1>1, <1>2, <1>3, <1>4, <1>12, FlushQueue
  <2>3. PlaceInv' /\ freed' \in [Bufs -> Nat] /\ bufQ' \in Seq(BufType)
    BY <1>1, <1>2, <1>4, <1>5, <1>12, PlaceFlushed
  <2>4. SizeInv' /\ size' \in Nat
    BY <2>2, <1>3, <1>8, <1>9 DEF SizeInv
  <2>5. flushing' \in 0..MaxBufs /\ flushing' <= Len(bufQ')
    BY <1>1, <1>2, <1>3, <1>6, <1>12
  <2>6. ArmedInv'
    BY <2>5, <1>1, <1>3 DEF ArmedInv, Idle
  <2>7. DataTypes'
    BY <2>2, <2>3, <2>4, <2>5, <1>1, <1>2, <1>10 DEF DataTypes
  <2> QED BY <2>2, <2>3, <2>4, <2>6, <2>7, <1>11 DEF IInv, Core
<1>13. CASE /\ bufQ' = <<[abf EXCEPT !.rest = Drop(@, n)]>> \o Tail(bufQ)
            /\ flushing' = 0 /\ UNCHANGED freed
  <2>1. PICK y : y = [abf EXCEPT !.rest = Drop(@, n)]
    OBVIOUS
  <2>2. y \in BufType /\ y.id = abf.id /\ y.rest = Drop(u, n) /\ bufQ' = <<y>> \o Tail(bufQ)
    <3>1. Drop(u, n) \in Seq(Units)
      BY <1>6, <1>8, CutUnits
    <3> QED BY <3>1, <2>1, <1>5, <1>6, <1>13 DEF BufType
  <2>3. /\ StreamInv' /\ wire' \in Seq(Units)
        /\ Len(Left(bufQ)) \in Nat /\ n <= Len(Left(bufQ))
        /\ Len(Left(bufQ)') = Len(Left(bufQ)) - n
    <3>1. /\ n \in 0..Len(Head(bufQ).rest) /\ wire' = wire \o Take(Head(bufQ).rest, n)
          /\ y.rest = Drop(Head(bufQ).rest, n)
      BY <2>2, <1>5, <1>8, <1>10
    <3> QED BY <3>1, <2>2, <1>1, <1>2, <1>3, <1>4, FlushQueue
  <2>4. PlaceInv' /\ freed' \in [Bufs -> Nat] /\ bufQ' \in Seq(BufType)
    BY <2>2, <1>1, <1>2, <1>4, <1>5, <1>13, PlaceFlushed
  <2>5. SizeInv' /\ size' \in Nat
    BY <2>3, <1>3, <1>8, <1>9 DEF SizeInv
  <2>6. flushing' \in 0..MaxBufs /\ flushing' <= Len(bufQ')
    <3>1. Len(bufQ') \in Nat
      BY <2>4, LenProperties
    <3> QED BY <3>1, <1>2, <1>13
  <2>7. ArmedInv'
    BY <2>6, <1>1, <1>3 DEF ArmedInv, Idle
  <2>8. DataTypes'
    BY <2>3, <2>4, <2>5, <2>6, <1>1, <1>2, <1>10 DEF DataTypes
  <2> QED BY <2>3, <2>4, <2>5, <2>7, <2>8, <1>11 DEF IInv, Core
<1> QED BY <1>9, <1>12, <1>13

(* The end of AsyncOrderedFlush removes EvOut with an empty queue only. *)
LEMMA FlushEndStep ==
  ASSUME IInv, FlushEnd
  PROVE  Core'
<1>1. /\ flushing = 0 /\ flushing' = -1
      /\ \/ bufQ = <<>> /\ armed' = FALSE /\ waiting' = FALSE
         \/ bufQ # <<>> /\ UNCHANGED <<armed, waiting>>
      /\ UNCHANGED <<conn, stale, isOpen, size, bufQ, calling, pend, inSock, broken, calls, freed, given,
                     wire>>
  BY DEF FlushEnd, sock, async
<1>2. DataTypes /\ BoolTypes /\ StreamInv /\ SizeInv /\ ArmedInv /\ PlaceInv
  BY DEF IInv, Core
<1>3. DataTypes'
  BY <1>1, <1>2, WritePathAssumption DEF DataTypes
<1>4. BoolTypes'
  BY <1>1, <1>2, Zenon DEF BoolTypes
<1>5. ArmedInv'
  <2>1. isOpen /\ ~stale /\ armed /\ waiting
    BY <1>1, <1>2 DEF ArmedInv
  <2>2. CASE bufQ = <<>> /\ armed' = FALSE /\ waiting' = FALSE
    BY <2>1, <2>2, <1>1 DEF ArmedInv, Idle
  <2>3. CASE bufQ # <<>> /\ UNCHANGED <<armed, waiting>>
    BY <2>1, <2>3, <1>1 DEF ArmedInv, Idle
  <2> QED BY <2>2, <2>3, <1>1
<1>6. StreamInv' /\ SizeInv'
  BY <1>1, <1>2 DEF StreamInv, SizeInv
<1>7. PlaceInv'
  BY <1>1, <1>2, PlaceFrame
<1> QED BY <1>3, <1>4, <1>5, <1>6, <1>7 DEF IInv, Core

(* With asyncWriteWaiting clear there was nothing queued: the size is 0. *)
LEMMA OnCloseStep ==
  ASSUME IInv, OnClose
  PROVE  Core'
<1>1. /\ isOpen /\ Idle /\ isOpen' = FALSE /\ armed' = FALSE /\ Free(Unsent) /\ bufQ' = <<>>
      /\ UNCHANGED <<conn, stale, waiting, size, calling, pend, flushing, inSock, broken, calls, given,
                     wire>>
  BY DEF OnClose, sock, async
<1>2. DataTypes /\ BoolTypes /\ SizeInv /\ ArmedInv /\ PlaceInv
  BY DEF IInv, Core
<1>3. PlaceInv' /\ freed' \in [Bufs -> Nat]
  BY <1>1, <1>2, PlaceDestroyed
<1>4. DataTypes'
  BY <1>1, <1>2, <1>3 DEF DataTypes
<1>5. BoolTypes'
  BY <1>1, <1>2, Zenon DEF BoolTypes
<1>6. ~waiting => size = 0
  <2>1. ~waiting => ~stale /\ bufQ = <<>>
    BY <1>1, <1>2 DEF ArmedInv
  <2>2. bufQ = <<>> => Len(Left(bufQ)) = 0
    BY LeftFirst
  <2> QED BY <2>1, <2>2, <1>1, <1>2 DEF SizeInv
<1>7. ArmedInv'
  BY <1>1, <1>6 DEF ArmedInv, Idle
<1>8. StreamInv' /\ SizeInv'
  BY <1>1 DEF StreamInv, SizeInv
<1> QED BY <1>3, <1>4, <1>5, <1>7, <1>8 DEF IInv, Core

(* A reused handler starts with an empty queue and asyncWriteWaiting as it was left. *)
LEMMA ReuseStep ==
  ASSUME IInv, Reuse
  PROVE  Core'
<1>1. /\ ~isOpen /\ conn < MaxConns /\ conn' = conn + 1 /\ isOpen' = TRUE /\ stale' = waiting
      /\ inSock' = 0 /\ broken' = FALSE /\ given' = <<>> /\ wire' = <<>>
      /\ UNCHANGED <<armed, waiting, size, bufQ, calling, pend, flushing, calls, freed>>
  BY DEF Reuse
<1>2. DataTypes /\ BoolTypes /\ ArmedInv /\ PlaceInv
  BY DEF IInv, Core
<1>3. bufQ = <<>> /\ ~armed /\ (~waiting => size = 0) /\ flushing = -1
  BY <1>1, <1>2 DEF ArmedInv
<1>4. DataTypes'
  BY <1>1, <1>2, WritePathAssumption DEF DataTypes
<1>5. BoolTypes'
  BY <1>1, <1>2, Zenon DEF BoolTypes
<1>6. ArmedInv'
  BY <1>1, <1>2, <1>3 DEF ArmedInv, BoolTypes, Idle
<1>7. StreamInv' /\ SizeInv'
  <2>1. Left(bufQ)' = <<>> /\ wire' = <<>> /\ given' = <<>> /\ (~stale' => size' = 0)
    BY <1>1, <1>3, LeftFirst
  <2> QED BY <2>1 DEF StreamInv, SizeInv
<1>8. PlaceInv'
  BY <1>1, <1>2, PlaceFrame
<1> QED BY <1>4, <1>5, <1>6, <1>7, <1>8 DEF IInv, Core

(* What happens to the socket changes nothing of the handler. *)
LEMMA SocketStep ==
  ASSUME IInv, PeerReads \/ Reset \/ UNCHANGED vars
  PROVE  Core'
<1>1. UNCHANGED <<conn, stale, isOpen, armed, waiting, size, bufQ, calling, pend, flushing, calls, freed,
                  given, wire>>
  BY DEF PeerReads, Reset, vars, async
<1>2. DataTypes /\ BoolTypes /\ StreamInv /\ SizeInv /\ ArmedInv /\ PlaceInv
  BY DEF IInv, Core
<1>3. DataTypes'
  <2>1. inSock' \in 0..SockCap
    BY <1>2, WritePathAssumption DEF DataTypes, PeerReads, Reset, vars
  <2> QED BY <2>1, <1>1, <1>2 DEF DataTypes
<1>4. BoolTypes'
  <2>1. broken' \in BOOLEAN
    BY <1>2, Zenon DEF BoolTypes, PeerReads, Reset, vars
  <2> QED BY <2>1, <1>1, <1>2, Zenon DEF BoolTypes
<1>5. ArmedInv' /\ StreamInv' /\ SizeInv'
  BY <1>1, <1>2, ArmedFrame DEF StreamInv, SizeInv
<1>6. PlaceInv'
  BY <1>1, <1>2, PlaceFrame
<1> QED BY <1>3, <1>4, <1>5, <1>6 DEF IInv, Core

(* Data meant for a connection, behind other data meant for it. *)
LEMMA MeantConcat ==
  ASSUME NEW c, NEW u \in Seq(Units), NEW v \in Seq(Units), MeantFor(c, u), MeantFor(c, v)
  PROVE  MeantFor(c, u \o v)
<1>1. PICK w : w = u \o v
  OBVIOUS
<1>2. Len(u) \in Nat /\ Len(v) \in Nat
  BY LenProperties
<1>3. /\ Len(w) = Len(u) + Len(v)
      /\ \A i \in 1..(Len(u) + Len(v)) : w[i] = IF i <= Len(u) THEN u[i] ELSE v[i - Len(u)]
  BY <1>1, ConcatProperties
<1>4. \A i \in 1..(Len(u) + Len(v)) : IF i <= Len(u) THEN i \in 1..Len(u) ELSE i - Len(u) \in 1..Len(v)
  BY <1>2
<1>5. MeantFor(c, w)
  BY <1>3, <1>4 DEF MeantFor
<1> QED BY <1>1, <1>5

(* What arrives on an open connection was meant for it: the next item, or Write's data. *)
LEMMA OwnGiven ==
  ASSUME DataTypes, OwnInv, UNCHANGED <<conn, late, isOpen, calling>>,
         \/ UNCHANGED <<pend, given>>
         \/ pend # <<>> /\ pend' = Tail(pend) /\ UNCHANGED given
         \/ pend # <<>> /\ pend' = Tail(pend) /\ given' = given \o Head(pend).rest
         \/ UNCHANGED pend /\ \E u \in Seq(Units) : MeantFor(conn, u) /\ given' = given \o u
  PROVE  OwnInv'
<1> SUFFICES ASSUME isOpen, ~late
             PROVE  /\ \A i \in 1..Len(pend') : MeantFor(conn, pend'[i].rest)
                    /\ MeantFor(conn, given')
  BY DEF OwnInv
<1>1. /\ \A i \in 1..Len(pend) : MeantFor(conn, pend[i].rest)
      /\ MeantFor(conn, given) /\ given \in Seq(Units) /\ pend \in Seq(BufType)
  BY DEF OwnInv, DataTypes
<1>2. ASSUME pend # <<>>, pend' = Tail(pend)
      PROVE  /\ \A i \in 1..Len(pend') : MeantFor(conn, pend'[i].rest)
             /\ Head(pend).rest \in Seq(Units) /\ MeantFor(conn, Head(pend).rest)
  <2>1. /\ Head(pend) \in BufType /\ Len(pend') = Len(pend) - 1
        /\ \A i \in 1..Len(pend') : pend'[i] = pend[i + 1]
    BY <1>1, <1>2, HeadTailProperties
  <2>2. Head(pend) = pend[1] /\ Len(pend) \in Nat /\ Len(pend) >= 1
    BY <1>1, <1>2, EmptySeq, LenProperties
  <2>3. 1 \in 1..Len(pend) /\ \A i \in 1..Len(pend') : i + 1 \in 1..Len(pend)
    BY <2>1, <2>2
  <2> QED BY <2>1, <2>2, <2>3, <1>1 DEF BufType
<1>3. CASE UNCHANGED <<pend, given>>
  BY <1>1, <1>3
<1>4. CASE pend # <<>> /\ pend' = Tail(pend) /\ UNCHANGED given
  BY <1>1, <1>2, <1>4
<1>5. CASE pend # <<>> /\ pend' = Tail(pend) /\ given' = given \o Head(pend).rest
  BY <1>1, <1>2, <1>5, MeantConcat
<1>6. ASSUME UNCHANGED pend, NEW u \in Seq(Units), MeantFor(conn, u), given' = given \o u
      PROVE  /\ \A i \in 1..Len(pend') : MeantFor(conn, pend'[i].rest)
             /\ MeantFor(conn, given')
  BY <1>1, <1>6, MeantConcat
<1> QED BY <1>3, <1>4, <1>5, <1>6

(* The steps of the evPoll goroutine and of the peer leave calls of AsyncWrite alone;
   on a new connection nothing has arrived, and nothing is on its way unless `late'. *)
LEMMA OtherSteps ==
  ASSUME IInv, \/ \E len \in Lens : Write(len)
               \/ AsyncOrderedWrite \/ OnWrite \/ Flush \/ OnClose \/ Reuse
               \/ PeerReads \/ Reset \/ UNCHANGED vars
  PROVE  CallInv' /\ OwnInv'
<1>1. DataTypes /\ CallInv /\ OwnInv /\ calls \in Nat
  BY DEF IInv, Core, DataTypes
<1>2. ASSUME calling' = calling, panicked' = panicked, late' \in BOOLEAN, calls' = calls \/ calls' = calls + 1
      PROVE  CallInv'
  <2>1. \A call \in calling : call.abf.id \in Nat /\ call.abf.id <= calls
    BY <1>1 DEF CallInv, CallType, BufType, Bufs
  <2>2. \A call \in calling : call.abf.id <= calls'
    BY <2>1, <1>1, <1>2
  <2>3. panicked' \in BOOLEAN
    BY <1>1, <1>2, Zenon DEF CallInv
  <2> QED BY <2>2, <2>3, <1>1, <1>2 DEF CallInv
<1>3. late \in BOOLEAN
  BY <1>1 DEF CallInv
<1>4. ASSUME NEW len \in Lens, Write(len) PROVE CallInv' /\ OwnInv'
  <2>1. /\ calls < MaxBufs /\ calls' = calls + 1 /\ given' = given \o Data(calls + 1, len)
        /\ UNCHANGED <<conn, isOpen, pend, late, calling, panicked>>
    BY <1>4 DEF Write, async
  <2>2. PICK b : b = calls + 1
    OBVIOUS
  <2>3. b \in Bufs
    BY <2>1, <2>2, <1>1, CallFacts
  <2>4. PICK u \in Seq(Units) : MeantFor(conn, u) /\ given' = given \o u
    BY <2>1, <2>2, <2>3, <1>1, DataFacts
  <2> QED BY <2>1, <2>4, <1>1, <1>2, <1>3, OwnGiven
<1>5. CASE AsyncOrderedWrite
  <2>1. /\ pend # <<>> /\ pend' = Tail(pend)
        /\ UNCHANGED <<conn, isOpen, calls, late, calling, panicked>>
    BY <1>5 DEF AsyncOrderedWrite, async
  <2>2. UNCHANGED given \/ given' = given \o Head(pend).rest
    BY <1>5, Zenon DEF AsyncOrderedWrite
  <2> QED BY <2>1, <2>2, <1>1, <1>2, <1>3, OwnGiven
<1>6. CASE OnWrite \/ Flush \/ PeerReads \/ Reset \/ UNCHANGED vars
  <2>1. UNCHANGED <<conn, isOpen, calls, pend, given, late, calling, panicked>>
    BY <1>6 DEF OnWrite, Flush, FlushOne, FlushEnd, PeerReads, Reset, vars, async
  <2> QED BY <2>1, <1>1, <1>2, <1>3, OwnGiven
<1>7. CASE OnClose
  <2>1. isOpen' = FALSE /\ UNCHANGED <<calls, late, calling, panicked>>
    BY <1>7 DEF OnClose, async
  <2>2. OwnInv'
    BY <2>1 DEF OwnInv
  <2> QED BY <2>1, <2>2, <1>2, <1>3
<1>8. CASE Reuse
  <2>1. /\ late' = (pend # <<>> \/ calling # {}) /\ given' = <<>>
        /\ UNCHANGED <<calls, calling, pend, panicked>>
    BY <1>8 DEF Reuse
  <2>2. OwnInv'
    <3>1. ~late' => pend' = <<>> /\ calling' = {}
      BY <2>1
    <3>2. MeantFor(conn', <<>>)
      BY DEF MeantFor
    <3>3. pend' = <<>> => 1..Len(pend') = {}
      OBVIOUS
    <3> QED BY <3>1, <3>2, <3>3, <2>1 DEF OwnInv
  <2>3. late' \in BOOLEAN
    BY <2>1, Zenon
  <2> QED BY <2>1, <2>2, <2>3, <1>2
<1> QED BY <1>4, <1>5, <1>6, <1>7, <1>8

(* Every step keeps the invariant. *)
LEMMA NextIInv == IInv /\ [Next]_vars => IInv'
<1> SUFFICES ASSUME IInv, [Next]_vars PROVE IInv'
  OBVIOUS
<1>1. ASSUME NEW len \in Lens, AsyncWrite(len) PROVE IInv'
  BY <1>1, AsyncWriteStep
<1>2. ASSUME NEW call \in calling, AsyncPush(call) PROVE IInv'
  BY <1>2, AsyncPushStep
<1>3. CASE \/ \E len \in Lens : Write(len)
           \/ AsyncOrderedWrite \/ OnWrite \/ Flush \/ OnClose \/ Reuse
           \/ PeerReads \/ Reset \/ UNCHANGED vars
  <2>1. CallInv' /\ OwnInv'
    BY <1>3, OtherSteps
  <2>2. Core'
    BY <1>3, WriteStep, AsyncOrderedWriteStep, OnWriteStep, FlushOneStep, FlushEndStep, OnCloseStep,
       ReuseStep, SocketStep DEF Flush
  <2> QED BY <2>1, <2>2 DEF IInv
<1> QED BY <1>1, <1>2, <1>3 DEF Next

-----------------------------------------------------------------------------
(* On every connection the socket gets what Write and asyncOrderedWrite were given, in
   order, whatever the short writes and the flushes cut it into; what it has not got
   is queued (AsyncOrderedFlush).  All of it was meant for this connection, but for a
   handler that was reused with items or calls of the last connection under way. *)
THEOREM StreamKeepsOrder == Spec => []StreamOrder
  BY InitIInv, NextIInv, IInvImplies, PTL DEF Spec

(* EvOut is registered exactly while data is queued, between two flushes and on every
   connection that did not begin with a stale asyncWriteWaiting. *)
THEOREM QueuedDataIsArmed == Spec => []QueuedIsArmed
  BY InitIInv, NextIInv, IInvImplies, PTL DEF Spec

(* asyncWriteBufSize is what the queue holds, with the same exception; it includes
   that the variables keep their types, so that the size is never negative. *)
THEOREM SizeCountsTheQueue == Spec => []SizeIsExact
  BY InitIInv, NextIInv, IInvImplies, PTL DEF Spec

(* No buffer is lost and none given back twice, by flushing, Destroy or an item that
   arrives after the close. *)
THEOREM BuffersFreedOnce == Spec => []BuffersAccounted
  BY InitIInv, NextIInv, IInvImplies, PTL DEF Spec

-----------------------------------------------------------------------------
(* WebSocket: where the frames lie in the stream. *)

(* w is cut into the sequences of s: off[k] elements are those of the first k. *)
Cuts(off, s, w) ==
  /\ off \in [0..Len(s) -> 0..Len(w)]
  /\ off[0] = 0 /\ off[Len(s)] = Len(w)
  /\ \A k \in 1..Len(s) : /\ off[k] = off[k - 1] + Len(s[k])
                          /\ \A j \in 1..Len(s[k]) : w[off[k - 1] + j] = s[k][j]
  /\ \A i \in 1..Len(w) : \E k \in 1..Len(s) : off[k - 1] < i /\ i <= off[k]

(* One sequence more. *)
LEMMA CutsAppend ==
  ASSUME NEW U, NEW s \in Seq(Seq(U)), NEW w \in Seq(U), NEW off, Cuts(off, s, w), NEW x \in Seq(U)
  PROVE  \E g : Cuts(g, Append(s, x), w \o x)
<1>1. PICK n \in Nat : n = Len(s)
  OBVIOUS
<1>2. PICK m \in Nat : m = Len(w)
  OBVIOUS
<1>3. PICK l \in Nat : l = Len(x)
  OBVIOUS
<1>4. PICK t : t = Append(s, x)
  OBVIOUS
<1>5. PICK v : v = w \o x
  OBVIOUS
<1>6. Len(t) = n + 1 /\ (\A k \in 1..n : t[k] = s[k]) /\ t[n + 1] = x
  BY <1>1, <1>4
<1>7. Len(v) = m + l /\ (\A i \in 1..m : v[i] = w[i]) /\ \A j \in 1..l : v[m + j] = x[j]
  BY <1>2, <1>3, <1>5
<1>8. /\ off \in [0..n -> 0..m] /\ off[0] = 0 /\ off[n] = m
      /\ \A k \in 1..n : /\ off[k] = off[k - 1] + Len(s[k])
                         /\ \A j \in 1..Len(s[k]) : w[off[k - 1] + j] = s[k][j]
      /\ \A i \in 1..m : \E k \in 1..n : off[k - 1] < i /\ i <= off[k]
  BY <1>1, <1>2 DEF Cuts
<1>9. PICK g : g = [k \in 0..(n + 1) |-> IF k <= n THEN off[k] ELSE m + l]
  OBVIOUS
<1>10. /\ g \in [0..(n + 1) -> 0..(m + l)] /\ g[0] = 0 /\ g[n + 1] = m + l /\ g[n] = m
       /\ \A k \in 0..n : g[k] = off[k]
  <2>1. ASSUME NEW k \in 0..(n + 1) PROVE g[k] \in 0..(m + l)
    <3>1. CASE k <= n
      <4>1. g[k] = off[k] /\ off[k] \in 0..m
        BY <1>8, <1>9, <3>1
      <4> QED BY <4>1
    <3>2. CASE ~(k <= n)
      BY <1>9, <3>2
    <3> QED BY <3>1, <3>2
  <2>2. 0 \in 0..(n + 1) /\ n \in 0..(n + 1) /\ n + 1 \in 0..(n + 1) /\ ~(n + 1 <= n) /\ 0 <= n
    OBVIOUS
  <2>3. \A k \in 0..n : k \in 0..(n + 1) /\ k <= n
    OBVIOUS
  <2> QED BY <1>8, <1>9, <2>1, <2>2, <2>3
<1>11. ASSUME NEW k \in 1..(n + 1)
       PROVE  /\ g[k] = g[k - 1] + Len(t[k])
              /\ \A j \in 1..Len(t[k]) : v[g[k - 1] + j] = t[k][j]
  <2>1. CASE k = n + 1
    <3>1. k - 1 = n
      BY <2>1
    <3> QED BY <1>3, <1>6, <1>7, <1>10, <2>1, <3>1
  <2>2. CASE k # n + 1
    <3>1. k \in 1..n /\ k - 1 \in 0..n /\ k \in 0..n
      BY <2>2
    <3>2. t[k] = s[k] /\ s[k] \in Seq(U)
      BY <1>1, <1>6, <3>1
    <3>3. PICK q \in Nat : q = Len(s[k])
      BY <3>2
    <3>4. PICK a \in 0..m : a = off[k - 1] /\ a = g[k - 1]
      BY <1>8, <1>10, <3>1
    <3>5. PICK b \in 0..m : b = off[k] /\ b = g[k]
      BY <1>8, <1>10, <3>1
    <3>6. b = a + q /\ \A j \in 1..q : w[a + j] = s[k][j]
      BY <1>8, <3>1, <3>3, <3>4, <3>5
    <3>7. \A j \in 1..q : a + j \in 1..m
      BY <3>6
    <3>8. \A j \in 1..q : v[a + j] = s[k][j]
      BY <1>7, <3>6, <3>7
    <3> QED BY <3>2, <3>3, <3>4, <3>5, <3>6, <3>8
  <2> QED BY <2>1, <2>2
<1>12. ASSUME NEW i \in 1..(m + l) PROVE \E k \in 1..(n + 1) : g[k - 1] < i /\ i <= g[k]
  <2>1. CASE i <= m
    <3>3. i \in 1..m
      BY <2>1
    <3>1. PICK k \in 1..n : off[k - 1] < i /\ i <= off[k]
      BY <1>8, <3>3
    <3>2. k \in 1..(n + 1) /\ k \in 0..n /\ k - 1 \in 0..n
      OBVIOUS
    <3> QED BY <1>10, <3>1, <3>2
  <2>2. CASE ~(i <= m)
    <3>1. n + 1 \in 1..(n + 1) /\ (n + 1) - 1 = n
      OBVIOUS
    <3>2. g[(n + 1) - 1] < i /\ i <= g[n + 1]
      BY <1>10, <2>2, <3>1
    <3> QED BY <3>1, <3>2
  <2> QED BY <2>1, <2>2
<1>13. Cuts(g, t, v)
  BY <1>6, <1>7, <1>10, <1>11, <1>12 DEF Cuts
<1> QED BY <1>4, <1>5, <1>13

(* Where FlattenSeq puts the sequences. *)
LEMMA FlattenCuts ==
  ASSUME NEW U
  PROVE  \A s \in Seq(Seq(U)) : \E off : Cuts(off, s, FlattenSeq(s))
<1> DEFINE S == {n \in Nat : \A s \in Seq(Seq(U)) : Len(s) = n => \E off : Cuts(off, s, FlattenSeq(s))}
<1>1. 0 \in S
  <2>1. ASSUME NEW s \in Seq(Seq(U)), Len(s) = 0 PROVE \E off : Cuts(off, s, FlattenSeq(s))
    <3>1. s = <<>> /\ FlattenSeq(s) = s
      BY <2>1, FlattenSeqFlat
    <3>2. PICK off : off = [k \in 0..0 |-> 0]
      OBVIOUS
    <3>3. Cuts(off, s, s)
      BY <2>1, <3>2 DEF Cuts
    <3> QED BY <3>1, <3>3
  <2> QED BY <2>1
<1>2. ASSUME NEW n \in S PROVE n + 1 \in S
  <2>1. ASSUME NEW s \in Seq(Seq(U)), Len(s) = n + 1 PROVE \E off : Cuts(off, s, FlattenSeq(s))
    <3>1. PICK t \in Seq(Seq(U)), x \in Seq(U) : s = Append(t, x) /\ Len(t) = n
      BY <2>1, SplitLast
    <3>2. PICK off : Cuts(off, t, FlattenSeq(t))
      BY <3>1
    <3>3. FlattenSeq(t) \in Seq(U) /\ FlattenSeq(s) = FlattenSeq(t) \o x
      BY <3>1, FlattenAppend
    <3>4. \E g : Cuts(g, Append(t, x), FlattenSeq(t) \o x)
      BY <3>2, <3>3, CutsAppend
    <3> QED BY <3>1, <3>3, <3>4
  <2> QED BY <2>1
<1>3. S = Nat
  <2> HIDE DEF S
  <2>1. S \in SUBSET Nat
    BY DEF S
  <2> QED BY <1>1, <1>2, <2>1, SetInduction
<1>4. ASSUME NEW s \in Seq(Seq(U)) PROVE \E off : Cuts(off, s, FlattenSeq(s))
  <2>1. PICK n : n = Len(s)
    OBVIOUS
  <2>2. n \in S
    BY <1>3, <2>1
  <2> QED BY <2>1, <2>2
<1> QED BY <1>4

(* The parts of a frame. *)
LEMMA FrameParts ==
  ASSUME NEW t \in FrameTypes
  PROVE  /\ HeaderLen(t) \in 3..4 /\ t.len \in Nat
         /\ Size(t) \in Nat /\ Size(t) >= HeaderLen(t) /\ Size(t) = HeaderLen(t) + t.len
         /\ Decisive(t) \in 2..HeaderLen(t) /\ (t.head = "ok" => Decisive(t) = HeaderLen(t))
<1>1. t.ext \in 0..1 /\ t.len \in Nat /\ t.head \in {"ok", "byte", "length"}
  BY WebSocketAssumption DEF FrameType
<1>2. HeaderLen(t) = 3 + t.ext
  BY <1>1 DEF HeaderLen
<1>3. Decisive(t) = IF t.head = "byte" THEN 2 ELSE IF t.head = "length" THEN 2 + t.ext ELSE HeaderLen(t)
  BY <1>1 DEF Decisive
<1> QED BY <1>1, <1>2, <1>3 DEF Size

(* Units and frames of the stream. *)
WireOf(off, n) ==
  /\ off \in [0..n -> 0..Len(Wire)] /\ off[0] = 0 /\ off[n] = Len(Wire)
  /\ \A k \in 1..n : /\ off[k] = off[k - 1] + Size(stream[k])
                     /\ \A j \in 1..Size(stream[k]) : Wire[off[k - 1] + j] = <<k, j>>
  /\ \A i \in 1..Len(Wire) : \E k \in 1..n : off[k - 1] < i /\ i <= off[k]

(* The stream consists of the frames, one after the other. *)
LEMMA WireCuts ==
  ASSUME stream \in Seq(FrameTypes)
  PROVE  Wire \in Seq(Nat \X Nat) /\ \E off : WireOf(off, Len(stream))
<1>1. PICK n \in Nat : n = Len(stream)
  OBVIOUS
<1>2. PICK s : s = [f \in DOMAIN stream |-> [j \in 1..Size(stream[f]) |-> <<f, j>>]]
  OBVIOUS
<1>3. DOMAIN stream = 1..n
  BY <1>1
<1>4. ASSUME NEW f \in 1..n
      PROVE  /\ s[f] = [j \in 1..Size(stream[f]) |-> <<f, j>>]
             /\ s[f] \in Seq(Nat \X Nat) /\ Len(s[f]) = Size(stream[f])
             /\ \A j \in 1..Size(stream[f]) : s[f][j] = <<f, j>>
  <2>1. stream[f] \in FrameTypes
    BY <1>1
  <2>2. PICK z \in Nat : z = Size(stream[f])
    BY <2>1, FrameParts
  <2>3. s[f] = [j \in 1..z |-> <<f, j>>]
    BY <1>2, <1>3, <2>2
  <2>4. s[f] \in [1..z -> Nat \X Nat]
    BY <2>3
  <2>5. s[f] \in Seq(Nat \X Nat) /\ Len(s[f]) = z
    BY <2>4
  <2> QED BY <2>2, <2>3, <2>5
<1>5. s \in Seq(Seq(Nat \X Nat)) /\ Len(s) = n
  <2>1. s \in [1..n -> Seq(Nat \X Nat)]
    BY <1>2, <1>3, <1>4
  <2> QED BY <2>1
<1>6. Wire = FlattenSeq(s)
  BY <1>2 DEF Wire
<1>7. Wire \in Seq(Nat \X Nat)
  <2>1. <<>> \in Seq(Nat \X Nat)
    OBVIOUS
  <2> QED BY <1>5, <1>6, <2>1, FlattenAppend
<1>8. PICK off : Cuts(off, s, Wire)
  BY <1>5, <1>6, FlattenCuts
<1>9. WireOf(off, n)
  <2>1. /\ off \in [0..n -> 0..Len(Wire)]
        /\ off[0] = 0 /\ off[n] = Len(Wire)
        /\ \A k \in 1..n : /\ off[k] = off[k - 1] + Len(s[k])
                           /\ \A j \in 1..Len(s[k]) : Wire[off[k - 1] + j] = s[k][j]
        /\ \A i \in 1..Len(Wire) : \E k \in 1..n : off[k - 1] < i /\ i <= off[k]
    BY <1>5, <1>8 DEF Cuts
  <2>2. ASSUME NEW k \in 1..n
        PROVE  /\ off[k] = off[k - 1] + Size(stream[k])
               /\ \A j \in 1..Size(stream[k]) : Wire[off[k - 1] + j] = <<k, j>>
    <3>1. off[k] = off[k - 1] + Len(s[k]) /\ \A j \in 1..Len(s[k]) : Wire[off[k - 1] + j] = s[k][j]
      BY <2>1
    <3>2. Len(s[k]) = Size(stream[k]) /\ \A j \in 1..Size(stream[k]) : s[k][j] = <<k, j>>
      BY <1>4
    <3> QED BY <3>1, <3>2
  <2> QED BY <2>1, <2>2 DEF WireOf
<1> QED BY <1>1, <1>7, <1>9

(* A frame that begins behind p units, and what follows it. *)
FrameFrom(p, f) ==
  /\ p + Size(stream[f]) <= Len(Wire)
  /\ \A j \in 1..Size(stream[f]) : Wire[p + j] = <<f, j>>
  /\ p + Size(stream[f]) < Len(Wire) => f < Len(stream) /\ Wire[p + Size(stream[f]) + 1] = <<f + 1, 1>>
  /\ p + Size(stream[f]) = Len(Wire) => f = Len(stream)

(* A unit that is the first of a frame is followed by the rest of the frame. *)
LEMMA FrameAt ==
  ASSUME stream \in Seq(FrameTypes), NEW p \in Nat, p < Len(Wire), Wire[p + 1][2] = 1
  PROVE  \E f \in 1..Len(stream) : Wire[p + 1] = <<f, 1>> /\ FrameFrom(p, f)
<1>1. PICK n \in Nat : n = Len(stream)
  OBVIOUS
<1>2. PICK off : Wire \in Seq(Nat \X Nat) /\ WireOf(off, n)
  BY <1>1, WireCuts
<1>3. PICK m \in Nat : m = Len(Wire)
  BY <1>2
<1>4. /\ off \in [0..n -> 0..m] /\ off[0] = 0 /\ off[n] = m
      /\ \A k \in 1..n : /\ off[k] = off[k - 1] + Size(stream[k])
                         /\ \A j \in 1..Size(stream[k]) : Wire[off[k - 1] + j] = <<k, j>>
      /\ \A i \in 1..m : \E k \in 1..n : off[k - 1] < i /\ i <= off[k]
  BY <1>2, <1>3 DEF WireOf
<1>5. ASSUME NEW k \in 1..n PROVE Size(stream[k]) \in Nat /\ Size(stream[k]) >= 3
  <2>1. stream[k] \in FrameTypes
    BY <1>1
  <2>2. /\ HeaderLen(stream[k]) \in 3..4 /\ Size(stream[k]) \in Nat
        /\ Size(stream[k]) >= HeaderLen(stream[k])
    BY <2>1, FrameParts
  <2> QED BY <2>2
<1>6. p + 1 \in 1..m
  BY <1>3
<1>7. PICK f \in 1..n : off[f - 1] < p + 1 /\ p + 1 <= off[f]
  BY <1>4, <1>6
<1>8. f - 1 \in 0..n /\ f \in 0..n
  OBVIOUS
<1>9. PICK a \in 0..m : a = off[f - 1]
  BY <1>4, <1>8
<1>10. PICK z \in Nat : z = Size(stream[f]) /\ z >= 3
  BY <1>5
<1>11. a + z = off[f] /\ a + z <= m /\ \A j \in 1..z : Wire[a + j] = <<f, j>>
  <2>1. /\ off[f] = off[f - 1] + Size(stream[f])
        /\ \A j \in 1..Size(stream[f]) : Wire[off[f - 1] + j] = <<f, j>>
    BY <1>4
  <2>2. a + z = off[f]
    BY <1>9, <1>10, <2>1, Zenon
  <2>3. \A j \in 1..z : Wire[a + j] = <<f, j>>
    BY <1>9, <1>10, <2>1, Zenon
  <2>4. off[f] \in 0..m
    BY <1>4, <1>8
  <2>5. a + z <= m
    BY <2>2, <2>4
  <2> QED BY <2>2, <2>3, <2>5, Zenon
<1>12. PICK j \in 1..z : p + 1 = a + j
  <2>1. a <= p /\ p + 1 <= a + z
    BY <1>7, <1>9, <1>11
  <2>2. (p + 1) - a \in 1..z /\ p + 1 = a + ((p + 1) - a)
    BY <2>1
  <2> QED BY <2>2
<1>13. Wire[p + 1] = <<f, j>>
  BY <1>11, <1>12
<1>14. j = 1 /\ p = a
  <2>1. j = 1
    BY <1>13
  <2> QED BY <1>12, <2>1
<1>15. ASSUME f < n PROVE a + z < m /\ Wire[a + z + 1] = <<f + 1, 1>>
  <2>1. f + 1 \in 1..n /\ (f + 1) - 1 = f /\ f + 1 \in 0..n
    BY <1>15
  <2>2. off[f + 1] = off[f] + Size(stream[f + 1]) /\ Size(stream[f + 1]) \in Nat /\ Size(stream[f + 1]) >= 3
    BY <1>4, <1>5, <2>1
  <2>3. off[f + 1] \in 0..m
    BY <1>4, <2>1
  <2>4. 1 \in 1..Size(stream[f + 1])
    BY <2>2
  <2>5. Wire[off[f] + 1] = <<f + 1, 1>>
    <3>1. \A i \in 1..Size(stream[f + 1]) : Wire[off[(f + 1) - 1] + i] = <<f + 1, i>>
      BY <1>4, <2>1
    <3>2. \A i \in 1..Size(stream[f + 1]) : Wire[off[f] + i] = <<f + 1, i>>
      BY <2>1, <3>1, SMTT(30)
    <3> QED BY <2>4, <3>2
  <2>6. a + z < m
    BY <1>11, <2>2, <2>3, SMTT(30)
  <2>7. off[f] + 1 = a + z + 1
    BY <1>11
  <2> QED BY <2>5, <2>6, <2>7
<1>16. f = n => a + z = m
  BY <1>4, <1>11
<1>17. FrameFrom(p, f)
  BY <1>1, <1>3, <1>10, <1>11, <1>14, <1>15, <1>16, SMTT(30) DEF FrameFrom
<1> QED BY <1>1, <1>13, <1>14, <1>17

(* The stream begins with the first frame. *)
LEMMA WireBegins ==
  ASSUME stream \in Seq(FrameTypes)
  PROVE  /\ Len(Wire) > 0 => Wire[1] = <<1, 1>>
         /\ Len(Wire) = 0 => Len(stream) = 0
<1>1. PICK n \in Nat : n = Len(stream)
  OBVIOUS
<1>2. PICK off : Wire \in Seq(Nat \X Nat) /\ WireOf(off, n)
  BY <1>1, WireCuts
<1>3. CASE n = 0
  <2>1. Len(Wire) = 0
    BY <1>2, <1>3 DEF WireOf
  <2> QED BY <1>1, <1>3, <2>1
<1>4. CASE n # 0
  <2>1. 1 \in 1..n /\ 1 - 1 = 0 /\ stream[1] \in FrameTypes
    BY <1>1, <1>4
  <2>2. Size(stream[1]) \in Nat /\ Size(stream[1]) >= 3 /\ 1 \in 1..Size(stream[1])
    BY <2>1, FrameParts
  <2>3. off[0] = 0 /\ Wire[off[0] + 1] = <<1, 1>> /\ off[1] = off[0] + Size(stream[1])
    BY <1>2, <2>1, <2>2 DEF WireOf
  <2>4. off[1] \in 0..Len(Wire) /\ Len(Wire) \in Nat
    BY <1>2, <2>1 DEF WireOf
  <2> QED BY <2>2, <2>3, <2>4
<1> QED BY <1>3, <1>4

(* Every unit belongs to a frame of the stream. *)
LEMMA UnitsOfFrames ==
  ASSUME stream \in Seq(FrameTypes), NEW x \in Range(Wire)
  PROVE  x[1] \in 1..Len(stream) /\ stream[x[1]] \in FrameTypes /\ x[2] \in Nat
<1>1. PICK n \in Nat : n = Len(stream)
  OBVIOUS
<1>2. PICK off : Wire \in Seq(Nat \X Nat) /\ WireOf(off, n)
  BY <1>1, WireCuts
<1>3. PICK m \in Nat : m = Len(Wire)
  BY <1>2
<1>4. PICK i \in 1..m : x = Wire[i]
  BY <1>2, <1>3 DEF Range
<1>5. PICK f \in 1..n : off[f - 1] < i /\ i <= off[f]
  BY <1>2, <1>3, <1>4 DEF WireOf
<1>6. f - 1 \in 0..n /\ stream[f] \in FrameTypes
  BY <1>1
<1>7. PICK a \in 0..m : a = off[f - 1]
  BY <1>2, <1>3, <1>6 DEF WireOf
<1>8. PICK z \in Nat : z = Size(stream[f])
  BY <1>6, FrameParts
<1>9. off[f] = a + z /\ \A j \in 1..z : Wire[a + j] = <<f, j>>
  BY <1>2, <1>7, <1>8 DEF WireOf
<1>10. i - a \in 1..z /\ i = a + (i - a)
  BY <1>5, <1>7, <1>9
<1>11. x = <<f, i - a>>
  BY <1>4, <1>9, <1>10
<1> QED BY <1>1, <1>6, <1>10, <1>11

-----------------------------------------------------------------------------
(* WebSocket: the invariant. *)

(* What has arrived and was not handled: onFrame's buffer, or partialBuf between reads. *)
Pending == IF looping THEN buf ELSE partialBuf

(* q is what follows the first p units of the stream up to the a-th, and begins with a frame. *)
Lies(q, p, a) ==
  /\ Len(q) = a - p
  /\ \A i \in 1..Len(q) : q[i] = Wire[p + i]
  /\ p < Len(Wire) => Wire[p + 1][2] = 1

(* The units that onFrame needs to handle or to refuse a frame. *)
Needed(t) == IF t.head = "ok" THEN Size(t) ELSE Decisive(t)

WSFlags == upgraded \in BOOLEAN /\ closed \in BOOLEAN /\ looping \in BOOLEAN

WSTypes == /\ stream \in Seq(FrameTypes)
           /\ arrived \in 0..Len(Wire)
           /\ alive \in {"up", "refused", "gone"}
           /\ buf \in Seq(Range(Wire)) /\ partialBuf \in Seq(Range(Wire))
           /\ cont \in Seq((DOMAIN stream) \X {"plain", "masked"})

(* onFrame and partialBuf take turns, and nothing was read before the upgrade. *)
Turns == /\ looping \/ buf = <<>>
         /\ looping => upgraded /\ partialBuf = <<>>
         /\ ~upgraded => arrived = 0 /\ partialBuf = <<>> /\ ~closed /\ cont = <<>>

(* Until a close was received, what is pending begins with a frame, wherever reads cut the
   stream; between reads it is not enough for the frame. *)
FramesInPlace ==
  ~closed => /\ \E p \in 0..arrived : Lies(Pending, p, arrived)
             /\ ~looping /\ partialBuf # <<>> =>
                  Len(partialBuf) < Needed(stream[partialBuf[1][1]])

WSInv == WSFlags /\ WSTypes /\ Turns /\ FramesInPlace

(* The end of a sequence. *)
LEMMA Dropped ==
  ASSUME NEW U, NEW q \in Seq(U), NEW n \in Nat, NEW m \in Nat, m <= Len(q), n <= m
  PROVE  /\ SubSeq(q, n + 1, m) \in Seq(U) /\ Len(SubSeq(q, n + 1, m)) = m - n
         /\ \A i \in 1..(m - n) : SubSeq(q, n + 1, m)[i] = q[n + i]
<1>1. PICK l \in Nat : l = Len(q)
  OBVIOUS
<1>2. PICK r : r = SubSeq(q, n + 1, m)
  OBVIOUS
<1>3. r = [i \in 1..(m - n) |-> q[n + i]]
  <2>1. r = [i \in 1..(m - (n + 1) + 1) |-> q[i + (n + 1) - 1]]
    BY <1>2
  <2>2. m - (n + 1) + 1 = m - n
    OBVIOUS
  <2>3. \A i \in 1..(m - n) : i + (n + 1) - 1 = n + i
    OBVIOUS
  <2> QED BY <2>1, <2>2, <2>3
<1>4. m - n \in Nat /\ \A i \in 1..(m - n) : n + i \in 1..l
  BY <1>1
<1>5. r \in [1..(m - n) -> U]
  BY <1>1, <1>3, <1>4
<1>6. r \in Seq(U) /\ Len(r) = m - n
  BY <1>4, <1>5
<1> QED BY <1>2, <1>3, <1>6

(* A round of onFrame's loop: the frame that the buffer starts with, and until a close, where
   it lies in the stream. *)
LEMMA RoundFacts ==
  ASSUME WSInv, looping, buf # <<>>
  PROVE  /\ F \in 1..Len(stream) /\ F \in DOMAIN stream /\ T \in FrameTypes
         /\ Len(buf) \in Nat \ {0} /\ Len(Wire) \in Nat /\ arrived \in Nat
         /\ upgraded /\ partialBuf = <<>> /\ Pending = buf
         /\ ~closed => /\ buf[1][2] = 1
                       /\ \E p \in 0..arrived : /\ Lies(buf, p, arrived) /\ p < arrived
                                                /\ FrameFrom(p, F)
<1>1. /\ stream \in Seq(FrameTypes) /\ buf \in Seq(Range(Wire)) /\ arrived \in 0..Len(Wire)
      /\ upgraded /\ partialBuf = <<>> /\ Pending = buf
  BY DEF WSInv, WSTypes, Turns, Pending
<1>2. Len(buf) \in Nat \ {0} /\ buf[1] \in Range(Wire)
  BY <1>1
<1>3. F \in 1..Len(stream) /\ T \in FrameTypes
  BY <1>1, <1>2, UnitsOfFrames DEF F, T
<1>4. Len(Wire) \in Nat
  BY <1>1, WireCuts
<1>5. arrived \in Nat /\ F \in DOMAIN stream
  BY <1>1, <1>3, <1>4
<1>6. ASSUME ~closed
      PROVE  /\ buf[1][2] = 1
             /\ \E p \in 0..arrived : /\ Lies(buf, p, arrived) /\ p < arrived
                                      /\ FrameFrom(p, F)
  <2>1. PICK p \in 0..arrived : Lies(buf, p, arrived)
    BY <1>1, <1>6 DEF WSInv, FramesInPlace
  <2>2. Len(buf) = arrived - p /\ p < arrived /\ 1 \in 1..Len(buf)
    BY <1>2, <1>5, <2>1 DEF Lies
  <2>3. buf[1] = Wire[p + 1] /\ p < Len(Wire) /\ Wire[p + 1][2] = 1
    BY <1>1, <1>4, <1>5, <2>1, <2>2 DEF Lies
  <2>4. PICK f \in 1..Len(stream) : Wire[p + 1] = <<f, 1>> /\ FrameFrom(p, f)
    BY <1>1, <1>5, <2>3, FrameAt
  <2>5. F = f
    BY <2>3, <2>4 DEF F
  <2> QED BY <2>1, <2>2, <2>3, <2>4, <2>5
<1> QED BY <1>1, <1>2, <1>3, <1>4, <1>5, <1>6

(* What parseFrameHeader and the test of the payload's length find out. *)
LEMMA HeaderFacts ==
  ASSUME WSInv, looping, buf # <<>>
  PROVE  /\ Whole => T.head = "ok" /\ Size(T) <= Len(buf)
         /\ ParseFrameHeader = "refused" => T.head # "ok"
         /\ ParseFrameHeader = "partial" \/ (ParseFrameHeader = "header" /\ ~Whole)
              => Len(buf) < Needed(T)
<1>1. PICK l \in Nat : l = Len(buf)
  BY RoundFacts
<1>2. PICK t \in FrameTypes : t = T
  BY RoundFacts
<1>3. PICK d \in Nat : d = Decisive(t)
  BY FrameParts
<1>4. PICK h \in Nat : h = HeaderLen(t)
  BY FrameParts
<1>5. PICK c \in Nat : c = t.len
  BY FrameParts
<1>6. Size(t) = h + c /\ (t.head = "ok" => d = h) /\ (t.head # "ok" => Needed(t) = d)
      /\ (t.head = "ok" => Needed(t) = h + c)
  BY <1>3, <1>4, <1>5, FrameParts DEF Needed
<1>7. ParseFrameHeader = CASE l < d                     -> "partial"
                           [] l >= d /\ t.head # "ok"   -> "refused"
                           [] l >= d /\ t.head = "ok"   -> "header"
  BY <1>1, <1>2, <1>3 DEF ParseFrameHeader
<1>8. Whole <=> ParseFrameHeader = "header" /\ l - h >= c
  BY <1>1, <1>2, <1>4, <1>5 DEF Whole
<1>9. CASE l < d
  <2>1. ParseFrameHeader = "partial"
    BY <1>7, <1>9
  <2> QED BY <1>1, <1>2, <1>6, <1>8, <1>9, <2>1
<1>10. CASE l >= d /\ t.head # "ok"
  <2>1. ParseFrameHeader = "refused"
    BY <1>7, <1>10
  <2> QED BY <1>2, <1>8, <1>10, <2>1
<1>11. CASE l >= d /\ t.head = "ok"
  <2>1. ParseFrameHeader = "header"
    BY <1>7, <1>11
  <2> QED BY <1>1, <1>2, <1>6, <1>8, <1>11, <2>1
<1> QED BY <1>9, <1>10, <1>11

-----------------------------------------------------------------------------
(* WebSocket: the invariant holds initially and is kept. *)

LEMMA WSInitInv == WSInit => WSInv
<1> SUFFICES ASSUME WSInit PROVE WSInv
  OBVIOUS
<1>1. stream \in Seq(FrameTypes)
  <2>1. PICK m \in Nat : stream \in [1..m -> FrameTypes]
    BY WebSocketAssumption DEF WSInit, BoundedSeq, SeqOf
  <2> QED BY <2>1
<1>2. Wire \in Seq(Nat \X Nat) /\ Len(Wire) \in Nat
  BY <1>1, WireCuts
<1>3. /\ arrived = 0 /\ upgraded = FALSE /\ closed = FALSE /\ alive = "up"
      /\ looping = FALSE /\ buf = <<>> /\ partialBuf = <<>> /\ cont = <<>>
  BY DEF WSInit
<1>4. WSFlags
  BY <1>3, Zenon DEF WSFlags
<1>5. WSTypes
  BY <1>1, <1>2, <1>3 DEF WSTypes
<1>6. Turns
  BY <1>3 DEF Turns
<1>7. Lies(Pending, 0, arrived)
  <2>1. 0 < Len(Wire) => Wire[1] = <<1, 1>>
    BY <1>1, WireBegins
  <2>2. Pending = <<>>
    BY <1>3 DEF Pending
  <2> QED BY <1>3, <2>1, <2>2 DEF Lies
<1>8. FramesInPlace
  BY <1>3, <1>7 DEF FramesInPlace
<1> QED BY <1>4, <1>5, <1>6, <1>8 DEF WSInv

(* The stream of a connection is what the client sends. *)
LEMMA SameWire == stream' = stream => Wire' = Wire
  BY DEF Wire

(* What is pending after a step lies in the stream as it did, or further on. *)
LEMMA LiesNext ==
  ASSUME stream' = stream, NEW a \in Nat, NEW q, NEW p \in 0..a, Lies(q, p, a),
         Pending' = q, arrived' = a
  PROVE  (\E k \in 0..arrived : Lies(Pending, k, arrived))'
<1>1. Wire' = Wire
  BY SameWire
<1>2. Lies(Pending, p, arrived)'
  BY <1>1 DEF Lies
<1> QED BY <1>2

(* The invariant's parts for a step that leaves the stream alone. *)
LEMMA TypesNext ==
  ASSUME WSInv, stream' = stream, arrived' \in 0..Len(Wire), alive' \in {"up", "refused", "gone"},
         buf' \in Seq(Range(Wire)), partialBuf' \in Seq(Range(Wire)),
         cont' \in Seq((DOMAIN stream) \X {"plain", "masked"})
  PROVE  WSTypes'
<1>1. Wire' = Wire
  BY SameWire
<1>2. stream \in Seq(FrameTypes)
  BY DEF WSInv, WSTypes
<1> QED BY <1>1, <1>2 DEF WSTypes

LEMMA OnUpgradeStep == WSInv /\ OnUpgrade => WSInv'
<1> SUFFICES ASSUME WSInv, OnUpgrade PROVE WSInv'
  OBVIOUS
<1>1. /\ ~upgraded /\ ~looping
      /\ stream' = stream /\ arrived' = arrived /\ closed' = closed /\ looping' = looping
      /\ buf' = buf /\ partialBuf' = partialBuf /\ cont' = cont
  BY DEF OnUpgrade, Waiting
<1>2. upgraded' \in BOOLEAN /\ alive' \in {"up", "refused", "gone"}
  <2>1. CASE upgraded' = TRUE /\ UNCHANGED alive
    BY <2>1 DEF WSInv, WSTypes
  <2>2. CASE alive' = "refused" /\ UNCHANGED upgraded
    BY <2>2, Zenon DEF WSInv, WSFlags
  <2> QED BY <2>1, <2>2 DEF OnUpgrade
<1>3. WSFlags'
  BY <1>1, <1>2, Zenon DEF WSInv, WSFlags
<1>4. WSTypes'
  BY <1>1, <1>2, TypesNext DEF WSInv, WSTypes
<1>5. Turns'
  BY <1>1 DEF WSInv, Turns
<1>6. FramesInPlace'
  <2>1. Wire' = Wire /\ Pending' = Pending
    BY <1>1, SameWire DEF Pending
  <2> QED BY <1>1, <2>1 DEF WSInv, FramesInPlace, Lies
<1> QED BY <1>3, <1>4, <1>5, <1>6 DEF WSInv

LEMMA PeerClosesStep == WSInv /\ PeerCloses => WSInv'
<1> SUFFICES ASSUME WSInv, PeerCloses PROVE WSInv'
  OBVIOUS
<1>1. /\ stream' = stream /\ arrived' = arrived /\ closed' = closed /\ looping' = looping
      /\ buf' = buf /\ partialBuf' = partialBuf /\ cont' = cont /\ upgraded' = upgraded
      /\ alive' = "gone"
  BY DEF PeerCloses
<1>2. WSFlags' /\ Turns'
  BY <1>1 DEF WSInv, WSFlags, Turns
<1>3. WSTypes'
  BY <1>1, TypesNext DEF WSInv, WSTypes
<1>4. FramesInPlace'
  <2>1. Wire' = Wire /\ Pending' = Pending
    BY <1>1, SameWire DEF Pending
  <2> QED BY <1>1, <2>1 DEF WSInv, FramesInPlace, Lies
<1> QED BY <1>2, <1>3, <1>4 DEF WSInv

(* A read continues the stream where the last one ended. *)
LEMMA OnReadStep == WSInv /\ OnRead => WSInv'
<1> SUFFICES ASSUME WSInv, OnRead PROVE WSInv'
  OBVIOUS
<1>1. /\ upgraded /\ ~looping /\ partialBuf' = <<>> /\ looping' = TRUE
      /\ stream' = stream /\ closed' = closed /\ upgraded' = upgraded /\ alive' = alive /\ cont' = cont
  BY DEF OnRead, Waiting
<1>2. stream \in Seq(FrameTypes) /\ arrived \in 0..Len(Wire) /\ partialBuf \in Seq(Range(Wire))
  BY DEF WSInv, WSTypes
<1>3. PICK m \in Nat : m = Len(Wire)
  BY <1>2, WireCuts
<1>4. PICK n \in 1..(m - arrived) : /\ arrived' = arrived + n
                                    /\ buf' = partialBuf \o SubSeq(Wire, arrived + 1, arrived + n)
  BY <1>3 DEF OnRead
<1>5. PICK a \in Nat : a = arrived
  BY <1>2
<1>6. a + n \in 0..m /\ n \in Nat /\ a <= m
  BY <1>2, <1>3, <1>5
<1>7. PICK c : c = SubSeq(Wire, a + 1, a + n)
  OBVIOUS
<1>8. c \in Seq(Range(Wire)) /\ Len(c) = n /\ \A i \in 1..n : c[i] = Wire[a + i]
  <2>1. Wire \in Seq(Range(Wire))
    BY <1>2, WireCuts DEF Range
  <2>2. a <= a + n /\ (a + n) - a = n /\ a + n \in Nat /\ a + n <= Len(Wire)
    BY <1>3, <1>6
  <2> QED BY <1>7, <2>1, <2>2, Dropped
<1>9. buf' = partialBuf \o c /\ buf' \in Seq(Range(Wire))
  BY <1>2, <1>4, <1>5, <1>7, <1>8
<1>10. WSFlags'
  BY <1>1, Zenon DEF WSInv, WSFlags
<1>11. WSTypes'
  <2>1. arrived' \in 0..Len(Wire) /\ partialBuf' \in Seq(Range(Wire))
    BY <1>1, <1>3, <1>4, <1>5, <1>6
  <2>2. alive' \in {"up", "refused", "gone"} /\ cont' \in Seq((DOMAIN stream) \X {"plain", "masked"})
    BY <1>1 DEF WSInv, WSTypes
  <2> QED BY <1>1, <1>9, <2>1, <2>2, TypesNext
<1>12. Turns'
  BY <1>1 DEF Turns
<1>13. ASSUME ~closed PROVE (\E k \in 0..arrived : Lies(Pending, k, arrived))'
  <2>1. PICK p \in 0..arrived : Lies(partialBuf, p, arrived)
    BY <1>1, <1>13 DEF WSInv, FramesInPlace, Pending
  <2>2. PICK l \in Nat : l = Len(partialBuf)
    BY <1>2
  <2>3. /\ l = a - p /\ p \in 0..a /\ \A i \in 1..l : partialBuf[i] = Wire[p + i]
        /\ p < Len(Wire) => Wire[p + 1][2] = 1
    BY <1>5, <2>1, <2>2 DEF Lies
  <2>4. PICK q : q = partialBuf \o c
    OBVIOUS
  <2>5. /\ Len(q) = l + n
        /\ \A i \in 1..(l + n) : q[i] = IF i <= l THEN partialBuf[i] ELSE c[i - l]
    <3>1. /\ Len(q) = Len(partialBuf) + Len(c)
          /\ \A i \in 1..(Len(partialBuf) + Len(c)) :
               q[i] = IF i <= Len(partialBuf) THEN partialBuf[i] ELSE c[i - Len(partialBuf)]
      BY <1>2, <1>8, <2>4, ConcatProperties
    <3> QED BY <1>8, <2>2, <3>1, Zenon
  <2>6. ASSUME NEW i \in 1..(l + n) PROVE q[i] = Wire[p + i]
    <3>1. CASE i <= l
      BY <2>3, <2>5, <3>1
    <3>2. CASE i > l
      <4>1. i - l \in 1..n /\ a + (i - l) = p + i
        BY <2>3, <3>2
      <4>2. c[i - l] = Wire[a + (i - l)]
        BY <1>8, <4>1
      <4> QED BY <2>5, <3>2, <4>1, <4>2
    <3> QED BY <3>1, <3>2
  <2>7. l + n = (a + n) - p /\ p \in 0..(a + n) /\ a + n \in Nat
    BY <1>6, <2>3
  <2>8. Lies(q, p, a + n)
    BY <2>3, <2>5, <2>6, <2>7 DEF Lies
  <2>9. Pending' = q /\ arrived' = a + n
    BY <1>1, <1>4, <1>5, <1>9, <2>4 DEF Pending
  <2> QED BY <1>1, <2>7, <2>8, <2>9, LiesNext
<1>14. FramesInPlace'
  BY <1>1, <1>13 DEF FramesInPlace
<1> QED BY <1>10, <1>11, <1>12, <1>14 DEF WSInv

(* What is kept is less than the frame needs. *)
LEMMA PartialStep == WSInv /\ Partial => WSInv'
<1> SUFFICES ASSUME WSInv, Partial PROVE WSInv'
  OBVIOUS
<1>1. /\ looping /\ buf # <<>> /\ partialBuf' = buf /\ buf' = <<>> /\ looping' = FALSE
      /\ stream' = stream /\ arrived' = arrived /\ upgraded' = upgraded
      /\ alive' = alive /\ closed' = closed /\ cont' = cont
  BY DEF Partial, Aligned, Keep, Kept
<1>2. Len(buf) < Needed(T)
  BY <1>1, HeaderFacts DEF Partial
<1>3. upgraded /\ Pending = buf /\ arrived \in Nat
  BY <1>1, RoundFacts
<1>4. WSFlags'
  BY <1>1, Zenon DEF WSInv, WSFlags
<1>5. WSTypes'
  BY <1>1, TypesNext DEF WSInv, WSTypes
<1>6. Turns'
  BY <1>1, <1>3 DEF Turns
<1>7. ASSUME ~closed PROVE (\E k \in 0..arrived : Lies(Pending, k, arrived))'
  <2>1. PICK p \in 0..arrived : Lies(buf, p, arrived)
    BY <1>3, <1>7 DEF WSInv, FramesInPlace
  <2>2. Pending' = buf
    BY <1>1 DEF Pending
  <2> QED BY <1>1, <1>3, <2>1, <2>2, LiesNext
<1>8. Len(partialBuf') < Needed(stream'[partialBuf'[1][1]])
  BY <1>1, <1>2 DEF T, F
<1>9. Needed(stream[partialBuf[1][1]])' = Needed(stream'[partialBuf'[1][1]])
  BY DEF Needed, Decisive, Size, HeaderLen
<1>10. FramesInPlace'
  BY <1>1, <1>7, <1>8, <1>9 DEF FramesInPlace
<1> QED BY <1>4, <1>5, <1>6, <1>10 DEF WSInv

(* A refusal leaves everything as it is. *)
LEMMA RefusedStep ==
  ASSUME WSInv, Refused, stream' = stream, arrived' = arrived, upgraded' = upgraded
  PROVE  WSInv'
<1>1. /\ closed' = closed /\ looping' = looping /\ buf' = buf /\ partialBuf' = partialBuf
      /\ cont' = cont /\ alive' = "refused"
  BY DEF Refused
<1>2. WSFlags' /\ Turns'
  BY <1>1 DEF WSInv, WSFlags, Turns
<1>3. WSTypes'
  BY <1>1, TypesNext DEF WSInv, WSTypes
<1>4. FramesInPlace'
  <2>1. Wire' = Wire /\ Pending' = Pending
    BY <1>1, SameWire DEF Pending
  <2> QED BY <1>1, <2>1 DEF WSInv, FramesInPlace, Lies
<1> QED BY <1>2, <1>3, <1>4 DEF WSInv

LEMMA LoopEndStep == WSInv /\ LoopEnd => WSInv'
<1> SUFFICES ASSUME WSInv, LoopEnd PROVE WSInv'
  OBVIOUS
<1>1. /\ looping /\ buf = <<>> /\ looping' = FALSE
      /\ stream' = stream /\ arrived' = arrived /\ upgraded' = upgraded /\ buf' = buf
      /\ alive' = alive /\ closed' = closed /\ cont' = cont /\ partialBuf' = partialBuf
  BY DEF LoopEnd
<1>2. upgraded /\ partialBuf = <<>>
  BY <1>1 DEF WSInv, Turns
<1>3. WSFlags'
  BY <1>1, Zenon DEF WSInv, WSFlags
<1>4. WSTypes'
  BY <1>1, TypesNext DEF WSInv, WSTypes
<1>5. Turns'
  BY <1>1, <1>2 DEF Turns
<1>6. FramesInPlace'
  <2>1. Wire' = Wire /\ Pending' = Pending
    BY <1>1, <1>2, SameWire DEF Pending
  <2> QED BY <1>1, <1>2, <2>1 DEF WSInv, FramesInPlace, Lies
<1> QED BY <1>3, <1>4, <1>5, <1>6 DEF WSInv

(* After a close what is found inside a frame may be anything. *)
LEMMA GarbageStep == WSInv /\ Garbage => WSInv'
<1> SUFFICES ASSUME WSInv, Garbage PROVE WSInv'
  OBVIOUS
<1>1. /\ looping /\ buf # <<>> /\ buf[1][2] # 1
      /\ stream' = stream /\ arrived' = arrived /\ upgraded' = upgraded
  BY DEF Garbage
<1>2. closed /\ upgraded /\ partialBuf = <<>>
  BY <1>1, RoundFacts
<1>3. CASE Refused
  BY <1>1, <1>3, RefusedStep
<1>4. CASE Keep
  <2>1. /\ partialBuf' = buf /\ buf' = <<>> /\ looping' = FALSE
        /\ alive' = alive /\ closed' = closed /\ cont' = cont
    BY <1>4 DEF Keep, Kept
  <2>2. WSFlags'
    BY <1>1, <2>1, Zenon DEF WSInv, WSFlags
  <2>3. WSTypes'
    BY <1>1, <2>1, TypesNext DEF WSInv, WSTypes
  <2>4. Turns' /\ FramesInPlace'
    BY <1>1, <1>2, <2>1 DEF Turns, FramesInPlace
  <2> QED BY <2>2, <2>3, <2>4 DEF WSInv
<1>5. CASE /\ \E n \in 1..Len(buf) : buf' = SubSeq(buf, n + 1, Len(buf))
           /\ UNCHANGED <<alive, closed, looping, partialBuf, cont, out>>
  <2>1. buf \in Seq(Range(Wire))
    BY DEF WSInv, WSTypes
  <2>2. PICK n \in 1..Len(buf) : buf' = SubSeq(buf, n + 1, Len(buf))
    BY <1>5
  <2>3. n \in Nat /\ Len(buf) \in Nat /\ n <= Len(buf)
    BY <2>1
  <2>4. buf' \in Seq(Range(Wire))
    BY <2>1, <2>2, <2>3, Dropped
  <2>5. WSFlags'
    BY <1>1, <1>5, Zenon DEF WSInv, WSFlags
  <2>6. WSTypes'
    BY <1>1, <1>5, <2>4, TypesNext DEF WSInv, WSTypes
  <2>7. Turns' /\ FramesInPlace'
    BY <1>1, <1>2, <1>5 DEF Turns, FramesInPlace
  <2> QED BY <2>5, <2>6, <2>7 DEF WSInv
<1> QED BY <1>3, <1>4, <1>5 DEF Garbage

(* The frame that is handled is whole, and what follows it begins with the next frame. *)
LEMMA ConsumedFacts ==
  ASSUME WSInv, looping, buf # <<>>, Whole, Consumed
  PROVE  /\ buf' \in Seq(Range(Wire))
         /\ ~closed => \E p \in 0..arrived : /\ Lies(buf, p, arrived) /\ FrameFrom(p, F)
                                             /\ p + Size(T) \in 0..arrived
                                             /\ Lies(buf', p + Size(T), arrived)
<1>1. PICK l \in Nat : l = Len(buf)
  BY RoundFacts
<1>2. PICK z \in Nat : z = Size(T)
  BY RoundFacts, FrameParts
<1>3. z <= l
  BY <1>1, <1>2, HeaderFacts
<1>4. PICK q : q = buf'
  OBVIOUS
<1>5. buf \in Seq(Range(Wire)) /\ q = SubSeq(buf, z + 1, l)
  BY <1>1, <1>2, <1>4 DEF WSInv, WSTypes, Consumed
<1>6. q \in Seq(Range(Wire)) /\ Len(q) = l - z /\ \A i \in 1..(l - z) : q[i] = buf[z + i]
  BY <1>1, <1>3, <1>5, Dropped
<1>7. ASSUME ~closed
      PROVE  \E p \in 0..arrived : /\ Lies(buf, p, arrived) /\ FrameFrom(p, F)
                                   /\ p + Size(T) \in 0..arrived
                                   /\ Lies(buf', p + Size(T), arrived)
  <2>1. PICK p \in 0..arrived : Lies(buf, p, arrived) /\ FrameFrom(p, F)
    BY <1>7, RoundFacts
  <2>2. PICK a \in Nat : a = arrived
    BY RoundFacts
  <2>3. l = a - p /\ p \in 0..a /\ \A i \in 1..l : buf[i] = Wire[p + i]
    BY <1>1, <2>1, <2>2 DEF Lies
  <2>4. p + z \in 0..a /\ l - z = a - (p + z)
    BY <1>3, <2>3
  <2>5. ASSUME NEW i \in 1..(l - z) PROVE q[i] = Wire[(p + z) + i]
    <3>1. z + i \in 1..l /\ p + (z + i) = (p + z) + i
      BY <1>3, <2>3
    <3>2. buf[z + i] = Wire[p + (z + i)]
      BY <2>3, <3>1
    <3> QED BY <1>6, <3>1, <3>2
  <2>6. p + z < Len(Wire) => Wire[(p + z) + 1][2] = 1
    BY <1>2, <2>1 DEF FrameFrom, T
  <2>7. Lies(q, p + z, a)
    BY <1>6, <2>4, <2>5, <2>6 DEF Lies
  <2> QED BY <1>2, <1>4, <2>1, <2>2, <2>4, <2>7
<1> QED BY <1>4, <1>6, <1>7

(* A frame that is consumed, in a round that goes on. *)
LEMMA ConsumedStep ==
  ASSUME WSInv, looping, buf # <<>>, Whole, Consumed, stream' = stream, arrived' = arrived,
         upgraded' = upgraded, alive' = alive, closed' = closed, looping' = looping,
         partialBuf' = partialBuf, cont' \in Seq((DOMAIN stream) \X {"plain", "masked"})
  PROVE  WSInv'
<1>1. upgraded /\ partialBuf = <<>> /\ arrived \in Nat
  BY RoundFacts
<1>2. WSFlags'
  BY DEF WSInv, WSFlags
<1>3. WSTypes'
  BY ConsumedFacts, TypesNext DEF WSInv, WSTypes
<1>4. Turns'
  BY <1>1 DEF Turns
<1>5. ASSUME ~closed PROVE (\E k \in 0..arrived : Lies(Pending, k, arrived))'
  <2>1. PICK p \in 0..arrived : p + Size(T) \in 0..arrived /\ Lies(buf', p + Size(T), arrived)
    BY <1>5, ConsumedFacts
  <2>2. Pending' = buf'
    BY DEF Pending
  <2> QED BY <1>1, <2>1, <2>2, LiesNext
<1>6. FramesInPlace'
  BY <1>5 DEF FramesInPlace
<1> QED BY <1>2, <1>3, <1>4, <1>6 DEF WSInv

(* What is collected of a message in fragments. *)
LEMMA PayloadFacts ==
  ASSUME WSInv, looping, buf # <<>>
  PROVE  /\ PayloadBuf \in (DOMAIN stream) \X {"plain", "masked"}
         /\ <<PayloadBuf>> \in Seq((DOMAIN stream) \X {"plain", "masked"})
         /\ Append(cont, PayloadBuf) \in Seq((DOMAIN stream) \X {"plain", "masked"})
<1>1. F \in DOMAIN stream
  BY RoundFacts
<1>2. PayloadBuf \in (DOMAIN stream) \X {"plain", "masked"}
  BY <1>1 DEF PayloadBuf
<1>3. cont \in Seq((DOMAIN stream) \X {"plain", "masked"})
  BY DEF WSInv, WSTypes
<1> QED BY <1>2, <1>3

LEMMA HandleFrameStep == WSInv /\ HandleFrame => WSInv'
<1> SUFFICES ASSUME WSInv, HandleFrame PROVE WSInv'
  OBVIOUS
<1> DEFINE C == Seq((DOMAIN stream) \X {"plain", "masked"})
<1>1. /\ looping /\ buf # <<>> /\ Whole
      /\ stream' = stream /\ arrived' = arrived /\ upgraded' = upgraded
  BY DEF HandleFrame, Aligned
<1>2. cont \in C /\ <<>> \in C
  BY DEF WSInv, WSTypes
<1>3. CASE Control /\ UNCHANGED <<alive, partialBuf>>
  BY <1>1, <1>2, <1>3, ConsumedStep DEF Control
<1>4. CASE CloseFrame /\ UNCHANGED <<alive, partialBuf>>
  <2>1. closed' = TRUE /\ looping' = FALSE /\ buf' = <<>> /\ cont' = cont
        /\ alive' = alive /\ partialBuf' = partialBuf
    BY <1>4 DEF CloseFrame
  <2>2. upgraded
    BY <1>1, RoundFacts
  <2>3. WSFlags'
    BY <1>1, <2>1, Zenon DEF WSInv, WSFlags
  <2>4. WSTypes'
    BY <1>1, <2>1, TypesNext DEF WSInv, WSTypes
  <2>5. Turns' /\ FramesInPlace'
    BY <1>1, <2>1, <2>2 DEF Turns, FramesInPlace
  <2> QED BY <2>3, <2>4, <2>5 DEF WSInv
<1>5. CASE FirstFrame /\ UNCHANGED <<alive, partialBuf>>
  <2>1. cont' \in C
    BY <1>1, <1>2, <1>5, PayloadFacts DEF FirstFrame
  <2> QED BY <1>1, <1>5, <2>1, ConsumedStep DEF FirstFrame
<1>6. CASE ContinueFrame /\ UNCHANGED <<alive, partialBuf>>
  <2>1. cont' \in C
    BY <1>1, <1>2, <1>6, PayloadFacts DEF ContinueFrame
  <2> QED BY <1>1, <1>6, <2>1, ConsumedStep DEF ContinueFrame
<1>7. CASE Refused
  BY <1>1, <1>7, RefusedStep
<1> QED BY <1>3, <1>4, <1>5, <1>6, <1>7 DEF HandleFrame

LEMMA WSNextInv == WSInv /\ [WSNext]_wsVars => WSInv'
<1> SUFFICES ASSUME WSInv, [WSNext]_wsVars PROVE WSInv'
  OBVIOUS
<1>1. CASE OnUpgrade
  BY <1>1, OnUpgradeStep
<1>2. CASE OnRead
  BY <1>2, OnReadStep
<1>3. CASE PeerCloses
  BY <1>3, PeerClosesStep
<1>4. CASE Partial
  BY <1>4, PartialStep
<1>5. CASE RefuseHeader
  BY <1>5, RefusedStep DEF RefuseHeader
<1>6. CASE HandleFrame
  BY <1>6, HandleFrameStep
<1>7. CASE Garbage
  BY <1>7, GarbageStep
<1>8. CASE LoopEnd
  BY <1>8, LoopEndStep
<1>9. CASE UNCHANGED wsVars
  <2>1. /\ stream' = stream /\ arrived' = arrived /\ upgraded' = upgraded /\ closed' = closed
        /\ alive' = alive /\ looping' = looping /\ buf' = buf /\ partialBuf' = partialBuf /\ cont' = cont
    BY <1>9 DEF wsVars
  <2>2. Wire' = Wire /\ Pending' = Pending
    BY <2>1, SameWire DEF Pending
  <2>3. WSFlags' /\ Turns'
    BY <2>1 DEF WSInv, WSFlags, Turns
  <2>4. WSTypes'
    BY <2>1, TypesNext DEF WSInv, WSTypes
  <2>5. FramesInPlace'
    BY <2>1, <2>2 DEF WSInv, FramesInPlace, Lies
  <2> QED BY <2>3, <2>4, <2>5 DEF WSInv
<1> QED BY <1>1, <1>2, <1>3, <1>4, <1>5, <1>6, <1>7, <1>8, <1>9 DEF WSNext, OnFrame

(* The invariant says what onFrame owes to a client that waits for an answer. *)
LEMMA WSInvImplies == WSInv => NoFrameWaits
<1> SUFFICES ASSUME WSInv PROVE NoFrameWaits
  OBVIOUS
<1>1. /\ stream \in Seq(FrameTypes) /\ arrived \in 0..Len(Wire)
      /\ buf \in Seq(Range(Wire)) /\ partialBuf \in Seq(Range(Wire))
  BY DEF WSInv, WSTypes
<1>2. PICK m \in Nat : m = Len(Wire)
  BY <1>1, WireCuts
<1>3. WSTypeOK
  <2>1. {upgraded, closed, looping} \subseteq BOOLEAN
    BY Zenon DEF WSInv, WSFlags
  <2>2. {buf, partialBuf} \subseteq Seq(Range(Wire))
    BY <1>1, Zenon
  <2> QED BY <2>1, <2>2 DEF WSInv, WSTypes, WSTypeOK
<1>4. ASSUME Waiting, ~closed, partialBuf # <<>>
      PROVE  LET f == partialBuf[1][1]
             IN /\ partialBuf = [j \in 1..Len(partialBuf) |-> <<f, j>>]
                /\ Len(partialBuf) < IF stream[f].head = "ok" THEN Size(stream[f])
                                                             ELSE Decisive(stream[f])
  <2>1. PICK l \in Nat \ {0} : l = Len(partialBuf)
    BY <1>1, <1>4
  <2>2. PICK a \in 0..m : a = arrived
    BY <1>1, <1>2
  <2>3. PICK p \in 0..a : Lies(partialBuf, p, a)
    BY <1>4, <2>2 DEF WSInv, FramesInPlace, Waiting, Pending
  <2>4. /\ l = a - p /\ p < m /\ \A i \in 1..l : partialBuf[i] = Wire[p + i]
        /\ Wire[p + 1][2] = 1
    BY <1>2, <2>1, <2>2, <2>3 DEF Lies
  <2>5. PICK f \in 1..Len(stream) : Wire[p + 1] = <<f, 1>> /\ FrameFrom(p, f)
    <3>1. p \in Nat /\ p < Len(Wire)
      BY <1>2, <2>2, <2>4
    <3> QED BY <1>1, <2>4, <3>1, FrameAt
  <2>6. partialBuf[1] = <<f, 1>> /\ partialBuf[1][1] = f
    BY <2>4, <2>5
  <2>7. stream[f] \in FrameTypes
    BY <1>1
  <2>8. l < Needed(stream[f])
    BY <1>4, <2>1, <2>6 DEF WSInv, FramesInPlace, Waiting
  <2>9. PICK z \in Nat : z = Size(stream[f]) /\ l <= z
    <3>1. Size(stream[f]) \in Nat /\ Decisive(stream[f]) \in Nat /\ Decisive(stream[f]) <= Size(stream[f])
      BY <2>7, FrameParts
    <3> QED BY <2>8, <3>1 DEF Needed
  <2>10. ASSUME NEW j \in 1..l PROVE partialBuf[j] = <<f, j>>
    <3>1. \A i \in 1..z : Wire[p + i] = <<f, i>>
      BY <2>5, <2>9 DEF FrameFrom
    <3>2. j \in 1..z
      BY <2>1, <2>9
    <3> QED BY <2>4, <3>1, <3>2
  <2>11. partialBuf = [j \in 1..l |-> <<f, j>>]
    <3>1. partialBuf = [j \in 1..l |-> partialBuf[j]]
      BY <1>1, <2>1
    <3> QED BY <2>10, <3>1
  <2> QED BY <2>1, <2>6, <2>8, <2>11 DEF Needed
<1> QED BY <1>3, <1>4 DEF NoFrameWaits

(* However reads cut the stream, no frame that could be handled or refused is left waiting
   when onFrame returns; what waits is the beginning of one frame. *)
THEOREM NoFrameIsLeftWaiting == WSSpec => []NoFrameWaits
  BY WSInitInv, WSNextInv, WSInvImplies, PTL DEF WSSpec

-----------------------------------------------------------------------------
(* WebSocket: the frames are handled one by one.  The frame to be handled next is the one
   that what was not handled, arrived or not, begins with. *)

(* What a concatenation begins with. *)
LEMMA ConcatBegins ==
  ASSUME NEW U, NEW s \in Seq(U), NEW t \in Seq(U)
  PROVE  /\ s \o t \in Seq(U)
         /\ s # <<>> => s \o t # <<>> /\ (s \o t)[1] = s[1]
         /\ s = <<>> => s \o t = t
<1>1. s \o t \in Seq(U) /\ Len(s \o t) = Len(s) + Len(t)
  BY ConcatProperties
<1>2. ASSUME s # <<>> PROVE s \o t # <<>> /\ (s \o t)[1] = s[1]
  <2>1. PICK l \in Nat \ {0} : l = Len(s)
    BY <1>2
  <2>2. PICK k \in Nat : k = Len(t)
    OBVIOUS
  <2>3. 1 \in 1..(l + k) /\ 1 <= l /\ l + k # 0
    BY <2>1, <2>2
  <2>4. (s \o t)[1] = s[1]
    BY <2>1, <2>2, <2>3, ConcatProperties
  <2>5. Len(s \o t) # 0
    BY <1>1, <2>1, <2>2, <2>3
  <2> QED BY <2>4, <2>5
<1> QED BY <1>1, <1>2, ConcatEmptySeq

(* The parts of the stream from the a-th unit on. *)
LEMMA StreamParts ==
  ASSUME WSInv
  PROVE  /\ Wire \in Seq(Range(Wire)) /\ Len(Wire) \in Nat /\ arrived \in 0..Len(Wire)
         /\ buf \in Seq(Range(Wire)) /\ partialBuf \in Seq(Range(Wire))
         /\ SubSeq(Wire, arrived + 1, Len(Wire)) \in Seq(Range(Wire))
         /\ Len(SubSeq(Wire, arrived + 1, Len(Wire))) = Len(Wire) - arrived
         /\ arrived < Len(Wire) => SubSeq(Wire, arrived + 1, Len(Wire))[1] = Wire[arrived + 1]
<1>1. /\ stream \in Seq(FrameTypes) /\ arrived \in 0..Len(Wire)
      /\ buf \in Seq(Range(Wire)) /\ partialBuf \in Seq(Range(Wire))
  BY DEF WSInv, WSTypes
<1>2. Wire \in Seq(Range(Wire))
  BY <1>1, WireCuts DEF Range
<1>3. PICK m \in Nat : m = Len(Wire)
  BY <1>2
<1>4. PICK a \in 0..m : a = arrived
  BY <1>1, <1>3
<1>5. a \in Nat /\ m <= Len(Wire) /\ a <= m
  BY <1>3
<1>6. /\ SubSeq(Wire, a + 1, m) \in Seq(Range(Wire)) /\ Len(SubSeq(Wire, a + 1, m)) = m - a
      /\ \A i \in 1..(m - a) : SubSeq(Wire, a + 1, m)[i] = Wire[a + i]
  BY <1>2, <1>5, Dropped
<1>7. a < m => 1 \in 1..(m - a)
  OBVIOUS
<1> QED BY <1>1, <1>2, <1>3, <1>4, <1>6, <1>7

(* A read moves units from the stream to the buffer. *)
LEMMA OnReadRest == WSInv /\ OnRead => Rest' = Rest
<1> SUFFICES ASSUME WSInv, OnRead PROVE Rest' = Rest
  OBVIOUS
<1>1. /\ ~looping /\ partialBuf' = <<>> /\ stream' = stream
  BY DEF OnRead, Waiting
<1>2. buf = <<>> /\ Wire' = Wire
  BY <1>1, SameWire DEF WSInv, Turns
<1>3. PICK m \in Nat : m = Len(Wire)
  BY StreamParts
<1>4. PICK a \in 0..m : a = arrived
  BY <1>3, StreamParts
<1>5. PICK n \in 1..(m - a) : /\ arrived' = a + n
                              /\ buf' = partialBuf \o SubSeq(Wire, a + 1, a + n)
  BY <1>3, <1>4 DEF OnRead
<1>6. /\ a + 1 \in 1..(m + 1) /\ a + n \in ((a + 1) - 1)..m /\ m \in (a + n)..m
      /\ a \in Nat /\ a + n \in Nat /\ a <= a + n /\ a + n <= m
  OBVIOUS
<1>7. PICK x : x = SubSeq(Wire, a + 1, a + n)
  OBVIOUS
<1>8. PICK y : y = SubSeq(Wire, (a + n) + 1, m)
  OBVIOUS
<1>9. x \in Seq(Range(Wire)) /\ y \in Seq(Range(Wire))
  BY <1>3, <1>6, <1>7, <1>8, StreamParts, Dropped
<1>10. x \o y = SubSeq(Wire, a + 1, m)
  BY <1>3, <1>6, <1>7, <1>8, StreamParts, ConcatAdjacentSubSeq
<1>11. partialBuf \in Seq(Range(Wire)) /\ partialBuf \o x \in Seq(Range(Wire))
  BY <1>9, StreamParts, ConcatProperties
<1>12. Rest' = ((partialBuf \o x) \o <<>>) \o y
  BY <1>1, <1>2, <1>3, <1>5, <1>7, <1>8 DEF Rest
<1>13. (partialBuf \o x) \o <<>> = partialBuf \o x
  BY <1>11, ConcatEmptySeq
<1>14. (partialBuf \o x) \o y = partialBuf \o (x \o y)
  BY <1>9, <1>11, ConcatAssociative
<1>15. Rest = (<<>> \o partialBuf) \o SubSeq(Wire, a + 1, m)
  BY <1>2, <1>3, <1>4 DEF Rest
<1>16. <<>> \o partialBuf = partialBuf
  BY <1>11, ConcatEmptySeq
<1> QED BY <1>10, <1>12, <1>13, <1>14, <1>15, <1>16

(* Keeping what is left of a read loses nothing of it. *)
LEMMA PartialRest == WSInv /\ Partial => Rest' = Rest
<1> SUFFICES ASSUME WSInv, Partial PROVE Rest' = Rest
  OBVIOUS
<1>1. /\ looping /\ buf # <<>> /\ partialBuf' = buf /\ buf' = <<>>
      /\ stream' = stream /\ arrived' = arrived
  BY DEF Partial, Aligned, Keep, Kept
<1>2. partialBuf = <<>> /\ Wire' = Wire
  BY <1>1, RoundFacts, SameWire
<1>3. <<>> \o buf = buf \o <<>>
  BY StreamParts, ConcatEmptySeq
<1> QED BY <1>1, <1>2, <1>3 DEF Rest

(* The frame at the head of onFrame's buffer is the next one. *)
LEMMA NextIsF ==
  ASSUME WSInv, looping, buf # <<>>, ~closed
  PROVE  NextFrame = F /\ F \in 1..Len(stream)
<1>1. partialBuf = <<>> /\ F \in 1..Len(stream)
  BY RoundFacts
<1>2. PICK y : y = SubSeq(Wire, arrived + 1, Len(Wire))
  OBVIOUS
<1>3. buf \in Seq(Range(Wire)) /\ y \in Seq(Range(Wire))
  BY <1>2, StreamParts
<1>4. Rest = buf \o y
  BY <1>1, <1>2, <1>3, ConcatEmptySeq DEF Rest
<1>5. Rest # <<>> /\ Rest[1] = buf[1]
  BY <1>3, <1>4, ConcatBegins
<1> QED BY <1>1, <1>5 DEF NextFrame, F

(* Handling a frame makes the one behind it the next. *)
LEMMA NextIsBehindF ==
  ASSUME WSInv, looping, buf # <<>>, ~closed, Whole, Consumed, stream' = stream,
         arrived' = arrived, closed' = closed, partialBuf' = partialBuf
  PROVE  NextFrame' = F + 1
<1>1. partialBuf' = <<>> /\ Wire' = Wire
  BY RoundFacts, SameWire
<1>2. PICK m \in Nat : m = Len(Wire)
  BY StreamParts
<1>3. PICK a \in 0..m : a = arrived
  BY <1>2, StreamParts
<1>4. PICK z \in Nat : z = Size(T)
  BY RoundFacts, FrameParts
<1>5. PICK q \in Seq(Range(Wire)) : q = buf'
  BY ConsumedFacts
<1>6. PICK p \in 0..a : FrameFrom(p, F) /\ p + z \in 0..a /\ Lies(q, p + z, a)
  BY <1>3, <1>4, <1>5, ConsumedFacts
<1>7. /\ p + z < m => Wire[(p + z) + 1] = <<F + 1, 1>>
      /\ p + z = m => F = Len(stream)
  BY <1>2, <1>4, <1>6 DEF FrameFrom, T
<1>8. PICK y : y = SubSeq(Wire, a + 1, m)
  OBVIOUS
<1>9. y \in Seq(Range(Wire)) /\ Len(y) = m - a /\ (a < m => y[1] = Wire[a + 1])
  BY <1>2, <1>3, <1>8, StreamParts
<1>10. Rest' = q \o y
  <2>1. Rest' = (q \o <<>>) \o y
    BY <1>1, <1>2, <1>3, <1>5, <1>8 DEF Rest
  <2> QED BY <2>1, ConcatEmptySeq
<1>11. Len(q) = a - (p + z) /\ \A i \in 1..Len(q) : q[i] = Wire[(p + z) + i]
  BY <1>6 DEF Lies
<1>12. CASE p + z < a
  <2>1. q # <<>> /\ 1 \in 1..Len(q)
    BY <1>11, <1>12
  <2>2. q[1] = Wire[(p + z) + 1]
    BY <1>11, <2>1
  <2>3. p + z < m
    BY <1>12
  <2>4. Rest' # <<>> /\ Rest'[1] = <<F + 1, 1>>
    BY <1>5, <1>7, <1>9, <1>10, <2>1, <2>2, <2>3, ConcatBegins
  <2> QED BY <2>4 DEF NextFrame
<1>13. CASE p + z = a /\ a < m
  <2>1. q = <<>>
    BY <1>11, <1>13
  <2>2. Rest' = y /\ y # <<>>
    BY <1>9, <1>10, <1>13, <2>1, ConcatBegins
  <2>3. y[1] = <<F + 1, 1>>
    BY <1>7, <1>9, <1>13
  <2> QED BY <2>2, <2>3 DEF NextFrame
<1>14. CASE p + z = a /\ a = m
  <2>1. q = <<>>
    BY <1>11, <1>14
  <2>2. Rest' = y /\ y = <<>>
    BY <1>9, <1>10, <1>14, <2>1, ConcatBegins
  <2> QED BY <1>7, <1>14, <2>2 DEF NextFrame
<1> QED BY <1>6, <1>12, <1>13, <1>14

(* The first frame is the next one to begin with. *)
LEMMA FramesInit == WSInit => Frames!Init
<1> SUFFICES ASSUME WSInit PROVE Frames!Init
  OBVIOUS
<1>1. WSInv
  BY WSInitInv
<1>2. /\ arrived = 0 /\ upgraded = FALSE /\ closed = FALSE /\ alive = "up"
      /\ buf = <<>> /\ partialBuf = <<>> /\ cont = <<>> /\ out = <<>>
  BY DEF WSInit
<1>3. PICK y : y = SubSeq(Wire, arrived + 1, Len(Wire))
  OBVIOUS
<1>4. Rest = y
  <2>1. Rest = (<<>> \o <<>>) \o y
    BY <1>2, <1>3 DEF Rest
  <2>2. y \in Seq(Range(Wire)) /\ <<>> \in Seq(Range(Wire))
    BY <1>1, <1>3, StreamParts
  <2>3. <<>> \o <<>> = <<>> /\ <<>> \o y = y
    BY <2>2, ConcatEmptySeq
  <2> QED BY <2>1, <2>3
<1>5. NextFrame = 1
  <2>1. stream \in Seq(FrameTypes) /\ Len(Wire) \in Nat
    BY <1>1, StreamParts DEF WSInv, WSTypes
  <2>2. y \in Seq(Range(Wire)) /\ Len(y) = Len(Wire) /\ (0 < Len(Wire) => y[1] = Wire[1])
    BY <1>1, <1>2, <1>3, <2>1, StreamParts
  <2>3. CASE Len(Wire) = 0
    <3>1. Len(stream) = 0 /\ y = <<>>
      BY <2>1, <2>2, <2>3, WireBegins
    <3> QED BY <1>4, <3>1 DEF NextFrame
  <2>4. CASE Len(Wire) > 0
    <3>1. y[1] = <<1, 1>> /\ y # <<>>
      BY <2>1, <2>2, <2>4, WireBegins
    <3> QED BY <1>2, <1>4, <3>1 DEF NextFrame
  <2> QED BY <2>1, <2>3, <2>4
<1> QED BY <1>2, <1>5 DEF Frames!Init, Collected, Status

(* A step that changes neither what is left nor what is collected. *)
LEMMA RestStutters ==
  ASSUME Rest' = Rest, stream' = stream, closed' = closed, cont' = cont, out' = out
  PROVE  /\ UNCHANGED <<stream, NextFrame, Collected, out>>
         /\ alive' = alive /\ upgraded' = upgraded => UNCHANGED Status
  BY DEF NextFrame, Collected, Status

(* After a close nothing is answered and nothing collected. *)
LEMMA ClosedStutters ==
  ASSUME closed, closed', stream' = stream, out' = out
  PROVE  /\ UNCHANGED <<stream, NextFrame, Collected, out>>
         /\ alive' = alive => UNCHANGED Status
  BY DEF NextFrame, Collected, Status

LEMMA SameRest ==
  ASSUME stream' = stream, arrived' = arrived, buf' = buf, partialBuf' = partialBuf
  PROVE  Rest' = Rest
  BY SameWire DEF Rest

LEMMA OnUpgradeFrames == WSInv /\ OnUpgrade => Frames!Next
<1> SUFFICES ASSUME WSInv, OnUpgrade PROVE Frames!Next
  OBVIOUS
<1>1. /\ ~upgraded /\ alive = "up" /\ ~closed
      /\ stream' = stream /\ arrived' = arrived /\ closed' = closed
      /\ buf' = buf /\ partialBuf' = partialBuf /\ cont' = cont /\ out' = out
  BY DEF OnUpgrade, Waiting, WSInv, Turns
<1>2. UNCHANGED <<stream, NextFrame, Collected, out>>
  BY <1>1, SameRest, RestStutters
<1>3. Status = "http"
  BY <1>1 DEF Status
<1>4. CASE upgraded' = TRUE /\ UNCHANGED alive
  <2>1. Status' = "open"
    BY <1>1, <1>4 DEF Status
  <2> QED BY <1>2, <1>3, <2>1 DEF Frames!Next, Frames!Upgrade
<1>5. CASE alive' = "refused" /\ UNCHANGED upgraded
  <2>1. Status' = "refused"
    BY <1>5 DEF Status
  <2> QED BY <1>2, <1>3, <2>1 DEF Frames!Next, Frames!GiveUp
<1> QED BY <1>4, <1>5 DEF OnUpgrade

LEMMA PeerClosesFrames == WSInv /\ PeerCloses => Frames!Next
<1> SUFFICES ASSUME WSInv, PeerCloses PROVE Frames!Next
  OBVIOUS
<1>1. /\ alive = "up" /\ alive' = "gone"
      /\ stream' = stream /\ arrived' = arrived /\ closed' = closed
      /\ buf' = buf /\ partialBuf' = partialBuf /\ cont' = cont /\ out' = out
  BY DEF PeerCloses, Waiting
<1>2. UNCHANGED <<stream, NextFrame, Collected, out>>
  BY <1>1, SameRest, RestStutters
<1>3. Status \in {"http", "open", "closing"} /\ Status' = "gone"
  BY <1>1 DEF Status
<1> QED BY <1>2, <1>3 DEF Frames!Next, Frames!GiveUp

(* A frame is refused only if it is not legal or continues nothing; or after a close. *)
LEMMA RefusedFrames ==
  ASSUME WSInv, alive = "up", looping, buf # <<>>, Refused, stream' = stream, arrived' = arrived,
         closed \/ T.head # "ok" \/ (T.op = "cont" /\ cont = <<>>)
  PROVE  Frames!Next
<1>1. /\ closed' = closed /\ buf' = buf /\ partialBuf' = partialBuf /\ cont' = cont /\ out' = out
      /\ alive' = "refused"
  BY DEF Refused
<1>2. UNCHANGED <<stream, NextFrame, Collected, out>>
  BY <1>1, SameRest, RestStutters
<1>3. Status' = "refused" /\ upgraded
  BY <1>1, RoundFacts DEF Status
<1>4. CASE closed
  <2>1. Status = "closing"
    BY <1>4 DEF Status
  <2> QED BY <1>2, <1>3, <2>1 DEF Frames!Next, Frames!GiveUp
<1>5. CASE ~closed
  <2>1. Status = "open" /\ Collected = cont
    BY <1>3, <1>5 DEF Status, Collected
  <2>2. NextFrame = F /\ NextFrame <= Len(stream) /\ stream[NextFrame] = T
    BY <1>5, NextIsF DEF T
  <2>3. Frames!Refuse
    BY <1>2, <1>3, <1>5, <2>1, <2>2 DEF Frames!Refuse, Frames!Ready, Frames!Frame
  <2> QED BY <2>3 DEF Frames!Next
<1> QED BY <1>4, <1>5

LEMMA GarbageFrames == WSInv /\ Garbage => [Frames!Next]_(Frames!vars)
<1> SUFFICES ASSUME WSInv, Garbage PROVE [Frames!Next]_(Frames!vars)
  OBVIOUS
<1>1. /\ looping /\ buf # <<>> /\ buf[1][2] # 1 /\ alive = "up"
      /\ stream' = stream /\ arrived' = arrived /\ upgraded' = upgraded
  BY DEF Garbage
<1>2. closed
  BY <1>1, RoundFacts
<1>3. CASE Refused
  BY <1>1, <1>2, <1>3, RefusedFrames
<1>4. CASE UNCHANGED <<alive, closed, cont, out>>
  BY <1>1, <1>2, <1>4, ClosedStutters DEF Frames!vars
<1> QED BY <1>3, <1>4 DEF Garbage, Keep

(* Both modules count a message's length in the same way. *)
LEMMA SameLength == \A data : Frames!Length(data) = Length(data)
  BY DEF Frames!Length, Length

(* A frame that is whole and consumed is handled as the abstract specification says. *)
LEMMA HandledFrames ==
  ASSUME WSInv, alive = "up", looping, buf # <<>>, Whole, ~closed,
         Control \/ FirstFrame \/ ContinueFrame,
         stream' = stream, arrived' = arrived, upgraded' = upgraded, alive' = alive,
         partialBuf' = partialBuf
  PROVE  Frames!Handle
<1>1. Consumed /\ closed' = closed
  BY DEF Control, FirstFrame, ContinueFrame
<1>2. upgraded /\ T.head = "ok"
  BY RoundFacts, HeaderFacts
<1>3. Status = "open" /\ Status' = "open" /\ Collected = cont /\ Collected' = cont'
  BY <1>1, <1>2 DEF Status, Collected
<1>4. NextFrame = F /\ NextFrame' = F + 1 /\ F <= Len(stream) /\ F \in Nat
  BY <1>1, NextIsF, NextIsBehindF
<1>5. Frames!Frame = T /\ Frames!Payload = PayloadBuf
  BY <1>4 DEF Frames!Frame, Frames!Payload, T, PayloadBuf
<1>6. Frames!Ready /\ UNCHANGED <<stream, Status>>
  BY <1>3, <1>4 DEF Frames!Ready
<1>7. \A data : WriteMessageFrame(data) => Frames!Answer(data)
  BY SameLength DEF WriteMessageFrame, Frames!Answer
<1>8. \A r : WriteControlFrame(r) => out' = Append(out, r)
  BY DEF WriteControlFrame
<1>9. CASE Control
  <2>1. T.op \in {"ping", "pong"} /\ cont' = cont
    BY <1>9 DEF Control
  <2>2. T.op = "ping" => out' = Append(out, <<"pong", F>>)
    BY <1>8, <1>9 DEF Control
  <2>3. T.op = "pong" => out' = out
    BY <1>9 DEF Control
  <2> QED BY <1>2, <1>3, <1>4, <1>5, <1>6, <2>1, <2>2, <2>3 DEF Frames!Handle
<1>10. CASE FirstFrame
  <2>1. /\ T.op = "data"
        /\ T.fin => Frames!Answer(<<PayloadBuf>>) /\ cont' = cont
        /\ ~T.fin => cont' = <<PayloadBuf>> /\ out' = out
    BY <1>7, <1>10 DEF FirstFrame
  <2> QED BY <1>2, <1>3, <1>4, <1>5, <1>6, <2>1 DEF Frames!Handle
<1>11. CASE ContinueFrame
  <2>1. /\ T.op = "cont" /\ cont # <<>>
        /\ T.fin => Frames!Answer(Append(cont, PayloadBuf)) /\ cont' = <<>>
        /\ ~T.fin => cont' = Append(cont, PayloadBuf) /\ out' = out
    BY <1>7, <1>11 DEF ContinueFrame
  <2> QED BY <1>2, <1>3, <1>4, <1>5, <1>6, <2>1 DEF Frames!Handle
<1> QED BY <1>9, <1>10, <1>11

LEMMA HandleFrameFrames == WSInv /\ HandleFrame => [Frames!Next]_(Frames!vars)
<1> SUFFICES ASSUME WSInv, HandleFrame PROVE [Frames!Next]_(Frames!vars)
  OBVIOUS
<1>1. /\ looping /\ buf # <<>> /\ alive = "up" /\ Whole
      /\ stream' = stream /\ arrived' = arrived /\ upgraded' = upgraded
  BY DEF HandleFrame, Aligned
<1>2. CASE T.op = "cont" /\ cont = <<>> /\ Refused
  BY <1>1, <1>2, RefusedFrames
<1>3. CASE /\ closed
           /\ Control \/ CloseFrame \/ FirstFrame \/ ContinueFrame
           /\ UNCHANGED <<alive, partialBuf>>
  <2>1. closed'
    BY <1>3 DEF Control, CloseFrame, FirstFrame, ContinueFrame
  <2>2. out' = out
    BY <1>3 DEF Control, CloseFrame, FirstFrame, ContinueFrame, WriteControlFrame, WriteMessageFrame
  <2> QED BY <1>1, <1>3, <2>1, <2>2, ClosedStutters DEF Frames!vars
<1>4. CASE /\ ~closed
           /\ Control \/ FirstFrame \/ ContinueFrame
           /\ UNCHANGED <<alive, partialBuf>>
  BY <1>1, <1>4, HandledFrames DEF Frames!Next
<1>5. CASE ~closed /\ CloseFrame /\ UNCHANGED <<alive, partialBuf>>
  <2>1. upgraded /\ T.head = "ok" /\ T.op = "close" /\ closed'
    BY <1>1, <1>5, RoundFacts, HeaderFacts DEF CloseFrame
  <2>2. NextFrame = F /\ F <= Len(stream) /\ F \in Nat
    BY <1>1, <1>5, NextIsF
  <2>3. Frames!Frame = T
    BY <2>2 DEF Frames!Frame, T
  <2>4. out' = Append(out, <<"close", F>>)
    BY <1>5 DEF CloseFrame, WriteControlFrame
  <2>5. Status = "open" /\ Status' = "closing"
    BY <1>1, <1>5, <2>1 DEF Status
  <2>6. NextFrame' = Len(stream) + 1 /\ Collected' = <<>>
    BY <1>1, <2>1 DEF NextFrame, Collected
  <2>7. Frames!Close
    BY <1>1, <2>1, <2>2, <2>3, <2>4, <2>5, <2>6 DEF Frames!Close, Frames!Ready
  <2> QED BY <2>7 DEF Frames!Next
<1> QED BY <1>1, <1>2, <1>3, <1>4, <1>5 DEF HandleFrame

(* Every step of the server is a step of the abstract specification, or none. *)
LEMMA FramesNextStep == WSInv /\ [WSNext]_wsVars => [Frames!Next]_(Frames!vars)
<1> SUFFICES ASSUME WSInv, [WSNext]_wsVars PROVE [Frames!Next]_(Frames!vars)
  OBVIOUS
<1>1. CASE OnUpgrade
  BY <1>1, OnUpgradeFrames
<1>2. CASE OnRead
  <2>1. /\ stream' = stream /\ closed' = closed /\ cont' = cont /\ out' = out
        /\ alive' = alive /\ upgraded' = upgraded
    BY <1>2 DEF OnRead
  <2> QED BY <1>2, <2>1, OnReadRest, RestStutters DEF Frames!vars
<1>3. CASE PeerCloses
  BY <1>3, PeerClosesFrames
<1>4. CASE Partial
  <2>1. /\ stream' = stream /\ closed' = closed /\ cont' = cont /\ out' = out
        /\ alive' = alive /\ upgraded' = upgraded
    BY <1>4 DEF Partial, Keep
  <2> QED BY <1>4, <2>1, PartialRest, RestStutters DEF Frames!vars
<1>5. CASE RefuseHeader
  <2>1. /\ alive = "up" /\ looping /\ buf # <<>> /\ Refused /\ stream' = stream /\ arrived' = arrived
        /\ ParseFrameHeader = "refused"
    BY <1>5 DEF RefuseHeader, Aligned
  <2> QED BY <2>1, HeaderFacts, RefusedFrames
<1>6. CASE HandleFrame
  BY <1>6, HandleFrameFrames
<1>7. CASE Garbage
  BY <1>7, GarbageFrames
<1>8. CASE LoopEnd \/ UNCHANGED wsVars
  <2>1. /\ stream' = stream /\ closed' = closed /\ cont' = cont /\ out' = out /\ arrived' = arrived
        /\ alive' = alive /\ upgraded' = upgraded /\ buf' = buf /\ partialBuf' = partialBuf
    BY <1>8 DEF LoopEnd, wsVars
  <2> QED BY <2>1, SameRest, RestStutters DEF Frames!vars
<1> QED BY <1>1, <1>2, <1>3, <1>4, <1>5, <1>6, <1>7, <1>8 DEF WSNext, OnFrame

(* However reads cut the stream and whatever is kept from one to the next, onFrame handles
   the client's frames one by one, in order and whole, refuses none that is legal, and writes
   nothing after its answer to a close: the server implements WsFrames. *)
THEOREM ImplementsFrames == WSSpec => FramesSpec
  BY WSInitInv, WSNextInv, FramesInit, FramesNextStep, PTL DEF WSSpec, FramesSpec, Frames!Spec
=============================================================================
