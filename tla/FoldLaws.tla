------------------------------ MODULE FoldLaws ------------------------------
(***************************************************************************)
(* What a loop over a sequence computes, for a sequence of any length: the *)
(* laws of Through for one step, which may depend on a parameter. A module *)
(* that needs them for a step of its own instantiates this one.            *)
(***************************************************************************)
EXTENDS SeqFold, WellFoundedInduction, TLAPS

CONSTANTS Step(_, _, _),  \* parameter, result so far, next element
          Base(_)         \* parameter: the result for no element

Result(p, seq) == Through(LAMBDA r, x : Step(p, r, x), Base(p), seq)

(* Any natural numbers have a least.                                       *)
LEMMA LeastNumber ==
  ASSUME NEW T, T \subseteq Nat, T # {} PROVE \E n \in T : \A m \in T : n <= m
<1>1. IsWellFoundedOn(OpToRel(<, Nat), Nat)
  BY NatLessThanWellFounded
<1>2. PICK n \in T : \A m \in T : ~(<<m, n>> \in OpToRel(<, Nat))
  BY <1>1, WFMin
<1>3. \A m \in T : ~(m < n)
  BY <1>2 DEF OpToRel
<1> QED BY <1>3

(* Induction, of a set of numbers.                                         *)
LEMMA NumberInduction ==
  ASSUME NEW T, 0 \in T, \A n \in Nat : n \in T => n + 1 \in T
  PROVE  Nat \subseteq T
<1> SUFFICES ASSUME Nat \ T # {} PROVE FALSE
  OBVIOUS
<1>1. PICK n \in Nat \ T : \A m \in Nat \ T : n <= m
  BY LeastNumber
<1>2. n # 0
  BY <1>1
<1>3. n - 1 \in Nat /\ n - 1 \in T
  BY <1>1, <1>2
<1>4. (n - 1) + 1 \in T
  BY <1>3
<1> QED BY <1>1, <1>4

(* Induction, of a set of sequences.                                       *)
LEMMA SequenceInduction ==
  ASSUME NEW S, NEW T, <<>> \in T,
         \A s \in Seq(S), x \in S : s \in T => Append(s, x) \in T
  PROVE  Seq(S) \subseteq T
<1> DEFINE N == {n \in Nat : \A s \in Seq(S) : Len(s) = n => s \in T}
<1>1. 0 \in N
  <2>1. \A s \in Seq(S) : Len(s) = 0 => s = <<>>
    OBVIOUS
  <2> QED BY <2>1
<1>2. ASSUME NEW n \in Nat, n \in N PROVE n + 1 \in N
  <2>1. ASSUME NEW s \in Seq(S), Len(s) = n + 1 PROVE s \in T
    <3> DEFINE front == SubSeq(s, 1, n)
    <3>1. front \in Seq(S) /\ Len(front) = n
      BY <2>1
    <3>2. s[n + 1] \in S /\ s = Append(front, s[n + 1])
      BY <2>1, <3>1
    <3>3. front \in T
      BY <1>2, <3>1
    <3> QED BY <3>1, <3>2, <3>3
  <2> QED BY <2>1
<1> HIDE DEF N
<1>3. Nat \subseteq N
  BY <1>1, <1>2, NumberInduction
<1> QED BY <1>3 DEF N

(* The recursive function that Through reads its result from exists.       *)
IsUpto(p, seq, len, g) ==
  g = [k \in 0..len |-> IF k = 0 THEN Base(p) ELSE Step(p, g[k - 1], seq[k])]

Upto(p, seq) == CHOOSE g : IsUpto(p, seq, Len(seq), g)

LEMMA RecursionDefines ==
  ASSUME NEW p, NEW seq, NEW len \in Nat PROVE \E g : IsUpto(p, seq, len, g)
<1> DEFINE N == {n \in Nat : \E g : IsUpto(p, seq, n, g)}
<1>1. 0 \in N
  <2>1. IsUpto(p, seq, 0, [k \in 0..0 |-> Base(p)])
    BY DEF IsUpto
  <2> QED BY <2>1
<1>2. ASSUME NEW n \in Nat, n \in N PROVE n + 1 \in N
  <2>1. PICK g : IsUpto(p, seq, n, g)
    BY <1>2
  <2> DEFINE h == [k \in 0..n+1 |-> IF k = n + 1 THEN Step(p, g[n], seq[n + 1]) ELSE g[k]]
  <2>2. ASSUME NEW k \in 0..n+1
        PROVE  h[k] = IF k = 0 THEN Base(p) ELSE Step(p, h[k - 1], seq[k])
    <3>1. CASE k = n + 1
      BY <3>1
    <3>2. CASE k \in 0..n
      <4>1. h[k] = g[k] /\ (k # 0 => h[k-1] = g[k-1])
        BY <3>2
      <4>2. g[k] = IF k = 0 THEN Base(p) ELSE Step(p, g[k - 1], seq[k])
        BY <2>1, <3>2 DEF IsUpto
      <4> QED BY <4>1, <4>2
    <3> QED BY <3>1, <3>2
  <2>3. IsUpto(p, seq, n + 1, h)
    BY <2>2 DEF IsUpto
  <2> QED BY <2>3
<1> HIDE DEF N
<1>3. len \in N
  BY <1>1, <1>2, NumberInduction
<1> QED BY <1>3 DEF N

LEMMA UptoIs ==
  ASSUME NEW p, NEW seq, Len(seq) \in Nat
  PROVE  /\ Result(p, seq) = Upto(p, seq)[Len(seq)]
         /\ Upto(p, seq)[0] = Base(p)
         /\ \A k \in 1..Len(seq) : Upto(p, seq)[k] = Step(p, Upto(p, seq)[k - 1], seq[k])
<1>1. Result(p, seq) = Upto(p, seq)[Len(seq)]
  BY DEF Result, Through, Upto, IsUpto
<1>2. IsUpto(p, seq, Len(seq), Upto(p, seq))
  BY RecursionDefines DEF Upto
<1> HIDE DEF Upto
<1>3. \A k \in 0..Len(seq) :
        Upto(p, seq)[k] = IF k = 0 THEN Base(p) ELSE Step(p, Upto(p, seq)[k - 1], seq[k])
  BY <1>2 DEF IsUpto
<1>4. \A k \in 1..Len(seq) : k \in 0..Len(seq) /\ k # 0
  OBVIOUS
<1> QED BY <1>1, <1>3, <1>4

(* The result for no element, and for one more.                            *)
LEMMA ThroughNone == ASSUME NEW p PROVE Result(p, <<>>) = Base(p)
BY UptoIs

LEMMA ThroughOneMore ==
  ASSUME NEW p, NEW S, NEW seq \in Seq(S), NEW x \in S
  PROVE  Result(p, Append(seq, x)) = Step(p, Result(p, seq), x)
<1> DEFINE more == Append(seq, x)
           N == {k \in Nat : k <= Len(seq) => Upto(p, more)[k] = Upto(p, seq)[k]}
<1>1. more \in Seq(S) /\ Len(more) = Len(seq) + 1 /\ more[Len(seq) + 1] = x
      /\ \A k \in 1..Len(seq) : more[k] = seq[k]
  OBVIOUS
<1> HIDE DEF more
<1>2. 0 \in N
  BY <1>1, UptoIs
<1>3. ASSUME NEW k \in Nat, k \in N PROVE k + 1 \in N
  <2>1. ASSUME k + 1 <= Len(seq) PROVE Upto(p, more)[k + 1] = Upto(p, seq)[k + 1]
    <3>1. k + 1 \in 1..Len(seq) /\ k + 1 \in 1..Len(more) /\ (k + 1) - 1 = k
      BY <1>1, <2>1
    <3>2. Upto(p, more)[k + 1] = Step(p, Upto(p, more)[k], more[k + 1])
      BY <1>1, <3>1, UptoIs
    <3>3. Upto(p, seq)[k + 1] = Step(p, Upto(p, seq)[k], seq[k + 1])
      BY <3>1, UptoIs
    <3> QED BY <1>1, <1>3, <2>1, <3>1, <3>2, <3>3
  <2> QED BY <2>1
<1> HIDE DEF N
<1>4. Len(seq) \in N
  BY <1>2, <1>3, NumberInduction
<1>5. Upto(p, more)[Len(seq)] = Upto(p, seq)[Len(seq)]
  BY <1>4 DEF N
<1>6. Upto(p, more)[Len(seq) + 1] = Step(p, Upto(p, more)[Len(seq)], x)
  BY <1>1, UptoIs
<1>7. Result(p, more) = Upto(p, more)[Len(seq) + 1]
  BY <1>1, UptoIs
<1>8. Result(p, seq) = Upto(p, seq)[Len(seq)]
  BY UptoIs
<1> QED BY <1>5, <1>6, <1>7, <1>8 DEF more

(* The same recursion as a loop of len rounds, which may leave some of the *)
(* sequence unread: what it gives for no round, and for one more.          *)
Loop(p, seq, len) == (CHOOSE g : IsUpto(p, seq, len, g))[len]

LEMMA LoopIs ==
  ASSUME NEW p, NEW seq
  PROVE  /\ Loop(p, seq, 0) = Base(p)
         /\ \A len \in Nat : Loop(p, seq, len + 1) = Step(p, Loop(p, seq, len), seq[len + 1])
<1> DEFINE F(len) == CHOOSE g : IsUpto(p, seq, len, g)
<1>1. \A len \in Nat : IsUpto(p, seq, len, F(len))
  BY RecursionDefines
<1> HIDE DEF F
<1>2. \A len \in Nat : \A k \in 0..len :
        F(len)[k] = IF k = 0 THEN Base(p) ELSE Step(p, F(len)[k - 1], seq[k])
  BY <1>1 DEF IsUpto
<1>3. ASSUME NEW len \in Nat PROVE F(len + 1)[len] = F(len)[len]
  <2> DEFINE N == {k \in Nat : k <= len => F(len + 1)[k] = F(len)[k]}
  <2>1. 0 \in N
    BY <1>2
  <2>2. ASSUME NEW k \in Nat, k \in N PROVE k + 1 \in N
    <3>1. ASSUME k + 1 <= len PROVE F(len + 1)[k + 1] = F(len)[k + 1]
      <4>1. /\ k + 1 \in 0..len /\ k + 1 \in 0..(len + 1) /\ len + 1 \in Nat
            /\ k + 1 # 0 /\ (k + 1) - 1 = k
        BY <3>1
      <4>2. F(len + 1)[k + 1] = Step(p, F(len + 1)[k], seq[k + 1])
        BY <1>2, <4>1
      <4>3. F(len)[k + 1] = Step(p, F(len)[k], seq[k + 1])
        BY <1>2, <4>1
      <4> QED BY <2>2, <3>1, <4>2, <4>3
    <3> QED BY <3>1
  <2> HIDE DEF N
  <2>3. len \in N
    BY <2>1, <2>2, NumberInduction
  <2> QED BY <2>3 DEF N
<1>4. F(0)[0] = Base(p)
  BY <1>2
<1>5. ASSUME NEW len \in Nat
      PROVE  F(len + 1)[len + 1] = Step(p, F(len)[len], seq[len + 1])
  <2>1. /\ len + 1 \in 0..(len + 1) /\ len + 1 \in Nat /\ len + 1 # 0 /\ (len + 1) - 1 = len
    OBVIOUS
  <2>2. F(len + 1)[len + 1] = Step(p, F(len + 1)[len], seq[len + 1])
    BY <1>2, <2>1
  <2> QED BY <1>3, <2>2
<1> QED BY <1>4, <1>5 DEF F, Loop

(* A set that the base is in and a step never leaves holds every result.   *)
LEMMA ThroughStaysIn ==
  ASSUME NEW p, NEW S, NEW D, Base(p) \in D,
         \A r \in D, x \in S : Step(p, r, x) \in D
  PROVE  \A seq \in Seq(S) : Result(p, seq) \in D
<1> DEFINE T == {seq \in Seq(S) : Result(p, seq) \in D}
<1>1. <<>> \in T
  BY ThroughNone
<1>2. ASSUME NEW seq \in Seq(S), NEW x \in S, seq \in T PROVE Append(seq, x) \in T
  BY <1>2, ThroughOneMore
<1> HIDE DEF T
<1>3. Seq(S) \subseteq T
  BY <1>1, <1>2, SequenceInduction
<1> QED BY <1>3 DEF T
=============================================================================
