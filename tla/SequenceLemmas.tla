--------------------------- MODULE SequenceLemmas ---------------------------
(***************************************************************************)
(* What the proofs about the links need of sequences: the bytes yet to be  *)
(* read are those that have arrived and, behind them, those under way.     *)
(***************************************************************************)
EXTENDS Integers, Sequences, SequenceTheorems, TLAPS

(* Taking from the front of the second of two sequences what is put at the *)
(* back of the first leaves the bytes in order.                            *)
LEMMA MoveOver ==
    ASSUME NEW S, NEW s \in Seq(S), NEW t \in Seq(S), t # <<>>
    PROVE  Append(s, Head(t)) \o Tail(t) = s \o t
<1>1. Head(t) \in S /\ Tail(t) \in Seq(S) /\ Len(Tail(t)) = Len(t) - 1
      /\ \A i \in 1..Len(Tail(t)) : Tail(t)[i] = t[i + 1]
  BY HeadTailProperties
<1>2. Append(s, Head(t)) \in Seq(S) /\ Len(Append(s, Head(t))) = Len(s) + 1
  BY <1>1
<1> DEFINE a == Append(s, Head(t)) \o Tail(t)
           b == s \o t
<1>3. a \in Seq(S) /\ b \in Seq(S) /\ Len(a) = Len(s) + Len(t) /\ Len(b) = Len(s) + Len(t)
  BY <1>1, <1>2, ConcatProperties
<1>4. ASSUME NEW i \in 1..Len(b) PROVE a[i] = b[i]
  <2>1. CASE i <= Len(s)
    BY <1>1, <1>2, <1>3, <2>1, ConcatProperties
  <2>2. CASE i = Len(s) + 1
    BY <1>1, <1>2, <1>3, <2>2, ConcatProperties
  <2>3. CASE i > Len(s) + 1
    BY <1>1, <1>2, <1>3, <2>3, ConcatProperties
  <2> QED BY <1>3, <2>1, <2>2, <2>3
<1> HIDE DEF a, b
<1>5. a = b BY <1>3, <1>4, SeqEqual
<1> QED BY <1>5 DEF a, b

(* The elements of a concatenation, by their places.                       *)
LEMMA CatIs ==
    ASSUME NEW S, NEW s \in Seq(S), NEW t \in Seq(S)
    PROVE  /\ s \o t \in Seq(S) /\ Len(s \o t) = Len(s) + Len(t)
           /\ Len(s) \in Nat /\ Len(t) \in Nat
           /\ \A i \in 1..Len(s) : (s \o t)[i] = s[i]
           /\ \A i \in 1..Len(t) : (s \o t)[i + Len(s)] = t[i]
           /\ s \o t = <<>> <=> s = <<>> /\ t = <<>>
<1>1. s \o t \in Seq(S) /\ Len(s \o t) = Len(s) + Len(t) /\ Len(s) \in Nat /\ Len(t) \in Nat
  BY ConcatProperties
<1>2. \A i \in 1..Len(s) : (s \o t)[i] = s[i]
  BY ConcatProperties
<1>3. \A i \in 1..Len(t) : (s \o t)[i + Len(s)] = t[i]
  <2> SUFFICES ASSUME NEW i \in 1..Len(t) PROVE (s \o t)[i + Len(s)] = t[i]
    OBVIOUS
  <2>1. i + Len(s) \in 1..(Len(s) + Len(t)) /\ i + Len(s) > Len(s)
    BY <1>1
  <2> QED BY <1>1, <2>1, ConcatProperties
<1>4. s \o t = <<>> <=> s = <<>> /\ t = <<>>
  BY <1>1, EmptySeq
<1> QED BY <1>1, <1>2, <1>3, <1>4

(* What is behind the first n elements.                                    *)
LEMMA AfterN ==
    ASSUME NEW S, NEW s \in Seq(S), NEW n \in Nat, Len(s) >= n
    PROVE  /\ SubSeq(s, n + 1, Len(s)) \in Seq(S) /\ Len(SubSeq(s, n + 1, Len(s))) = Len(s) - n
           /\ \A i \in 1..Len(SubSeq(s, n + 1, Len(s))) : SubSeq(s, n + 1, Len(s))[i] = s[i + n]
<1> DEFINE t == SubSeq(s, n + 1, Len(s))
           m == n + 1
<1>1. Len(s) \in Nat /\ m \in Int /\ n + 1 = m OBVIOUS
<1>2. \A i \in m..Len(s) : s[i] \in S
  <2> SUFFICES ASSUME NEW i \in m..Len(s) PROVE s[i] \in S OBVIOUS
  <2>1. i \in 1..Len(s) BY <1>1
  <2> QED BY <2>1
<1> HIDE DEF m
<1>3. /\ t \in Seq(S)
      /\ Len(t) = IF m <= Len(s) THEN Len(s) - m + 1 ELSE 0
      /\ \A i \in 1..(Len(s) - m + 1) : t[i] = s[m + i - 1]
  BY <1>1, <1>2, SubSeqProperties
<1> HIDE DEF t
<1>4. Len(t) = Len(s) - n
  <2> DEFINE l == Len(s)
             k == Len(t)
  <2>1. n \in Nat /\ l \in Nat /\ l >= n /\ k = (IF m <= l THEN l - m + 1 ELSE 0) /\ m = n + 1
    BY <1>1, <1>3
  <2> HIDE DEF l, k
  <2>2. k = l - n BY ONLY <2>1
  <2> QED BY <2>2 DEF l, k
<1>5. ASSUME NEW i \in 1..Len(t) PROVE t[i] = s[i + n]
  <2>1. i \in 1..(Len(s) - m + 1) /\ m + i - 1 = i + n BY <1>1, <1>4
  <2> QED BY <1>3, <2>1
<1> QED BY <1>1, <1>3, <1>4, <1>5 DEF t

LEMMA AfterTwo ==
    ASSUME NEW S, NEW s \in Seq(S), Len(s) >= 2
    PROVE  /\ SubSeq(s, 3, Len(s)) \in Seq(S) /\ Len(SubSeq(s, 3, Len(s))) = Len(s) - 2
           /\ \A i \in 1..Len(SubSeq(s, 3, Len(s))) : SubSeq(s, 3, Len(s))[i] = s[i + 2]
<1>1. PICK n \in Nat : n = 2 /\ n + 1 = 3 OBVIOUS
<1>2. /\ SubSeq(s, n + 1, Len(s)) \in Seq(S) /\ Len(SubSeq(s, n + 1, Len(s))) = Len(s) - n
      /\ \A i \in 1..Len(SubSeq(s, n + 1, Len(s))) : SubSeq(s, n + 1, Len(s))[i] = s[i + n]
  <2>1. s \in Seq(S) /\ n \in Nat /\ Len(s) >= n BY <1>1
  <2> QED BY ONLY <2>1, AfterN
<1>3. SubSeq(s, n + 1, Len(s)) = SubSeq(s, 3, Len(s)) BY <1>1
<1> QED BY <1>1, <1>2, <1>3

(* Taking from the front of the first of two sequences takes from the      *)
(* front of both.                                                          *)
LEMMA FrontDropped ==
    ASSUME NEW S, NEW a \in Seq(S), NEW b \in Seq(S), NEW c \in Seq(S), NEW n \in Nat,
           Len(c) = Len(a) - n, \A i \in 1..Len(c) : c[i] = a[i + n]
    PROVE  /\ c \o b \in Seq(S) /\ Len(c \o b) = Len(a \o b) - n
           /\ \A i \in 1..Len(c \o b) : i + n \in 1..Len(a \o b) /\ (c \o b)[i] = (a \o b)[i + n]
<1>1. /\ c \o b \in Seq(S) /\ Len(c \o b) = Len(c) + Len(b) /\ Len(c) \in Nat /\ Len(b) \in Nat
      /\ Len(a \o b) = Len(a) + Len(b) /\ Len(a) \in Nat
  <2>1. /\ c \o b \in Seq(S) /\ Len(c \o b) = Len(c) + Len(b) /\ Len(c) \in Nat /\ Len(b) \in Nat
    BY ONLY c \in Seq(S), b \in Seq(S), CatIs
  <2>2. Len(a \o b) = Len(a) + Len(b) /\ Len(a) \in Nat
    BY ONLY a \in Seq(S), b \in Seq(S), CatIs
  <2> QED BY <2>1, <2>2
<1>2. ASSUME NEW i \in 1..Len(c \o b)
      PROVE  i + n \in 1..Len(a \o b) /\ (c \o b)[i] = (a \o b)[i + n]
  <2>1. i + n \in 1..Len(a \o b) /\ i \in Nat BY <1>1
  <2>2. CASE i <= Len(c)
    <3>1. i \in 1..Len(c) /\ i + n \in 1..Len(a) BY <1>1, <2>1, <2>2
    <3>2. (c \o b)[i] = c[i] /\ (a \o b)[i + n] = a[i + n] BY <3>1, CatIs
    <3> QED BY <2>1, <3>1, <3>2
  <2>3. CASE i > Len(c)
    <3> DEFINE k == i - Len(c)
    <3>1. k \in 1..Len(b) /\ i = k + Len(c) /\ i + n = k + Len(a) BY <1>1, <2>3
    <3> HIDE DEF k
    <3>2. (c \o b)[k + Len(c)] = b[k] /\ (a \o b)[k + Len(a)] = b[k] BY <3>1, CatIs
    <3> QED BY <2>1, <3>1, <3>2
  <2> QED BY <2>1, <2>2, <2>3
<1> QED BY <1>1, <1>2
=============================================================================
