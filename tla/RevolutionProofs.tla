-------------------------- MODULE RevolutionProofs --------------------------
(***************************************************************************)
(* For every track, every drive within three per cent and every stream:    *)
(* the separator comes to be in lock and stays there, a revolution between *)
(* index pulses is the track as it was written, one that is joined is the  *)
(* track cut elsewhere, the join being the one the anchors see; and every  *)
(* ring of cells has the same verdict wherever it is cut.                  *)
(***************************************************************************)
EXTENDS Revolution, FiniteSetTheorems, SequenceTheorems, WellFoundedInduction, TLAPS

-----------------------------------------------------------------------------
(* The separator (Pll): a decoder in lock stays in lock, and decodes what  *)
(* was written.                                                            *)

(* Rounding toward zero, by the three divisors submit has.                 *)
LEMMA QuotientBounds ==
    ASSUME NEW a \in Int, NEW b \in {2, 3, 4, 10}
    PROVE  /\ Quotient(a, b) \in Int
           /\ a >= 0 => b * Quotient(a, b) <= a /\ a < b * Quotient(a, b) + b
           /\ a <= 0 => a <= b * Quotient(a, b) /\ b * Quotient(a, b) - b < a
  BY DEF Quotient

(* LockKept: in lock, and fed a delay of two, three or four cells from a   *)
(* drive within three per cent, displaced by up to 150 ns, submit decodes  *)
(* exactly that number of cells and is in lock again, however the delays   *)
(* follow one another (pll.rs, submit).                                    *)
THEOREM LockKept ==
    ASSUME NEW period \in Speeds, NEW gap \in 2..4, NEW shift \in Shifts,
           NEW decoder \in [clock : Int, pending : Int], InLock(decoder, period)
    PROVE  LET r == Submit(decoder, gap * period + shift) IN
             r.cells = gap /\ r.pll \in [clock : Int, pending : Int] /\ InLock(r.pll, period)
<1> DEFINE off == period - decoder.clock
           sum == decoder.pending + (gap * period + shift)
           error == decoder.pending + gap * off + shift
<1>1. /\ period \in Int /\ 1940 <= period /\ period <= 2060
      /\ shift \in Int /\ -150 <= shift /\ shift <= 150
      /\ decoder.clock \in Int /\ decoder.pending \in Int /\ off \in Int
      /\ gap \in {2, 3, 4}
  BY DEF Speeds, Shifts
<1>2. /\ -424 <= decoder.pending /\ decoder.pending <= 424 /\ -92 <= off /\ off <= 92
      /\ -380 <= decoder.pending - 4 * off /\ decoder.pending - 4 * off <= 380
      /\ -966 <= decoder.pending + 8 * off /\ decoder.pending + 8 * off <= 966
  BY <1>1 DEF InLock, Within
<1>3. error \in Int /\ sum \in Int /\ sum = gap * decoder.clock + error
  <2>1. CASE gap = 2 BY <2>1, <1>1
  <2>2. CASE gap = 3 BY <2>2, <1>1
  <2>3. CASE gap = 4 BY <2>3, <1>1
  <2> QED BY <1>1, <2>1, <2>2, <2>3
<1>4. -850 <= error /\ error <= 850
  BY <1>1, <1>2
<1>5. 1848 <= decoder.clock /\ decoder.clock <= 2152
  BY <1>1, <1>2
<1>6. Zeros(decoder.clock, sum) = gap - 1
  BY <1>1, <1>3, <1>4, <1>5 DEF Zeros
<1>7. Error(decoder.clock, sum) = error
  BY <1>1, <1>3, <1>6 DEF Error
<1>8. ~(sum < decoder.clock \div 2)
  BY <1>1, <1>3, <1>4, <1>5
<1> DEFINE part == Quotient(error, gap)
           pull == Quotient(part, 10)
           kept == Quotient(error, 2)
<1>9. Pulled(decoder.clock, sum) = decoder.clock + pull
  BY <1>1, <1>6, <1>7 DEF Pulled
<1>10. /\ kept \in Int
       /\ error >= 0 => 2 * kept <= error /\ error < 2 * kept + 2
       /\ error <= 0 => error <= 2 * kept /\ 2 * kept - 2 < error
  <2>1. 2 \in {2, 3, 4, 10}
    OBVIOUS
  <2> HIDE DEF error
  <2> QED BY <1>3, <2>1, QuotientBounds
<1>11. /\ part \in Int
       /\ error >= 0 => gap * part <= error /\ error < gap * part + gap
       /\ error <= 0 => error <= gap * part /\ gap * part - gap < error
  <2>1. gap \in {2, 3, 4, 10}
    BY <1>1
  <2> HIDE DEF error
  <2>2. CASE gap = 2 BY <2>1, <2>2, <1>3, QuotientBounds
  <2>3. CASE gap = 3 BY <2>1, <2>3, <1>3, QuotientBounds
  <2>4. CASE gap = 4 BY <2>1, <2>4, <1>3, QuotientBounds
  <2> QED BY <1>1, <2>2, <2>3, <2>4
<1>12. /\ pull \in Int
       /\ part >= 0 => 10 * pull <= part /\ part < 10 * pull + 10
       /\ part <= 0 => part <= 10 * pull /\ 10 * pull - 10 < part
  BY <1>11, QuotientBounds
<1> DEFINE next == [clock |-> decoder.clock + pull, pending |-> kept]
<1>13. InLock(next, period)
  <2> DEFINE off2 == off - pull
  <2> SUFFICES /\ -424 <= kept /\ kept <= 424 /\ -92 <= off2 /\ off2 <= 92
               /\ -380 <= kept - 4 * off2 /\ kept - 4 * off2 <= 380
               /\ -966 <= kept + 8 * off2 /\ kept + 8 * off2 <= 966
    BY <1>1, <1>10, <1>12 DEF InLock, Within
  <2> HIDE DEF pull, part, kept
  <2>1. CASE gap = 2
    BY <2>1, <1>1, <1>2, <1>10, <1>11, <1>12
  <2>2. CASE gap = 3
    BY <2>2, <1>1, <1>2, <1>10, <1>11, <1>12
  <2>3. CASE gap = 4
    BY <2>3, <1>1, <1>2, <1>10, <1>11, <1>12
  <2> QED BY <1>1, <2>1, <2>2, <2>3
<1>14. /\ Clamped(decoder.clock + pull) = decoder.clock + pull
       /\ next \in [clock : Int, pending : Int]
  BY <1>1, <1>10, <1>12, <1>13 DEF InLock, Within, Clamped, ClockMin, ClockMax
<1>15. Submit(decoder, gap * period + shift) = [pll |-> next, cells |-> gap]
  BY <1>1, <1>6, <1>7, <1>8, <1>9, <1>14 DEF Submit
<1> QED
  BY <1>13, <1>14, <1>15

-----------------------------------------------------------------------------
(* The join (Join): the join that most of the anchors see is the one that  *)
(* is returned.                                                            *)

(* A total, transitive relation on a finite set has a first element.       *)
LEMMA FirstExists ==
    ASSUME NEW C, IsFiniteSet(C), C # {}, NEW R,
           \A c, d \in C : <<c, d>> \in R \/ <<d, c>> \in R,
           \A c, d, e \in C : <<c, d>> \in R /\ <<d, e>> \in R => <<c, e>> \in R
    PROVE  \E c \in C : \A d \in C : <<c, d>> \in R
<1> DEFINE Upto(c) == {d \in C : <<d, c>> \in R}
           T == {Upto(c) : c \in C}
<1>1. T \subseteq FiniteSubsetsOf(C) /\ T # {}
  <2>1. FiniteSubsetsOf(C) = SUBSET C
    BY FS_FiniteSubsetsOfFinite
  <2>2. \A c \in C : Upto(c) \in SUBSET C
    OBVIOUS
  <2>3. \E c \in C : Upto(c) \in T
    OBVIOUS
  <2>4. \A x \in T : x \in SUBSET C
    BY <2>2
  <2> HIDE DEF T, Upto
  <2> QED BY <2>1, <2>3, <2>4
<1>2. IsWellFoundedOn(StrictSubsetOrdering(C), FiniteSubsetsOf(C))
  BY FS_StrictSubsetOrderingWellFounded
<1>3. \E x \in T : \A y \in T : ~(<<y, x>> \in StrictSubsetOrdering(C))
  <2> HIDE DEF T
  <2> QED BY <1>1, <1>2, WFMin
<1>4. PICK c \in C : \A y \in T : ~(<<y, Upto(c)>> \in StrictSubsetOrdering(C))
  BY <1>3
<1>5. ASSUME NEW d \in C, <<c, d>> \notin R PROVE FALSE
  <2>1. Upto(d) \subseteq Upto(c) /\ c \in Upto(c) /\ c \notin Upto(d)
    BY <1>5
  <2>2. <<Upto(d), Upto(c)>> \in StrictSubsetOrdering(C)
    BY <2>1 DEF StrictSubsetOrdering
  <2> QED BY <2>2, <1>4
<1> QED
  BY <1>5

LEMMA ScoreNat ==
    ASSUME NEW capture, NEW k \in DOMAIN Anchors, NEW c
    PROVE  Score(capture, k, c) \in Nat
<1> DEFINE from == Warmup + Anchors[k]
           window == (from + 1)..(from + Sample)
           same == {i \in window : capture[i] = capture[i + c]}
<1>1. from \in Int /\ Sample \in Int
  BY JoinAssumption
<1>2. IsFiniteSet(window)
  BY <1>1, FS_Interval
<1>3. IsFiniteSet(same)
  BY <1>2, FS_Subset
<1> QED
  BY <1>3, FS_CardinalityType DEF Score

LEMMA AnchorsFinite ==
    /\ IsFiniteSet(DOMAIN Anchors) /\ Cardinality(DOMAIN Anchors) = Len(Anchors)
    /\ Len(Anchors) \in Nat /\ DOMAIN Anchors = 1..Len(Anchors)
<1>1. DOMAIN Anchors = 1..Len(Anchors) /\ Len(Anchors) \in Nat
  BY JoinAssumption
<1>2. /\ IsFiniteSet(1..Len(Anchors))
      /\ Cardinality(1..Len(Anchors)) = IF 1 > Len(Anchors) THEN 0 ELSE Len(Anchors) - 1 + 1
  BY <1>1, FS_Interval
<1> QED
  BY <1>1, <1>2

LEMMA RangeFinite ==
    ASSUME NEW capture, Len(capture) \in Nat
    PROVE  /\ Lower \in Int /\ Upper(capture) \in Int
           /\ IsFiniteSet(Lower..Upper(capture)) /\ Lower..Upper(capture) \subseteq Int
<1>1. Lower \in Int
  BY JoinAssumption DEF Lower
<1>2. Anchors[Len(Anchors)] \in Nat
  BY JoinAssumption
<1>3. Upper(capture) \in Int
  BY <1>2, JoinAssumption DEF Upper, Reach
<1> QED
  BY <1>1, <1>3, FS_Interval

(* The scan of a leader finds a candidate no other is better than.         *)
LEMMA PeakExists ==
    ASSUME NEW capture, Len(capture) \in Nat, Lower..Upper(capture) # {}, NEW k \in DOMAIN Anchors
    PROVE  /\ Peak(capture, k) \in Lower..Upper(capture)
           /\ \A d \in Lower..Upper(capture) : Better(capture, k, Peak(capture, k), d)
<1> DEFINE C == Lower..Upper(capture)
           R == {r \in C \X C : Better(capture, k, r[1], r[2])}
<1>1. IsFiniteSet(C) /\ C \subseteq Int
  BY RangeFinite
<1>2. \A c, d \in C : (<<c, d>> \in R) <=> Better(capture, k, c, d)
  OBVIOUS
<1>3. \A c \in C : Score(capture, k, c) \in Nat
  BY ScoreNat
<1> HIDE DEF C, R
<1>4. ASSUME NEW c \in C, NEW d \in C
      PROVE  <<c, d>> \in R \/ <<d, c>> \in R
  <2>1. c \in Int /\ d \in Int
    BY <1>1
  <2>2. Score(capture, k, c) \in Nat /\ Score(capture, k, d) \in Nat
    BY <1>3
  <2>3. Better(capture, k, c, d) \/ Better(capture, k, d, c)
    BY <2>1, <2>2 DEF Better
  <2> QED BY <1>2, <2>3
<1>5. ASSUME NEW c \in C, NEW d \in C, NEW e \in C, <<c, d>> \in R, <<d, e>> \in R
      PROVE  <<c, e>> \in R
  <2>1. Better(capture, k, c, d) /\ Better(capture, k, d, e)
    BY <1>2, <1>5
  <2>2. c \in Int /\ d \in Int /\ e \in Int
    BY <1>1
  <2>3. Score(capture, k, c) \in Nat /\ Score(capture, k, d) \in Nat /\ Score(capture, k, e) \in Nat
    BY <1>3
  <2>4. Better(capture, k, c, e)
    BY <2>1, <2>2, <2>3 DEF Better
  <2> QED BY <1>2, <2>4
<1>6. \E c \in C : \A d \in C : <<c, d>> \in R
  <2>1. C # {}
    BY DEF C
  <2> QED BY <2>1, <1>1, <1>4, <1>5, FirstExists
<1>7. \E c \in C : \A d \in C : Better(capture, k, c, d)
  BY <1>2, <1>6
<1> QED
  BY <1>7 DEF Peak, C

(* A finite set of numbers has a least one.                               *)
LEMMA LeastExists ==
    ASSUME NEW C, IsFiniteSet(C), C # {}, C \subseteq Int
    PROVE  \E c \in C : \A d \in C : c <= d
<1> DEFINE R == {r \in C \X C : r[1] <= r[2]}
<1>1. \A c, d \in C : (<<c, d>> \in R) <=> c <= d
  OBVIOUS
<1> HIDE DEF R
<1>2. ASSUME NEW c \in C, NEW d \in C
      PROVE  <<c, d>> \in R \/ <<d, c>> \in R
  <2>1. c \in Int /\ d \in Int /\ (c <= d \/ d <= c)
    OBVIOUS
  <2> QED BY <2>1, <1>1
<1>3. ASSUME NEW c \in C, NEW d \in C, NEW e \in C, <<c, d>> \in R, <<d, e>> \in R
      PROVE  <<c, e>> \in R
  <2>1. c \in Int /\ d \in Int /\ e \in Int /\ c <= d /\ d <= e
    BY <1>1, <1>3
  <2> QED BY <2>1, <1>1
<1>4. \E c \in C : \A d \in C : <<c, d>> \in R
  BY <1>2, <1>3, FirstExists
<1> QED
  BY <1>1, <1>4

(* A finite set of numbers has a greatest one.                            *)
LEMMA GreatestExists ==
    ASSUME NEW C, IsFiniteSet(C), C # {}, C \subseteq Int
    PROVE  \E c \in C : \A d \in C : c >= d
<1> DEFINE R == {r \in C \X C : r[1] >= r[2]}
<1>1. \A c, d \in C : (<<c, d>> \in R) <=> c >= d
  OBVIOUS
<1> HIDE DEF R
<1>2. ASSUME NEW c \in C, NEW d \in C
      PROVE  <<c, d>> \in R \/ <<d, c>> \in R
  <2>1. c \in Int /\ d \in Int /\ (c <= d \/ d <= c)
    OBVIOUS
  <2> QED BY <2>1, <1>1
<1>3. ASSUME NEW c \in C, NEW d \in C, NEW e \in C, <<c, d>> \in R, <<d, e>> \in R
      PROVE  <<c, e>> \in R
  <2>1. c \in Int /\ d \in Int /\ e \in Int /\ c >= d /\ d >= e
    BY <1>1, <1>3
  <2> QED BY <2>1, <1>1
<1>4. \E c \in C : \A d \in C : <<c, d>> \in R
  BY <1>2, <1>3, FirstExists
<1> QED
  BY <1>1, <1>4

(* If any leader is believed there is a first one.                         *)
LEMMA FirstLeader ==
    ASSUME NEW capture, \E k \in DOMAIN Anchors : Believed(capture, k)
    PROVE  \E k \in DOMAIN Anchors :
             Believed(capture, k) /\ \A j \in DOMAIN Anchors : Believed(capture, j) => k <= j
<1> DEFINE C == {k \in DOMAIN Anchors : Believed(capture, k)}
<1>1. IsFiniteSet(C) /\ C # {} /\ C \subseteq Int
  BY AnchorsFinite, FS_Subset
<1>2. \E c \in C : \A d \in C : c <= d
  <2> HIDE DEF C
  <2> QED BY <1>1, LeastExists
<1> QED
  BY <1>2

(* JoinFound: a length that most of the anchors see recur, and they see no *)
(* other candidate, is what bits_to_unaligned_revolution cuts the capture  *)
(* at, whatever the remaining anchors see: a damaged patch under a         *)
(* minority of them neither vetoes the join nor moves it.                  *)
THEOREM JoinFound ==
    ASSUME NEW capture \in Seq(BOOLEAN), NEW length, Recurs(capture, length)
    PROVE  Joined(capture) = length
<1> DEFINE C == Lower..Upper(capture)
           Seers == {k \in DOMAIN Anchors :
                       /\ Score(capture, k, length) >= Convincing
                       /\ \A c \in C \ {length} : Score(capture, k, c) < Convincing}
<1>1. /\ ~TooShort(capture) /\ length \in C
      /\ 2 * Cardinality(Seers) > Len(Anchors) /\ Seers \subseteq DOMAIN Anchors
  BY DEF Recurs
<1>2. Len(capture) \in Nat /\ C # {}
  BY <1>1
<1>3. \A k \in DOMAIN Anchors :
        Peak(capture, k) \in C /\ \A d \in C : Better(capture, k, Peak(capture, k), d)
  BY <1>2, PeakExists
<1>4. \A k \in DOMAIN Anchors : \A c \in C : Score(capture, k, c) \in Nat
  BY ScoreNat
<1>5. Convincing \in Nat
  BY JoinAssumption DEF Convincing
<1>6. Cardinality(Seers) \in Nat /\ IsFiniteSet(Seers)
  BY <1>1, AnchorsFinite, FS_Subset, FS_CardinalityType
<1> HIDE DEF C
<1>7. ASSUME NEW k \in DOMAIN Anchors, Believed(capture, k)
      PROVE  Peak(capture, k) = length
  <2> DEFINE A == Agreeing(capture, Peak(capture, k))
  <2>1. A \subseteq DOMAIN Anchors /\ Cardinality(A) * 2 > Len(Anchors)
    BY <1>7 DEF Believed, Agreeing
  <2>2. Cardinality(A) \in Nat
    BY <2>1, AnchorsFinite, FS_Subset, FS_CardinalityType
  <2>3. Cardinality(A) + Cardinality(Seers) > Cardinality(DOMAIN Anchors)
    <3> HIDE DEF A, Seers
    <3> QED BY <1>1, <1>6, <2>1, <2>2, AnchorsFinite
  <2>4. A \cap Seers # {}
    <3> HIDE DEF A, Seers
    <3> QED BY <1>1, <2>1, <2>3, AnchorsFinite, FS_MajoritiesIntersect
  <2>5. PICK j \in Seers : Score(capture, j, Peak(capture, k)) >= Convincing
    BY <2>4 DEF Agreeing
  <2> QED BY <2>5, <1>3, <1>4, <1>5
<1>8. Seers # {}
  <2>1. Len(Anchors) \in Nat
    BY AnchorsFinite
  <2> HIDE DEF Seers
  <2> QED BY <2>1, <1>1, <1>6, FS_EmptySet
<1>9. PICK seer \in Seers : TRUE
  BY <1>8
<1>10. Peak(capture, seer) = length
  BY <1>1, <1>3, <1>4, <1>5, <1>9 DEF Better
<1>11. Believed(capture, seer)
  <2> DEFINE A == Agreeing(capture, length)
  <2>1. Seers \subseteq A /\ A \subseteq DOMAIN Anchors
    BY <1>1 DEF Agreeing
  <2>2. IsFiniteSet(A) /\ Cardinality(A) \in Nat
    BY <2>1, AnchorsFinite, FS_Subset, FS_CardinalityType
  <2>3. Cardinality(Seers) <= Cardinality(A)
    <3> HIDE DEF A, Seers
    <3> QED BY <2>1, <2>2, FS_Subset
  <2>4. Cardinality(A) * 2 > Len(Anchors)
    <3> HIDE DEF A, Seers
    <3> QED BY <1>1, <1>6, <2>2, <2>3, AnchorsFinite
  <2>5. Score(capture, seer, length) >= Convincing
    BY <1>1, <1>9
  <2> QED BY <1>10, <2>4, <2>5 DEF Believed
<1>12. \E k \in DOMAIN Anchors :
         Believed(capture, k) /\ \A j \in DOMAIN Anchors : Believed(capture, j) => k <= j
  BY <1>9, <1>11, FirstLeader
<1>13. Joined(capture) =
         Peak(capture, CHOOSE k \in DOMAIN Anchors :
                Believed(capture, k) /\ \A j \in DOMAIN Anchors : Believed(capture, j) => k <= j)
  BY <1>1, <1>12 DEF Joined
<1> QED
  BY <1>7, <1>12, <1>13

-----------------------------------------------------------------------------
(* Both at work on a stream (Revolution), and rings of cells (Scan).       *)

(* A finite set of numbers has a k-th one, counted from the least.         *)
LEMMA KthExists ==
    ASSUME NEW S, IsFiniteSet(S), S \subseteq Int, NEW k \in 1..Cardinality(S)
    PROVE  \E p \in S : Cardinality({q \in S : q <= p}) = k
<1> DEFINE Upto(p) == {q \in S : q <= p}
           T == {p \in S : Cardinality(Upto(p)) >= k}
<1>1. /\ \A p \in S : IsFiniteSet(Upto(p)) /\ Cardinality(Upto(p)) \in Nat
      /\ k \in Int /\ 1 <= k /\ k <= Cardinality(S) /\ Cardinality(S) \in Nat
  BY FS_Subset, FS_CardinalityType
<1>2. T # {}
  <2>1. S # {}
    BY <1>1, FS_EmptySet
  <2>2. \E p \in S : \A q \in S : p >= q
    BY <2>1, GreatestExists
  <2>3. PICK p \in S : \A q \in S : p >= q
    BY <2>2
  <2>4. Upto(p) = S
    BY <2>3
  <2> QED
    BY <1>1, <2>3, <2>4
<1>3. \E p \in T : \A q \in T : p <= q
  <2>1. T \subseteq Int /\ IsFiniteSet(T)
    BY FS_Subset
  <2> HIDE DEF T
  <2> QED
    BY <1>2, <2>1, LeastExists
<1>4. PICK p \in T : \A q \in T : p <= q
  BY <1>3
<1>5. SUFFICES ASSUME Cardinality(Upto(p)) # k, Cardinality(Upto(p)) >= k PROVE FALSE
  BY <1>4
<1> DEFINE Below == Upto(p) \ {p}
<1>6. IsFiniteSet(Below) /\ Cardinality(Below) >= k /\ Below # {} /\ Below \subseteq S
  <2>1. p \in Upto(p) /\ p \in S
    BY <1>4
  <2>2. IsFiniteSet(Below) /\ Cardinality(Below) = Cardinality(Upto(p)) - 1
    BY <1>1, <2>1, FS_RemoveElement
  <2> QED
    BY <1>1, <1>5, <2>1, <2>2, FS_EmptySet
<1>7. \E q \in Below : \A r \in Below : q >= r
  <2>1. Below \subseteq Int
    BY <1>6
  <2> HIDE DEF Below
  <2> QED
    BY <1>6, <2>1, GreatestExists
<1>8. PICK q \in Below : \A r \in Below : q >= r
  BY <1>7
<1>9. q \in S /\ q \in Int /\ p \in Int /\ q < p
  BY <1>6, <1>8
<1>10. Upto(q) = Below
  <2>1. ASSUME NEW r \in S PROVE r <= q <=> (r <= p /\ r # p)
    <3>1. r \in Int
      OBVIOUS
    <3>2. r <= p /\ r # p => r \in Below
      OBVIOUS
    <3> QED
      BY <1>8, <1>9, <3>1, <3>2
  <2> QED
    BY <2>1
<1>11. q \in T
  BY <1>1, <1>6, <1>9, <1>10
<1> QED
  BY <1>4, <1>9, <1>11

(* What is written are numbers of cells.                                   *)
LEMMA FluxIsInt ==
    ASSUME NEW cells \in Seq(BOOLEAN)
    PROVE  MfmToFlux(cells) \in Seq(Int)
<1> DEFINE S == Transitions(cells)
           p == InOrder(S)
<1>1. Len(cells) \in Nat /\ DOMAIN cells = 1..Len(cells)
  OBVIOUS
<1>2. IsFiniteSet(S) /\ S \subseteq Int /\ Cardinality(S) \in Nat
  <2>1. IsFiniteSet(1..Len(cells)) /\ S \subseteq 1..Len(cells)
    BY <1>1, FS_Interval DEF Transitions
  <2>2. 1..Len(cells) \subseteq Int
    BY <1>1
  <2> HIDE DEF S
  <2>3. IsFiniteSet(S)
    BY <2>1, FS_Subset
  <2> QED
    BY <2>1, <2>2, <2>3, FS_CardinalityType
<1>3. ASSUME NEW j \in 1..Cardinality(S) PROVE p[j] \in Int
  <2> HIDE DEF S
  <2>1. \E q \in S : Cardinality({r \in S : r <= q}) = j
    BY <1>2, KthExists
  <2>2. p[j] = CHOOSE q \in S : Cardinality({r \in S : r <= q}) = j
    BY DEF InOrder
  <2> QED
    BY <1>2, <2>1, <2>2
<1>4. DOMAIN p = 1..Cardinality(S)
  BY DEF InOrder
<1>5. MfmToFlux(cells) = [k \in DOMAIN p |-> p[k] - (IF k = 1 THEN 0 ELSE p[k - 1])]
  BY DEF MfmToFlux
<1> HIDE DEF S, p
<1>6. ASSUME NEW k \in DOMAIN p PROVE p[k] - (IF k = 1 THEN 0 ELSE p[k - 1]) \in Int
  <2>1. k \in 1..Cardinality(S) /\ (k # 1 => k - 1 \in 1..Cardinality(S))
    BY <1>2, <1>4
  <2>2. p[k] \in Int /\ (k # 1 => p[k - 1] \in Int)
    BY <1>3, <2>1
  <2> QED
    BY <2>2
<1>7. MfmToFlux(cells) \in [1..Cardinality(S) -> Int]
  BY <1>4, <1>5, <1>6
<1> QED
  BY <1>2, <1>7, SeqDef

-----------------------------------------------------------------------------
(* The separator and the cells it has given have their types, and what     *)
(* came of an immediate read is what the join made of its cells.           *)
DelayType ==
    /\ cell \in Speeds
    /\ gaps \in Seq(Int) /\ at \in DOMAIN gaps
    /\ carried.cells \in Int /\ cut \in Int
DecoderType ==
    /\ pll \in [clock : Int, pending : Int] /\ pll.clock >= ClockMin
    /\ bits \in Seq(BOOLEAN)
JoinedUp ==
    /\ stopped => mode = "index"
    /\ mode = "immediate" /\ result.kind \in {"revolution", "Protocol"} =>
          result = Unaligned(bits)
ReadInv == DelayType /\ DecoderType /\ JoinedUp

(* What submit gives back, whatever the delay.                             *)
LEMMA SubmitType ==
    ASSUME NEW p \in [clock : Int, pending : Int], p.clock >= ClockMin, NEW delay \in Int
    PROVE  LET r == Submit(p, delay) IN
             /\ r.pll \in [clock : Int, pending : Int] /\ r.pll.clock >= ClockMin
             /\ r.cells \in Int
<1> DEFINE sum == p.pending + delay
<1>1. sum \in Int /\ p.clock \in Int /\ p.clock > 0 /\ p.clock \div 2 \in Int
  BY DEF ClockMin
<1>2. Zeros(p.clock, sum) \in Int
  <2>1. sum - p.clock \div 2 \in Int
    BY <1>1
  <2> HIDE DEF sum
  <2> QED
    BY <1>1, <2>1 DEF Zeros
<1>3. Error(p.clock, sum) \in Int
  BY <1>1, <1>2 DEF Error
<1>4. Quotient(Error(p.clock, sum), 2) \in Int
  BY <1>3, QuotientBounds
<1>5. \A x \in Int : Clamped(x) \in Int /\ Clamped(x) >= ClockMin
  BY DEF Clamped, ClockMin, ClockMax
<1>6. Pulled(p.clock, sum) \in Int
  <2>1. Quotient(ClockCentre - p.clock, 10) \in Int
    BY <1>1, QuotientBounds DEF ClockCentre
  <2>2. CASE Zeros(p.clock, sum) \in 1..3
    <3>1. Zeros(p.clock, sum) + 1 \in {2, 3, 4}
      BY <1>2, <2>2
    <3>2. Quotient(Error(p.clock, sum), Zeros(p.clock, sum) + 1) \in Int
      BY <1>3, <3>1, QuotientBounds
    <3>3. Quotient(Quotient(Error(p.clock, sum), Zeros(p.clock, sum) + 1), 10) \in Int
      BY <3>2, QuotientBounds
    <3> QED
      BY <1>1, <2>2, <3>3 DEF Pulled
  <2>3. CASE Zeros(p.clock, sum) \notin 1..3
    BY <1>1, <2>1, <2>3 DEF Pulled
  <2> QED
    BY <2>2, <2>3
<1> HIDE DEF sum
<1>7. CASE sum < p.clock \div 2
  <2>1. Submit(p, delay) = [pll |-> [p EXCEPT !.pending = sum], cells |-> 0]
    BY <1>7 DEF Submit, sum
  <2> QED
    BY <1>1, <2>1
<1>8. CASE ~(sum < p.clock \div 2)
  <2>1. Submit(p, delay) =
          [pll |-> [clock |-> Clamped(Pulled(p.clock, sum)),
                    pending |-> Quotient(Error(p.clock, sum), 2)],
           cells |-> Zeros(p.clock, sum) + 1]
    BY <1>8 DEF Submit, sum
  <2> QED
    BY <1>2, <1>4, <1>5, <1>6, <2>1
<1> QED
  BY <1>7, <1>8

(* A delay decoded: the decoder's types, and the cells after a join none.  *)
LEMMA DecodedType ==
    ASSUME DecoderType, NEW delay \in Int, NEW index, Decoded(delay, index)
    PROVE  DecoderType'
<1> DEFINE sub == Submit(pll, delay)
           kept == IF index /\ mode = "index" /\ indices = 0 THEN <<>> ELSE bits
           more == IF sub.cells = 0 THEN <<>> ELSE CellsOf(sub.cells)
<1>1. /\ sub.pll \in [clock : Int, pending : Int] /\ sub.pll.clock >= ClockMin
      /\ sub.cells \in Int
  BY SubmitType DEF DecoderType
<1>2. pll' = sub.pll /\ bits' = kept \o more
  BY DEF Decoded
<1> HIDE DEF sub
<1>3. kept \in Seq(BOOLEAN)
  <2>1. <<>> \in Seq(BOOLEAN) /\ bits \in Seq(BOOLEAN)
    BY DEF DecoderType
  <2>2. kept = <<>> \/ kept = bits
    BY Zenon
  <2> HIDE DEF kept
  <2> QED
    BY <2>1, <2>2
<1>4. more \in Seq(BOOLEAN)
  <2>1. CASE sub.cells < 0
    <3>1. CellsOf(sub.cells) \in [1..0 -> BOOLEAN]
      BY <1>1, <2>1 DEF CellsOf
    <3> QED
      BY <3>1, SeqDef
  <2>2. CASE sub.cells >= 0
    <3>1. CellsOf(sub.cells) \in [1..sub.cells -> BOOLEAN] /\ sub.cells \in Nat
      BY <1>1, <2>2 DEF CellsOf
    <3> QED
      BY <3>1, SeqDef
  <2> QED
    BY <1>1, <2>1, <2>2
<1> HIDE DEF kept, more
<1> QED
  BY <1>1, <1>2, <1>3, <1>4 DEF DecoderType

LEMMA ReadInit == Init => ReadInv
<1> SUFFICES ASSUME Init PROVE ReadInv
  OBVIOUS
<1>1. track \in Seq(BOOLEAN) /\ cell \in Speeds
  BY RevolutionAssumption DEF Init
<1>2. gaps \in Seq(Int)
  BY <1>1, FluxIsInt DEF Init
<1>3. at \in DOMAIN gaps /\ cut \in Int /\ mode \in Modes
  BY RevolutionAssumption DEF Init
<1>4. DelayType
  BY <1>1, <1>2, <1>3 DEF DelayType, Init
<1>5. DecoderType
  BY DEF DecoderType, Init, NewPll, ClockCentre, ClockMin
<1>6. JoinedUp
  BY DEF JoinedUp, Init, Without
<1> QED
  BY <1>4, <1>5, <1>6 DEF ReadInv

LEMMA ReadStep == ReadInv /\ [Next]_vars => ReadInv'
<1> SUFFICES ASSUME ReadInv, [Next]_vars PROVE ReadInv'
  OBVIOUS
<1> USE DEF ReadInv
<1>1. gaps[at] \in Int /\ Gap \in Int /\ Following \in DOMAIN gaps
  <2>1. DOMAIN gaps = 1..Len(gaps) /\ Len(gaps) \in Nat /\ at \in 1..Len(gaps)
    BY DEF DelayType
  <2>2. gaps[at] \in Int
    BY <2>1 DEF DelayType
  <2> QED
    BY <2>1, <2>2 DEF DelayType, Gap, Following
<1>2. CASE Miss
  <2>1. DelayType'
    BY <1>1, <1>2 DEF Miss, DelayType, diskVars
  <2>2. DecoderType' /\ JoinedUp'
    BY <1>2 DEF Miss, DecoderType, JoinedUp, Unaligned, Joined, diskVars, decodeVars
  <2> QED
    BY <2>1, <2>2
<1>3. ASSUME NEW shift \in {0} \cup Displacements, Pass(shift) PROVE ReadInv'
  <2> DEFINE delay == Gap * cell + shift - cut
  <2>1. delay \in Int /\ Pending /\ ~stopped /\ Decoded(delay, AtIndex)
    <3>1. cell \in Int /\ cut \in Int /\ shift \in Int
      BY DEF DelayType, Speeds, Displacements
    <3>2. Gap * cell \in Int
      BY <1>1, <3>1
    <3> QED
      BY <1>3, <3>1, <3>2 DEF Pass, Reading
  <2>2. result'.kind \in {"pending", "TrackTooLarge"} /\ stopped' = stopped /\ mode' = mode
    <3>1. result' = Without("TrackTooLarge") \/ result' = result
      BY <2>1, Zenon DEF Decoded
    <3> QED
      BY <1>3, <2>1, <3>1 DEF Pass, Pending, Without, diskVars
  <2>3. DelayType'
    BY <1>1, <1>3 DEF Pass, DelayType, diskVars
  <2>4. DecoderType'
    BY <2>1, DecodedType
  <2>5. JoinedUp'
    BY <2>2 DEF JoinedUp
  <2> QED
    BY <2>3, <2>4, <2>5
<1>4. CASE Stop
  BY <1>4 DEF Stop, DelayType, DecoderType, JoinedUp, Reading, Pending, diskVars, decodeVars
<1>5. CASE AtSecondIndex
  BY <1>5 DEF AtSecondIndex, DelayType, DecoderType, JoinedUp, diskVars, headVars
<1>6. CASE AtEndOfStream
  BY <1>6 DEF AtEndOfStream, DelayType, DecoderType, JoinedUp, diskVars, headVars, decodeVars
<1>7. CASE JoinUp
  BY <1>7 DEF JoinUp, Reading, DelayType, DecoderType, JoinedUp, diskVars, headVars, decodeVars
<1>8. CASE UNCHANGED vars
  BY <1>8 DEF vars, diskVars, headVars, decodeVars, DelayType, DecoderType, JoinedUp
<1> QED
  BY <1>2, <1>3, <1>4, <1>5, <1>6, <1>7, <1>8 DEF Next, Over

LEMMA ReadInvariant == Spec => []ReadInv
  BY ReadInit, ReadStep, PTL DEF Spec

-----------------------------------------------------------------------------
(* AlwaysLocked: StaysLocked for every track, whatever was missed and      *)
(* displaced before: the step LockKept describes is the step Pass takes.   *)
THEOREM AlwaysLocked == Spec => StaysLocked
<1> DEFINE Step == InLock(pll, cell) /\ cut = 0 /\ elapsed' # elapsed /\ Gap \in 2..4
                     => got' = due' /\ InLock(pll', cell)
<1>1. ReadInv /\ [Next]_vars => [Step]_vars
  <2> SUFFICES ASSUME ReadInv, Next, InLock(pll, cell), cut = 0, elapsed' # elapsed,
                      Gap \in 2..4
               PROVE  got' = due' /\ InLock(pll', cell)
    OBVIOUS
  <2>1. PICK shift \in {0} \cup Displacements : Pass(shift)
    BY DEF Next, Over, Miss, Stop, AtSecondIndex, AtEndOfStream, JoinUp, vars, headVars
  <2>2. /\ cell \in Speeds /\ shift \in Shifts /\ Gap \in 2..4
        /\ pll \in [clock : Int, pending : Int]
    BY DEF ReadInv, DelayType, DecoderType, Displacements, Shifts
  <2>3. Decoded(Gap * cell + shift - 0, AtIndex)
    BY <2>1 DEF Pass
  <2>4. Gap * cell + shift - 0 = Gap * cell + shift
    <3>1. Gap \in Int /\ cell \in Int /\ shift \in Int
      BY <2>2 DEF Speeds, Shifts
    <3>2. Gap * cell \in Int
      BY <3>1
    <3> QED
      BY <3>1, <3>2
  <2> DEFINE r == Submit(pll, Gap * cell + shift)
  <2>5. pll' = r.pll /\ got' = r.cells /\ due' = Gap
    BY <2>3, <2>4 DEF Decoded
  <2>6. r.cells = Gap /\ InLock(r.pll, cell)
    BY <2>2, LockKept
  <2> HIDE DEF r
  <2>7. InLock(pll', cell)
    BY <2>5, <2>6
  <2> QED
    BY <2>5, <2>6, <2>7
<1> QED
  BY <1>1, ReadInvariant, PTL DEF Spec, StaysLocked

(* AlwaysJoined: JoinHeld for every capture, nominal length and choice of  *)
(* anchors.                                                                *)
THEOREM AlwaysJoined == Spec => []JoinHeld
<1>1. ReadInv => JoinHeld
  <2> SUFFICES ASSUME ReadInv, mode = "immediate", result.kind \in {"revolution", "Protocol"},
                      NEW length \in Lower..Upper(bits), Recurs(bits, length)
               PROVE  Len(result.bits) = length
    BY DEF JoinHeld
  <2>1. bits \in Seq(BOOLEAN) /\ result = Unaligned(bits)
    BY DEF ReadInv, DecoderType, JoinedUp
  <2>2. Joined(bits) = length
    BY <2>1, JoinFound
  <2>3. CASE length = NoJoin
    BY <2>1, <2>2, <2>3 DEF Unaligned, Without, NoJoin
  <2>4. CASE length # NoJoin
    <3>1. result.bits = SubSeq(bits, 1, length)
      BY <2>1, <2>2, <2>4 DEF Unaligned, Revolution
    <3>2. /\ Lower \in Nat /\ Reach \in Nat /\ Len(bits) \in Nat
          /\ Upper(bits) \in Int /\ Upper(bits) <= Len(bits) - Reach
      <4>1. Anchors[Len(Anchors)] \in Nat
        BY JoinAssumption
      <4>2. Reach \in Nat /\ Lower \in Nat /\ Len(bits) \in Nat
        BY <2>1, <4>1, JoinAssumption DEF Reach, Lower
      <4> QED
        BY <4>2, JoinAssumption DEF Upper
    <3>3. length \in Int /\ 1 <= length /\ length <= Len(bits)
      BY <2>4, <3>2 DEF NoJoin
    <3> QED
      BY <2>1, <3>1, <3>3
  <2> QED
    BY <2>3, <2>4
<1> QED
  BY <1>1, ReadInvariant, PTL

-----------------------------------------------------------------------------
(* How the separator comes to be in lock.                                  *)

(* What submit makes of an error: the half that stays pending, and the     *)
(* tenth of a cell's share that pulls the clock.                           *)
Rounded(error, gap, part, pull, kept) ==
    /\ error >= 0 => 2 * kept <= error /\ error < 2 * kept + 2
    /\ error <= 0 => error <= 2 * kept /\ 2 * kept - 2 < error
    /\ error >= 0 => gap * part <= error /\ error < gap * part + gap
    /\ error <= 0 => error <= gap * part /\ gap * part - gap < error
    /\ part >= 0 => 10 * pull <= part /\ part < 10 * pull + 10
    /\ part <= 0 => part <= 10 * pull /\ 10 * pull - 10 < part
LEMMA RoundedQuotients ==
    ASSUME NEW error \in Int, NEW gap \in {2, 3, 4}
    PROVE  /\ Quotient(error, gap) \in Int /\ Quotient(Quotient(error, gap), 10) \in Int
           /\ Quotient(error, 2) \in Int
           /\ Rounded(error, gap, Quotient(error, gap), Quotient(Quotient(error, gap), 10),
                      Quotient(error, 2))
<1>1. PICK part \in Int : /\ part = Quotient(error, gap)
                          /\ error >= 0 => gap * part <= error /\ error < gap * part + gap
                          /\ error <= 0 => error <= gap * part /\ gap * part - gap < error
  BY QuotientBounds
<1>2. PICK pull \in Int : /\ pull = Quotient(part, 10)
                          /\ part >= 0 => 10 * pull <= part /\ part < 10 * pull + 10
                          /\ part <= 0 => part <= 10 * pull /\ 10 * pull - 10 < part
  BY QuotientBounds
<1>3. PICK kept \in Int : /\ kept = Quotient(error, 2)
                          /\ error >= 0 => 2 * kept <= error /\ error < 2 * kept + 2
                          /\ error <= 0 => error <= 2 * kept /\ 2 * kept - 2 < error
  BY QuotientBounds
<1> QED BY <1>1, <1>2, <1>3 DEF Rounded

LEMMA Halved ==
    ASSUME NEW error \in Int
    PROVE  /\ Quotient(error, 2) \in Int
           /\ error >= 0 => 2 * Quotient(error, 2) <= error /\ error < 2 * Quotient(error, 2) + 2
           /\ error <= 0 => error <= 2 * Quotient(error, 2) /\ 2 * Quotient(error, 2) - 2 < error
BY DEF Quotient

(* A delay whose error is less than half a cell is decoded to the cells it *)
(* has; half of the error is left pending, and the clock is pulled.        *)
LEMMA SubmitExact ==
    ASSUME NEW delay \in Int, NEW gap \in {2, 3, 4},
           NEW clock \in Int, 1800 <= clock, clock <= 2200, NEW pending \in Int,
           NEW error \in Int, -clock <= 2 * error, 2 * error < clock - 1,
           pending + delay = gap * clock + error
    PROVE  Submit([clock |-> clock, pending |-> pending], delay) =
             [pll |-> [clock |-> Clamped(clock + Quotient(Quotient(error, gap), 10)),
                       pending |-> Quotient(error, 2)],
              cells |-> gap]
<1>1. PICK sum \in Int : sum = pending + delay
  OBVIOUS
<1>2. sum = gap * clock + error BY <1>1
<1>3. Zeros(clock, sum) = gap - 1 /\ ~(sum < clock \div 2)
  BY <1>2 DEF Zeros
<1>4. Error(clock, sum) = error
  <2>1. Error(clock, sum) = sum - gap * clock BY <1>3 DEF Error
  <2>2. gap * clock \in Int OBVIOUS
  <2> QED BY <1>1, <1>2, <2>1, <2>2
<1>5. Pulled(clock, sum) = clock + Quotient(Quotient(error, gap), 10)
  <2>1. Zeros(clock, sum) \in 1..3 /\ Zeros(clock, sum) + 1 = gap BY <1>3
  <2> QED BY <1>4, <2>1 DEF Pulled
<1> DEFINE p == [clock |-> clock, pending |-> pending]
<1>6. p.clock = clock /\ p.pending + delay = sum /\ Zeros(clock, sum) + 1 = gap
  BY <1>1, <1>3
<1> QED BY <1>3, <1>4, <1>5, <1>6 DEF Submit

(* How near to lock it is, in steps.                                       *)
Near(p, period, bounds) ==
    LET off == period - p.clock IN
      /\ Within(p.pending, bounds[1]) /\ Within(off, bounds[2])
      /\ Within(p.pending - 4 * off, bounds[3])
      /\ Within(p.pending + 8 * off, bounds[4])
Bounds ==
    <<<<999, 110, 1240, 1480>>, <<502, 125, 880, 865>>, <<345, 132, 600, 1125>>,
      <<370, 124, 410, 1250>>, <<405, 112, 290, 1240>>, <<415, 100, 210, 1150>>,
      <<400, 88, 175, 1040>>, <<424, 92, 380, 966>>>>

LEMMA OneNearer ==
    ASSUME NEW period \in Speeds, NEW gap \in 2..4, NEW n \in 2..7,
           NEW p \in [clock : Int, pending : Int], Near(p, period, Bounds[n])
    PROVE  LET r == Submit(p, gap * period) IN
             /\ r.cells = gap /\ r.pll \in [clock : Int, pending : Int]
             /\ Near(r.pll, period, Bounds[n + 1])
<1>1. PICK off, pending \in Int :
         off = period - p.clock /\ pending = p.pending
  BY DEF Speeds
<1>2. /\ period \in Int /\ 1940 <= period /\ period <= 2060 /\ gap \in {2, 3, 4}
      /\ p.clock = period - off /\ n \in {2, 3, 4, 5, 6, 7}
      /\ p = [clock |-> p.clock, pending |-> pending]
  BY <1>1 DEF Speeds
<1>3. \/ n = 2 /\ Bounds[n] = <<502, 125, 880, 865>> /\ Bounds[n + 1] = <<345, 132, 600, 1125>>
      \/ n = 3 /\ Bounds[n] = <<345, 132, 600, 1125>> /\ Bounds[n + 1] = <<370, 124, 410, 1250>>
      \/ n = 4 /\ Bounds[n] = <<370, 124, 410, 1250>> /\ Bounds[n + 1] = <<405, 112, 290, 1240>>
      \/ n = 5 /\ Bounds[n] = <<405, 112, 290, 1240>> /\ Bounds[n + 1] = <<415, 100, 210, 1150>>
      \/ n = 6 /\ Bounds[n] = <<415, 100, 210, 1150>> /\ Bounds[n + 1] = <<400, 88, 175, 1040>>
      \/ n = 7 /\ Bounds[n] = <<400, 88, 175, 1040>> /\ Bounds[n + 1] = <<424, 92, 380, 966>>
  <2>1. CASE n = 2 BY <2>1 DEF Bounds
  <2>2. CASE n = 3 BY <2>2 DEF Bounds
  <2>3. CASE n = 4 BY <2>3 DEF Bounds
  <2>4. CASE n = 5 BY <2>4 DEF Bounds
  <2>5. CASE n = 6 BY <2>5 DEF Bounds
  <2>6. CASE n = 7 BY <2>6 DEF Bounds
  <2> QED BY ONLY <1>2, <2>1, <2>2, <2>3, <2>4, <2>5, <2>6
<1> DEFINE a == Bounds[n][1]
           b == Bounds[n][2]
           c == Bounds[n][3]
           d == Bounds[n][4]
           a2 == Bounds[n + 1][1]
           b2 == Bounds[n + 1][2]
           c2 == Bounds[n + 1][3]
           d2 == Bounds[n + 1][4]
<1>4. \/ a = 502 /\ b = 125 /\ c = 880 /\ d = 865 /\ a2 = 345 /\ b2 = 132 /\ c2 = 600 /\ d2 = 1125
      \/ a = 345 /\ b = 132 /\ c = 600 /\ d = 1125 /\ a2 = 370 /\ b2 = 124 /\ c2 = 410 /\ d2 = 1250
      \/ a = 370 /\ b = 124 /\ c = 410 /\ d = 1250 /\ a2 = 405 /\ b2 = 112 /\ c2 = 290 /\ d2 = 1240
      \/ a = 405 /\ b = 112 /\ c = 290 /\ d = 1240 /\ a2 = 415 /\ b2 = 100 /\ c2 = 210 /\ d2 = 1150
      \/ a = 415 /\ b = 100 /\ c = 210 /\ d = 1150 /\ a2 = 400 /\ b2 = 88 /\ c2 = 175 /\ d2 = 1040
      \/ a = 400 /\ b = 88 /\ c = 175 /\ d = 1040 /\ a2 = 424 /\ b2 = 92 /\ c2 = 380 /\ d2 = 966
  BY ONLY <1>3
<1>5. /\ -a <= pending /\ pending <= a /\ -b <= off /\ off <= b
      /\ -c <= pending - 4 * off /\ pending - 4 * off <= c
      /\ -d <= pending + 8 * off /\ pending + 8 * off <= d
  BY <1>1 DEF Near, Within
<1> HIDE DEF a, b, c, d, a2, b2, c2, d2
<1>6. PICK error \in Int : error = pending + gap * off
  <2>1. pending + gap * off \in Int BY <1>1, <1>2
  <2> QED BY <2>1
<1>7. error \in -890..890 /\ p.clock \in 1800..2200
  <2>1. off \in Int /\ pending \in Int /\ gap \in {2, 3, 4} BY ONLY <1>1, <1>2
  <2>2. ASSUME gap = 2 PROVE error \in -890..890
    <3>1. -890 <= error /\ error <= 890 BY ONLY <2>1, <2>2, <1>4, <1>5, <1>6
    <3> QED BY ONLY <3>1, <1>6
  <2>3. ASSUME gap = 3 PROVE error \in -890..890
    <3>1. -890 <= error /\ error <= 890 BY ONLY <2>1, <2>3, <1>4, <1>5, <1>6
    <3> QED BY ONLY <3>1, <1>6
  <2>4. ASSUME gap = 4 PROVE error \in -890..890
    <3>1. -890 <= error /\ error <= 890 BY ONLY <2>1, <2>4, <1>4, <1>5, <1>6
    <3> QED BY ONLY <3>1, <1>6
  <2>5. error \in -890..890 BY <2>1, <2>2, <2>3, <2>4
  <2>6. -140 <= off /\ off <= 140 BY ONLY <2>1, <1>4, <1>5
  <2> QED BY <1>2, <2>1, <2>5, <2>6
<1> DEFINE part == Quotient(error, gap)
           pull == Quotient(part, 10)
           kept == Quotient(error, 2)
<1>8. /\ part \in Int /\ pull \in Int /\ kept \in Int
      /\ Rounded(error, gap, part, pull, kept)
  <2>1. error \in Int /\ gap \in {2, 3, 4} BY ONLY <1>2, <1>6
  <2> QED BY ONLY <2>1, RoundedQuotients
<1> HIDE DEF part, pull, kept
<1>9. PICK off2 \in Int : off2 = off - pull BY ONLY <1>1, <1>8
<1>10. /\ -a2 <= kept /\ kept <= a2 /\ -b2 <= off2 /\ off2 <= b2
       /\ -c2 <= kept - 4 * off2 /\ kept - 4 * off2 <= c2
       /\ -d2 <= kept + 8 * off2 /\ kept + 8 * off2 <= d2
  <2>1. /\ Rounded(error, gap, part, pull, kept)
        /\ part \in Int /\ pull \in Int /\ kept \in Int /\ off \in Int /\ pending \in Int
    BY ONLY <1>1, <1>8
  <2>2. CASE gap = 2 BY ONLY <2>1, <2>2, <1>4, <1>5, <1>6, <1>9, SMTT(60) DEF Rounded
  <2>3. CASE gap = 3 BY ONLY <2>1, <2>3, <1>4, <1>5, <1>6, <1>9, SMTT(60) DEF Rounded
  <2>4. CASE gap = 4 BY ONLY <2>1, <2>4, <1>4, <1>5, <1>6, <1>9, SMTT(60) DEF Rounded
  <2> QED BY <1>2, <2>2, <2>3, <2>4
<1>11. Clamped(p.clock + pull) = p.clock + pull
  <2>1. -140 <= off2 /\ off2 <= 140 BY ONLY <1>4, <1>9, <1>10
  <2>2. p.clock + pull = period - off2 BY <1>1, <1>2, <1>8, <1>9
  <2>3. period - off2 \in 1800..2200 BY <1>2, <1>9, <2>1
  <2> QED BY <2>2, <2>3 DEF Clamped, ClockMin, ClockMax
<1>12. /\ Submit(p, gap * period) =
            [pll |-> [clock |-> p.clock + pull, pending |-> kept], cells |-> gap]
       /\ p.clock + pull \in Int /\ period - (p.clock + pull) = off2
  <2>1. pending + gap * period = gap * p.clock + error
    <3>1. CASE gap = 2 BY <3>1, <1>1, <1>2, <1>6
    <3>2. CASE gap = 3 BY <3>2, <1>1, <1>2, <1>6
    <3>3. CASE gap = 4 BY <3>3, <1>1, <1>2, <1>6
    <3> QED BY <1>2, <3>1, <3>2, <3>3
  <2>2. p.clock \in Int /\ 1800 <= p.clock /\ p.clock <= 2200 /\ -890 <= error /\ error <= 890
    BY <1>7
  <2>3. Submit(p, gap * period) =
          [pll |-> [clock |-> Clamped(p.clock + pull), pending |-> kept], cells |-> gap]
    <3>1. PICK clock \in Int, delay \in Int : clock = p.clock /\ delay = gap * period
      <4>1. gap * period \in Int BY ONLY <1>2
      <4> QED BY ONLY <4>1, <2>2
    <3>2. /\ delay \in Int /\ gap \in {2, 3, 4} /\ clock \in Int /\ 1800 <= clock /\ clock <= 2200
          /\ pending \in Int /\ error \in Int /\ pending + delay = gap * clock + error
      BY ONLY <1>1, <1>2, <1>6, <2>1, <2>2, <3>1
    <3>3. -clock <= 2 * error /\ 2 * error < clock - 1
      BY ONLY <2>2, <3>1, <3>2
    <3>4. Submit([clock |-> clock, pending |-> pending], delay) =
            [pll |-> [clock |-> Clamped(clock + Quotient(Quotient(error, gap), 10)),
                      pending |-> Quotient(error, 2)],
             cells |-> gap]
      BY ONLY <3>2, <3>3, SubmitExact
    <3> QED BY ONLY <1>2, <3>1, <3>4 DEF part, pull, kept
  <2> QED BY <1>1, <1>2, <1>8, <1>9, <1>11, <2>2, <2>3
<1>13. Near([clock |-> p.clock + pull, pending |-> kept], period, Bounds[n + 1])
  BY <1>10, <1>12 DEF Near, Within, a2, b2, c2, d2
<1> QED BY <1>8, <1>12, <1>13

(* After the delay the read began in, whatever was left of it: half a cell *)
(* or less is pending with the sign the clock was pulled in, or else the   *)
(* delay was too short for a cell.                                         *)
Cold(p) ==
    LET pull == p.clock - ClockCentre IN
      /\ -500 <= p.pending /\ p.pending <= 999
      /\ p.pending >= 0 => 0 <= pull /\ 10 * pull <= p.pending
      /\ p.pending <= 0 => p.pending <= 10 * pull /\ pull <= 0
      /\ p.pending > 500 => pull = 0

LEMMA FirstDelay ==
    ASSUME NEW delay \in Int, 1 <= delay, delay <= 8240 PROVE Cold(Submit(NewPll, delay).pll)
<1>1. /\ NewPll = [clock |-> 2000, pending |-> 0] /\ delay \in Int /\ 1 <= delay /\ delay <= 8240
      /\ 2000 \div 2 = 1000 /\ 0 + delay = delay
  BY DEF NewPll, ClockCentre
<1>2. CASE delay < 1000
  <2>1. Submit(NewPll, delay).pll = [clock |-> 2000, pending |-> delay]
    BY <1>1, <1>2 DEF Submit
  <2> QED BY <1>1, <1>2, <2>1 DEF Cold, ClockCentre
<1>3. CASE 1000 <= delay /\ delay < 3000
  <2>1. Zeros(2000, delay) = 0 BY <1>1, <1>3 DEF Zeros
  <2>2. PICK error \in Int : error = delay - 2000 BY <1>1
  <2>3. Error(2000, delay) = error BY <1>1, <2>1, <2>2 DEF Error
  <2> DEFINE kept == Quotient(error, 2)
  <2>4. /\ kept \in Int
        /\ error >= 0 => 2 * kept <= error /\ error < 2 * kept + 2
        /\ error <= 0 => error <= 2 * kept /\ 2 * kept - 2 < error
    BY ONLY <2>2, Halved
  <2> HIDE DEF kept
  <2>5. Clamped(Pulled(2000, delay)) = 2000
    BY <2>1 DEF Pulled, Clamped, Quotient, ClockCentre, ClockMin, ClockMax
  <2>6. Submit(NewPll, delay).pll = [clock |-> 2000, pending |-> kept]
    BY <1>1, <1>3, <2>3, <2>4, <2>5 DEF Submit, kept
  <2>7. -500 <= kept /\ kept <= 500 BY ONLY <1>1, <1>3, <2>2, <2>4
  <2>8. Cold([clock |-> 2000, pending |-> kept])
    BY ONLY <2>4, <2>7 DEF Cold, ClockCentre
  <2> QED BY ONLY <2>6, <2>8
<1>4. CASE 3000 <= delay
  <2>1. PICK gap \in {2, 3, 4}, error \in Int :
           delay = gap * 2000 + error /\ -1000 <= error /\ error < 1000
    <3>1. CASE delay < 5000 BY <1>1, <1>4, <3>1
    <3>2. CASE 5000 <= delay /\ delay < 7000 BY <1>1, <3>2
    <3>3. CASE 7000 <= delay BY <1>1, <3>3
    <3> QED BY <1>1, <3>1, <3>2, <3>3
  <2> DEFINE part == Quotient(error, gap)
             pull == Quotient(part, 10)
             kept == Quotient(error, 2)
  <2>2. /\ part \in Int /\ pull \in Int /\ kept \in Int
        /\ Rounded(error, gap, part, pull, kept)
    <3>1. error \in Int /\ gap \in {2, 3, 4} BY ONLY <2>1
    <3> QED BY ONLY <3>1, RoundedQuotients
  <2> HIDE DEF part, pull, kept
  <2>3. /\ -500 <= kept /\ kept <= 500
        /\ kept >= 0 => 0 <= pull /\ 10 * pull <= kept
        /\ kept <= 0 => kept <= 10 * pull /\ pull <= 0
    <3>1. CASE gap = 2 BY ONLY <2>1, <2>2, <3>1 DEF Rounded
    <3>2. CASE gap = 3 BY ONLY <2>1, <2>2, <3>2 DEF Rounded
    <3>3. CASE gap = 4 BY ONLY <2>1, <2>2, <3>3 DEF Rounded
    <3> QED BY <2>1, <3>1, <3>2, <3>3
  <2>4. Clamped(2000 + pull) = 2000 + pull
    <3>1. -50 <= pull /\ pull <= 50 BY ONLY <2>2, <2>3
    <3> QED BY ONLY <2>2, <3>1 DEF Clamped, ClockMin, ClockMax
  <2>5. Submit(NewPll, delay).pll = [clock |-> 2000 + pull, pending |-> kept]
    <3>1. /\ 2000 \in Int /\ 1800 <= 2000 /\ 2000 <= 2200 /\ 0 \in Int
          /\ -2000 <= 2 * error /\ 2 * error < 2000 - 1
          /\ 0 + delay = gap * 2000 + error
      BY ONLY <1>1, <2>1
    <3>2. Submit([clock |-> 2000, pending |-> 0], delay) =
            [pll |-> [clock |-> Clamped(2000 + pull), pending |-> kept], cells |-> gap]
      BY ONLY <1>1, <2>1, <3>1, SubmitExact DEF part, pull, kept
    <3> QED BY ONLY <1>1, <2>4, <3>2
  <2>6. Cold([clock |-> 2000 + pull, pending |-> kept])
    BY ONLY <2>2, <2>3 DEF Cold, ClockCentre
  <2> QED BY ONLY <2>5, <2>6
<1> QED BY <1>1, <1>2, <1>3, <1>4

LEMMA SecondDelay ==
    ASSUME NEW period \in Speeds, NEW gap \in 2..4,
           NEW p \in [clock : Int, pending : Int], Cold(p)
    PROVE  LET r == Submit(p, gap * period) IN
             /\ r.pll \in [clock : Int, pending : Int] /\ Near(r.pll, period, Bounds[2])
<1>1. PICK clock \in Int, pending \in Int : clock = p.clock /\ pending = p.pending
  OBVIOUS
<1>2. PICK off \in Int : off = period - clock
  BY <1>1 DEF Speeds
<1>3. /\ p = [clock |-> clock, pending |-> pending] /\ gap \in {2, 3, 4}
      /\ period \in Int /\ 1940 <= period /\ period <= 2060
  BY <1>1 DEF Speeds
<1>4. /\ -500 <= pending /\ pending <= 999
      /\ pending >= 0 => 0 <= clock - 2000 /\ 10 * (clock - 2000) <= pending
      /\ pending <= 0 => pending <= 10 * (clock - 2000) /\ clock - 2000 <= 0
      /\ pending > 500 => clock = 2000
  BY <1>1 DEF Cold, ClockCentre
<1>5. PICK error \in Int, delay \in Int : error = pending + gap * off /\ delay = gap * period
  <2>1. gap * off \in Int /\ gap * period \in Int BY ONLY <1>2, <1>3
  <2> QED BY ONLY <1>1, <2>1
<1>6. pending + delay = gap * clock + error
  <2>1. CASE gap = 2 BY ONLY <2>1, <1>1, <1>2, <1>3, <1>5
  <2>2. CASE gap = 3 BY ONLY <2>2, <1>1, <1>2, <1>3, <1>5
  <2>3. CASE gap = 4 BY ONLY <2>3, <1>1, <1>2, <1>3, <1>5
  <2> QED BY ONLY <1>3, <2>1, <2>2, <2>3
<1>7. 1950 <= clock /\ clock <= 2050 /\ -1000 <= error /\ error <= 1239
  <2>1. 1950 <= clock /\ clock <= 2050 BY ONLY <1>1, <1>4
  <2>2. CASE gap = 2 BY ONLY <2>1, <2>2, <1>1, <1>2, <1>3, <1>4, <1>5
  <2>3. CASE gap = 3 BY ONLY <2>1, <2>3, <1>1, <1>2, <1>3, <1>4, <1>5
  <2>4. CASE gap = 4 BY ONLY <2>1, <2>4, <1>1, <1>2, <1>3, <1>4, <1>5
  <2> QED BY ONLY <1>3, <2>2, <2>3, <2>4
<1>8. ASSUME NEW c \in Int, NEW kept \in Int,
             -502 <= kept, kept <= 502, -125 <= period - c, period - c <= 125,
             -880 <= kept - 4 * (period - c), kept - 4 * (period - c) <= 880,
             -865 <= kept + 8 * (period - c), kept + 8 * (period - c) <= 865
      PROVE  /\ [clock |-> c, pending |-> kept] \in [clock : Int, pending : Int]
             /\ Near([clock |-> c, pending |-> kept], period, Bounds[2])
  BY <1>8 DEF Near, Within, Bounds
<1>9. CASE 2 * error < clock - 1
  <2> DEFINE part == Quotient(error, gap)
             pull == Quotient(part, 10)
             kept == Quotient(error, 2)
  <2>1. /\ part \in Int /\ pull \in Int /\ kept \in Int
        /\ Rounded(error, gap, part, pull, kept)
    <3>1. error \in Int /\ gap \in {2, 3, 4} BY ONLY <1>3, <1>5
    <3> QED BY ONLY <3>1, RoundedQuotients
  <2>2. -clock <= 2 * error
    <3>1. CASE gap = 2 BY ONLY <3>1, <1>1, <1>2, <1>3, <1>4, <1>5
    <3>2. CASE gap = 3 BY ONLY <3>2, <1>1, <1>2, <1>3, <1>4, <1>5
    <3>3. CASE gap = 4 BY ONLY <3>3, <1>1, <1>2, <1>3, <1>4, <1>5
    <3> QED BY ONLY <1>3, <3>1, <3>2, <3>3
  <2>3. Submit([clock |-> clock, pending |-> pending], delay) =
          [pll |-> [clock |-> Clamped(clock + pull), pending |-> kept], cells |-> gap]
    <3>1. 1800 <= clock /\ clock <= 2200 BY ONLY <1>1, <1>7
    <3>2. /\ delay \in Int /\ gap \in {2, 3, 4} /\ clock \in Int /\ pending \in Int /\ error \in Int
      BY ONLY <1>1, <1>3, <1>5
    <3> QED BY ONLY <1>6, <1>9, <2>2, <3>1, <3>2, SubmitExact
  <2> HIDE DEF part, pull, kept
  <2>4. PICK c \in Int : c = clock + pull BY ONLY <1>1, <2>1
  <2>5. /\ -502 <= kept /\ kept <= 502 /\ -125 <= period - c /\ period - c <= 125
        /\ -880 <= kept - 4 * (period - c) /\ kept - 4 * (period - c) <= 880
        /\ -865 <= kept + 8 * (period - c) /\ kept + 8 * (period - c) <= 865
    <3>1. CASE gap = 2
      BY ONLY <3>1, <1>1, <1>2, <1>3, <1>4, <1>5, <1>7, <1>9, <2>1, <2>4, SMTT(60) DEF Rounded
    <3>2. CASE gap = 3
      BY ONLY <3>2, <1>1, <1>2, <1>3, <1>4, <1>5, <1>7, <1>9, <2>1, <2>4, SMTT(60) DEF Rounded
    <3>3. CASE gap = 4
      BY ONLY <3>3, <1>1, <1>2, <1>3, <1>4, <1>5, <1>7, <1>9, <2>1, <2>4, SMTT(60) DEF Rounded
    <3> QED BY ONLY <1>3, <3>1, <3>2, <3>3
  <2>6. Clamped(c) = c
    <3>1. 1800 <= c /\ c <= 2200 BY ONLY <1>3, <2>4, <2>5
    <3> QED BY ONLY <2>4, <3>1 DEF Clamped, ClockMin, ClockMax
  <2>7. Submit(p, gap * period).pll = [clock |-> c, pending |-> kept]
    BY ONLY <1>3, <1>5, <2>3, <2>4, <2>6
  <2> QED BY <1>8, <2>1, <2>4, <2>5, <2>7
<1>10. CASE ~(2 * error < clock - 1)
  <2> DEFINE rest == error - 2000
             kept == Quotient(rest, 2)
  <2>1. clock = 2000 /\ 1000 <= error /\ rest \in Int /\ -1000 <= rest /\ rest <= -761
    <3>1. clock = 2000 \/ pending <= 500 BY ONLY <1>1, <1>4
    <3>2. clock = 2000
      <4>1. CASE gap = 2 BY ONLY <4>1, <3>1, <1>1, <1>2, <1>3, <1>4, <1>5, <1>10
      <4>2. CASE gap = 3 BY ONLY <4>2, <3>1, <1>1, <1>2, <1>3, <1>4, <1>5, <1>10
      <4>3. CASE gap = 4 BY ONLY <4>3, <3>1, <1>1, <1>2, <1>3, <1>4, <1>5, <1>10
      <4> QED BY ONLY <1>3, <4>1, <4>2, <4>3
    <3> QED BY ONLY <3>2, <1>5, <1>7, <1>10
  <2> HIDE DEF rest
  <2>2. /\ kept \in Int
        /\ rest >= 0 => 2 * kept <= rest /\ rest < 2 * kept + 2
        /\ rest <= 0 => rest <= 2 * kept /\ 2 * kept - 2 < rest
    BY ONLY <2>1, Halved
  <2>3. \E pull \in -33..0 :
           Submit([clock |-> 2000, pending |-> pending], delay).pll =
             [clock |-> 2000 + pull, pending |-> kept]
    <3>1. CASE gap \in {2, 3}
      <4> DEFINE more == gap + 1
                 pull == Quotient(Quotient(rest, more), 10)
      <4>0. more \in {2, 3, 4} /\ more = gap + 1 BY ONLY <3>1
      <4> HIDE DEF more
      <4>1. Submit([clock |-> 2000, pending |-> pending], delay) =
              [pll |-> [clock |-> Clamped(2000 + pull), pending |-> kept], cells |-> more]
        <5>1. more \in {2, 3, 4} /\ 2000 \in Int /\ 1800 <= 2000 /\ 2000 <= 2200
          BY ONLY <4>0
        <5>2. -2000 <= 2 * rest /\ 2 * rest < 2000 - 1 BY ONLY <2>1
        <5>3. pending + delay = more * 2000 + rest
          BY ONLY <3>1, <4>0, <1>1, <1>5, <1>6, <2>1 DEF rest
        <5>4. delay \in Int /\ pending \in Int /\ rest \in Int BY ONLY <1>1, <1>5, <2>1
        <5> HIDE DEF pull, kept
        <5>5. Submit([clock |-> 2000, pending |-> pending], delay) =
                [pll |-> [clock |-> Clamped(2000 + Quotient(Quotient(rest, more), 10)),
                          pending |-> Quotient(rest, 2)],
                 cells |-> more]
          BY ONLY <5>1, <5>2, <5>3, <5>4, SubmitExact
        <5> QED BY ONLY <5>5 DEF pull, kept
      <4>2. pull \in -33..0
        <5> DEFINE part == Quotient(rest, more)
        <5>1. Rounded(rest, more, part, pull, kept) /\ part \in Int /\ pull \in Int
          <6>1. rest \in Int BY ONLY <2>1
          <6> QED BY ONLY <4>0, <6>1, RoundedQuotients
        <5> HIDE DEF part, pull, kept
        <5>2. more = 3 \/ more = 4 BY ONLY <3>1, <4>0
        <5>3. -33 <= pull /\ pull <= 0 BY ONLY <2>1, <5>1, <5>2 DEF Rounded
        <5> QED BY ONLY <5>1, <5>3
      <4> HIDE DEF pull
      <4>3. Clamped(2000 + pull) = 2000 + pull
        BY ONLY <4>2 DEF Clamped, ClockMin, ClockMax
      <4> QED BY ONLY <4>1, <4>2, <4>3
    <3>2. CASE gap = 4
      <4>1. PICK sum \in Int : sum = pending + delay /\ sum = 10000 + rest
        <5>1. pending + delay = 10000 + rest
          BY ONLY <3>2, <1>1, <1>5, <1>6, <2>1 DEF rest
        <5> QED BY ONLY <2>1, <5>1
      <4>2. Zeros(2000, sum) = 4 /\ ~(sum < 2000 \div 2)
        BY ONLY <2>1, <4>1 DEF Zeros
      <4>3. Error(2000, sum) = rest BY ONLY <2>1, <4>1, <4>2 DEF Error
      <4>4. Clamped(Pulled(2000, sum)) = 2000 + 0
        BY ONLY <4>2 DEF Pulled, Clamped, Quotient, ClockCentre, ClockMin, ClockMax
      <4>5. Submit([clock |-> 2000, pending |-> pending], delay).pll =
              [clock |-> 2000 + 0, pending |-> kept]
        BY ONLY <4>1, <4>2, <4>3, <4>4 DEF Submit
      <4> QED BY ONLY <4>5
    <3> QED BY ONLY <1>3, <3>1, <3>2
  <2> HIDE DEF kept
  <2>4. PICK pull \in -33..0 :
           Submit([clock |-> 2000, pending |-> pending], delay).pll =
             [clock |-> 2000 + pull, pending |-> kept]
    BY <2>3
  <2>5. PICK c \in Int : c = 2000 + pull /\ 1967 <= c /\ c <= 2000
    BY ONLY <2>4
  <2>6. /\ -502 <= kept /\ kept <= 502 /\ -125 <= period - c /\ period - c <= 125
        /\ -880 <= kept - 4 * (period - c) /\ kept - 4 * (period - c) <= 880
        /\ -865 <= kept + 8 * (period - c) /\ kept + 8 * (period - c) <= 865
    <3>1. 1 <= period - 2000
      BY ONLY <2>1, <1>1, <1>2, <1>3, <1>4, <1>5, <1>10
    <3> QED BY ONLY <1>3, <2>1, <2>2, <2>5, <3>1
  <2>7. Submit(p, gap * period).pll = [clock |-> c, pending |-> kept]
    BY ONLY <1>3, <1>5, <2>1, <2>4, <2>5
  <2> QED BY <1>8, <2>2, <2>5, <2>6, <2>7
<1> QED BY <1>9, <1>10

-----------------------------------------------------------------------------
(* The transitions of a track, in their order.                             *)

(* InOrder lists a finite set of numbers from the least to the greatest.   *)
LEMMA Listed ==
    ASSUME NEW S, IsFiniteSet(S), S \subseteq Int
    PROVE  LET p == InOrder(S) IN
             /\ Cardinality(S) \in Nat /\ DOMAIN p = 1..Cardinality(S)
             /\ \A k \in DOMAIN p : p[k] \in S
             /\ \A k \in DOMAIN p : \A q \in S :
                  /\ k # 1 => p[k - 1] < p[k] /\ ~(p[k - 1] < q /\ q < p[k])
                  /\ k = 1 => p[k] <= q
                  /\ k = Cardinality(S) => q <= p[k]
<1> DEFINE Rank(r) == Cardinality({q \in S : q <= r})
           p == InOrder(S)
           n == Cardinality(S)
<1>1. n \in Nat /\ DOMAIN p = 1..n
  BY FS_CardinalityType DEF InOrder
<1>2. ASSUME NEW k \in 1..n PROVE p[k] \in S /\ Rank(p[k]) = k
  <2>1. \E q \in S : Rank(q) = k
    BY KthExists
  <2>2. p[k] = CHOOSE q \in S : Rank(q) = k
    BY DEF InOrder
  <2> HIDE DEF Rank, p
  <2> QED BY <2>1, <2>2
<1>3. \A r \in S : Rank(r) \in Nat /\ Rank(r) <= n
  <2> SUFFICES ASSUME NEW r \in S PROVE Rank(r) \in Nat /\ Rank(r) <= n OBVIOUS
  <2> DEFINE T == {q \in S : q <= r}
  <2>1. T \subseteq S OBVIOUS
  <2> HIDE DEF T
  <2>2. IsFiniteSet(T) /\ Cardinality(T) <= n BY <2>1, FS_Subset
  <2>3. Cardinality(T) \in Nat BY <2>2, FS_CardinalityType
  <2> QED BY <2>2, <2>3 DEF T
<1>4. \A q, r \in S : q < r => Rank(q) < Rank(r)
  <2> SUFFICES ASSUME NEW q \in S, NEW r \in S, q < r PROVE Rank(q) < Rank(r) OBVIOUS
  <2> DEFINE Q == {x \in S : x <= q}
             R == {x \in S : x <= r}
  <2>0. q \in Int /\ r \in Int /\ \A x \in S : x \in Int /\ (x <= q => x <= r) OBVIOUS
  <2>1. Q \subseteq R /\ r \in R /\ r \notin Q /\ R \subseteq S
    <3>1. Q \subseteq R BY <2>0
    <3>2. r \in R BY <2>0
    <3>3. r \notin Q BY <2>0
    <3>4. R \subseteq S OBVIOUS
    <3> QED BY <3>1, <3>2, <3>3, <3>4
  <2> HIDE DEF Q, R
  <2>2. IsFiniteSet(R) BY <2>1, FS_Subset
  <2>3. Cardinality(Q) <= Cardinality(R) /\ Cardinality(Q) # Cardinality(R)
    BY <2>1, <2>2, FS_Subset
  <2>4. Cardinality(R) \in Nat /\ IsFiniteSet(Q) BY <2>1, <2>2, FS_Subset, FS_CardinalityType
  <2>5. Cardinality(Q) \in Nat BY <2>4, FS_CardinalityType
  <2>6. Cardinality(Q) < Cardinality(R) BY ONLY <2>3, <2>4, <2>5
  <2> QED BY <2>6 DEF Q, R
<1>5. \A r \in S : Rank(r) >= 1
  <2> SUFFICES ASSUME NEW r \in S PROVE Rank(r) >= 1 OBVIOUS
  <2> DEFINE T == {q \in S : q <= r}
  <2>1. T \subseteq S /\ T # {} OBVIOUS
  <2> HIDE DEF T
  <2>2. IsFiniteSet(T) BY <2>1, FS_Subset
  <2>3. Cardinality(T) \in Nat /\ Cardinality(T) # 0 BY <2>1, <2>2, FS_CardinalityType, FS_EmptySet
  <2> QED BY <2>3 DEF T
<1> HIDE DEF Rank, p, n
<1>6. \A q, r \in S : Rank(q) < Rank(r) => q < r
  <2> SUFFICES ASSUME NEW q \in S, NEW r \in S, Rank(q) < Rank(r) PROVE q < r OBVIOUS
  <2>1. q \in Int /\ r \in Int OBVIOUS
  <2>2. r < q => FALSE BY <1>3, <1>4
  <2>3. r = q => FALSE BY <1>3
  <2> QED BY <2>1, <2>2, <2>3
<1>7. ASSUME NEW k \in 1..n, NEW q \in S
      PROVE  /\ k # 1 => p[k - 1] < p[k] /\ ~(p[k - 1] < q /\ q < p[k])
             /\ k = 1 => p[k] <= q
             /\ k = n => q <= p[k]
  <2>0. p[k] \in S /\ Rank(p[k]) = k BY <1>2
  <2>1. p[k] \in S /\ Rank(p[k]) = k /\ p[k] \in Int /\ q \in Int /\ k \in Int
    <3>1. k \in Int BY <1>1
    <3>2. p[k] \in Int /\ q \in Int BY <2>0
    <3> QED BY <2>0, <3>1, <3>2
  <2>2. Rank(q) \in Int /\ 1 <= Rank(q) /\ Rank(q) <= n /\ n \in Int
    BY <1>1, <1>3, <1>5
  <2>3. ASSUME k # 1 PROVE p[k - 1] < p[k] /\ ~(p[k - 1] < q /\ q < p[k])
    <3>1. k - 1 \in 1..n BY <1>1, <2>3
    <3>2. p[k - 1] \in S /\ Rank(p[k - 1]) = k - 1 BY <1>2, <3>1
    <3>0. Rank(p[k - 1]) < Rank(p[k]) BY ONLY <2>1, <3>2
    <3>3. p[k - 1] < p[k] BY <1>6, <2>1, <3>2, <3>0
    <3>4. ASSUME p[k - 1] < q, q < p[k] PROVE FALSE
      <4>1. Rank(p[k - 1]) < Rank(q) /\ Rank(q) < Rank(p[k]) BY <1>4, <2>1, <3>2, <3>4
      <4> QED BY ONLY <2>1, <2>2, <3>2, <4>1
    <3> QED BY <3>3, <3>4
  <2>4. ASSUME k = 1 PROVE p[k] <= q
    <3>1. q < p[k] => Rank(q) < Rank(p[k]) BY <1>4, <2>1
    <3> QED BY ONLY <2>1, <2>2, <2>4, <3>1
  <2>5. ASSUME k = n PROVE q <= p[k]
    <3>1. p[k] < q => Rank(p[k]) < Rank(q) BY <1>4, <2>1
    <3> QED BY ONLY <2>1, <2>2, <2>5, <3>1
  <2> QED BY <2>3, <2>4, <2>5
<1> QED BY <1>1, <1>2, <1>7 DEF p, n

(* The flux of a track: a delay ends at each of its transitions, and there *)
(* is none between two of them; the last is at the end of the track.       *)
LEMMA FluxOfTrack ==
    ASSUME NEW cells \in Seq(BOOLEAN), cells # <<>>
    PROVE  LET p == InOrder(Transitions(cells))
               flux == MfmToFlux(cells)
           IN  /\ flux \in Seq(Int) /\ Len(flux) \in Nat /\ flux # <<>>
               /\ \A k \in DOMAIN flux :
                    /\ p[k] \in DOMAIN cells
                    /\ flux[k] = p[k] - (IF k = 1 THEN 0 ELSE p[k - 1])
                    /\ \A i \in DOMAIN cells :
                         (IF k = 1 THEN 0 ELSE p[k - 1]) < i /\ i <= p[k]
                           => (Written(cells)[i] <=> i = p[k])
               /\ p[Len(flux)] = Len(cells)
<1> DEFINE S == Transitions(cells)
           p == InOrder(S)
           flux == MfmToFlux(cells)
           n == Cardinality(S)
           L == Len(cells)
<1>1. L \in Nat /\ L >= 1 /\ DOMAIN cells = 1..L
  OBVIOUS
<1>2. S \subseteq 1..L /\ L \in S
  BY <1>1 DEF Transitions
<1>3. IsFiniteSet(S) /\ S \subseteq Int
  <2>1. IsFiniteSet(1..L) /\ 1..L \subseteq Int BY <1>1, FS_Interval
  <2> HIDE DEF S
  <2> QED BY <1>2, <2>1, FS_Subset
<1>4. \A i \in 1..L : Written(cells)[i] <=> i \in S
  BY <1>1 DEF Written, Transitions
<1>5. flux \in Seq(Int)
  BY FluxIsInt
<1>6. flux = [k \in DOMAIN p |-> p[k] - (IF k = 1 THEN 0 ELSE p[k - 1])]
  BY DEF MfmToFlux
<1> HIDE DEF S
<1>7. /\ n \in Nat /\ DOMAIN p = 1..n
      /\ \A k \in DOMAIN p : p[k] \in S
      /\ \A k \in DOMAIN p : \A q \in S :
           /\ k # 1 => p[k - 1] < p[k] /\ ~(p[k - 1] < q /\ q < p[k])
           /\ k = 1 => p[k] <= q
           /\ k = n => q <= p[k]
  BY <1>3, Listed
<1> HIDE DEF p, n, flux
<1>8. DOMAIN flux = 1..n /\ Len(flux) = n
  <2>1. DOMAIN flux = 1..n BY <1>6, <1>7
  <2> QED BY <1>5, <1>7, <2>1
<1>9. n # 0
  BY <1>2, <1>3, FS_EmptySet DEF n
<1>10. p[n] = L
  <2>1. n \in 1..n BY <1>7, <1>9
  <2>2. p[n] \in S /\ L <= p[n] BY <1>2, <1>7, <2>1
  <2>3. p[n] \in 1..L BY <1>2, <2>2
  <2> QED BY <1>1, <2>2, <2>3
<1> HIDE DEF L
<1>11. ASSUME NEW k \in 1..n
       PROVE  /\ p[k] \in 1..L
              /\ flux[k] = p[k] - (IF k = 1 THEN 0 ELSE p[k - 1])
              /\ \A i \in 1..L :
                   (IF k = 1 THEN 0 ELSE p[k - 1]) < i /\ i <= p[k]
                     => (Written(cells)[i] <=> i = p[k])
  <2>1. p[k] \in 1..L /\ p[k] \in S BY <1>2, <1>7
  <2>2. flux[k] = p[k] - (IF k = 1 THEN 0 ELSE p[k - 1]) BY <1>6, <1>7
  <2>3. ASSUME NEW i \in 1..L, (IF k = 1 THEN 0 ELSE p[k - 1]) < i, i <= p[k]
        PROVE  Written(cells)[i] <=> i = p[k]
    <3>1. i = p[k] => Written(cells)[i] BY <1>4, <2>1
    <3>2. ASSUME i \in S PROVE i = p[k]
      <4>1. i \in Int /\ p[k] \in Int BY <1>1, <2>1
      <4>4. /\ k # 1 => ~(p[k - 1] < i /\ i < p[k])
            /\ k = 1 => p[k] <= i
        BY <1>7, <3>2, Zenon
      <4>2. CASE k = 1 BY ONLY <2>3, <4>1, <4>2, <4>4
      <4>3. CASE k # 1 BY ONLY <2>3, <4>1, <4>3, <4>4
      <4> QED BY <4>2, <4>3
    <3> QED BY <1>4, <3>1, <3>2
  <2> QED BY <2>1, <2>2, <2>3
<1> QED
  <2>1. flux \in Seq(Int) /\ Len(flux) \in Nat /\ flux # <<>> /\ p[Len(flux)] = L
    BY <1>5, <1>7, <1>8, <1>9, <1>10
  <2>2. DOMAIN cells = 1..L BY <1>1 DEF L
  <2>3. \A k \in DOMAIN flux :
           /\ p[k] \in DOMAIN cells
           /\ flux[k] = p[k] - (IF k = 1 THEN 0 ELSE p[k - 1])
           /\ \A i \in DOMAIN cells :
                (IF k = 1 THEN 0 ELSE p[k - 1]) < i /\ i <= p[k]
                  => (Written(cells)[i] <=> i = p[k])
    BY <1>8, <1>11, <2>2, Zenon
  <2> QED BY <2>1, <2>3, Zenon DEF p, flux, L, S

-----------------------------------------------------------------------------
(* A written delay decoded puts its cells behind those that are there.     *)
LEMMA CellsFollow ==
    ASSUME NEW cells \in Seq(BOOLEAN), cells # <<>>, NEW k \in DOMAIN MfmToFlux(cells),
           MfmToFlux(cells)[k] \in 2..4
    PROVE  LET p == InOrder(Transitions(cells))
               n == MfmToFlux(cells)[k]
           IN  /\ k = 1 => CellsOf(n) = SubSeq(Written(cells), 1, p[1])
               /\ k # 1 => SubSeq(Written(cells), 1, p[k - 1]) \o CellsOf(n)
                             = SubSeq(Written(cells), 1, p[k])
<1> DEFINE p == InOrder(Transitions(cells))
           flux == MfmToFlux(cells)
           n == flux[k]
           W == Written(cells)
           L == Len(cells)
<1>1. /\ L \in Nat /\ DOMAIN cells = 1..L /\ W \in Seq(BOOLEAN) /\ Len(W) = L
      /\ DOMAIN W = 1..L
  <2>1. L \in Nat /\ DOMAIN cells = 1..L OBVIOUS
  <2>2. W \in [1..L -> BOOLEAN]
    BY <2>1 DEF Written
  <2> HIDE DEF W, L
  <2>3. W \in Seq(BOOLEAN) BY <2>1, <2>2, SeqDef
  <2> QED BY <2>1, <2>2, <2>3 DEF L
<1>2. /\ flux \in Seq(Int)
      /\ \A j \in DOMAIN flux : p[j] \in DOMAIN cells
      /\ flux[k] = p[k] - (IF k = 1 THEN 0 ELSE p[k - 1])
      /\ \A i \in DOMAIN cells :
           (IF k = 1 THEN 0 ELSE p[k - 1]) < i /\ i <= p[k] => (W[i] <=> i = p[k])
  BY FluxOfTrack, Zenon
<1> DEFINE from == IF k = 1 THEN 0 ELSE p[k - 1]
           to == p[k]
<1>3. /\ from \in 0..L /\ to \in 1..L /\ n = to - from /\ n \in 2..4
  <2>1. k \in DOMAIN flux /\ (k = 1 \/ k - 1 \in DOMAIN flux) BY <1>2
  <2> HIDE DEF flux, p, L
  <2>2. to \in 1..L /\ (k # 1 => p[k - 1] \in 1..L) BY <1>1, <1>2, <2>1
  <2>3. from \in 0..L BY <1>1, <2>2
  <2>4. n = to - from BY <1>2
  <2>5. n \in 2..4 BY DEF flux
  <2> QED BY <2>2, <2>3, <2>4, <2>5
<1>4. \A i \in 1..L : from < i /\ i <= to => (W[i] <=> i = to)
  BY <1>1, <1>2
<1> HIDE DEF from, to, n, p, flux, L, W
<1>5. CellsOf(n) \in Seq(BOOLEAN) /\ Len(CellsOf(n)) = n
      /\ \A i \in 1..n : CellsOf(n)[i] <=> i = n
  <2>1. n \in Nat BY <1>3
  <2>2. CellsOf(n) \in [1..n -> BOOLEAN] /\ \A i \in 1..n : CellsOf(n)[i] <=> i = n
    BY DEF CellsOf
  <2>3. CellsOf(n) \in Seq(BOOLEAN) BY <2>1, <2>2, SeqDef
  <2> QED BY <2>1, <2>2, <2>3
<1>6. ASSUME NEW m \in 0..L
      PROVE  /\ SubSeq(W, 1, m) \in Seq(BOOLEAN) /\ Len(SubSeq(W, 1, m)) = m
             /\ \A i \in 1..m : SubSeq(W, 1, m)[i] = W[i]
  <2>1. m \in Int /\ L \in Int /\ 1 \in Int /\ m <= L BY <1>1
  <2>2. \A i \in 1..m : W[i] \in BOOLEAN BY <1>1, <2>1
  <2> DEFINE t == SubSeq(W, 1, m)
  <2>3. /\ t \in Seq(BOOLEAN) /\ Len(t) = IF 1 <= m THEN m - 1 + 1 ELSE 0
        /\ \A i \in 1..(m - 1 + 1) : t[i] = W[1 + i - 1]
    BY <2>1, <2>2, SubSeqProperties
  <2> HIDE DEF t
  <2>4. Len(t) = m BY <2>1, <2>3
  <2>5. \A i \in 1..m : t[i] = W[i] BY <2>1, <2>3
  <2> QED BY <2>3, <2>4, <2>5 DEF t
<1> DEFINE a == SubSeq(W, 1, from)
           c == CellsOf(n)
           b == SubSeq(W, 1, to)
<1>7. /\ a \in Seq(BOOLEAN) /\ Len(a) = from /\ \A i \in 1..from : a[i] = W[i]
      /\ b \in Seq(BOOLEAN) /\ Len(b) = to /\ \A i \in 1..to : b[i] = W[i]
  <2>1. to \in 0..L BY <1>1, <1>3
  <2> QED BY <1>3, <1>6, <2>1
<1>8. /\ from \in Int /\ to \in Int /\ n \in Int /\ n = to - from /\ from >= 0 /\ n >= 2
      /\ L \in Int /\ to <= L
  BY <1>1, <1>3
<1>9. c \in Seq(BOOLEAN) /\ Len(c) = n /\ \A i \in 1..n : c[i] <=> i = n
  BY <1>5
<1> HIDE DEF a, b, c
<1>10. a \o c = b
  <2>1. a \o c \in Seq(BOOLEAN) /\ Len(a \o c) = from + n BY <1>7, <1>9, ConcatProperties
  <2>2. Len(a \o c) = Len(b) BY <1>7, <1>8, <2>1
  <2>3. ASSUME NEW i \in 1..Len(b) PROVE (a \o c)[i] = b[i]
    <3>1. i \in 1..to /\ i \in Int /\ i \in 1..L BY <1>7, <1>8
    <3>2. b[i] = W[i] /\ b[i] \in BOOLEAN BY <1>7, <3>1
    <3>3. CASE i <= from
      <4>1. i \in 1..Len(a) BY <1>7, <1>8, <3>1, <3>3
      <4>2. (a \o c)[i] = a[i] BY <1>7, <1>9, <4>1, ConcatProperties
      <4> QED BY <1>7, <3>2, <4>1, <4>2
    <3>4. CASE from < i
      <4>1. i - from \in 1..n /\ i - Len(a) = i - from /\ i > Len(a) /\ i \in 1..(Len(a) + Len(c))
        BY <1>7, <1>8, <1>9, <3>1, <3>4
      <4>2. (a \o c)[i] = c[i - from]
        BY <1>7, <1>9, <4>1, ConcatProperties
      <4>3. c[i - from] <=> i - from = n BY <1>9, <4>1
      <4>4. W[i] <=> i = to BY <1>4, <3>1, <3>4
      <4>5. i - from = n <=> i = to BY ONLY <1>8, <3>1
      <4>6. c[i - from] \in BOOLEAN BY <1>9, <4>1
      <4> QED BY <3>2, <4>2, <4>3, <4>4, <4>5, <4>6
    <3>5. i <= from \/ from < i BY ONLY <1>8, <3>1
    <3> QED BY <3>3, <3>4, <3>5
  <2> QED BY <1>7, <2>1, <2>2, <2>3, SeqEqual
<1>11. k = 1 => a = <<>>
  BY <1>7, EmptySeq DEF from
<1>12. k = 1 => c = b
  <2>1. <<>> \o c = c BY <1>9, ConcatEmptySeq
  <2> QED BY <1>10, <1>11, <2>1
<1> QED
  <2>1. k = 1 => CellsOf(n) = SubSeq(W, 1, p[1])
    BY <1>12 DEF b, c, to
  <2>2. k # 1 => SubSeq(W, 1, p[k - 1]) \o CellsOf(n) = SubSeq(W, 1, p[k])
    BY <1>10 DEF a, b, c, from, to
  <2> QED BY <2>1, <2>2 DEF p, n, flux, W

(* One delay nearer to lock, or still in it.                               *)
LEMMA NearerStill ==
    ASSUME NEW period \in Speeds, NEW gap \in 2..4, NEW n \in 2..8,
           NEW p \in [clock : Int, pending : Int], Near(p, period, Bounds[n])
    PROVE  LET r == Submit(p, gap * period) IN
             /\ r.cells = gap
             /\ Near(r.pll, period, Bounds[IF n < 8 THEN n + 1 ELSE 8])
<1>1. CASE n < 8
  <2>1. n \in 2..7 BY <1>1
  <2> QED BY <1>1, <2>1, OneNearer
<1>2. CASE n = 8
  <2>1. \A q : Near(q, period, Bounds[8]) <=> InLock(q, period)
    BY DEF Near, Bounds, InLock
  <2>2. gap * period + 0 = gap * period /\ 0 \in Shifts
    <3>1. gap \in Int /\ period \in Int BY DEF Speeds
    <3> QED BY <3>1 DEF Shifts
  <2>3. InLock(p, period) BY <1>2, <2>1
  <2>4. LET r == Submit(p, gap * period + 0) IN r.cells = gap /\ InLock(r.pll, period)
    BY <2>2, <2>3, LockKept
  <2> QED BY <1>2, <2>1, <2>2, <2>4
<1> QED BY <1>1, <1>2

-----------------------------------------------------------------------------
(* How far an indexed read has come, as long as no transition is missed:   *)
(* the separator is as near to lock as the delays before have brought it,  *)
(* and the cells are those of the track from its start to the head.        *)
Regular == \A k \in DOMAIN gaps : gaps[k] \in 2..4
TrackKept ==
    /\ mode \in Modes /\ missed \in Nat
    /\ track \in Seq(BOOLEAN) /\ track # <<>> /\ gaps = MfmToFlux(track)
Settling ==
    /\ carried = [cells |-> 0, index |-> FALSE]
    /\ shifts \in Nat /\ before \in Nat /\ indices \in Nat /\ cut \in Nat
    /\ before > 0 => cut = 0
    /\ shifts = 0 /\ indices = 0 /\ before = 0 => pll = NewPll
    /\ shifts = 0 /\ indices = 0 /\ before = 1 => Cold(pll)
    /\ shifts = 0 /\ before >= 2 =>
         \E n \in 2..8 : (n >= before \/ n = 8) /\ Near(pll, cell, Bounds[n])
    /\ before >= 8 => InLock(pll, cell)
Followed ==
    Pending /\ Settled /\ indices > 0 =>
      /\ indices = 1
      /\ bits = SubSeq(Written(track), 1,
                       IF at = 1 THEN Len(track) ELSE InOrder(Transitions(track))[at - 1])
FollowInv ==
    /\ TrackKept
    /\ mode = "index" /\ missed = 0 /\ Regular => Settling /\ Followed /\ RevolutionTrue

LEMMA FollowInit == Init => FollowInv
<1> SUFFICES ASSUME Init PROVE FollowInv
  OBVIOUS
<1>1. TrackKept
  <2>1. track \in Seq(BOOLEAN) \ {<<>>} BY RevolutionAssumption DEF Init
  <2> QED BY <2>1 DEF Init, TrackKept
<1>2. Settling
  <2>1. cut \in Nat BY RevolutionAssumption DEF Init
  <2> QED BY <2>1 DEF Init, Settling
<1>3. Followed /\ RevolutionTrue
  BY DEF Init, Followed, RevolutionTrue, Without
<1> QED BY <1>1, <1>2, <1>3 DEF FollowInv

(* The step that matters: a transition passes the head.                    *)
LEMMA FollowPass ==
    ASSUME ReadInv, TrackKept, mode = "index", missed = 0, Regular,
           Settling, Followed, RevolutionTrue,
           NEW shift \in {0} \cup Displacements, Pass(shift)
    PROVE  Settling' /\ Followed' /\ RevolutionTrue'
<1> DEFINE gap == gaps[at]
           delay == gap * cell + shift - cut
           r == Submit(pll, delay)
<1>1. /\ Gap = gap /\ gap \in 2..4 /\ (AtIndex <=> at = 1)
      /\ cell \in Speeds /\ pll \in [clock : Int, pending : Int]
      /\ shift \in Shifts /\ gap * cell \in Int /\ at \in DOMAIN gaps /\ cut \in Nat
  <2>1. cell \in Speeds /\ pll \in [clock : Int, pending : Int] /\ at \in DOMAIN gaps
    BY DEF ReadInv, DelayType, DecoderType
  <2>2. gap \in 2..4 BY <2>1 DEF Regular
  <2>3. carried.cells = 0 /\ ~carried.index /\ cut \in Nat BY DEF Settling
  <2>4. Gap = gap /\ (AtIndex <=> at = 1) BY <2>2, <2>3 DEF Gap, AtIndex
  <2>5. gap * cell \in Int
    <3>1. gap \in Int /\ cell \in Int BY <2>1, <2>2 DEF Speeds
    <3> HIDE DEF gap
    <3> QED BY <3>1
  <2>6. shift \in Shifts BY DEF Displacements, Shifts
  <2> QED BY <2>1, <2>2, <2>3, <2>4, <2>5, <2>6
<1>2. /\ pll' = r.pll
      /\ bits' = (IF at = 1 /\ indices = 0 THEN <<>> ELSE bits)
                   \o (IF r.cells = 0 THEN <<>> ELSE CellsOf(r.cells))
      /\ indices' = IF at = 1 THEN indices + 1 ELSE indices
      /\ before' = IF indices = 0 /\ at # 1 /\ shifts' = 0 THEN before + 1 ELSE before
      /\ result' = Without("TrackTooLarge") \/ result' = result
  <2>1. Decoded(delay, AtIndex) BY <1>1, Zenon DEF Pass
  <2> HIDE DEF delay
  <2> QED BY <1>1, <2>1, Zenon DEF Decoded
<1>3. /\ delay > 0 /\ Pending /\ ~(at = 1 /\ indices > 0)
      /\ shifts' = (IF shift # 0 THEN shifts + 1 ELSE shifts)
      /\ (shift # 0 => cut = 0)
      /\ cut' = 0 /\ carried' = [cells |-> 0, index |-> FALSE] /\ at' = Following
      /\ mode' = mode /\ track' = track /\ cell' = cell /\ gaps' = gaps
  BY <1>1 DEF Pass, Reading, diskVars
<1>4. /\ shifts \in Nat /\ before \in Nat /\ indices \in Nat
      /\ before > 0 => cut = 0
      /\ shifts = 0 /\ indices = 0 /\ before = 0 => pll = NewPll
      /\ shifts = 0 /\ indices = 0 /\ before = 1 => Cold(pll)
      /\ shifts = 0 /\ before >= 2 =>
           \E n \in 2..8 : (n >= before \/ n = 8) /\ Near(pll, cell, Bounds[n])
      /\ before >= 8 => InLock(pll, cell)
  BY DEF Settling
<1>5. shift \in Int /\ (shift = 0 \/ shift > 0 \/ shift < 0)
  BY DEF Displacements
<1> HIDE DEF gap, r, delay
<1>6. /\ shifts' \in Nat /\ before' \in Nat /\ indices' \in Nat
      /\ shifts' = 0 => shifts = 0 /\ shift = 0
      /\ shift # 0 => before' = before
      /\ at = 1 => before' = before /\ indices' > 0
      /\ indices # 0 => before' = before /\ indices' > 0
  BY <1>2, <1>3, <1>4, <1>5
<1>7. ASSUME before >= 8 PROVE r.cells = gap /\ InLock(r.pll, cell)
  <2>1. InLock(pll, cell) /\ cut = 0 BY <1>4, <1>7
  <2>2. delay = gap * cell + shift BY <1>1, <1>5, <2>1 DEF delay
  <2> QED BY <1>1, <2>1, <2>2, LockKept DEF r
<1>8. ASSUME shifts' = 0, before >= 2
      PROVE  /\ r.cells = gap
             /\ \E n \in 2..8 : (n >= before + 1 \/ n = 8) /\ Near(r.pll, cell, Bounds[n])
  <2>1. PICK n \in 2..8 : (n >= before \/ n = 8) /\ Near(pll, cell, Bounds[n])
    BY <1>4, <1>6, <1>8
  <2>2. shift = 0 /\ cut = 0 BY <1>4, <1>6, <1>8
  <2>3. delay = gap * cell BY <1>1, <2>2 DEF delay
  <2>4. r.cells = gap /\ Near(r.pll, cell, Bounds[IF n < 8 THEN n + 1 ELSE 8])
    BY <1>1, <2>1, <2>3, NearerStill DEF r
  <2>5. PICK m \in 2..8 : m = IF n < 8 THEN n + 1 ELSE 8
    BY <2>1
  <2>6. m >= before + 1 \/ m = 8 BY <1>4, <2>1, <2>5
  <2> QED BY <2>4, <2>5, <2>6
<1>9. ASSUME Settled' PROVE r.cells = gap \/ indices' = 0
  <2>1. CASE shifts' = 0
    <3>1. before' >= 2 BY <1>9, <2>1 DEF Settled
    <3>2. before >= 2 \/ indices' = 0 BY <1>2, <1>4, <1>6, <2>1, <3>1
    <3> QED BY <1>8, <2>1, <3>2
  <2>2. CASE shifts' # 0
    <3>1. before' >= 8 BY <1>9, <2>2 DEF Settled
    <3>2. before' = before BY <1>2, <2>2
    <3> QED BY <1>7, <3>1, <3>2
  <2> QED BY <2>1, <2>2
<1>10. Settling'
  <2>1. ASSUME before' >= 8 PROVE InLock(pll', cell')
    <3>1. CASE before >= 8 BY <1>2, <1>3, <1>7, <3>1
    <3>2. CASE before < 8
      <4>1. before' = before + 1 /\ shifts' = 0 /\ before >= 2
        BY <1>2, <1>4, <2>1, <3>2
      <4>2. PICK n \in 2..8 : (n >= before + 1 \/ n = 8) /\ Near(r.pll, cell, Bounds[n])
        BY <1>8, <4>1
      <4>3. n = 8 BY <1>4, <2>1, <4>1, <4>2
      <4> QED BY <1>2, <1>3, <4>2, <4>3 DEF Near, Bounds, InLock
    <3> QED BY <1>4, <3>1, <3>2
  <2>2. ASSUME shifts' = 0, before' >= 2
        PROVE  \E n \in 2..8 : (n >= before' \/ n = 8) /\ Near(pll', cell', Bounds[n])
    <3>1. CASE before >= 2
      <4>1. PICK n \in 2..8 : (n >= before + 1 \/ n = 8) /\ Near(r.pll, cell, Bounds[n])
        BY <1>8, <2>2, <3>1
      <4>2. n >= before' \/ n = 8 BY <1>2, <1>4, <4>1
      <4> QED BY <1>2, <1>3, <4>1, <4>2
    <3>2. CASE before < 2
      <4>1. /\ before = 1 /\ before' = 2 /\ indices = 0 /\ shifts = 0 /\ shift = 0 /\ cut = 0
            /\ Cold(pll)
        BY <1>2, <1>4, <1>6, <2>2, <3>2
      <4>2. delay = gap * cell BY <1>1, <4>1 DEF delay
      <4>3. Near(r.pll, cell, Bounds[2]) BY <1>1, <4>1, <4>2, SecondDelay DEF r
      <4> QED BY <1>2, <1>3, <4>1, <4>3
    <3> QED BY <1>4, <3>1, <3>2
  <2>3. ASSUME shifts' = 0, indices' = 0 PROVE before' = before + 1 /\ indices = 0
    BY <1>2, <1>4, <1>6, <2>3
  <2>4. ASSUME shifts' = 0, indices' = 0, before' = 1 PROVE Cold(pll')
    <3>1. before = 0 /\ shifts = 0 /\ shift = 0 /\ pll = NewPll
      BY <1>4, <1>6, <2>3, <2>4
    <3>2. delay = gap * cell - cut BY <1>1, <3>1 DEF delay
    <3>3. gap \in {2, 3, 4} /\ cut \in Int /\ cut >= 0 /\ cell \in Int /\ cell <= 2060
      BY <1>1 DEF Speeds
    <3>4. Cold(Submit(NewPll, delay).pll)
      <4>1. delay \in Int /\ 1 <= delay /\ delay <= 8240
        <5>1. CASE gap = 2 BY ONLY <1>3, <3>2, <3>3, <5>1
        <5>2. CASE gap = 3 BY ONLY <1>3, <3>2, <3>3, <5>2
        <5>3. CASE gap = 4 BY ONLY <1>3, <3>2, <3>3, <5>3
        <5> QED BY ONLY <3>3, <5>1, <5>2, <5>3
      <4> QED BY ONLY <4>1, FirstDelay
    <3>5. pll' = Submit(NewPll, delay).pll BY <1>2, <3>1, Zenon DEF r
    <3> QED BY <3>4, <3>5, Zenon
  <2>5. ~(shifts' = 0 /\ indices' = 0 /\ before' = 0) BY <1>4, <2>3
  <2> QED BY <1>3, <1>6, <2>1, <2>2, <2>4, <2>5 DEF Settling
<1>11. Followed'
  <2> SUFFICES ASSUME Pending', Settled', indices' > 0
               PROVE  /\ indices' = 1
                      /\ bits' = SubSeq(Written(track'), 1,
                                        IF at' = 1 THEN Len(track')
                                        ELSE InOrder(Transitions(track'))[at' - 1])
    BY DEF Followed
  <2> DEFINE p == InOrder(Transitions(track))
  <2>1. r.cells = gap /\ gap # 0 BY <1>1, <1>6, <1>9
  <2>2. Settled
    <3>1. before' = before \/ (before' = before + 1 /\ indices' = 0 /\ shifts' = 0)
      BY <1>2, <1>6
    <3>2. before' = before BY <1>6, <3>1
    <3>3. CASE shifts' = 0 BY <1>6, <3>2, <3>3 DEF Settled
    <3>4. CASE shifts' # 0
      <4>1. before >= 8 BY <3>2, <3>4 DEF Settled
      <4> QED BY <1>4, <4>1 DEF Settled
    <3> QED BY <3>3, <3>4
  <2>3. /\ at \in DOMAIN MfmToFlux(track) /\ gap = MfmToFlux(track)[at]
        /\ track \in Seq(BOOLEAN) /\ track # <<>>
    BY <1>1 DEF TrackKept, gap
  <2>4. /\ at = 1 => CellsOf(gap) = SubSeq(Written(track), 1, p[1])
        /\ at # 1 => SubSeq(Written(track), 1, p[at - 1]) \o CellsOf(gap)
                       = SubSeq(Written(track), 1, p[at])
    BY <1>1, <2>3, CellsFollow
  <2>5. bits' = SubSeq(Written(track), 1, p[at]) /\ indices' = 1
    <3>1. CASE at = 1
      <4>1. indices = 0 BY <1>3, <1>4, <3>1
      <4>2. bits' = <<>> \o CellsOf(gap) /\ indices' = 1 BY <1>2, <1>4, <2>1, <3>1, <4>1
      <4>3. CellsOf(gap) \in Seq(BOOLEAN)
        <5>1. gap \in Nat /\ CellsOf(gap) \in [1..gap -> BOOLEAN] BY <1>1 DEF CellsOf
        <5> QED BY <5>1, SeqDef
      <4>4. <<>> \o CellsOf(gap) = CellsOf(gap) BY <4>3, ConcatEmptySeq
      <4> QED BY <2>4, <3>1, <4>2, <4>4
    <3>2. CASE at # 1
      <4>1. indices' = indices /\ indices > 0 BY <1>2, <1>4, <3>2
      <4>2. indices = 1 /\ bits = SubSeq(Written(track), 1, p[at - 1])
        BY <1>3, <2>2, <3>2, <4>1 DEF Followed
      <4>3. bits' = bits \o CellsOf(gap) BY <1>2, <2>1, <3>2
      <4> QED BY <2>4, <3>2, <4>1, <4>2, <4>3
    <3> QED BY <3>1, <3>2
  <2>6. p[at] = IF at' = 1 THEN Len(track) ELSE p[at' - 1]
    <3>1. /\ gaps \in Seq(Int) /\ Len(gaps) \in Nat /\ p[Len(gaps)] = Len(track)
          /\ DOMAIN gaps = 1..Len(gaps)
      BY <2>3, FluxOfTrack DEF TrackKept
    <3> HIDE DEF p
    <3>2. at \in Int /\ 1 <= at /\ at <= Len(gaps) BY <1>1, <3>1
    <3>3. CASE at = Len(gaps)
      BY <1>3, <3>1, <3>3 DEF Following
    <3>4. CASE at # Len(gaps)
      <4>1. at' = at + 1 BY <1>3, <3>4 DEF Following
      <4>2. at' # 1 /\ at' - 1 = at BY <3>2, <4>1
      <4> QED BY <4>2
    <3> QED BY <3>3, <3>4
  <2> QED BY <1>3, <2>5, <2>6, Zenon
<1>12. RevolutionTrue'
  <2>1. result'.kind # "revolution" BY <1>2, <1>3 DEF Without, Pending
  <2> QED BY <2>1 DEF RevolutionTrue
<1> QED BY <1>10, <1>11, <1>12

LEMMA FollowStep == ReadInv /\ FollowInv /\ [Next]_vars => FollowInv'
<1> SUFFICES ASSUME ReadInv, FollowInv, [Next]_vars PROVE FollowInv'
  OBVIOUS
<1> USE DEF FollowInv
<1>1. CASE Miss
  <2>1. missed' # 0 BY <1>1 DEF Miss, TrackKept
  <2>2. TrackKept' BY <1>1 DEF Miss, TrackKept, diskVars
  <2> QED BY <2>1, <2>2
<1>2. ASSUME NEW shift \in {0} \cup Displacements, Pass(shift) PROVE FollowInv'
  <2>1. mode' = mode /\ missed' = missed /\ track' = track /\ gaps' = gaps
    BY <1>2 DEF Pass, diskVars
  <2>2. TrackKept' BY <2>1 DEF TrackKept
  <2>3. Regular' => Regular BY <2>1 DEF Regular
  <2> QED BY <1>2, <2>1, <2>2, <2>3, FollowPass
<1>3. CASE Stop
  <2>1. TrackKept' BY <1>3 DEF Stop, TrackKept, diskVars
  <2>2. Settling => Settling' BY <1>3 DEF Stop, Settling, diskVars, decodeVars
  <2>3. Followed => Followed'
    BY <1>3 DEF Stop, Followed, Settled, Pending, diskVars, decodeVars
  <2>4. RevolutionTrue' BY <1>3 DEF Stop, RevolutionTrue
  <2>5. Regular' => Regular BY <1>3 DEF Stop, Regular, diskVars
  <2> QED BY <1>3, <2>1, <2>2, <2>3, <2>4, <2>5 DEF Stop, diskVars
<1>4. CASE AtSecondIndex
  <2>1. TrackKept' /\ mode' = mode /\ missed' = missed
    BY <1>4 DEF AtSecondIndex, TrackKept, diskVars, headVars
  <2>2. Regular' => Regular BY <1>4 DEF AtSecondIndex, Regular, diskVars
  <2>3. ASSUME Settling, Followed PROVE Settling' /\ Followed' /\ RevolutionTrue'
    <3>1. indices \in Nat /\ indices > 0 /\ indices' = indices + 1 /\ Pending
      BY <1>4, <2>3 DEF AtSecondIndex, Settling, Reading
    <3>2. Settling'
      BY <1>4, <2>3, <3>1 DEF AtSecondIndex, Settling, diskVars, headVars
    <3>3. result' = Without("Protocol") \/ result' = Without("TrackTooLarge")
          \/ result' = Revolution(bits, TRUE)
      BY <1>4 DEF AtSecondIndex, Revolved
    <3>4. Followed' BY <3>3 DEF Followed, Pending, Without, Revolution
    <3>5. RevolutionTrue'
      <4> SUFFICES ASSUME result'.kind = "revolution", Settled'
                   PROVE  result'.bits = Written(track')
        BY DEF RevolutionTrue
      <4>1. result'.bits = bits BY <3>3 DEF Without, Revolution
      <4>2. Settled /\ track' = track
        BY <1>4 DEF AtSecondIndex, Settled, diskVars, headVars
      <4>3. at = 1 BY <1>4, <2>3 DEF AtSecondIndex, AtIndex, Settling
      <4>4. bits = SubSeq(Written(track), 1, Len(track))
        BY <2>3, <3>1, <4>2, <4>3 DEF Followed
      <4>5. SubSeq(Written(track), 1, Len(track)) = Written(track)
        <5>1. Len(track) \in Nat /\ DOMAIN track = 1..Len(track) BY DEF TrackKept
        <5>2. Written(track) \in [1..Len(track) -> BOOLEAN] BY <5>1 DEF Written, TrackKept
        <5> DEFINE W == Written(track)
        <5>3. W \in Seq(BOOLEAN) BY <5>1, <5>2, SeqDef
        <5>4. Len(W) = Len(track) BY <5>1, <5>2, <5>3
        <5> HIDE DEF W
        <5>5. SubSeq(W, 1, Len(W)) = W BY <5>3, SubSeqFull
        <5> QED BY <5>4, <5>5 DEF W
      <4> QED BY <4>1, <4>2, <4>4, <4>5
    <3> QED BY <3>2, <3>4, <3>5
  <2> QED BY <2>1, <2>2, <2>3
<1>5. CASE AtEndOfStream
  <2>1. TrackKept' /\ mode' = mode /\ missed' = missed /\ stopped'
    BY <1>5 DEF AtEndOfStream, TrackKept, diskVars, headVars
  <2>2. Regular' => Regular BY <1>5 DEF AtEndOfStream, Regular, diskVars
  <2>3. Settling => Settling'
    BY <1>5 DEF AtEndOfStream, Settling, diskVars, headVars, decodeVars
  <2>4. Followed'
    <3>1. result' = Without("Protocol") \/ result' = Without("TrackTooLarge")
          \/ result' = Revolution(bits, indices > 0)
      BY <1>5 DEF AtEndOfStream, Revolved
    <3> QED BY <3>1 DEF Followed, Pending, Without, Revolution
  <2>5. RevolutionTrue' BY <2>1 DEF RevolutionTrue
  <2> QED BY <2>1, <2>2, <2>3, <2>4, <2>5
<1>6. CASE JoinUp
  <2>1. TrackKept' /\ mode' = "immediate"
    BY <1>6 DEF JoinUp, TrackKept, diskVars, headVars
  <2> QED BY <2>1
<1>7. CASE UNCHANGED vars
  <2>1. TrackKept' /\ (Regular' => Regular) /\ mode' = mode /\ missed' = missed
    BY <1>7 DEF vars, diskVars, headVars, TrackKept, Regular
  <2>2. Settling => Settling'
    BY <1>7 DEF vars, diskVars, headVars, decodeVars, Settling
  <2>3. Followed => Followed'
    BY <1>7 DEF vars, diskVars, headVars, decodeVars, Followed, Pending, Settled
  <2>4. RevolutionTrue => RevolutionTrue'
    BY <1>7 DEF vars, diskVars, headVars, decodeVars, RevolutionTrue, Settled
  <2> QED BY <2>1, <2>2, <2>3, <2>4
<1> QED BY <1>1, <1>2, <1>3, <1>4, <1>5, <1>6, <1>7 DEF Next, Over

(* RevolutionHolds: RevolutionTrue for every track whose transitions are   *)
(* two to four cells apart, as all that the drive's formats write are,     *)
(* wherever in it the read began, at every speed the separator allows for, *)
(* and with any number of its transitions displaced (flux_to_revolution).  *)
THEOREM RevolutionHolds == Spec => [](Regular => RevolutionTrue)
<1>1. FollowInv /\ Regular => RevolutionTrue
  BY DEF FollowInv, RevolutionTrue
<1> QED
  BY <1>1, FollowInit, FollowStep, ReadInvariant, PTL DEF Spec

-----------------------------------------------------------------------------
(* Two positions of a turn that differ by whole turns are the same.        *)
LEMMA SameInTurn ==
    ASSUME NEW L \in Int, L > 0, NEW a \in 0..(L - 1), NEW b \in 0..(L - 1),
           NEW d \in Int, a = b + d * L
    PROVE  a = b
<1>1. CASE d = 0
  BY <1>1
<1>2. CASE d >= 1
  <2>1. d * L >= L
    BY <1>2
  <2> QED BY <2>1
<1>3. CASE d <= -1
  <2>1. d * L <= -L
    BY <1>3
  <2> QED BY <2>1
<1> QED
  BY <1>1, <1>2, <1>3

(* The remainder: a turn's worth of positions, and whole turns aside.      *)
LEMMA Remainder ==
    ASSUME NEW L \in Int, L > 0, NEW a \in Int
    PROVE  /\ a % L \in 0..(L - 1) /\ a \div L \in Int
           /\ a = (a % L) + (a \div L) * L
  OBVIOUS

LEMMA RemainderIs ==
    ASSUME NEW L \in Int, L > 0, NEW a \in Int, NEW b \in 0..(L - 1),
           NEW d \in Int, a = b + d * L
    PROVE  a % L = b
<1> DEFINE e == d - a \div L
<1>1. a % L \in 0..(L - 1) /\ a \div L \in Int /\ a = (a % L) + (a \div L) * L
  BY Remainder
<1>2. (d - a \div L) * L = d * L - (a \div L) * L
  BY <1>1
<1>3. d * L \in Int /\ (a \div L) * L \in Int
  BY <1>1
<1>4. a % L = b + e * L /\ e \in Int
  BY <1>1, <1>2, <1>3
<1> HIDE DEF e
<1> QED
  BY <1>1, <1>4, SameInTurn

(* Turns taken off before adding make no difference.                       *)
LEMMA AddInTurn ==
    ASSUME NEW L \in Int, L > 0, NEW a \in Int, NEW b \in Int
    PROVE  ((a % L) + b) % L = (a + b) % L
<1> DEFINE d == (a + b) \div L - a \div L
<1>1. a % L \in 0..(L - 1) /\ a \div L \in Int /\ a = (a % L) + (a \div L) * L
  BY Remainder
<1>2. /\ (a + b) % L \in 0..(L - 1) /\ (a + b) \div L \in Int
      /\ a + b = ((a + b) % L) + ((a + b) \div L) * L
  BY Remainder
<1>3. ((a + b) \div L - a \div L) * L = ((a + b) \div L) * L - (a \div L) * L
  BY <1>1, <1>2
<1>4. (a \div L) * L \in Int /\ ((a + b) \div L) * L \in Int
  BY <1>1, <1>2
<1>5. (a % L) + b = ((a + b) % L) + d * L /\ d \in Int
  BY <1>1, <1>2, <1>3, <1>4
<1>6. (a % L) + b \in Int
  BY <1>1
<1> DEFINE x == (a % L) + b
           y == (a + b) % L
<1>7. x \in Int /\ y \in 0..(L - 1) /\ d \in Int /\ x = y + d * L
  BY <1>2, <1>5, <1>6
<1> HIDE DEF d, x, y
<1>8. x % L = y
  BY <1>7, RemainderIs
<1> QED
  BY <1>8 DEF x, y

-----------------------------------------------------------------------------
(* The position of the ring at which the s-th of the rotated one lies.     *)
Turned(ring, r, s) == (r + s) % Len(ring)

(* From there on the two rings are the same.                               *)
LEMMA RotatedAt ==
    ASSUME NEW ring \in Seq(BOOLEAN), ring # <<>>, NEW r \in Int, NEW s \in Int, NEW k \in Int
    PROVE  At(Rotated(ring, r), s + k) = At(ring, Turned(ring, r, s) + k)
<1> DEFINE L == Len(ring)
<1>1. L \in Int /\ L > 0 /\ DOMAIN ring = 1..L
  OBVIOUS
<1>2. DOMAIN Rotated(ring, r) = 1..L /\ Len(Rotated(ring, r)) = L
  BY <1>1 DEF Rotated
<1> DEFINE p == (s + k) % L
<1>3. p \in 0..(L - 1)
  BY <1>1, Remainder
<1>4. p + 1 \in DOMAIN ring /\ (p + 1) - 1 = p
  BY <1>1, <1>3
<1>5. At(Rotated(ring, r), s + k) = Rotated(ring, r)[p + 1]
  BY <1>2 DEF At
<1>6. Rotated(ring, r)[p + 1] = At(ring, r + (p + 1) - 1)
  BY <1>4 DEF Rotated
<1>7. r + (p + 1) - 1 = p + r
  BY <1>3
<1>8. At(ring, p + r) = ring[((p + r) % L) + 1]
  BY DEF At
<1>9. At(ring, Turned(ring, r, s) + k) = ring[((((r + s) % L) + k) % L) + 1]
  BY DEF At, Turned
<1> HIDE DEF L
<1>10. (p + r) % L = ((s + k) + r) % L
  <2>1. s + k \in Int
    OBVIOUS
  <2> QED BY <1>1, <2>1, AddInTurn, Zenon
<1>11. (((r + s) % L) + k) % L = ((r + s) + k) % L
  <2>1. r + s \in Int
    OBVIOUS
  <2> QED BY <1>1, <2>1, AddInTurn, Zenon
<1>12. (s + k) + r = (r + s) + k
  OBVIOUS
<1> QED
  BY <1>5, <1>6, <1>7, <1>8, <1>9, <1>10, <1>11, <1>12 DEF L

(* Two rings that are the same from p and from q on.                       *)
Same(A, p, B, q) == \A k \in Int : At(A, p + k) = At(B, q + k)

LEMMA SameOn ==
    ASSUME NEW A, NEW B, NEW p \in Int, NEW q \in Int, NEW n \in Int, Same(A, p, B, q)
    PROVE  Same(A, p + n, B, q + n)
<1>1. ASSUME NEW k \in Int PROVE At(A, (p + n) + k) = At(B, (q + n) + k)
  <2>1. n + k \in Int /\ p + (n + k) = (p + n) + k /\ q + (n + k) = (q + n) + k
    OBVIOUS
  <2>2. At(A, p + (n + k)) = At(B, q + (n + k))
    BY <2>1, Zenon DEF Same
  <2> QED BY <2>1, <2>2
<1> QED
  BY <1>1 DEF Same

LEMMA SameStored ==
    ASSUME NEW A, NEW B, NEW p \in Int, NEW q \in Int, Same(A, p, B, q)
    PROVE  Stored(A, p) = Stored(B, q)
<1>1. ASSUME NEW i \in Cells
      PROVE  At(A, p + i + 1) = At(B, q + i + 1) /\ At(A, p + LongCells + i) = At(B, q + LongCells + i)
  <2>1. i \in Int /\ LongCells \in Int
    BY <1>1, ScanAssumption DEF Cells
  <2>2. /\ i + 1 \in Int /\ p + (i + 1) = p + i + 1 /\ q + (i + 1) = q + i + 1
        /\ LongCells + i \in Int /\ p + (LongCells + i) = p + LongCells + i
        /\ q + (LongCells + i) = q + LongCells + i
    BY <2>1
  <2>3. /\ At(A, p + (i + 1)) = At(B, q + (i + 1))
        /\ At(A, p + (LongCells + i)) = At(B, q + (LongCells + i))
    BY <2>2, Zenon DEF Same
  <2> QED BY <2>2, <2>3
<1> QED
  BY <1>1 DEF Stored

LEMMA SameChecksum ==
    ASSUME NEW A, NEW B, NEW p \in Int, NEW q \in Int, NEW longs \in Int, Same(A, p, B, q)
    PROVE  Checksum(A, p, longs) = Checksum(B, q, longs)
<1>1. ASSUME NEW i \in Cells, NEW k \in 0..(longs - 1)
      PROVE  At(A, p + k * LongCells + i) = At(B, q + k * LongCells + i)
  <2>1. k * LongCells \in Int /\ i \in Int
    BY <1>1, ScanAssumption DEF Cells
  <2>2. /\ k * LongCells + i \in Int
        /\ p + (k * LongCells + i) = p + k * LongCells + i
        /\ q + (k * LongCells + i) = q + k * LongCells + i
    BY <2>1
  <2>3. At(A, p + (k * LongCells + i)) = At(B, q + (k * LongCells + i))
    BY <2>2, Zenon DEF Same
  <2> QED BY <2>2, <2>3
<1>2. ASSUME NEW i \in Cells
      PROVE  {k \in 0..(longs - 1) : At(A, p + k * LongCells + i)}
               = {k \in 0..(longs - 1) : At(B, q + k * LongCells + i)}
  BY <1>1, <1>2
<1> QED
  BY <1>2 DEF Checksum

(* What is made of a sector is the same.                                   *)
LEMMA SameSector ==
    ASSUME NEW A, NEW B, NEW s \in Int, NEW t \in Int, Same(A, s, B, t)
    PROVE  /\ SectorAt(A, s) = SectorAt(B, t)
           /\ HeaderValid(A, s) <=> HeaderValid(B, t)
           /\ DataValid(A, s) <=> DataValid(B, t)
<1> DEFINE b == 2 * Len(SyncWord)
           h == b + (2 + LabelLongs) * LongCells
           d == h + 2 * LongCells
           e == d + 2 * LongCells
<1>1. /\ b \in Int /\ h \in Int /\ d \in Int /\ e \in Int
      /\ Body(s) = s + b /\ Body(t) = t + b
      /\ HeaderChecksumAt(s) = s + h /\ HeaderChecksumAt(t) = t + h
      /\ DataChecksumAt(s) = s + d /\ DataChecksumAt(t) = t + d
      /\ DataAt(s) = s + e /\ DataAt(t) = t + e
  <2> DEFINE w == Len(SyncWord)
             m == (2 + LabelLongs) * LongCells
  <2>1. w \in Int /\ m \in Int /\ LongCells \in Int
    BY ScanAssumption
  <2>2. \A x : /\ Body(x) = x + 2 * w
               /\ HeaderChecksumAt(x) = x + 2 * w + m
               /\ DataChecksumAt(x) = x + 2 * w + m + 2 * LongCells
               /\ DataAt(x) = x + 2 * w + m + 2 * LongCells + 2 * LongCells
    BY Zenon DEF Body, HeaderChecksumAt, DataChecksumAt, DataAt
  <2>3. b = 2 * w /\ h = 2 * w + m /\ d = 2 * w + m + 2 * LongCells
        /\ e = 2 * w + m + 2 * LongCells + 2 * LongCells
    OBVIOUS
  <2> HIDE DEF w, m, b, h, d, e
  <2> QED BY <2>1, <2>2, <2>3
<1> HIDE DEF b, h, d, e
<1>2. /\ Same(A, s + b, B, t + b) /\ Same(A, s + h, B, t + h)
      /\ Same(A, s + d, B, t + d) /\ Same(A, s + e, B, t + e)
  BY <1>1, SameOn
<1>3. /\ s + b \in Int /\ s + h \in Int /\ s + d \in Int /\ s + e \in Int
      /\ t + b \in Int /\ t + h \in Int /\ t + d \in Int /\ t + e \in Int
  BY <1>1
<1>4. /\ Stored(A, s + b) = Stored(B, t + b) /\ Stored(A, s + h) = Stored(B, t + h)
      /\ Stored(A, s + d) = Stored(B, t + d)
  BY <1>2, <1>3, SameStored
<1>5. 2 + LabelLongs \in Int /\ DataLongs \in Int
  BY ScanAssumption
<1>6. /\ Checksum(A, s + b, 2 + LabelLongs) = Checksum(B, t + b, 2 + LabelLongs)
      /\ Checksum(A, s + e, DataLongs) = Checksum(B, t + e, DataLongs)
  BY <1>2, <1>3, <1>5, SameChecksum
<1> QED
  BY <1>1, <1>4, <1>6 DEF SectorAt, HeaderValid, DataValid

-----------------------------------------------------------------------------
LEMMA RotatedSame ==
    ASSUME NEW ring \in Seq(BOOLEAN), ring # <<>>, NEW r \in Int, NEW s \in Int
    PROVE  Same(Rotated(ring, r), s, ring, Turned(ring, r, s))
  BY RotatedAt DEF Same

LEMMA RotatedSize ==
    ASSUME NEW ring \in Seq(BOOLEAN), ring # <<>>, NEW r \in Int
    PROVE  /\ Len(Rotated(ring, r)) = Len(ring)
           /\ Len(ring) \in Int /\ Len(ring) > 0
           /\ \A s \in Int : Turned(ring, r, s) \in 0..(Len(ring) - 1)
<1>1. Len(ring) \in Int /\ Len(ring) > 0 /\ DOMAIN ring = 1..Len(ring)
  OBVIOUS
<1>2. Len(Rotated(ring, r)) = Len(ring)
  BY <1>1 DEF Rotated
<1>3. ASSUME NEW s \in Int PROVE Turned(ring, r, s) \in 0..(Len(ring) - 1)
  BY <1>1, Remainder DEF Turned
<1> QED
  BY <1>1, <1>2, <1>3

(* A sync word lies in the one where it lies in the other.                 *)
LEMMA RotatedSync ==
    ASSUME NEW ring \in Seq(BOOLEAN), ring # <<>>, NEW r \in Int,
           NEW s \in 0..(Len(ring) - 1)
    PROVE  s \in Syncs(Rotated(ring, r)) <=> Turned(ring, r, s) \in Syncs(ring)
<1> DEFINE A == Rotated(ring, r)
           t == Turned(ring, r, s)
<1>1. Len(A) = Len(ring) /\ Len(ring) \in Int /\ t \in 0..(Len(ring) - 1)
  <2>1. s \in Int
    OBVIOUS
  <2> QED BY <2>1, RotatedSize, Zenon
<1>2. Same(A, s, ring, t)
  BY <1>1, RotatedSame
<1> HIDE DEF A, t
<1>3. ASSUME NEW i \in DOMAIN SyncWord PROVE At(A, s + i - 1) = At(ring, t + i - 1)
  <2>1. i \in Int
    BY ScanAssumption
  <2>2. i - 1 \in Int /\ s + (i - 1) = s + i - 1 /\ t + (i - 1) = t + i - 1
    BY <1>1, <2>1
  <2>3. At(A, s + (i - 1)) = At(ring, t + (i - 1))
    BY <1>2, <2>2, Zenon DEF Same
  <2> QED BY <2>2, <2>3
<1>4. s \in Syncs(A) <=> \A i \in DOMAIN SyncWord : At(A, s + i - 1) = SyncWord[i]
  BY <1>1 DEF Syncs
<1>5. t \in Syncs(ring) <=> \A i \in DOMAIN SyncWord : At(ring, t + i - 1) = SyncWord[i]
  BY <1>1 DEF Syncs
<1>6. s \in Syncs(A) <=> t \in Syncs(ring)
  BY <1>3, <1>4, <1>5
<1> QED
  BY <1>6 DEF A, t

(* n positions further on.                                                 *)
LEMMA TurnedOn ==
    ASSUME NEW ring \in Seq(BOOLEAN), ring # <<>>, NEW r \in Int, NEW s \in Int, NEW n \in Int
    PROVE  Turned(ring, r, (s + n) % Len(ring)) = (Turned(ring, r, s) + n) % Len(ring)
<1> DEFINE L == Len(ring)
<1>1. L \in Int /\ L > 0
  OBVIOUS
<1> HIDE DEF L
<1> DEFINE p == (s + n) % L
           q == (r + s) % L
<1>2. p \in Int /\ s + n \in Int /\ r + s \in Int
  BY <1>1, Remainder
<1>3. (p + r) % L = ((s + n) + r) % L
  BY <1>1, <1>2, AddInTurn, Zenon
<1>4. (q + n) % L = ((r + s) + n) % L
  BY <1>1, <1>2, AddInTurn, Zenon
<1>5. (s + n) + r = (r + s) + n
  OBVIOUS
<1>6. p + r = r + p
  BY <1>2
<1>7. (r + p) % L = (q + n) % L
  BY <1>3, <1>4, <1>5, <1>6
<1> QED
  BY <1>7 DEF L, Turned

LEMMA RotatedStart ==
    ASSUME NEW ring \in Seq(BOOLEAN), ring # <<>>, NEW r \in Int,
           NEW s \in 0..(Len(ring) - 1)
    PROVE  s \in SectorStarts(Rotated(ring, r)) <=> Turned(ring, r, s) \in SectorStarts(ring)
<1> DEFINE A == Rotated(ring, r)
           t == Turned(ring, r, s)
           w == Len(SyncWord)
           L == Len(ring)
<1>1. Len(A) = L /\ L \in Int /\ L > 0 /\ t \in 0..(L - 1) /\ w \in Int
  <2>1. s \in Int
    OBVIOUS
  <2>2. w \in Int
    BY ScanAssumption
  <2> QED BY <2>1, <2>2, RotatedSize, Zenon
<1>2. ASSUME NEW n \in Int
      PROVE  (s + n) % L \in Syncs(A) <=> (t + n) % L \in Syncs(ring)
  <2>1. (s + n) % L \in 0..(L - 1)
    BY <1>1, Remainder
  <2>2. (s + n) % L \in Syncs(A) <=> Turned(ring, r, (s + n) % L) \in Syncs(ring)
    BY <2>1, RotatedSync
  <2>3. Turned(ring, r, (s + n) % L) = (t + n) % L
    BY TurnedOn
  <2> QED BY <2>2, <2>3
<1>3. s \in Syncs(A) <=> t \in Syncs(ring)
  BY RotatedSync
<1> HIDE DEF A, t, w, L
<1>4. (s + w) % L \in Syncs(A) <=> (t + w) % L \in Syncs(ring)
  BY <1>1, <1>2
<1>5. (s + L - w) % L \in Syncs(A) <=> (t + L - w) % L \in Syncs(ring)
  <2>1. L - w \in Int /\ s + (L - w) = s + L - w /\ t + (L - w) = t + L - w
    BY <1>1
  <2>2. (s + (L - w)) % L \in Syncs(A) <=> (t + (L - w)) % L \in Syncs(ring)
    BY <1>2, <2>1
  <2> QED BY <2>1, <2>2
<1> QED
  BY <1>1, <1>3, <1>4, <1>5 DEF SectorStarts, A, t, w, L

LEMMA RotatedHeader ==
    ASSUME NEW ring \in Seq(BOOLEAN), ring # <<>>, NEW r \in Int,
           NEW s \in 0..(Len(ring) - 1)
    PROVE  LET A == Rotated(ring, r)
               t == Turned(ring, r, s)
           IN /\ t \in 0..(Len(ring) - 1)
              /\ s \in Headers(A) <=> t \in Headers(ring)
              /\ SectorAt(A, s) = SectorAt(ring, t)
              /\ DataValid(A, s) <=> DataValid(ring, t)
<1> DEFINE A == Rotated(ring, r)
           t == Turned(ring, r, s)
<1>1. t \in 0..(Len(ring) - 1) /\ Len(ring) \in Int
  <2>1. s \in Int
    OBVIOUS
  <2> QED BY <2>1, RotatedSize, Zenon
<1>2. Same(A, s, ring, t)
  BY RotatedSame
<1>3. s \in SectorStarts(A) <=> t \in SectorStarts(ring)
  BY RotatedStart
<1> HIDE DEF A, t
<1>4. /\ SectorAt(A, s) = SectorAt(ring, t)
      /\ HeaderValid(A, s) <=> HeaderValid(ring, t)
      /\ DataValid(A, s) <=> DataValid(ring, t)
  BY <1>1, <1>2, SameSector
<1>5. s \in Headers(A) <=> t \in Headers(ring)
  BY <1>3, <1>4 DEF Headers
<1> QED
  BY <1>1, <1>4, <1>5 DEF A, t

(* Turning is a bijection: a position lies at one place in each ring.      *)
LEMMA TurnedOnce ==
    ASSUME NEW ring \in Seq(BOOLEAN), ring # <<>>, NEW r \in Int
    PROVE  /\ \A s1, s2 \in 0..(Len(ring) - 1) :
                 Turned(ring, r, s1) = Turned(ring, r, s2) => s1 = s2
           /\ \A t \in 0..(Len(ring) - 1) :
                 \E s \in 0..(Len(ring) - 1) : Turned(ring, r, s) = t
<1> DEFINE L == Len(ring)
<1>1. L \in Int /\ L > 0
  OBVIOUS
<1> HIDE DEF L
<1>2. ASSUME NEW p \in 0..(L - 1) PROVE (p + 0 * L) % L = p /\ p % L = p
  <2>1. p \in Int /\ p = p + 0 * L
    BY <1>1
  <2> QED BY <1>1, <2>1, RemainderIs
<1>3. ASSUME NEW s \in 0..(L - 1) PROVE (((r + s) % L) + (-r)) % L = s
  <2>1. r + s \in Int /\ -r \in Int /\ (r + s) + (-r) = s
    BY <1>1
  <2>2. (((r + s) % L) + (-r)) % L = ((r + s) + (-r)) % L
    BY <1>1, <2>1, AddInTurn, Zenon
  <2> QED BY <1>2, <2>1, <2>2
<1>4. ASSUME NEW t \in 0..(L - 1) PROVE \E s \in 0..(L - 1) : (r + s) % L = t
  <2> DEFINE p == (t - r) % L
  <2>1. t - r \in Int /\ (t - r) + r = t /\ p \in 0..(L - 1)
    BY <1>1, Remainder
  <2>2. (p + r) % L = ((t - r) + r) % L
    BY <1>1, <2>1, AddInTurn, Zenon
  <2>3. p + r = r + p
    BY <1>1, <2>1
  <2>4. t % L = t
    BY <1>2
  <2>5. (r + p) % L = t
    <3> HIDE DEF p
    <3> QED BY <2>1, <2>2, <2>3, <2>4
  <2> HIDE DEF p
  <2> QED BY <2>1, <2>5
<1>5. ASSUME NEW s1 \in 0..(L - 1), NEW s2 \in 0..(L - 1), (r + s1) % L = (r + s2) % L
      PROVE  s1 = s2
  BY <1>3, <1>5, Zenon
<1>6. \A s1, s2 \in 0..(L - 1) : Turned(ring, r, s1) = Turned(ring, r, s2) => s1 = s2
  BY <1>5, Zenon DEF Turned, L
<1>7. \A t \in 0..(L - 1) : \E s \in 0..(L - 1) : Turned(ring, r, s) = t
  BY <1>4, Zenon DEF Turned, L
<1> QED
  BY <1>6, <1>7, Zenon DEF L

(* VerdictTurned: the verdict is one of the ring, wherever it is cut.      *)
THEOREM VerdictTurned ==
    ASSUME NEW ring \in Seq(BOOLEAN), ring # <<>>, NEW r \in Int
    PROVE  ScanRevolution(Rotated(ring, r)) = ScanRevolution(ring)
<1> DEFINE A == Rotated(ring, r)
           P == 0..(Len(ring) - 1)
           f == [s \in Headers(A) |-> Turned(ring, r, s)]
<1>1. Len(A) = Len(ring) /\ Len(ring) \in Int
  BY RotatedSize
<1>2. Headers(A) \subseteq P /\ Headers(ring) \subseteq P
  BY <1>1 DEF Headers, SectorStarts, Syncs
<1>3. ASSUME NEW s \in P
      PROVE  /\ Turned(ring, r, s) \in P
             /\ s \in Headers(A) <=> Turned(ring, r, s) \in Headers(ring)
             /\ SectorAt(A, s) = SectorAt(ring, Turned(ring, r, s))
             /\ DataValid(A, s) <=> DataValid(ring, Turned(ring, r, s))
  BY RotatedHeader
<1>4. /\ \A s1, s2 \in P : Turned(ring, r, s1) = Turned(ring, r, s2) => s1 = s2
      /\ \A t \in P : \E s \in P : Turned(ring, r, s) = t
  BY TurnedOnce
<1>5. IsFiniteSet(Headers(A))
  <2>1. IsFiniteSet(P)
    BY <1>1, FS_Interval
  <2> QED BY <1>2, <2>1, FS_Subset
<1> HIDE DEF A, P
<1>6. Cardinality(Headers(A)) = Cardinality(Headers(ring))
  <2>1. f \in [Headers(A) -> Headers(ring)]
    BY <1>2, <1>3
  <2>2. \A s1, s2 \in Headers(A) : f[s1] = f[s2] => s1 = s2
    BY <1>2, <1>4
  <2>3. \A t \in Headers(ring) : \E s \in Headers(A) : f[s] = t
    BY <1>2, <1>3, <1>4
  <2>4. ExistsBijection(Headers(A), Headers(ring))
    <3> HIDE DEF f
    <3> QED BY <2>1, <2>2, <2>3
            DEF ExistsBijection, Bijection, Injection, Surjection, IsInjective
  <2> QED BY <1>5, <2>4, FS_Bijection
<1>7. GoodSectors(A) = GoodSectors(ring)
  <2>1. ASSUME NEW n \in GoodSectors(A) PROVE n \in GoodSectors(ring)
    <3>1. PICK s \in Headers(A) : DataValid(A, s) /\ n = SectorAt(A, s)
      BY DEF GoodSectors
    <3>2. s \in P
      BY <1>2
    <3> QED BY <1>3, <3>1, <3>2 DEF GoodSectors
  <2>2. ASSUME NEW n \in GoodSectors(ring) PROVE n \in GoodSectors(A)
    <3>1. PICK t \in Headers(ring) : DataValid(ring, t) /\ n = SectorAt(ring, t)
      BY DEF GoodSectors
    <3>2. PICK s \in P : Turned(ring, r, s) = t
      BY <1>2, <1>4
    <3> QED BY <1>3, <3>1, <3>2 DEF GoodSectors
  <2> QED BY <2>1, <2>2
<1>8. Expected(A) = Expected(ring)
  BY <1>1 DEF Expected
<1>9. ScanRevolution(A) = ScanRevolution(ring)
  BY <1>1, <1>6, <1>7, <1>8, Zenon DEF ScanRevolution
<1> QED
  BY <1>9 DEF A

-----------------------------------------------------------------------------
(* A first delay of which little had gone by is decoded to its cells.      *)
LEMMA FirstWhole ==
    ASSUME NEW period \in Speeds, NEW gap \in 2..4, NEW gone \in 0..760
    PROVE  LET r == Submit(NewPll, gap * period - gone) IN
             r.cells = gap /\ Near(r.pll, period, Bounds[2])
<1>1. /\ NewPll = [clock |-> 2000, pending |-> 0] /\ gap \in {2, 3, 4}
      /\ period \in Int /\ 1940 <= period /\ period <= 2060
      /\ gone \in Int /\ 0 <= gone /\ gone <= 760
  BY DEF NewPll, ClockCentre, Speeds
<1>2. PICK off \in Int : off = period - 2000 /\ -60 <= off /\ off <= 60
  BY ONLY <1>1
<1>3. PICK error \in Int, delay \in Int : error = gap * off - gone /\ delay = gap * period - gone
  <2>1. gap * off \in Int /\ gap * period \in Int BY ONLY <1>1, <1>2
  <2> QED BY ONLY <1>1, <2>1
<1>4. 0 + delay = gap * 2000 + error /\ -1000 <= error /\ error <= 240
  <2>1. CASE gap = 2 BY ONLY <2>1, <1>1, <1>2, <1>3
  <2>2. CASE gap = 3 BY ONLY <2>2, <1>1, <1>2, <1>3
  <2>3. CASE gap = 4 BY ONLY <2>3, <1>1, <1>2, <1>3
  <2> QED BY ONLY <1>1, <2>1, <2>2, <2>3
<1> DEFINE part == Quotient(error, gap)
           pull == Quotient(part, 10)
           kept == Quotient(error, 2)
<1>5. /\ part \in Int /\ pull \in Int /\ kept \in Int
      /\ Rounded(error, gap, part, pull, kept)
  <2>1. error \in Int /\ gap \in {2, 3, 4} BY ONLY <1>1, <1>3
  <2> QED BY ONLY <2>1, RoundedQuotients
<1>6. Submit([clock |-> 2000, pending |-> 0], delay) =
        [pll |-> [clock |-> Clamped(2000 + pull), pending |-> kept], cells |-> gap]
  <2>1. /\ 2000 \in Int /\ 1800 <= 2000 /\ 2000 <= 2200 /\ 0 \in Int
        /\ delay \in Int /\ error \in Int /\ gap \in {2, 3, 4}
        /\ -2000 <= 2 * error /\ 2 * error < 2000 - 1
    BY ONLY <1>1, <1>3, <1>4
  <2> QED BY ONLY <1>4, <2>1, SubmitExact
<1> HIDE DEF part, pull, kept
<1>7. PICK c \in Int : c = 2000 + pull BY ONLY <1>5
<1>8. /\ -502 <= kept /\ kept <= 502 /\ -125 <= period - c /\ period - c <= 125
      /\ -880 <= kept - 4 * (period - c) /\ kept - 4 * (period - c) <= 880
      /\ -865 <= kept + 8 * (period - c) /\ kept + 8 * (period - c) <= 865
  <2>1. CASE gap = 2 BY ONLY <2>1, <1>1, <1>2, <1>3, <1>4, <1>5, <1>7, SMTT(60) DEF Rounded
  <2>2. CASE gap = 3 BY ONLY <2>2, <1>1, <1>2, <1>3, <1>4, <1>5, <1>7, SMTT(60) DEF Rounded
  <2>3. CASE gap = 4 BY ONLY <2>3, <1>1, <1>2, <1>3, <1>4, <1>5, <1>7, SMTT(60) DEF Rounded
  <2> QED BY ONLY <1>1, <2>1, <2>2, <2>3
<1>9. Clamped(c) = c
  <2>1. 1800 <= c /\ c <= 2200 BY ONLY <1>1, <1>7, <1>8
  <2> QED BY ONLY <1>7, <2>1 DEF Clamped, ClockMin, ClockMax
<1>10. Submit(NewPll, gap * period - gone) = [pll |-> [clock |-> c, pending |-> kept], cells |-> gap]
  BY ONLY <1>1, <1>3, <1>6, <1>7, <1>9
<1>11. Near([clock |-> c, pending |-> kept], period, Bounds[2])
  BY <1>5, <1>8 DEF Near, Within, Bounds
<1> QED BY <1>10, <1>11

(* How many cells the first delay is decoded to, whatever was left of it.  *)
LEMMA FirstCells ==
    ASSUME NEW delay \in Int, 1 <= delay, delay <= 8240
    PROVE  LET r == Submit(NewPll, delay) IN
             r.cells \in 0..4 /\ (r.pll.pending > 500 => r.cells = 0)
<1>1. /\ NewPll = [clock |-> 2000, pending |-> 0]
      /\ 2000 \div 2 = 1000 /\ 0 + delay = delay
  BY DEF NewPll, ClockCentre
<1>2. CASE delay < 1000
  BY <1>1, <1>2 DEF Submit
<1>3. CASE 1000 <= delay
  <2>1. PICK n \in 1..4 : Zeros(2000, delay) = n - 1 /\ -1000 <= delay - n * 2000
                          /\ delay - n * 2000 <= 1000
    <3>1. CASE delay < 3000 BY <1>3, <3>1 DEF Zeros
    <3>2. CASE 3000 <= delay /\ delay < 5000 BY <3>2 DEF Zeros
    <3>3. CASE 5000 <= delay /\ delay < 7000 BY <3>3 DEF Zeros
    <3>4. CASE 7000 <= delay BY <3>4 DEF Zeros
    <3> QED BY <3>1, <3>2, <3>3, <3>4
  <2>2. PICK error \in Int : error = delay - n * 2000 /\ -1000 <= error /\ error <= 1000
    <3>1. n * 2000 \in Int OBVIOUS
    <3> QED BY ONLY <2>1, <3>1, 1 <= delay, delay \in Int
  <2>3. Error(2000, delay) = error BY <2>1, <2>2 DEF Error
  <2>4. Submit(NewPll, delay) =
          [pll |-> [clock |-> Clamped(Pulled(2000, delay)), pending |-> Quotient(error, 2)],
           cells |-> n]
    BY <1>1, <1>3, <2>1, <2>3 DEF Submit
  <2>5. Quotient(error, 2) \in Int /\ Quotient(error, 2) <= 500
    BY ONLY <2>2, Halved
  <2> QED BY <2>4, <2>5
<1> QED BY <1>2, <1>3

(* And the second.                                                         *)
LEMMA SecondCells ==
    ASSUME NEW period \in Speeds, NEW gap \in 2..4,
           NEW p \in [clock : Int, pending : Int], Cold(p)
    PROVE  LET r == Submit(p, gap * period) IN
             r.cells \in 0..5 /\ (p.pending <= 500 => r.cells <= 4)
<1>1. PICK clock \in Int, pending \in Int : clock = p.clock /\ pending = p.pending
  OBVIOUS
<1>2. /\ -500 <= pending /\ pending <= 999 /\ 1950 <= clock /\ clock <= 2050
      /\ pending <= 0 \/ clock >= 2000
      /\ pending > 500 => clock = 2000
  BY <1>1 DEF Cold, ClockCentre
<1>3. PICK sum \in Int : sum = pending + gap * period /\ 3380 <= sum /\ sum <= pending + 8240
  <2>1. gap \in {2, 3, 4} /\ period \in Int /\ 1940 <= period /\ period <= 2060 BY DEF Speeds
  <2>2. CASE gap = 2 BY ONLY <1>1, <1>2, <2>1, <2>2
  <2>3. CASE gap = 3 BY ONLY <1>1, <1>2, <2>1, <2>3
  <2>4. CASE gap = 4 BY ONLY <1>1, <1>2, <2>1, <2>4
  <2> QED BY ONLY <2>1, <2>2, <2>3, <2>4
<1>4. PICK half \in Int : /\ half = clock \div 2 /\ 2 * half <= clock /\ clock <= 2 * half + 1
  BY <1>1
<1>5. sum >= half BY ONLY <1>1, <1>2, <1>3, <1>4
<1>6. PICK zeros \in Int : /\ zeros = (sum - half) \div clock
                           /\ zeros * clock <= sum - half /\ sum - half < zeros * clock + clock
  <2>1. clock > 0 /\ sum - half \in Int BY ONLY <1>1, <1>2, <1>3, <1>4
  <2> QED BY ONLY <1>1, <2>1
<1>7. 0 <= zeros /\ zeros <= 4 /\ (pending <= 500 => zeros <= 3)
  <2>1. CASE zeros <= -1
    <3>1. zeros * clock <= -clock BY ONLY <2>1, <1>1, <1>2, <1>6
    <3>2. zeros * clock \in Int BY ONLY <1>1, <1>6
    <3> QED BY ONLY <3>1, <3>2, <1>1, <1>2, <1>3, <1>4, <1>5, <1>6
  <2>2. CASE zeros >= 5
    <3>1. zeros * clock >= 5 * clock BY ONLY <2>2, <1>1, <1>2, <1>6
    <3>2. zeros * clock \in Int BY ONLY <1>1, <1>6
    <3>3. 5 * clock <= sum - half BY ONLY <3>1, <3>2, <1>1, <1>3, <1>4, <1>6
    <3> QED BY ONLY <3>3, <1>1, <1>2, <1>3, <1>4
  <2>3. CASE zeros = 4
    <3>1. 4 * clock <= sum - half BY ONLY <2>3, <1>1, <1>3, <1>4, <1>6
    <3> QED BY ONLY <2>3, <3>1, <1>1, <1>2, <1>3, <1>4
  <2> QED BY ONLY <2>1, <2>2, <2>3, <1>6
<1>8. Submit(p, gap * period).cells = zeros + 1
  <2>1. ~(p.pending + gap * period < p.clock \div 2) BY <1>1, <1>3, <1>4, <1>5
  <2>2. Zeros(p.clock, p.pending + gap * period) = zeros BY <1>1, <1>3, <1>4, <1>6 DEF Zeros
  <2> QED BY <2>1, <2>2 DEF Submit
<1> QED BY <1>1, <1>6, <1>7, <1>8

-----------------------------------------------------------------------------
(* Whole turns make no difference to what lies at a position.              *)
LEMMA AtInTurn ==
    ASSUME NEW ring, NEW L \in Int, L > 0, Len(ring) = L, NEW x \in Int
    PROVE  /\ At(ring, x + L) = At(ring, x) /\ At(ring, x - L) = At(ring, x)
           /\ \A y \in Int : At(ring, (x % L) + y) = At(ring, x + y)
<1>1. \A a \in Int : (a + L) % L = a % L
  <2> SUFFICES ASSUME NEW a \in Int PROVE (a + L) % L = a % L OBVIOUS
  <2>1. a % L \in 0..(L - 1) /\ a \div L \in Int /\ a = (a % L) + (a \div L) * L
    BY Remainder
  <2> DEFINE b == a % L
             d == a \div L + 1
  <2>2. a + L = b + d * L /\ d \in Int /\ b \in 0..(L - 1) /\ a + L \in Int
    <3>1. (a \div L + 1) * L = (a \div L) * L + L /\ (a \div L) * L \in Int BY <2>1
    <3> QED BY <2>1, <3>1
  <2> HIDE DEF b, d
  <2>3. (a + L) % L = b BY <2>2, RemainderIs
  <2> QED BY <2>3 DEF b
<1>2. At(ring, x + L) = At(ring, x) BY <1>1 DEF At
<1>3. (x - L) + L = x /\ x - L \in Int OBVIOUS
<1>4. x % L = (x - L) % L BY <1>1, <1>3
<1>5. At(ring, x - L) = At(ring, x) BY <1>4 DEF At
<1>6. ASSUME NEW y \in Int PROVE At(ring, (x % L) + y) = At(ring, x + y)
  <2>1. ((x % L) + y) % L = (x + y) % L BY AddInTurn, Zenon
  <2> QED BY <2>1 DEF At
<1> QED BY <1>2, <1>5, <1>6

(* Where in the track the head is, before its k-th transition passes.      *)
HeadAt(cells, k) == IF k = 1 THEN 0 ELSE InOrder(Transitions(cells))[k - 1]

(* The cells from the skip-th on of such that end there are those before.  *)
Follows(cells, ring, head, skip) ==
    \A i \in DOMAIN cells : i > skip => (cells[i] <=> At(ring, head - Len(cells) + i - 1))

(* A delay decoded to the cells it was written as keeps them so.           *)
LEMMA DelayFollows ==
    ASSUME NEW cells \in Seq(BOOLEAN), NEW ring \in Seq(BOOLEAN), NEW skip \in Int,
           NEW head \in Int, NEW n \in Nat, 0 <= head, head + n <= Len(ring),
           \A j \in 1..n : ring[head + j] <=> j = n,
           Follows(cells, ring, head, skip)
    PROVE  Follows(cells \o CellsOf(n), ring, head + n, skip)
<1> DEFINE m == Len(cells)
           new == CellsOf(n)
           all == cells \o new
           L == Len(ring)
<1>1. new \in Seq(BOOLEAN) /\ Len(new) = n /\ \A j \in 1..n : new[j] <=> j = n
  <2>1. CellsOf(n) \in [1..n -> BOOLEAN] BY DEF CellsOf
  <2>2. new \in Seq(BOOLEAN) /\ Len(new) = n BY <2>1, SeqDef
  <2> QED BY <2>2 DEF CellsOf
<1>2. m \in Nat /\ L \in Nat OBVIOUS
<1> HIDE DEF new
<1>3. /\ all \in Seq(BOOLEAN) /\ Len(all) = m + n /\ DOMAIN all = 1..(m + n)
      /\ \A i \in 1..m : all[i] = cells[i]
      /\ \A j \in 1..n : all[m + j] = new[j]
  <2>1. all \in Seq(BOOLEAN) /\ Len(all) = m + n BY <1>1
  <2>2. DOMAIN all = 1..(m + n) BY <2>1, <1>2
  <2>3. \A i \in 1..m : all[i] = cells[i] BY <1>1, <1>2
  <2>4. \A j \in 1..n : all[m + j] = new[j] BY <1>1, <1>2
  <2> QED BY <2>1, <2>2, <2>3, <2>4
<1> HIDE DEF all, m, L
<1> SUFFICES ASSUME NEW i \in 1..(m + n), i > skip
             PROVE  all[i] <=> At(ring, (head + n) - (m + n) + i - 1)
  BY <1>1, <1>3 DEF Follows, all, new
<1>4. (head + n) - (m + n) + i - 1 = head - m + i - 1 /\ i \in Int BY <1>2
<1>5. CASE i <= m
  <2>1. i \in 1..m /\ DOMAIN cells = 1..m BY <1>2, <1>5 DEF m
  <2>2. cells[i] <=> At(ring, head - m + i - 1) BY <2>1 DEF Follows, m
  <2> QED BY <1>3, <1>4, <2>1, <2>2
<1>6. CASE i > m
  <2> DEFINE j == i - m
             x == head + j - 1
  <2>1. j \in 1..n /\ m + j = i /\ head - m + i - 1 = x BY <1>2, <1>4, <1>6
  <2>2. x \in 0..(L - 1) /\ L \in Int /\ L > 0 /\ x = x + 0 * L /\ x \in Int /\ x + 1 = head + j
    BY <1>2, <2>1 DEF L
  <2> HIDE DEF j, x
  <2>3. x % L = x BY <2>2, RemainderIs
  <2>4. At(ring, x) = ring[head + j] BY <2>2, <2>3 DEF At, L
  <2>5. all[i] = new[j] BY <1>3, <2>1
  <2> QED BY <1>1, <1>4, <2>1, <2>4, <2>5
<1> QED BY <1>2, <1>4, <1>5, <1>6

(* The end of the track is its beginning.                                  *)
LEMMA TurnFollows ==
    ASSUME NEW cells \in Seq(BOOLEAN), NEW ring \in Seq(BOOLEAN), ring # <<>>,
           NEW skip \in Int, Follows(cells, ring, Len(ring), skip)
    PROVE  Follows(cells, ring, 0, skip)
<1> DEFINE L == Len(ring)
           m == Len(cells)
<1>1. L \in Int /\ L > 0 /\ m \in Int OBVIOUS
<1> SUFFICES ASSUME NEW i \in DOMAIN cells, i > skip
             PROVE  cells[i] <=> At(ring, 0 - m + i - 1)
  BY DEF Follows
<1>2. i \in Int OBVIOUS
<1>3. cells[i] <=> At(ring, L - m + i - 1) BY DEF Follows
<1> DEFINE x == 0 - m + i - 1
<1>4. x \in Int /\ x + L = L - m + i - 1 BY <1>1, <1>2
<1> HIDE DEF x, L, m
<1>5. At(ring, x + L) = At(ring, x) BY <1>1, <1>4, AtInTurn DEF L
<1> QED BY <1>3, <1>4, <1>5 DEF x

-----------------------------------------------------------------------------
(* How far an immediate read has come, as long as nothing is missed or     *)
(* displaced: the separator as in an indexed one, and the cells but for    *)
(* the doubtful ones those that lie before the head.                       *)
Taking ==
    \/ cut = began /\ bits = <<>> /\ pll = NewPll
    \/ /\ cut = 0 /\ Doubtful = Unsettled /\ Cold(pll)
       /\ Len(bits) <= 4 /\ (pll.pending > 500 => Len(bits) = 0)
    \/ cut = 0 /\ \E n \in 2..8 : Near(pll, cell, Bounds[n])
Circled ==
    /\ carried = [cells |-> 0, index |-> FALSE] /\ cut \in Nat /\ began \in Nat
    /\ Taking
    /\ Follows(bits, Written(track), HeadAt(track, at), Doubtful)
Ended ==
    /\ result.kind \in {"pending", "revolution", "Protocol", "TrackTooLarge"}
    /\ mode = "immediate" /\ result.kind = "TrackTooLarge" => Len(bits) > MaxBits
RingInv ==
    /\ TrackKept /\ Ended /\ shifts \in Nat
    /\ mode = "immediate" /\ missed = 0 /\ shifts = 0 /\ Regular => Circled

LEMMA RingInit == Init => RingInv
<1> SUFFICES ASSUME Init PROVE RingInv
  OBVIOUS
<1>1. TrackKept
  <2>1. track \in Seq(BOOLEAN) \ {<<>>} BY RevolutionAssumption DEF Init
  <2> QED BY <2>1 DEF Init, TrackKept
<1>2. Circled
  <2>1. cut \in Nat /\ began = cut BY RevolutionAssumption DEF Init
  <2>2. Follows(<<>>, Written(track), HeadAt(track, at), Doubtful) BY DEF Follows
  <2> QED BY <2>1, <2>2 DEF Init, Circled, Taking
<1>3. Ended /\ shifts \in Nat BY DEF Init, Ended, Without
<1> QED BY <1>1, <1>2, <1>3 DEF RingInv

(* The step that matters: a transition passes the head.                    *)
LEMMA RingPass ==
    ASSUME ReadInv, TrackKept, mode = "immediate", Regular, Circled,
           missed = 0, shifts = 0, Pass(0)
    PROVE  Circled'
<1> DEFINE gap == gaps[at]
           delay == gap * cell + 0 - cut
           r == Submit(pll, delay)
           more == IF r.cells = 0 THEN <<>> ELSE CellsOf(r.cells)
           W == Written(track)
<1>1. /\ Gap = gap /\ gap \in 2..4 /\ cell \in Speeds /\ pll \in [clock : Int, pending : Int]
      /\ gap * cell \in Int /\ at \in DOMAIN gaps /\ cut \in Nat /\ began \in Nat
      /\ bits \in Seq(BOOLEAN)
  <2>1. /\ cell \in Speeds /\ pll \in [clock : Int, pending : Int] /\ at \in DOMAIN gaps
        /\ bits \in Seq(BOOLEAN)
    BY DEF ReadInv, DelayType, DecoderType
  <2>2. gap \in 2..4 BY <2>1 DEF Regular
  <2>3. carried.cells = 0 /\ cut \in Nat /\ began \in Nat BY DEF Circled
  <2>4. Gap = gap BY <2>2, <2>3 DEF Gap
  <2>5. gap * cell \in Int
    <3>1. gap \in Int /\ cell \in Int BY <2>1, <2>2 DEF Speeds
    <3> HIDE DEF gap
    <3> QED BY <3>1
  <2> QED BY <2>1, <2>2, <2>3, <2>4, <2>5
<1>2. pll' = r.pll /\ bits' = bits \o more
  <2>1. Decoded(delay, AtIndex) BY <1>1, Zenon DEF Pass
  <2>2. mode # "index" OBVIOUS
  <2> HIDE DEF delay
  <2> QED BY <2>1, <2>2, Zenon DEF Decoded
<1>3. /\ delay > 0 /\ cut' = 0 /\ carried' = [cells |-> 0, index |-> FALSE] /\ at' = Following
      /\ mode' = mode /\ track' = track /\ cell' = cell /\ gaps' = gaps /\ began' = began
  BY <1>1 DEF Pass, diskVars
<1>4. delay = gap * cell - cut /\ delay \in Int BY <1>1
<1>5. /\ Doubtful \in {0, Unsettled} /\ Doubtful' = Doubtful
      /\ Doubtful = 0 => began <= 760
  BY <1>1, <1>3 DEF Doubtful, Unsettled
<1> HIDE DEF gap, r, delay, more, W
(* A delay decoded right.                                                  *)
<1>6. ASSUME r.cells = gap
      PROVE  Follows(bits', W, HeadAt(track', at'), Doubtful)
  <2> DEFINE p == InOrder(Transitions(track))
             head == HeadAt(track, at)
             L == Len(track)
  <2>1. /\ at \in DOMAIN MfmToFlux(track) /\ gap = MfmToFlux(track)[at]
        /\ track \in Seq(BOOLEAN) /\ track # <<>> /\ gaps = MfmToFlux(track)
    BY <1>1 DEF TrackKept, gap
  <2>2. /\ gaps \in Seq(Int) /\ Len(gaps) \in Nat
        /\ p[at] \in DOMAIN track /\ gap = p[at] - head
        /\ at # 1 => p[at - 1] \in DOMAIN track
        /\ \A i \in DOMAIN track : head < i /\ i <= p[at] => (W[i] <=> i = p[at])
        /\ p[Len(gaps)] = L
    <3>1. at # 1 => at - 1 \in DOMAIN gaps BY <1>1 DEF ReadInv, DelayType
    <3> QED BY <2>1, <3>1, FluxOfTrack DEF HeadAt, W
  <2>3. W \in Seq(BOOLEAN) /\ Len(W) = L /\ W # <<>> /\ L \in Nat /\ DOMAIN track = 1..L
    <3>1. L \in Nat /\ DOMAIN track = 1..L /\ L # 0 BY <2>1
    <3>2. W \in [1..L -> BOOLEAN] BY <2>1, <3>1 DEF Written, W
    <3>3. W \in Seq(BOOLEAN) /\ Len(W) = L BY <3>1, <3>2, SeqDef
    <3> QED BY <3>1, <3>3
  <2>4. head \in Int /\ 0 <= head /\ p[at] \in Int /\ p[at] <= L
    BY <2>2, <2>3 DEF HeadAt
  <2> HIDE DEF p, L
  <2>5. bits' = bits \o CellsOf(gap) BY <1>1, <1>2, <1>6 DEF more
  <2>6. Follows(bits', W, head + gap, Doubtful)
    <3>0. /\ gap = p[at] - head /\ p[at] \in Int /\ p[at] <= L /\ head \in Int /\ 0 <= head
          /\ L \in Nat /\ Len(W) = L /\ DOMAIN track = 1..L /\ gap \in 2..4
      BY <1>1, <2>2, <2>3, <2>4, Zenon
    <3> HIDE DEF head
    <3>1. head + gap <= Len(W) /\ gap \in Nat BY ONLY <3>0
    <3>2. \A j \in 1..gap : W[head + j] <=> j = gap
      <4> SUFFICES ASSUME NEW j \in 1..gap PROVE W[head + j] <=> j = gap OBVIOUS
      <4>1. head + j \in DOMAIN track /\ head < head + j /\ head + j <= p[at]
            /\ (head + j = p[at] <=> j = gap)
        BY ONLY <3>0
      <4> QED BY <2>2, <4>1
    <3>3. Follows(bits, W, head, Doubtful) BY DEF Circled, W, head
    <3>4. Doubtful \in Int BY <1>5 DEF Unsettled
    <3> QED BY <1>1, <2>3, <2>4, <2>5, <3>1, <3>2, <3>3, <3>4, DelayFollows
  <2>7. head + gap = p[at] BY <1>1, <2>2, <2>4
  <2>8. CASE at = Len(gaps)
    <3>1. at' = 1 BY <1>3, <2>8 DEF Following
    <3>2. HeadAt(track', at') = 0 BY <3>1 DEF HeadAt
    <3>3. Follows(bits', W, Len(W), Doubtful) BY <2>2, <2>3, <2>6, <2>7, <2>8
    <3>4. bits' \in Seq(BOOLEAN)
      <4>1. gap \in Nat /\ CellsOf(gap) \in [1..gap -> BOOLEAN] BY <1>1 DEF CellsOf
      <4>2. CellsOf(gap) \in Seq(BOOLEAN) BY <4>1, SeqDef
      <4> QED BY <1>1, <2>5, <4>2
    <3>5. Doubtful \in Int BY <1>5 DEF Unsettled
    <3> QED BY <2>3, <3>2, <3>3, <3>4, <3>5, TurnFollows
  <2>9. CASE at # Len(gaps)
    <3>1. at' = at + 1 /\ at \in Int /\ at >= 1
      BY <1>1, <1>3, <2>2, <2>9 DEF Following
    <3>2. at' # 1 /\ at' - 1 = at BY <3>1
    <3>3. HeadAt(track', at') = p[at] BY <1>3, <3>2 DEF HeadAt, p
    <3> QED BY <2>6, <2>7, <3>3
  <2> QED BY <2>8, <2>9
(* Not enough cells yet for one that matters.                              *)
<1>7. ASSUME Doubtful = Unsettled, r.cells \in Nat, Len(bits) + r.cells <= Unsettled
      PROVE  Follows(bits', W, HeadAt(track', at'), Doubtful) /\ Len(bits') = Len(bits) + r.cells
  <2>1. more \in Seq(BOOLEAN) /\ Len(more) = r.cells
    <3>1. CASE r.cells = 0 BY <3>1 DEF more
    <3>2. CASE r.cells # 0
      <4>1. CellsOf(r.cells) \in [1..r.cells -> BOOLEAN] BY <1>7 DEF CellsOf
      <4>2. CellsOf(r.cells) \in Seq(BOOLEAN) /\ Len(CellsOf(r.cells)) = r.cells
        BY <1>7, <4>1, SeqDef
      <4> QED BY <3>2, <4>2 DEF more
    <3> QED BY <3>1, <3>2
  <2>2. Len(bits') = Len(bits) + r.cells /\ DOMAIN bits' = 1..(Len(bits) + r.cells)
    BY <1>1, <1>2, <2>1
  <2>3. \A i \in DOMAIN bits' : ~(i > Doubtful) BY <1>1, <1>7, <2>2 DEF Unsettled
  <2> QED BY <2>2, <2>3 DEF Follows
<1>8. Taking' /\ Follows(bits', W, HeadAt(track', at'), Doubtful)
  <2>1. CASE cut = began /\ bits = <<>> /\ pll = NewPll
    <3>1. r = Submit(NewPll, delay) BY <2>1 DEF r
    <3>2. CASE began <= 760
      <4>1. delay = gap * cell - began /\ began \in 0..760 BY <1>1, <1>4, <2>1, <3>2
      <4>2. r.cells = gap /\ Near(r.pll, cell, Bounds[2])
        <5>1. LET q == Submit(NewPll, gap * cell - began) IN
                q.cells = gap /\ Near(q.pll, cell, Bounds[2])
          BY ONLY <1>1, <4>1, FirstWhole
        <5> QED BY ONLY <3>1, <4>1, <5>1
      <4>3. 2 \in 2..8 OBVIOUS
      <4> QED BY <1>2, <1>3, <1>6, <4>2, <4>3 DEF Taking
    <3>3. CASE ~(began <= 760)
      <4>1. Doubtful = Unsettled BY <3>3 DEF Doubtful
      <4>2. delay \in Int /\ 1 <= delay /\ delay <= 8240
        <5>1. gap \in {2, 3, 4} /\ cut \in Int /\ cut >= 0 /\ cell \in Int /\ cell <= 2060
          BY <1>1 DEF Speeds
        <5>2. CASE gap = 2 BY ONLY <1>3, <1>4, <5>1, <5>2
        <5>3. CASE gap = 3 BY ONLY <1>3, <1>4, <5>1, <5>3
        <5>4. CASE gap = 4 BY ONLY <1>3, <1>4, <5>1, <5>4
        <5> QED BY ONLY <5>1, <5>2, <5>3, <5>4
      <4>3. Cold(r.pll) BY ONLY <3>1, <4>2, FirstDelay
      <4>4. r.cells \in 0..4 /\ (r.pll.pending > 500 => r.cells = 0)
        BY ONLY <3>1, <4>2, FirstCells
      <4>5. Len(bits) = 0 BY <2>1
      <4>6. Follows(bits', W, HeadAt(track', at'), Doubtful) /\ Len(bits') = r.cells
        BY <1>7, <4>1, <4>4, <4>5 DEF Unsettled
      <4>7. Taking' BY <1>2, <1>3, <1>5, <4>1, <4>3, <4>4, <4>6 DEF Taking, Unsettled
      <4> QED BY <4>6, <4>7
    <3> QED BY <3>2, <3>3
  <2>2. CASE /\ cut = 0 /\ Doubtful = Unsettled /\ Cold(pll)
             /\ Len(bits) <= 4 /\ (pll.pending > 500 => Len(bits) = 0)
    <3>1. delay = gap * cell BY <1>1, <1>4, <2>2
    <3>2. Near(r.pll, cell, Bounds[2]) BY <1>1, <2>2, <3>1, SecondDelay DEF r
    <3>3. r.cells \in 0..5 /\ (pll.pending <= 500 => r.cells <= 4)
      BY <1>1, <2>2, <3>1, SecondCells DEF r
    <3>4. r.cells \in Nat /\ Len(bits) + r.cells <= Unsettled
      <4>1. Len(bits) \in Nat /\ pll.pending \in Int BY <1>1
      <4> QED BY <2>2, <3>3, <4>1 DEF Unsettled
    <3>5. 2 \in 2..8 OBVIOUS
    <3> QED BY <1>2, <1>3, <1>7, <2>2, <3>2, <3>4, <3>5 DEF Taking
  <2>3. CASE cut = 0 /\ \E n \in 2..8 : Near(pll, cell, Bounds[n])
    <3>1. PICK n \in 2..8 : Near(pll, cell, Bounds[n]) BY <2>3
    <3>2. delay = gap * cell BY <1>1, <1>4, <2>3
    <3>3. r.cells = gap /\ Near(r.pll, cell, Bounds[IF n < 8 THEN n + 1 ELSE 8])
      BY <1>1, <3>1, <3>2, NearerStill DEF r
    <3>4. (IF n < 8 THEN n + 1 ELSE 8) \in 2..8 OBVIOUS
    <3> QED BY <1>2, <1>3, <1>6, <3>3, <3>4 DEF Taking
  <2> QED BY <2>1, <2>2, <2>3 DEF Circled, Taking
<1> QED BY <1>1, <1>3, <1>5, <1>8 DEF Circled, W

LEMMA RingStep == ReadInv /\ RingInv /\ [Next]_vars => RingInv'
<1> SUFFICES ASSUME ReadInv, RingInv, [Next]_vars PROVE RingInv'
  OBVIOUS
<1> USE DEF RingInv
<1>1. CASE Miss
  <2>1. missed' # 0 /\ shifts' \in Nat BY <1>1 DEF Miss, TrackKept
  <2>2. TrackKept' /\ Ended'
    BY <1>1 DEF Miss, TrackKept, Ended, diskVars, decodeVars
  <2> QED BY <2>1, <2>2
<1>2. ASSUME NEW shift \in {0} \cup Displacements, Pass(shift) PROVE RingInv'
  <2>1. /\ mode' = mode /\ missed' = missed /\ track' = track /\ gaps' = gaps
        /\ shifts' = (IF shift # 0 THEN shifts + 1 ELSE shifts)
        /\ Pending /\ Decoded(Gap * cell + shift - cut, AtIndex)
    BY <1>2 DEF Pass, diskVars, Reading
  <2>2. TrackKept' BY <2>1 DEF TrackKept
  <2>3. Regular' => Regular BY <2>1 DEF Regular
  <2>4. shifts' \in Nat /\ (shifts' = 0 => shifts = 0 /\ shift = 0) BY <2>1
  <2>5. Ended'
    <3>1. result' = IF Len(bits') > MaxBits /\ (mode = "immediate" \/ indices' > 0)
                    THEN Without("TrackTooLarge") ELSE result
      BY <2>1, Zenon DEF Decoded
    <3> QED BY <2>1, <3>1 DEF Ended, Without, Pending
  <2>6. ASSUME mode' = "immediate", missed' = 0, shifts' = 0, Regular' PROVE Circled'
    BY <1>2, <2>1, <2>3, <2>4, <2>6, RingPass
  <2> QED BY <2>2, <2>4, <2>5, <2>6
<1>3. CASE Stop
  <2>1. TrackKept' /\ Ended' /\ mode' = "index" /\ shifts' = shifts
    BY <1>3 DEF Stop, TrackKept, Ended, diskVars, decodeVars
  <2> QED BY <2>1
<1>4. CASE AtSecondIndex
  <2>1. TrackKept' /\ mode' = "index" /\ shifts' = shifts
    BY <1>4 DEF AtSecondIndex, TrackKept, diskVars, headVars
  <2>2. Ended' BY <1>4 DEF AtSecondIndex, Ended, Revolved, Without, Revolution, diskVars
  <2> QED BY <2>1, <2>2
<1>5. CASE AtEndOfStream
  <2>1. TrackKept' /\ mode' = "index" /\ shifts' = shifts
    BY <1>5 DEF AtEndOfStream, TrackKept, diskVars, headVars, ReadInv, JoinedUp
  <2>2. Ended' BY <1>5, <2>1 DEF AtEndOfStream, Ended, Revolved, Without, Revolution
  <2> QED BY <2>1, <2>2
<1>6. CASE JoinUp
  <2>1. TrackKept' /\ mode' = mode /\ missed' = missed /\ shifts' = shifts /\ (Regular' => Regular)
    BY <1>6 DEF JoinUp, TrackKept, Regular, diskVars, headVars
  <2>2. Ended' BY <1>6 DEF JoinUp, Ended, Unaligned, Without, Revolution
  <2>3. Circled => Circled'
    BY <1>6 DEF JoinUp, Circled, Taking, Doubtful, diskVars, headVars, decodeVars
  <2> QED BY <2>1, <2>2, <2>3
<1>7. CASE UNCHANGED vars
  <2>1. /\ TrackKept' /\ Ended' /\ (Regular' => Regular)
        /\ mode' = mode /\ missed' = missed /\ shifts' = shifts
    BY <1>7 DEF vars, diskVars, headVars, decodeVars, TrackKept, Ended, Regular
  <2>2. Circled => Circled'
    BY <1>7 DEF vars, diskVars, headVars, decodeVars, Circled, Taking, Doubtful
  <2> QED BY <2>1, <2>2
<1> QED BY <1>1, <1>2, <1>3, <1>4, <1>5, <1>6, <1>7 DEF Next, Over

LEMMA RingInvariant == Spec => []RingInv
  BY RingInit, RingStep, ReadInvariant, PTL DEF Spec

-----------------------------------------------------------------------------
(* The capture is long enough for a turn and what the anchors need behind  *)
(* it, and not too long to be kept; and what lies under the first anchor   *)
(* does not come again, cell for cell, before a turn is over.              *)
Telling ==
    /\ ~TooShort(bits) /\ Len(track) \in Lower..Upper(bits) /\ Len(bits) <= MaxBits
    /\ \A c \in Lower..Upper(bits) : c < Len(track) => Score(bits, 1, c) < Sample

(* In cells that repeat after so many, every anchor's whole window does.   *)
LEMMA RepeatsAll ==
    ASSUME NEW capture \in Seq(BOOLEAN), NEW ring \in Seq(BOOLEAN), ring # <<>>,
           NEW head \in Int, NEW skip \in Int, skip <= Warmup,
           Follows(capture, ring, head, skip),
           Len(ring) \in Lower..Upper(capture), NEW k \in DOMAIN Anchors
    PROVE  /\ Score(capture, k, Len(ring)) = Sample
           /\ \A c : Score(capture, k, c) <= Sample
<1> DEFINE L == Len(ring)
           m == Len(capture)
           from == Warmup + Anchors[k]
           window == (from + 1)..(from + Sample)
           far == Anchors[Len(Anchors)]
<1>1. /\ Anchors[k] \in Nat /\ far \in Nat /\ Anchors[k] <= far
      /\ Warmup \in Nat /\ Sample \in Nat /\ Nominal \in Nat
  BY JoinAssumption
<1>2. L \in Int /\ L > 0 /\ m \in Nat /\ DOMAIN capture = 1..m
  OBVIOUS
<1>3. from + Sample + L <= m
  <2>1. Upper(capture) <= m - Reach /\ Reach = Warmup + far + Sample /\ Upper(capture) \in Int
    BY <1>1, <1>2 DEF Upper, Reach
  <2>2. L <= Upper(capture) BY <1>2, <2>1
  <2> HIDE DEF far, L, m
  <2> QED BY <1>1, <1>2, <2>1, <2>2
<1>4. ASSUME NEW i \in window PROVE capture[i] = capture[i + L]
  <2>1. i \in Int /\ i > skip /\ i \in 1..m /\ i + L \in 1..m /\ i + L > skip
    BY <1>1, <1>2, <1>3
  <2> DEFINE x == head - m + i - 1
  <2>2. x \in Int /\ head - m + (i + L) - 1 = x + L BY <1>2, <2>1
  <2>3. capture[i] <=> At(ring, head - m + i - 1) BY <1>2, <2>1 DEF Follows
  <2>4. capture[i + L] <=> At(ring, head - m + (i + L) - 1) BY <1>2, <2>1 DEF Follows
  <2>5. capture[i] \in BOOLEAN /\ capture[i + L] \in BOOLEAN BY <1>2, <2>1
  <2> HIDE DEF x, L, m
  <2>6. At(ring, x + L) = At(ring, x) BY <1>2, <2>2, AtInTurn DEF L
  <2>7. capture[i] <=> capture[i + L] BY <2>2, <2>3, <2>4, <2>6 DEF x
  <2> QED BY <2>5, <2>7
<1>5. IsFiniteSet(window) /\ Cardinality(window) = Sample
  <2>1. from \in Int BY <1>1
  <2>2. Sample >= 2 BY JoinAssumption
  <2> HIDE DEF from
  <2>3. /\ IsFiniteSet(window)
        /\ Cardinality(window) =
             IF from + 1 > from + Sample THEN 0 ELSE (from + Sample) - (from + 1) + 1
    <3>1. from + 1 \in Int /\ from + Sample \in Int BY <1>1, <2>1
    <3> QED BY ONLY <3>1, FS_Interval
  <2> QED BY <1>1, <2>1, <2>2, <2>3
<1>6. {i \in window : capture[i] = capture[i + L]} = window BY <1>4
<1>7. Score(capture, k, L) = Sample BY <1>5, <1>6 DEF Score
<1>8. ASSUME NEW c PROVE Score(capture, k, c) <= Sample
  <2> DEFINE T == {i \in window : capture[i] = capture[i + c]}
  <2>1. T \subseteq window OBVIOUS
  <2>2. Score(capture, k, c) = Cardinality(T) BY DEF Score
  <2> HIDE DEF T, window
  <2> QED BY <1>5, <2>1, <2>2, FS_Subset
<1> QED BY <1>7, <1>8

(* The join is then a turn.                                                *)
LEMMA TurnJoined ==
    ASSUME NEW capture \in Seq(BOOLEAN), NEW length \in Lower..Upper(capture), ~TooShort(capture),
           \A k \in DOMAIN Anchors : /\ Score(capture, k, length) = Sample
                                     /\ \A c : Score(capture, k, c) <= Sample,
           \A c \in Lower..Upper(capture) : c < length => Score(capture, 1, c) < Sample
    PROVE  Joined(capture) = length
<1>1. /\ 1 \in DOMAIN Anchors /\ Sample \in Nat /\ Convincing \in Nat /\ Convincing <= Sample
      /\ Len(Anchors) \in Nat /\ Len(Anchors) > 0 /\ DOMAIN Anchors = 1..Len(Anchors)
  BY JoinAssumption DEF Convincing
<1> DEFINE peak == Peak(capture, 1)
<1>2. /\ peak \in Lower..Upper(capture)
      /\ \A d \in Lower..Upper(capture) : Better(capture, 1, peak, d)
  <2>1. Len(capture) \in Nat /\ Lower..Upper(capture) # {} OBVIOUS
  <2> QED BY <1>1, <2>1, PeakExists
<1> HIDE DEF peak
<1>3. peak = length
  <2>1. Better(capture, 1, peak, length) BY <1>2
  <2>2. Score(capture, 1, peak) \in Nat BY <1>1, ScoreNat
  <2>3. Score(capture, 1, peak) = Sample /\ peak <= length
    BY <1>1, <2>1, <2>2 DEF Better
  <2>4. peak \in Int /\ length \in Int BY <1>2
  <2> QED BY <1>1, <1>2, <2>3, <2>4
<1>4. Believed(capture, 1)
  <2>1. Agreeing(capture, length) = DOMAIN Anchors BY <1>1 DEF Agreeing
  <2>2. Cardinality(Agreeing(capture, length)) = Len(Anchors) BY <2>1, AnchorsFinite
  <2>3. Score(capture, 1, length) >= Convincing BY <1>1
  <2> QED BY <1>1, <1>3, <2>2, <2>3 DEF Believed, peak
<1> DEFINE first == CHOOSE k \in DOMAIN Anchors :
                      Believed(capture, k) /\ \A j \in DOMAIN Anchors : Believed(capture, j) => k <= j
<1>5. first = 1
  <2>1. /\ first \in DOMAIN Anchors /\ Believed(capture, first)
        /\ \A j \in DOMAIN Anchors : Believed(capture, j) => first <= j
    BY <1>1, <1>4, FirstLeader
  <2> HIDE DEF first
  <2> QED BY <1>1, <1>4, <2>1
<1>6. Joined(capture) = Peak(capture, first) BY <1>1, <1>4 DEF Joined
<1> QED BY <1>3, <1>5, <1>6 DEF peak

(* What such a read returns.                                               *)
LEMMA RingIs ==
    ASSUME ReadInv, RingInv, mode = "immediate", ~Pending,
           Regular, missed = 0, shifts = 0, Telling
    PROVE  /\ result.kind = "revolution" /\ Len(result.bits) = Len(track)
           /\ result.bits \in Seq(BOOLEAN)
           /\ \E r \in 0..(Len(track) - 1) : \A i \in DOMAIN result.bits :
                i > Doubtful => result.bits[i] = Rotated(Written(track), r)[i]
<1> DEFINE W == Written(track)
           L == Len(track)
           head == HeadAt(track, at)
           m == Len(bits)
<1>1. /\ bits \in Seq(BOOLEAN) /\ Circled /\ TrackKept /\ Ended /\ at \in DOMAIN gaps
      /\ m \in Nat /\ DOMAIN bits = 1..m
  BY DEF ReadInv, DecoderType, DelayType, RingInv
<1>2. W \in Seq(BOOLEAN) /\ Len(W) = L /\ W # <<>> /\ L \in Nat /\ L > 0 /\ DOMAIN W = 1..L
  <2>1. L \in Nat /\ DOMAIN track = 1..L /\ L # 0 /\ track \in Seq(BOOLEAN) BY <1>1 DEF TrackKept
  <2>2. W \in [1..L -> BOOLEAN] BY <2>1 DEF Written
  <2>3. W \in Seq(BOOLEAN) /\ Len(W) = L BY <2>1, <2>2, SeqDef
  <2> QED BY <2>1, <2>2, <2>3
<1>3. head \in Int
  <2>1. track \in Seq(BOOLEAN) /\ track # <<>> /\ gaps = MfmToFlux(track) /\ gaps \in Seq(Int)
    BY <1>1 DEF TrackKept, ReadInv, DelayType
  <2>2. at # 1 => at - 1 \in DOMAIN gaps BY <1>1, <2>1
  <2>3. at # 1 => InOrder(Transitions(track))[at - 1] \in DOMAIN track
    BY <2>1, <2>2, FluxOfTrack
  <2> QED BY <2>1, <2>3 DEF HeadAt
<1>4. Follows(bits, W, head, Doubtful) BY <1>1 DEF Circled
<1>5. Doubtful \in Int /\ Doubtful <= Warmup
  BY RevolutionAssumption, JoinAssumption DEF Doubtful, Unsettled
<1> HIDE DEF W, L, head, m
<1>6. Joined(bits) = L
  <2>1. L \in Lower..Upper(bits) /\ ~TooShort(bits)
        /\ \A c \in Lower..Upper(bits) : c < L => Score(bits, 1, c) < Sample
    BY DEF Telling, L
  <2>2. ASSUME NEW k \in DOMAIN Anchors
        PROVE  Score(bits, k, L) = Sample /\ \A c : Score(bits, k, c) <= Sample
    BY <1>1, <1>2, <1>3, <1>4, <1>5, <2>1, RepeatsAll
  <2> QED BY <1>1, <2>1, <2>2, TurnJoined
<1>7. result = Revolution(SubSeq(bits, 1, L), FALSE)
  <2>1. result.kind \in {"revolution", "Protocol"}
    <3>1. ~(m > MaxBits) BY <1>1, RevolutionAssumption DEF Telling, m
    <3> QED BY <1>1, <3>1 DEF Ended, Pending, m
  <2>2. result = Unaligned(bits) BY <2>1 DEF ReadInv, JoinedUp
  <2>3. L # NoJoin BY <1>2 DEF NoJoin
  <2> QED BY <1>6, <2>2, <2>3 DEF Unaligned
<1>8. L <= m
  <2>1. /\ Lower \in Nat /\ Reach \in Nat /\ Upper(bits) \in Int /\ Upper(bits) <= m - Reach
    <3>1. Anchors[Len(Anchors)] \in Nat BY JoinAssumption
    <3>2. Reach \in Nat /\ Lower \in Nat BY <3>1, JoinAssumption DEF Reach, Lower
    <3> QED BY <1>1, <3>2, JoinAssumption DEF Upper, m
  <2>2. L \in Lower..Upper(bits) BY DEF Telling, L
  <2> QED BY <1>1, <1>2, <2>1, <2>2
<1> DEFINE ring == result.bits
<1>9. ring = SubSeq(bits, 1, L) BY <1>7 DEF Revolution
<1>10. ring \in Seq(BOOLEAN) /\ Len(ring) = L /\ DOMAIN ring = 1..L
       /\ \A i \in 1..L : ring[i] = bits[i]
  <2> HIDE DEF ring
  <2> QED BY <1>1, <1>2, <1>8, <1>9
<1> HIDE DEF ring
<1> DEFINE s == head - m
           r == s % L
<1>11. s \in Int /\ r \in 0..(L - 1) BY <1>1, <1>2, <1>3, Remainder
<1> HIDE DEF s
<1>12. ASSUME NEW i \in 1..L, i > Doubtful PROVE ring[i] = Rotated(W, r)[i]
  <2>1. i \in 1..m /\ i \in Int /\ i - 1 \in Int BY <1>1, <1>2, <1>8
  <2>2. bits[i] <=> At(W, head - m + i - 1) BY <1>1, <1>4, <1>12, <2>1 DEF Follows, m
  <2>3. head - m + i - 1 = s + (i - 1) /\ r + i - 1 = r + (i - 1)
    BY <1>1, <1>2, <1>3, <1>11, <2>1 DEF s
  <2>4. At(W, (s % L) + (i - 1)) = At(W, s + (i - 1))
    <3>1. L \in Int /\ L > 0 /\ Len(W) = L /\ s \in Int BY <1>2, <1>11
    <3>2. \A y \in Int : At(W, (s % L) + y) = At(W, s + y) BY ONLY <3>1, AtInTurn
    <3> QED BY <2>1, <3>2
  <2>5. Rotated(W, r)[i] = At(W, r + i - 1) BY <1>2 DEF Rotated
  <2>6. ring[i] = bits[i] /\ bits[i] \in BOOLEAN BY <1>1, <1>10, <2>1
  <2>7. Rotated(W, r)[i] \in BOOLEAN
    <3>1. (s + (i - 1)) % L \in 0..(L - 1) BY <1>2, <1>11, <2>1, Remainder
    <3>2. At(W, s + (i - 1)) \in BOOLEAN BY <1>2, <3>1 DEF At
    <3> QED BY <2>3, <2>4, <2>5, <3>2
  <2> QED BY <2>2, <2>3, <2>4, <2>5, <2>6, <2>7
<1>13. result.kind = "revolution" BY <1>7 DEF Revolution
<1> QED BY <1>10, <1>11, <1>12, <1>13 DEF ring, L, W

(* RingHolds: RingReturned for every track with its transitions two to     *)
(* four cells apart and every capture of it that is Telling.               *)
THEOREM RingHolds ==
    Spec => [](Regular /\ missed = 0 /\ shifts = 0 /\ Telling => RingReturned)
<1>1. ReadInv /\ RingInv =>
        (Regular /\ missed = 0 /\ shifts = 0 /\ Telling => RingReturned)
  BY RingIs DEF RingReturned
<1> QED BY <1>1, ReadInvariant, RingInvariant, PTL

(* The sectors of a ring, wherever it is cut.                              *)
LEMMA SectorsTurned ==
    ASSUME NEW ring \in Seq(BOOLEAN), ring # <<>>, NEW r \in Int
    PROVE  Sectors(Rotated(ring, r)) = Sectors(ring)
<1> DEFINE A == Rotated(ring, r)
           P == 0..(Len(ring) - 1)
           N == 0..(DataLongs * LongCells - 1)
           Data(x, s) == [i \in N |-> i % 2 = 1 /\ At(x, DataAt(s) + i)]
<1>1. /\ Len(A) = Len(ring) /\ Len(ring) \in Int
      /\ Headers(A) \subseteq P /\ Headers(ring) \subseteq P
  <2>1. Len(A) = Len(ring) /\ Len(ring) \in Int BY RotatedSize
  <2> QED BY <2>1 DEF Headers, SectorStarts, Syncs
<1>2. ASSUME NEW s \in P
      PROVE  /\ Turned(ring, r, s) \in P
             /\ s \in Headers(A) <=> Turned(ring, r, s) \in Headers(ring)
             /\ SectorAt(A, s) = SectorAt(ring, Turned(ring, r, s))
             /\ Data(A, s) = Data(ring, Turned(ring, r, s))
  <2> DEFINE t == Turned(ring, r, s)
  <2>1. /\ t \in P /\ (s \in Headers(A) <=> t \in Headers(ring))
        /\ SectorAt(A, s) = SectorAt(ring, t)
    BY RotatedHeader
  <2>2. s \in Int /\ t \in Int BY <1>1, <2>1
  <2>3. Same(A, s, ring, t) BY <2>2, RotatedSame
  <2> HIDE DEF A, t
  <2>4. PICK e \in Int : \A x \in Int : DataAt(x) = x + e
    <3> DEFINE w == Len(SyncWord)
               m == (2 + LabelLongs) * LongCells
    <3>1. w \in Int /\ m \in Int /\ LongCells \in Int BY ScanAssumption
    <3>2. \A x : DataAt(x) = x + 2 * w + m + 2 * LongCells + 2 * LongCells
      BY Zenon DEF Body, HeaderChecksumAt, DataChecksumAt, DataAt
    <3> HIDE DEF w, m
    <3>3. 2 * w + m + 2 * LongCells + 2 * LongCells \in Int BY <3>1
    <3>4. \A x \in Int : DataAt(x) = x + (2 * w + m + 2 * LongCells + 2 * LongCells)
      BY <3>1, <3>2
    <3> QED BY <3>3, <3>4
  <2>5. Same(A, s + e, ring, t + e) BY <2>2, <2>3, <2>4, SameOn
  <2>6. \A i \in N : i \in Int BY ScanAssumption
  <2>7. ASSUME NEW i \in N PROVE At(A, DataAt(s) + i) = At(ring, DataAt(t) + i)
    BY <2>2, <2>4, <2>5, <2>6 DEF Same
  <2>8. Data(A, s) = Data(ring, t) BY <2>7
  <2> QED BY <2>1, <2>8 DEF t
<1>3. \A t \in P : \E s \in P : Turned(ring, r, s) = t BY TurnedOnce
<1>4. \A x : Sectors(x) = {<<SectorAt(x, s), Data(x, s)>> : s \in Headers(x)} BY DEF Sectors
<1> HIDE DEF A, P, Data
<1>5. ASSUME NEW y \in Sectors(A) PROVE y \in Sectors(ring)
  <2>1. PICK s \in Headers(A) : y = <<SectorAt(A, s), Data(A, s)>> BY <1>4
  <2>2. s \in P BY <1>1
  <2> QED BY <1>2, <1>4, <2>1, <2>2
<1>6. ASSUME NEW y \in Sectors(ring) PROVE y \in Sectors(A)
  <2>1. PICK t \in Headers(ring) : y = <<SectorAt(ring, t), Data(ring, t)>> BY <1>4
  <2>2. PICK s \in P : Turned(ring, r, s) = t BY <1>1, <1>3
  <2> QED BY <1>2, <1>4, <2>1, <2>2
<1> QED BY <1>5, <1>6 DEF A

(* VerdictHolds: VerdictTrue for such a track and such a capture, when the *)
(* read began early in a delay, so that no cell is doubtful: the ring is   *)
(* then the track's, and its verdict and sectors do not depend on the cut. *)
THEOREM VerdictHolds ==
    Spec => [](Regular /\ missed = 0 /\ shifts = 0 /\ Telling /\ Doubtful = 0 => VerdictTrue)
<1>1. ReadInv /\ RingInv =>
        (Regular /\ missed = 0 /\ shifts = 0 /\ Telling /\ Doubtful = 0 => VerdictTrue)
  <2> SUFFICES ASSUME ReadInv, RingInv, Regular, missed = 0, shifts = 0, Telling, Doubtful = 0,
                      mode = "immediate", result.kind = "revolution"
               PROVE  /\ ScanRevolution(result.bits) = ScanRevolution(Written(track))
                      /\ Sectors(result.bits) = Sectors(Written(track))
    BY DEF VerdictTrue
  <2> DEFINE W == Written(track)
             L == Len(track)
  <2>1. ~Pending BY DEF Pending
  <2>2. PICK r \in 0..(L - 1) : \A i \in DOMAIN result.bits :
           i > Doubtful => result.bits[i] = Rotated(W, r)[i]
    BY <2>1, RingIs
  <2>3. result.bits \in Seq(BOOLEAN) /\ Len(result.bits) = L BY <2>1, RingIs
  <2>4. W \in Seq(BOOLEAN) /\ Len(W) = L /\ W # <<>> /\ L \in Nat
    <3>1. L \in Nat /\ DOMAIN track = 1..L /\ L # 0 /\ track \in Seq(BOOLEAN)
      BY DEF RingInv, TrackKept
    <3>2. W \in [1..L -> BOOLEAN] BY <3>1 DEF Written
    <3>3. W \in Seq(BOOLEAN) /\ Len(W) = L BY <3>1, <3>2, SeqDef
    <3> QED BY <3>1, <3>3
  <2> HIDE DEF W, L
  <2>5. result.bits = Rotated(W, r)
    <3>1. DOMAIN result.bits = 1..L /\ DOMAIN W = 1..L BY <2>3, <2>4
    <3>2. \A i \in 1..L : result.bits[i] = Rotated(W, r)[i] BY <2>2, <2>4, <3>1
    <3>3. Rotated(W, r) = [i \in 1..L |-> At(W, r + i - 1)] BY <3>1 DEF Rotated
    <3>4. result.bits = [i \in 1..L |-> result.bits[i]] BY <2>3, <3>1
    <3> QED BY <3>2, <3>3, <3>4
  <2>6. r \in Int BY <2>4
  <2> QED BY <2>4, <2>5, <2>6, VerdictTurned, SectorsTurned DEF W
<1> QED BY <1>1, ReadInvariant, RingInvariant, PTL
=============================================================================
