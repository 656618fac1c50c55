-------------------------------- MODULE Join --------------------------------
(***************************************************************************)
(* bits_to_unaligned_revolution (src/src/flux/rotation.rs): where an       *)
(* immediate capture, longer than a revolution, begins to repeat itself.   *)
(* A capture is a sequence of cells; a candidate join is a number of cells.*)
(***************************************************************************)
EXTENDS Integers, Sequences, FiniteSets

CONSTANTS
    Nominal,   \* cells of a revolution at nominal speed
    Warmup,    \* JOIN_WARMUP_CELLS
    Sample,    \* JOIN_SAMPLE_CELLS
    Anchors    \* JOIN_ANCHORS, the last one the farthest

ASSUME JoinAssumption ==
    /\ Nominal \in Nat /\ Warmup \in Nat /\ Sample \in Nat /\ Sample >= 2
    /\ Anchors \in Seq(Nat) /\ Anchors # <<>>
    /\ \A k \in DOMAIN Anchors : Anchors[k] <= Anchors[Len(Anchors)]

Lower == (Nominal * 4) \div 5
Reach == Warmup + Anchors[Len(Anchors)] + Sample
Upper(bits) ==
    IF (Nominal * 6) \div 5 <= Len(bits) - Reach THEN (Nominal * 6) \div 5
    ELSE Len(bits) - Reach
TooShort(bits) == Upper(bits) <= Lower \/ Len(bits) < Lower + Reach

Convincing == (Sample * 3) \div 4

(* score_at: the cells of an anchor's window that come again one candidate *)
(* later.                                                                  *)
Score(bits, k, candidate) ==
    LET from == Warmup + Anchors[k] IN
      Cardinality({i \in (from + 1)..(from + Sample) : bits[i] = bits[i + candidate]})

(* The scan of one leader: the least of the candidates that score highest. *)
Better(bits, k, c, d) ==
    Score(bits, k, c) > Score(bits, k, d) \/ (Score(bits, k, c) = Score(bits, k, d) /\ c <= d)
Peak(bits, k) ==
    CHOOSE c \in Lower..Upper(bits) : \A d \in Lower..Upper(bits) : Better(bits, k, c, d)

(* The leader's peak is believed if it convinces there and at a majority.  *)
Agreeing(bits, candidate) ==
    {k \in DOMAIN Anchors : Score(bits, k, candidate) >= Convincing}
BelievedAlone(bits, k) ==   \* mutant: without asking the other anchors
    Score(bits, k, Peak(bits, k)) >= Convincing
Believed(bits, k) ==
    /\ Score(bits, k, Peak(bits, k)) >= Convincing
    /\ Cardinality(Agreeing(bits, Peak(bits, k))) * 2 > Len(Anchors)

(* The first leader whose peak is believed gives the join; 0 is the error. *)
NoJoin == 0
JoinedByFirst(bits) ==   \* mutant: only the first anchor leads
    IF TooShort(bits) \/ ~Believed(bits, 1) THEN NoJoin ELSE Peak(bits, 1)
Joined(bits) ==
    IF TooShort(bits) \/ \A k \in DOMAIN Anchors : ~Believed(bits, k) THEN NoJoin
    ELSE Peak(bits, CHOOSE k \in DOMAIN Anchors :
                       Believed(bits, k) /\ \A j \in DOMAIN Anchors : Believed(bits, j) => k <= j)

(* The capture repeats itself after that many cells, as far as most of the *)
(* anchors can tell, and they see no other candidate.                      *)
Recurs(bits, length) ==
    /\ ~TooShort(bits) /\ length \in Lower..Upper(bits)
    /\ 2 * Cardinality({k \in DOMAIN Anchors :
             /\ Score(bits, k, length) >= Convincing
             /\ \A c \in (Lower..Upper(bits)) \ {length} : Score(bits, k, c) < Convincing})
         > Len(Anchors)
=============================================================================
