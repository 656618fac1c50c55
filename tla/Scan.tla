-------------------------------- MODULE Scan --------------------------------
(***************************************************************************)
(* scan_revolution (src/src/flux/scan.rs): what a revolution, taken as a   *)
(* ring, holds of an AmigaDOS track.  On its verdict the worker lets a     *)
(* revolution without an index be replayed.  A ring is a sequence of       *)
(* cells; positions count from 0 and go round.  A long is a function on    *)
(* the positions of its cells, the first of which is its highest bit.      *)
(***************************************************************************)
EXTENDS Integers, Sequences, FiniteSets

CONSTANTS
    SyncWord,      \* 0x4489, a sequence of cells
    LongCells,     \* the 32 cells of a long
    LabelLongs,    \* the 8 longs between info and header checksum
    DataLongs,     \* the 256 longs of a sector
    DdSectors, HdSectors, HdThreshold,
    MinRing        \* the 64 cells a ring must have

ASSUME ScanAssumption ==
    /\ SyncWord \in Seq(BOOLEAN)
    /\ LongCells \in Nat /\ LabelLongs \in Nat /\ DataLongs \in Nat
    /\ DdSectors \in Nat /\ HdSectors \in Nat /\ HdThreshold \in Nat
    /\ MinRing \in Nat \ {0} /\ MinRing >= Len(SyncWord)

Cells == 0..(LongCells - 1)

(* bit_at *)
At(ring, p) == ring[(p % Len(ring)) + 1]

(* The info long, and the checksums, are stored odd bits first: two longs, *)
(* of which every other cell, the clock, is masked out.                    *)
Stored(ring, p) ==
    [i \in Cells |-> IF i % 2 = 0 THEN At(ring, p + i + 1) ELSE At(ring, p + LongCells + i)]

(* The exclusive or of so many masked longs.                               *)
Checksum(ring, p, longs) ==
    [i \in Cells |-> i % 2 = 1
                     /\ Cardinality({k \in 0..(longs - 1) : At(ring, p + k * LongCells + i)}) % 2 = 1]

SyncsUnjoined(ring) ==   \* mutant: a sync word across the ends is not seen
    {s \in 0..(Len(ring) - Len(SyncWord)) : \A i \in DOMAIN SyncWord : ring[s + i] = SyncWord[i]}
Syncs(ring) ==
    {s \in 0..(Len(ring) - 1) : \A i \in DOMAIN SyncWord : At(ring, s + i - 1) = SyncWord[i]}
(* A sector begins with the first two of a run of sync words.              *)
SectorStarts(ring) ==
    {s \in Syncs(ring) :
       /\ (s + Len(SyncWord)) % Len(ring) \in Syncs(ring)
       /\ (s + Len(ring) - Len(SyncWord)) % Len(ring) \notin Syncs(ring)}

Body(s) == s + 2 * Len(SyncWord)
HeaderChecksumAt(s) == Body(s) + (2 + LabelLongs) * LongCells
DataChecksumAt(s) == HeaderChecksumAt(s) + 2 * LongCells
DataAt(s) == DataChecksumAt(s) + 2 * LongCells

(* The four bytes of the info long are format, track, sector and distance. *)
Byte == LongCells \div 4
Formatted(info) == \A i \in 0..(Byte - 1) : info[i]
Number(info) ==
    CHOOSE n \in 0..(2^Byte - 1) :
       \A i \in 0..(Byte - 1) : info[2 * Byte + i] <=> (n \div 2^(Byte - 1 - i)) % 2 = 1

SectorAt(ring, s) == Number(Stored(ring, Body(s)))
HeaderValid(ring, s) ==
    /\ Formatted(Stored(ring, Body(s))) /\ SectorAt(ring, s) < HdSectors
    /\ Checksum(ring, Body(s), 2 + LabelLongs) = Stored(ring, HeaderChecksumAt(s))
DataValid(ring, s) ==
    Checksum(ring, DataAt(s), DataLongs) = Stored(ring, DataChecksumAt(s))

Headers(ring) == {s \in SectorStarts(ring) : HeaderValid(ring, s)}
GoodSectors(ring) == {SectorAt(ring, s) : s \in {h \in Headers(ring) : DataValid(ring, h)}}
Expected(ring) == IF Len(ring) > HdThreshold THEN HdSectors ELSE DdSectors

(* RevolutionScan *)
Unrecognised == [kind |-> "Unrecognised", good |-> 0, expected |-> 0]
ScanRevolution(ring) ==
    LET good == Cardinality(GoodSectors(ring))
        report(kind) == [kind |-> kind, good |-> good, expected |-> Expected(ring)]
    IN IF Len(ring) < MinRing THEN Unrecognised
       ELSE IF good = Expected(ring) THEN report("CleanAmigaDos")
       ELSE IF Cardinality(Headers(ring)) + 1 >= Expected(ring) THEN report("DamagedAmigaDos")
       ELSE Unrecognised

(* The same ring, cut elsewhere.                                           *)
Rotated(ring, r) == [i \in DOMAIN ring |-> At(ring, r + i - 1)]
=============================================================================
