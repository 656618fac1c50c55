----------------------------- MODULE Revolution -----------------------------
(***************************************************************************)
(* A track is written and read back: mfm_to_flux makes delays of cells,    *)
(* the disk turns under the head, the separator makes cells of delays, and *)
(* flux_to_revolution or flux_to_unaligned_revolution cuts a revolution    *)
(* out of them (src/src/flux/rotation.rs, src/src/flux/pll.rs), which      *)
(* scan_revolution then judges.  Delays are in nanoseconds, and come one   *)
(* by one where the code has the list.                                     *)
(***************************************************************************)
EXTENDS Pll, Join, Scan

CONSTANTS
    IndexTracks,       \* tracks, sequences of cells, to be read from index to index
    ImmediateTracks,   \* and those to be read at once
    CellTimes,         \* nanoseconds a cell takes to pass the head
    Starts,            \* where a read may begin, by mode: before which transition,
                       \* and what nanoseconds of the delay to it have gone by
    MinBits,           \* the 64 cells a revolution must have
    MaxBits,           \* MAX_TRACK_BITS
    Window,            \* nanoseconds an immediate read takes in
    MaxShifts,         \* bound: transitions displaced, by mode
    Patches            \* bound: transitions in the weak patch, by mode

Modes == {"index", "immediate"}
Displacements == {-150, 150}
Unsettled == 8      \* cells, at most, of the first two delays, which may be decoded wrongly
ASSUME RevolutionAssumption ==
    /\ IndexTracks \cup ImmediateTracks \subseteq Seq(BOOLEAN) \ {<<>>}
    /\ CellTimes \subseteq Speeds
    /\ MinBits \in Nat /\ MaxBits \in Nat /\ Window \in Nat
    /\ \A m \in Modes : \A s \in Starts[m] : s.at \in Nat \ {0} /\ s.cut \in Nat
    /\ MaxShifts \in [Modes -> Nat] /\ Patches \in [Modes -> SUBSET Nat]
    /\ Warmup >= Unsettled

VARIABLES
    mode, track, cell,   \* how, what and at what speed is read
    gaps,       \* the flux it was written as, in cells
    began,      \* what of the delay the read begins in has gone by
    at,         \* the next of the track's transitions to pass the head
    carried,    \* cells, and the index pulse, of transitions that were missed
    missed,     \* the transitions missed, one after the other
    shifts,     \* how many have been displaced
    cut,        \* what the first delay is short of
    elapsed,    \* since the read began
    pll, bits, indices,    \* decoder, cells, and index pulses since the read began
    due, got,   \* cells in the last delay, and cells decoded from it
    before,     \* delays before the first index pulse, and before one that is displaced
    stopped,    \* the platter has stopped
    result      \* what has come of the read: nothing yet, an error, a revolution

diskVars == <<mode, track, cell, gaps, began>>
headVars == <<at, carried, missed, shifts, cut, elapsed, stopped>>
decodeVars == <<pll, bits, indices, due, got, before>>
vars == <<diskVars, headVars, decodeVars, result>>

-----------------------------------------------------------------------------
(* mfm_to_flux: a delay for every one, counted from the one before, and a  *)
(* last one for the zeros after the last one.                              *)
Transitions(cells) ==
    {i \in DOMAIN cells : cells[i] \/ i = Len(cells)}
InOrder(S) ==
    [k \in 1..Cardinality(S) |-> CHOOSE p \in S : Cardinality({q \in S : q <= p}) = k]
MfmToFlux(cells) ==
    LET p == InOrder(Transitions(cells)) IN
      [k \in DOMAIN p |-> p[k] - (IF k = 1 THEN 0 ELSE p[k - 1])]

(* The cells of a delay, and those of a whole written track.               *)
CellsOf(n) == [i \in 1..n |-> i = n]
Written(cells) == [i \in DOMAIN cells |-> cells[i] \/ i = Len(cells)]

Gap == carried.cells + gaps[at]
AtIndex == carried.index \/ at = 1     \* the index pulse is in the track's first gap
Following == IF at = Len(gaps) THEN 1 ELSE at + 1

Without(kind) == [kind |-> kind, bits |-> <<>>, aligned |-> FALSE]
Revolution(cells, aligned) == [kind |-> "revolution", bits |-> cells, aligned |-> aligned]
Pending == result.kind = "pending"
Reading == Pending /\ ~stopped

-----------------------------------------------------------------------------
(* The stream.                                                             *)

(* Oxide that gives no pulse: the next delay is so much longer.            *)
Miss ==
    /\ Reading /\ (\E n \in Patches[mode] : missed < n) /\ (missed > 0 => carried.cells > 0)
    /\ missed' = missed + 1
    /\ carried' = [cells |-> Gap, index |-> AtIndex]
    /\ at' = Following
    /\ UNCHANGED <<diskVars, shifts, cut, elapsed, stopped, decodeVars, result>>

(* flux_to_revolution, the loop: a delay is decoded; with the first index  *)
(* pulse the cells before it are dropped.                                  *)
DecodedFromStart(delay, index) ==   \* mutant: the cells before the index are kept
    LET sub == Submit(pll, delay) IN
        /\ pll' = sub.pll
        /\ bits' = bits \o (IF sub.cells = 0 THEN <<>> ELSE CellsOf(sub.cells))
        /\ due' = Gap /\ got' = sub.cells
        /\ indices' = IF index THEN indices + 1 ELSE indices
        /\ before' = IF indices = 0 /\ ~index /\ shifts' = 0 THEN before + 1 ELSE before
        /\ result' = result
Decoded(delay, index) ==
    LET sub == Submit(pll, delay)
        kept == IF index /\ mode = "index" /\ indices = 0 THEN <<>> ELSE bits
    IN  /\ pll' = sub.pll
        /\ bits' = kept \o (IF sub.cells = 0 THEN <<>> ELSE CellsOf(sub.cells))
        /\ due' = Gap /\ got' = sub.cells
        /\ indices' = IF index THEN indices + 1 ELSE indices
        /\ before' = IF indices = 0 /\ ~index /\ shifts' = 0 THEN before + 1 ELSE before
        /\ result' = IF Len(bits') > MaxBits /\ (mode = "immediate" \/ indices' > 0)
                     THEN Without("TrackTooLarge") ELSE result
Pass(shift) ==
    LET delay == Gap * cell + shift - cut IN
      /\ Reading /\ delay > 0 /\ missed \in Patches[mode] \cup {0}
      /\ mode = "index" => ~(AtIndex /\ indices > 0)
      /\ mode = "immediate" => elapsed < Window
      /\ shift # 0 => shifts < MaxShifts[mode] /\ cut = 0
      /\ shifts' = IF shift # 0 THEN shifts + 1 ELSE shifts
      /\ elapsed' = elapsed + delay /\ cut' = 0
      /\ carried' = [cells |-> 0, index |-> FALSE] /\ at' = Following
      /\ Decoded(delay, AtIndex)
      /\ UNCHANGED <<diskVars, missed, stopped>>

(* The motor goes off, or somebody opens the drive: no more pulses, and a  *)
(* read with an index count ends at its ceiling of ticks.                  *)
Stop ==
    /\ Reading /\ mode = "index" /\ stopped' = TRUE
    /\ UNCHANGED <<diskVars, at, carried, missed, shifts, cut, elapsed, decodeVars, result>>

-----------------------------------------------------------------------------
(* What is made of it.                                                     *)

Revolved(aligned) ==
    IF Len(bits) < MinBits THEN Without("Protocol")
    ELSE IF Len(bits) > MaxBits THEN Without("TrackTooLarge")
    ELSE Revolution(bits, aligned)

(* flux_to_revolution: the loop ends with the second index pulse, or with  *)
(* the stream; whether it saw the first is what it says of the alignment.  *)
AtSecondIndex ==
    /\ Reading /\ mode = "index" /\ AtIndex /\ indices > 0
    /\ indices' = indices + 1
    /\ result' = Revolved(TRUE)
    /\ UNCHANGED <<diskVars, headVars, pll, bits, due, got, before>>
AtEndOfStream ==
    /\ Pending /\ stopped
    /\ result' = Revolved(indices > 0)
    /\ UNCHANGED <<diskVars, headVars, decodeVars>>

(* flux_to_unaligned_revolution, once the read has taken in its window.    *)
Unaligned(cells) ==
    LET join == Joined(cells)
    IN IF join = NoJoin THEN Without("Protocol")
       ELSE Revolution(SubSeq(cells, 1, join), FALSE)
JoinUp ==
    /\ Reading /\ mode = "immediate" /\ elapsed >= Window
    /\ result' = Unaligned(bits)
    /\ UNCHANGED <<diskVars, headVars, decodeVars>>

Over == ~Pending /\ UNCHANGED vars

Init ==
    /\ mode \in Modes
    /\ track \in (IF mode = "index" THEN IndexTracks ELSE ImmediateTracks)
    /\ cell \in CellTimes
    /\ gaps = MfmToFlux(track)
    /\ \E start \in Starts[mode] :
         /\ start.at \in DOMAIN gaps /\ start.cut < gaps[start.at] * cell
         /\ at = start.at /\ cut = start.cut /\ began = start.cut
    /\ carried = [cells |-> 0, index |-> FALSE]
    /\ missed = 0 /\ shifts = 0 /\ elapsed = 0 /\ stopped = FALSE
    /\ pll = NewPll /\ bits = <<>> /\ indices = 0
    /\ due = 0 /\ got = 0 /\ before = 0
    /\ result = Without("pending")

Next ==
    \/ Miss \/ (\E shift \in {0} \cup Displacements : Pass(shift)) \/ Stop
    \/ AtSecondIndex \/ AtEndOfStream \/ JoinUp \/ Over

Spec == Init /\ [][Next]_vars

-----------------------------------------------------------------------------
(* StaysLocked: once the separator is in lock with the drive, every delay  *)
(* of two to four cells is decoded to just that many, and leaves it in     *)
(* lock: no sequence of them, early and late, shakes it off (submit).      *)
StaysLocked ==
    [][InLock(pll, cell) /\ cut = 0 /\ elapsed' # elapsed /\ Gap \in 2..4
       => got' = due' /\ InLock(pll', cell)]_vars

(* RevolutionTrue: a revolution read from one index pulse to the next is   *)
(* the track as it was written, cell for cell, closed by a transition at   *)
(* its end, whatever the drive's speed, unless a transition was missed or  *)
(* the separator had not seen enough of the track by the index: a delay of *)
(* which a part had gone by, and one more, or seven more where transitions *)
(* are displaced (flux_to_revolution).                                     *)
Settled == before >= (IF shifts = 0 THEN 2 ELSE 8)
RevolutionTrue ==
    result.kind = "revolution" /\ mode = "index" /\ ~stopped
      /\ missed = 0 /\ Settled => result.bits = Written(track)

(* RingReturned: an immediate read of a track that does not resemble       *)
(* itself gives a revolution of exactly its length, also when a weak patch *)
(* spoils one of the anchors, and the very cells of the track, cut         *)
(* somewhere, when no transition is missed (bits_to_unaligned_revolution). *)
(* The first cells may be wrong if the read began late in a delay, for the *)
(* join leaves the warm-up in: those of that delay and of the next one.    *)
Doubtful == IF began <= 760 THEN 0 ELSE Unsettled
RingReturned ==
    mode = "immediate" /\ ~Pending =>
      /\ result.kind = "revolution" /\ Len(result.bits) = Len(track)
      /\ missed = 0 /\ shifts = 0 =>
           \E r \in 0..(Len(track) - 1) : \A i \in DOMAIN result.bits :
              i > Doubtful => result.bits[i] = Rotated(Written(track), r)[i]

(* VerdictTrue: wherever it was cut, what an immediate read gives is       *)
(* judged as the written track would be, and a clean track that loses one  *)
(* transition on the way does not pass for clean with other sectors        *)
(* (scan_revolution).                                                      *)
Sectors(ring) ==
    {<<SectorAt(ring, s), [i \in 0..(DataLongs * LongCells - 1) |->
                             i % 2 = 1 /\ At(ring, DataAt(s) + i)]>> : s \in Headers(ring)}
VerdictTrue ==
    mode = "immediate" /\ result.kind = "revolution" =>
      LET verdict == ScanRevolution(result.bits)
          written == ScanRevolution(Written(track))
      IN /\ missed = 0 /\ shifts = 0 /\ Doubtful = 0 => verdict = written
         /\ missed <= 1 /\ verdict.kind = "CleanAmigaDos" /\ written.kind = "CleanAmigaDos" =>
              Sectors(result.bits) = Sectors(Written(track))

(* JoinHeld: the join is where most of the anchors, and no other candidate *)
(* of theirs, say that the capture repeats.                                *)
JoinHeld ==
    mode = "immediate" /\ result.kind \in {"revolution", "Protocol"} =>
      \A length \in Lower..Upper(bits) :
         Recurs(bits, length) => Len(result.bits) = length
=============================================================================
