----------------------------- MODULE FluxCodec -----------------------------
(***************************************************************************)
(* The byte encoding of flux on the Greaseweazle's link                    *)
(* (src/src/device/greaseweazle.rs): encode_ticks writes it, decode_stream *)
(* reads it, and drain_fast_stream decodes the bytes there are so far, from*)
(* the first, whenever it has a part of the track to show.  Intervals are  *)
(* in ticks of the sample clock.                                           *)
(***************************************************************************)
EXTENDS Integers, Sequences

CONSTANTS
    Intervals,     \* the intervals a track may have
    MaxIntervals   \* bound: intervals in a stream

(* A space of 28 bits, and 249 ticks: the longest interval there is a form for. *)
Limit == 128 * 128 * 128 * 128 + 248
ASSUME IntervalsAssumption == Intervals \subseteq 1..Limit /\ MaxIntervals \in Nat

VARIABLES
    flux,       \* what the track holds: records of ticks and index
    stream,     \* its encoding, up to now
    marked,     \* an index pulse has come since the last interval
    raw,        \* the bytes that have arrived
    queue,      \* of those, the bytes the decoder has not taken
    ticks, index, events,   \* locals of decode_stream
    decoding,   \* "no", "yes" or "failed"
    published   \* the events last handed to progress

sourceVars == <<flux, stream, marked>>
decoderVars == <<queue, ticks, index, events, decoding>>
vars == <<sourceVars, raw, decoderVars, published>>

-----------------------------------------------------------------------------
(* encode_28bit and read_28bit: seven bits to a byte, each byte odd.       *)
Encode28(v) ==
    LET group(n) == 1 + 2 * (n % 128)
        v2 == v \div 128
        v3 == v2 \div 128
    IN <<group(v), group(v2), group(v3), group(v3 \div 128)>>
Read28(b1, b2, b3, b4) ==
    (b1 \div 2) + 128 * ((b2 \div 2) + 128 * ((b3 \div 2) + 128 * (b4 \div 2)))

EncodeTicksZero(t) ==   \* mutant: the remainder of an extended interval may be 0
    IF t < 250 THEN <<t>>
    ELSE IF (t - 250) \div 255 < 5 THEN <<250 + (t - 250) \div 255, (t - 250) % 255>>
    ELSE <<255, 2>> \o Encode28(t - 249) \o <<249>>
EncodeTicksFar(t) ==   \* mutant: one more step of the two-byte form
    IF t < 250 THEN <<t>>
    ELSE IF (t - 250) \div 255 <= 5 THEN <<250 + (t - 250) \div 255, 1 + ((t - 250) % 255)>>
    ELSE <<255, 2>> \o Encode28(t - 249) \o <<249>>
(* encode_ticks: one byte, two bytes, or a space of 28 bits and one byte.  *)
EncodeTicks(t) ==
    IF t < 250 THEN <<t>>
    ELSE IF (t - 250) \div 255 < 5 THEN <<250 + (t - 250) \div 255, 1 + ((t - 250) % 255)>>
    ELSE <<255, 2>> \o Encode28(t - 249) \o <<249>>

(* What the one-byte and two-byte forms add to decode_stream's ticks.      *)
ShortTicks(byte) == byte
ExtendedTicks(byte, low) == 250 + (byte - 250) * 255 + (IF low = 0 THEN 0 ELSE low - 1)

-----------------------------------------------------------------------------
(* The firmware encodes a track: intervals, index pulses, and an opcode    *)
(* the decoder has no use for.                                             *)
Interval ==
    /\ Len(flux) < MaxIntervals
    /\ \E t \in Intervals :
         /\ flux' = Append(flux, [ticks |-> t, index |-> marked])
         /\ stream' = stream \o EncodeTicks(t)
    /\ marked' = FALSE
    /\ UNCHANGED <<raw, decoderVars, published>>
IndexPulse ==
    /\ ~marked /\ marked' = TRUE
    /\ stream' = stream \o <<255, 1>> \o Encode28(0)
    /\ UNCHANGED <<flux, raw, decoderVars, published>>
Astable ==
    /\ flux = <<>> /\ stream = <<>> /\ stream' = <<255, 3, 1>>
    /\ UNCHANGED <<flux, marked, raw, decoderVars, published>>

(* A chunk arrives while no decode runs.                                   *)
Arrive ==
    /\ decoding # "yes"
    /\ \E n \in (Len(raw) + 1)..Len(stream) : raw' = SubSeq(stream, 1, n)
    /\ UNCHANGED <<sourceVars, decoderVars, published>>

(* decode_stream begins, on all of raw.                                    *)
Begin ==
    /\ decoding # "yes" /\ raw # <<>>
    /\ queue' = raw /\ ticks' = 0 /\ index' = FALSE /\ events' = <<>> /\ decoding' = "yes"
    /\ UNCHANGED <<sourceVars, raw, published>>

(* The number of bytes of the queue's first item.                          *)
ItemLength ==
    IF queue[1] < 250 THEN 1
    ELSE IF queue[1] < 255 \/ Len(queue) = 1 THEN 2
    ELSE CASE queue[2] \in {1, 2} -> 6
           [] queue[2] = 3 -> 3
           [] OTHER -> 2
Complete == Len(queue) >= ItemLength
Rest == SubSeq(queue, ItemLength + 1, Len(queue))

(* decode_stream: an item that completes an interval.                      *)
TakeInterval ==
    /\ decoding = "yes" /\ queue # <<>> /\ queue[1] < 255 /\ Complete
    /\ LET added == IF queue[1] < 250 THEN ShortTicks(queue[1])
                    ELSE ExtendedTicks(queue[1], queue[2])
       IN events' = Append(events, [ticks |-> ticks + added, index |-> index])
    /\ ticks' = 0 /\ index' = FALSE /\ queue' = Rest
    /\ UNCHANGED <<sourceVars, raw, decoding, published>>
(* decode_stream: an opcode, an index pulse, a space or the astable.       *)
TakeOpcode ==
    /\ decoding = "yes" /\ queue # <<>> /\ queue[1] = 255 /\ Complete /\ queue[2] \in {1, 2, 3}
    /\ ticks' = IF queue[2] = 2 THEN ticks + Read28(queue[3], queue[4], queue[5], queue[6])
                ELSE ticks
    /\ index' = (index \/ queue[2] = 1)
    /\ queue' = Rest
    /\ UNCHANGED <<sourceVars, raw, events, decoding, published>>
(* A truncated item or an unknown opcode: there is no publish this time.   *)
TakeFails ==
    /\ decoding = "yes" /\ queue # <<>>
    /\ Complete => queue[1] = 255 /\ queue[2] \notin {1, 2, 3}
    /\ decoding' = "failed"
    /\ UNCHANGED <<sourceVars, raw, queue, ticks, index, events, published>>
(* drain_fast_stream: the decode is done and what it gave goes to progress.*)
Publish ==
    /\ decoding = "yes" /\ queue = <<>>
    /\ published' = events /\ decoding' = "no"
    /\ UNCHANGED <<sourceVars, raw, queue, ticks, index, events>>

Init ==
    /\ flux = <<>> /\ stream = <<>> /\ marked = FALSE
    /\ raw = <<>> /\ queue = <<>> /\ ticks = 0 /\ index = FALSE /\ events = <<>>
    /\ decoding = "no" /\ published = <<>>
Next == Interval \/ IndexPulse \/ Astable \/ Arrive \/ Begin \/ TakeInterval \/ TakeOpcode
        \/ TakeFails \/ Publish
Spec == Init /\ [][Next]_vars

-----------------------------------------------------------------------------
(* ZeroEnds: an encoded track has no zero byte, which is what ends it for  *)
(* both readers of the stream.                                             *)
ZeroEnds == \A i \in DOMAIN stream : stream[i] \in 1..255

(* PublishedTrue: whatever part of the track is published, cut wherever a  *)
(* chunk ended, it is a beginning of the track, interval for interval with *)
(* its index pulses.                                                       *)
PublishedTrue ==
    /\ Len(published) <= Len(flux)
    /\ \A i \in DOMAIN published : published[i] = flux[i]

(* Decodable: a stream that has arrived whole decodes, to all of the track.*)
Decodable ==
    [][decoding = "yes" /\ decoding' # "yes" /\ raw = stream
       => decoding' = "no" /\ published' = flux]_vars
=============================================================================
