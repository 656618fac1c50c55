-------------------------- MODULE FluxCodecProofs --------------------------
(***************************************************************************)
(* What the encoding of flux promises for every interval, and for every    *)
(* track: what is written is what is read, and only the end is a zero.     *)
(***************************************************************************)
EXTENDS FluxCodec, SequenceTheorems, TLAPS

Encodable == 1..Limit
(* What decode_stream makes of the one item or two of an encoded interval. *)
Decoded(b) ==
    CASE Len(b) = 1 -> ShortTicks(b[1])
      [] Len(b) = 2 -> ExtendedTicks(b[1], b[2])
      [] OTHER -> Read28(b[3], b[4], b[5], b[6]) + ShortTicks(b[7])

NoZero(b) == b \in Seq(Int) /\ \A i \in 1..Len(b) : b[i] \in 1..255

(* One byte, written out, is bytes.                                        *)
LEMMA Written1 == ASSUME NEW w \in 1..255 PROVE NoZero(<<w>>)
BY DEF NoZero
(* Two bytes, written out, are bytes.                                      *)
LEMMA Written2 == ASSUME NEW w \in 1..255, NEW x \in 1..255 PROVE NoZero(<<w, x>>)
BY DEF NoZero
(* Four bytes, written out, are bytes.                                     *)
LEMMA Written4 ==
    ASSUME NEW w \in 1..255, NEW x \in 1..255, NEW y \in 1..255, NEW z \in 1..255
    PROVE  NoZero(<<w, x, y, z>>)
BY DEF NoZero

(* Bytes after bytes are bytes.                                            *)
LEMMA NoZeroConcat ==
    ASSUME NEW a, NEW b, NoZero(a), NoZero(b)
    PROVE  NoZero(a \o b)
<1>1. a \o b \in Seq(Int) /\ Len(a \o b) = Len(a) + Len(b) BY DEF NoZero
<1>2. ASSUME NEW i \in 1..Len(a \o b) PROVE (a \o b)[i] \in 1..255
  <2>1. CASE i <= Len(a) BY <1>1, <2>1 DEF NoZero
  <2>2. CASE i > Len(a) BY <1>1, <2>2 DEF NoZero
  <2>3. QED BY <1>1, <2>1, <2>2 DEF NoZero
<1>3. QED BY <1>1, <1>2 DEF NoZero

(* The three forms encode_ticks chooses from, written out.                 *)
LEMMA Forms ==
    ASSUME NEW t \in Encodable
    PROVE  /\ t < 250 => EncodeTicks(t) = <<t>>
           /\ t >= 250 /\ t < 1525 =>
                EncodeTicks(t) = <<250 + (t - 250) \div 255, 1 + ((t - 250) % 255)>>
           /\ t >= 1525 => EncodeTicks(t) = (<<255, 2>> \o Encode28(t - 249)) \o <<249>>
<1>1. t \in Int BY DEF Encodable
<1>2. ASSUME t >= 250 PROVE t < 1525 <=> (t - 250) \div 255 < 5 BY <1>1, <1>2
<1>3. QED BY <1>1, <1>2 DEF EncodeTicks

(* The longest interval is a number.                                       *)
LEMMA LimitIsInt == Limit \in Int
BY DEF Limit

(* A group of seven bits is an odd byte, and reading it undoes it.         *)
LEMMA Group ==
    ASSUME NEW n \in Nat
    PROVE  /\ 1 + 2 * (n % 128) \in 1..255
           /\ (1 + 2 * (n % 128)) \div 2 = n % 128
           /\ n = (n % 128) + 128 * (n \div 128)
           /\ n \div 128 \in Nat
OBVIOUS

(* Four groups of seven bits make 28 bits, and reading them undoes it.     *)
LEMMA Bits28 ==
    ASSUME NEW v \in Nat, v < 128 * 128 * 128 * 128
    PROVE  /\ NoZero(Encode28(v)) /\ Len(Encode28(v)) = 4
           /\ LET b == Encode28(v) IN Read28(b[1], b[2], b[3], b[4]) = v
<1> DEFINE v2 == v \div 128
           v3 == v2 \div 128
           v4 == v3 \div 128
<1>1. v2 \in Nat /\ v3 \in Nat /\ v4 \in Nat BY Group
<1>2. v = (v % 128) + 128 * v2 BY Group
<1>3. v2 = (v2 % 128) + 128 * v3 BY <1>1, Group
<1>4. v3 = (v3 % 128) + 128 * v4 BY <1>1, Group
<1>5. v4 % 128 = v4
  <2>1. v2 < 128 * 128 * 128 BY <1>1, <1>2
  <2>2. v3 < 128 * 128 BY <1>1, <1>3, <2>1
  <2>3. v4 < 128 BY <1>1, <1>4, <2>2
  <2>4. QED BY <1>1, <2>3
<1>6. Encode28(v) = <<1 + 2 * (v % 128), 1 + 2 * (v2 % 128), 1 + 2 * (v3 % 128), 1 + 2 * (v4 % 128)>>
  BY DEF Encode28
<1>7. /\ 1 + 2 * (v % 128) \in 1..255 /\ 1 + 2 * (v2 % 128) \in 1..255
      /\ 1 + 2 * (v3 % 128) \in 1..255 /\ 1 + 2 * (v4 % 128) \in 1..255
  BY <1>1, Group
<1>8. /\ (1 + 2 * (v % 128)) \div 2 = v % 128 /\ (1 + 2 * (v2 % 128)) \div 2 = v2 % 128
      /\ (1 + 2 * (v3 % 128)) \div 2 = v3 % 128 /\ (1 + 2 * (v4 % 128)) \div 2 = v4 % 128
  BY <1>1, Group
<1> HIDE DEF v2, v3, v4
<1>9. Read28(1 + 2 * (v % 128), 1 + 2 * (v2 % 128), 1 + 2 * (v3 % 128), 1 + 2 * (v4 % 128)) = v
  <2>1. v = (v % 128) + 128 * ((v2 % 128) + 128 * ((v3 % 128) + 128 * (v4 % 128)))
    BY <1>2, <1>3, <1>4, <1>5
  <2>2. QED BY <1>8, <2>1 DEF Read28
<1> DEFINE a1 == 1 + 2 * (v % 128)
           a2 == 1 + 2 * (v2 % 128)
           a3 == 1 + 2 * (v3 % 128)
           a4 == 1 + 2 * (v4 % 128)
<1>10. Encode28(v) = <<a1, a2, a3, a4>> /\ Read28(a1, a2, a3, a4) = v BY <1>6, <1>9
<1>11. a1 \in 1..255 /\ a2 \in 1..255 /\ a3 \in 1..255 /\ a4 \in 1..255 BY <1>7
<1> HIDE DEF a1, a2, a3, a4
<1>12. NoZero(<<a1, a2, a3, a4>>) BY <1>11, Written4
<1>13. QED BY <1>10, <1>12

(* The bytes of two strings of them, one behind the other.                 *)
LEMMA Joint ==
    ASSUME NEW a \in Seq(Int), NEW b \in Seq(Int)
    PROVE  /\ a \o b \in Seq(Int) /\ Len(a \o b) = Len(a) + Len(b)
           /\ \A i \in 1..(Len(a) + Len(b)) : (a \o b)[i] = IF i <= Len(a) THEN a[i] ELSE b[i - Len(a)]
BY ConcatProperties

(* The third form, byte by byte.                                           *)
LEMMA FarBytes ==
    ASSUME NEW t \in Encodable, t >= 1525
    PROVE  LET f == EncodeTicks(t) IN
             /\ Len(f) = 7 /\ f[1] = 255 /\ f[2] = 2 /\ f[7] = 249
             /\ Read28(f[3], f[4], f[5], f[6]) = t - 249
<1>1. t \in Int /\ t >= 1 /\ t <= Limit BY LimitIsInt DEF Encodable
<1> DEFINE b == Encode28(t - 249)
           o == <<255, 2>>
           c == o \o b
<1>2. t - 249 \in Nat /\ t - 249 < 128 * 128 * 128 * 128 BY <1>1 DEF Limit
<1>3. NoZero(b) /\ Len(b) = 4 /\ Read28(b[1], b[2], b[3], b[4]) = t - 249 BY <1>2, Bits28
<1>4. EncodeTicks(t) = c \o <<249>> BY Forms
<1>5. o \in Seq(Int) /\ Len(o) = 2 /\ o[1] = 255 /\ o[2] = 2 OBVIOUS
<1> HIDE DEF b, o
<1>6. b \in Seq(Int) BY <1>3 DEF NoZero
<1>7. /\ c \in Seq(Int) /\ Len(c) = Len(o) + Len(b)
      /\ \A i \in 1..(Len(o) + Len(b)) : c[i] = IF i <= Len(o) THEN o[i] ELSE b[i - Len(o)]
  <2>1. o \in Seq(Int) /\ b \in Seq(Int) BY <1>5, <1>6
  <2>2. o \o b \in Seq(Int) BY ONLY <2>1, Joint
  <2>3. Len(o \o b) = Len(o) + Len(b) BY ONLY <2>1, Joint
  <2>4. \A i \in 1..(Len(o) + Len(b)) : (o \o b)[i] = IF i <= Len(o) THEN o[i] ELSE b[i - Len(o)]
    BY ONLY <2>1, Joint
  <2> QED BY <2>2, <2>3, <2>4
<1>8. Len(c) = 6 /\ Len(o) + Len(b) = 6 BY <1>3, <1>5, <1>7
<1>9. ASSUME NEW i \in 3..6 PROVE c[i] = b[i - 2]
  <2>1. i \in 1..6 /\ ~(i <= Len(o)) BY <1>5
  <2>2. c[i] = b[i - Len(o)] BY <1>7, <1>8, <2>1
  <2> QED BY <1>5, <2>2
<1>10. ASSUME NEW i \in 1..2 PROVE c[i] = o[i]
  <2>1. i \in 1..6 /\ i <= Len(o) BY <1>5
  <2> QED BY <1>7, <1>8, <2>1
<1>11. c[1] = 255 /\ c[2] = 2 /\ c[3] = b[1] /\ c[4] = b[2] /\ c[5] = b[3] /\ c[6] = b[4]
  <2> HIDE DEF c
  <2>1. c[1] = o[1] /\ c[2] = o[2] BY <1>10
  <2>2. c[3] = b[1] /\ c[4] = b[2] /\ c[5] = b[3] /\ c[6] = b[4]
    <3>1. c[3] = b[3 - 2] /\ c[4] = b[4 - 2] /\ c[5] = b[5 - 2] /\ c[6] = b[6 - 2] BY ONLY <1>9
    <3> QED BY ONLY <3>1
  <2> QED BY <1>5, <2>1, <2>2
<1> HIDE DEF c
<1>12. /\ Len(c \o <<249>>) = 7 /\ (c \o <<249>>)[7] = 249
       /\ \A i \in 1..6 : (c \o <<249>>)[i] = c[i]
  BY <1>7, <1>8
<1> QED BY <1>3, <1>4, <1>11, <1>12

(* IntervalsSurvive: decode_stream reads from the bytes of an interval the *)
(* interval that encode_ticks made them of, whichever of the three forms   *)
(* it took and wherever in its range the interval lies.                    *)
THEOREM IntervalsSurvive == \A t \in Encodable : Decoded(EncodeTicks(t)) = t
<1>1. SUFFICES ASSUME NEW t \in Encodable PROVE Decoded(EncodeTicks(t)) = t OBVIOUS
<1>2. t \in Int /\ t >= 1 /\ t <= Limit BY LimitIsInt DEF Encodable
<1>3. CASE t < 250
  BY <1>2, <1>3, Forms DEF Decoded, ShortTicks
<1>4. CASE t >= 250 /\ t < 1525
  <2>1. EncodeTicks(t) = <<250 + (t - 250) \div 255, 1 + ((t - 250) % 255)>> BY <1>4, Forms
  <2>2. 250 + ((250 + (t - 250) \div 255) - 250) * 255 + ((1 + ((t - 250) % 255)) - 1) = t
    BY <1>2, <1>4
  <2>3. 1 + ((t - 250) % 255) # 0 BY <1>2, <1>4
  <2>4. QED BY <2>1, <2>2, <2>3 DEF Decoded, ExtendedTicks
<1>5. CASE t >= 1525
  <2> DEFINE f == EncodeTicks(t)
  <2>1. Len(f) = 7 /\ f[7] = 249 /\ Read28(f[3], f[4], f[5], f[6]) = t - 249 BY <1>5, FarBytes
  <2> HIDE DEF f
  <2>2. Decoded(f) = (t - 249) + 249 BY <2>1 DEF Decoded, ShortTicks
  <2> QED BY <1>2, <2>2 DEF f
<1>6. QED BY <1>2, <1>3, <1>4, <1>5

(* No byte of an encoded interval is a zero.                               *)
LEMMA NoZeroByte ==
    ASSUME NEW t \in Encodable
    PROVE  NoZero(EncodeTicks(t))
<1>1. t \in Int /\ t >= 1 /\ t <= Limit BY LimitIsInt DEF Encodable
<1>2. CASE t < 250
  <2>1. EncodeTicks(t) = <<t>> BY <1>2, Forms
  <2>2. t \in 1..255 BY <1>1, <1>2
  <2>3. QED BY <2>1, <2>2, Written1
<1>3. CASE t >= 250 /\ t < 1525
  <2>1. 250 + (t - 250) \div 255 \in 1..255 BY <1>1, <1>3
  <2>2. 1 + ((t - 250) % 255) \in 1..255 BY <1>1, <1>3
  <2>3. EncodeTicks(t) = <<250 + (t - 250) \div 255, 1 + ((t - 250) % 255)>> BY <1>3, Forms
  <2>4. NoZero(<<250 + (t - 250) \div 255, 1 + ((t - 250) % 255)>>) BY <2>1, <2>2, Written2
  <2>5. QED BY <2>3, <2>4
<1>4. CASE t >= 1525
  <2>1. t - 249 \in Nat /\ t - 249 < 128 * 128 * 128 * 128 BY <1>1, <1>4 DEF Limit
  <2>2. NoZero(<<255, 2>>) /\ NoZero(<<249>>) BY DEF NoZero
  <2>3. NoZero(Encode28(t - 249)) BY <2>1, Bits28
  <2>4. EncodeTicks(t) = (<<255, 2>> \o Encode28(t - 249)) \o <<249>> BY <1>4, Forms
  <2>5. QED BY <2>2, <2>3, <2>4, NoZeroConcat
<1>5. QED BY <1>1, <1>2, <1>3, <1>4

(* ZeroEndsHolds: a zero byte ends the stream of a track, for every track, *)
(* which is what read_terminated_until and drain_fast_stream rely on.      *)
THEOREM ZeroEndsHolds == Spec => []ZeroEnds
<1> DEFINE Inv == NoZero(stream)
<1>1. Init => Inv BY DEF Init, NoZero
<1>2. Inv /\ [Next]_vars => Inv'
  <2>1. SUFFICES ASSUME Inv, [Next]_vars PROVE Inv' OBVIOUS
  <2>2. CASE Interval
    <3>1. PICK t \in Intervals : stream' = stream \o EncodeTicks(t) BY <2>2 DEF Interval
    <3>2. NoZero(EncodeTicks(t)) BY IntervalsAssumption, NoZeroByte DEF Encodable
    <3>3. QED BY <2>1, <3>1, <3>2, NoZeroConcat
  <2>3. CASE IndexPulse
    <3>1. Encode28(0) = <<1, 1, 1, 1>> BY DEF Encode28
    <3>2. NoZero(<<255, 1>>) /\ NoZero(<<1, 1, 1, 1>>) BY DEF NoZero
    <3>3. stream' = (stream \o <<255, 1>>) \o Encode28(0) BY <2>3 DEF IndexPulse
    <3>4. QED BY <2>1, <3>1, <3>2, <3>3, NoZeroConcat
  <2>4. CASE Astable
    <3>1. stream' = <<255, 3, 1>> BY <2>4 DEF Astable
    <3>2. QED BY <3>1 DEF NoZero
  <2>5. CASE UNCHANGED stream BY <2>1, <2>5 DEF NoZero
  <2>6. QED
    BY <2>1, <2>2, <2>3, <2>4, <2>5
    DEF Next, vars, sourceVars, Arrive, Begin, TakeInterval, TakeOpcode, TakeFails, Publish
<1>3. Inv => ZeroEnds
  <2>1. SUFFICES ASSUME Inv, NEW i \in DOMAIN stream PROVE stream[i] \in 1..255 BY DEF ZeroEnds
  <2>2. stream \in Seq(Int) BY <2>1 DEF NoZero
  <2>3. i \in 1..Len(stream) BY <2>2
  <2>4. QED BY <2>1, <2>3 DEF NoZero
<1>4. QED BY <1>1, <1>2, <1>3, PTL DEF Spec

-----------------------------------------------------------------------------
(* The way through a stream. A mark is what the decoder holds between two  *)
(* items: the ticks and the index pulse of an interval that is not         *)
(* complete, and how many are. Laid gives a mark to each offset at which   *)
(* an item begins or the stream ends, and says that each item leads from   *)
(* one mark to the next; Stands, that the decoder is at a marked offset.   *)
Events == [ticks : Int, index : BOOLEAN]
Mark == [ticks : Int, index : BOOLEAN, done : Nat]
Held(t, i, n) == [ticks |-> t, index |-> i, done |-> n]
Completes(r, b, c, t) ==
    /\ c \in DOMAIN r /\ r[b].done + 1 <= Len(flux)
    /\ flux[r[b].done + 1] = [ticks |-> r[b].ticks + t, index |-> r[b].index]
    /\ r[c] = Held(0, FALSE, r[b].done + 1)
Leads(r, b) ==
    \/ stream[b + 1] < 250 /\ Completes(r, b, b + 1, ShortTicks(stream[b + 1]))
    \/ /\ stream[b + 1] \in 250..254
       /\ Completes(r, b, b + 2, ExtendedTicks(stream[b + 1], stream[b + 2]))
    \/ /\ stream[b + 1] = 255 /\ stream[b + 2] = 1 /\ b + 6 \in DOMAIN r
       /\ r[b + 6] = Held(r[b].ticks, TRUE, r[b].done)
    \/ /\ stream[b + 1] = 255 /\ stream[b + 2] = 2 /\ b + 6 \in DOMAIN r
       /\ r[b + 6] = Held(r[b].ticks + Read28(stream[b + 3], stream[b + 4], stream[b + 5], stream[b + 6]),
                          r[b].index, r[b].done)
    \/ /\ stream[b + 1] = 255 /\ stream[b + 2] = 3 /\ b + 3 \in DOMAIN r
       /\ r[b + 3] = Held(r[b].ticks, r[b].index, r[b].done)
Laid(r) ==
    /\ DOMAIN r \subseteq 0..Len(stream) /\ 0 \in DOMAIN r /\ Len(stream) \in DOMAIN r
    /\ \A b \in DOMAIN r : /\ r[b] \in Mark /\ r[b].done <= Len(flux)
                           /\ b < Len(stream) => Leads(r, b)
    /\ r[0] = Held(0, FALSE, 0) /\ r[Len(stream)] = Held(0, marked, Len(flux))
Taken == Len(raw) - Len(queue)
Stands(r) ==
    decoding = "yes" =>
       /\ Taken \in DOMAIN r /\ r[Taken] = Held(ticks, index, Len(events))
       /\ \A i \in 1..Len(queue) : queue[i] = stream[Taken + i]
       /\ \A i \in 1..Len(events) : events[i] = flux[i]
CodecTyped ==
    /\ flux \in Seq(Events) /\ stream \in Seq(Int) /\ marked \in BOOLEAN
    /\ raw \in Seq(Int) /\ queue \in Seq(Int) /\ ticks \in Int /\ index \in BOOLEAN
    /\ events \in Seq(Events) /\ published \in Seq(Events)
Arrived == Len(raw) <= Len(stream) /\ \A i \in 1..Len(raw) : raw[i] = stream[i]
CodecInv == CodecTyped /\ Arrived /\ PublishedTrue /\ \E r : Laid(r) /\ Stands(r)

(* What a longer stream of a longer track keeps of a way.                  *)
Longer ==
    /\ stream \in Seq(Int) /\ stream' \in Seq(Int) /\ flux \in Seq(Events) /\ flux' \in Seq(Events)
    /\ Len(stream) <= Len(stream') /\ Len(flux) <= Len(flux')
    /\ \A i \in 1..Len(stream) : stream'[i] = stream[i]
    /\ \A i \in 1..Len(flux) : flux'[i] = flux[i]
(* s marks what r marks, as r does.                                        *)
Onwards(r, s) == DOMAIN r \subseteq DOMAIN s /\ \A b \in DOMAIN r : s[b] = r[b]
(* An item leads to the same mark in a longer stream.                      *)
LEMMA LeadsOn ==
    ASSUME Longer, NEW r, NEW s, Onwards(r, s), Laid(r), NEW b \in DOMAIN r, b < Len(stream)
    PROVE  s[b] \in Mark /\ s[b].done <= Len(flux') /\ Leads(s, b)'
<1>1. /\ s[b] = r[b] /\ r[b] \in Mark /\ r[b].done <= Len(flux) /\ b \in Nat
      /\ Len(stream) \in Nat /\ Len(flux) \in Nat /\ Len(flux') \in Nat /\ Len(flux) <= Len(flux')
      /\ Leads(r, b) /\ DOMAIN r \subseteq 0..Len(stream)
  BY DEF Laid, Longer, Onwards
<1>2. \A i \in 1..6 : b + i \in DOMAIN r => b + i <= Len(stream) /\ s[b + i] = r[b + i] /\ b + i \in DOMAIN s
  BY <1>1 DEF Onwards
<1>3. \A i \in 1..6 : b + i <= Len(stream) => stream'[b + i] = stream[b + i]
  BY <1>1 DEF Longer
<1>4. ASSUME NEW c, c \in {b + 1, b + 2}, NEW t, Completes(r, b, c, t)
      PROVE  Completes(s, b, c, t)'
  <2>1. /\ c \in DOMAIN r /\ r[b].done + 1 <= Len(flux)
        /\ flux[r[b].done + 1] = [ticks |-> r[b].ticks + t, index |-> r[b].index]
        /\ r[c] = Held(0, FALSE, r[b].done + 1)
    BY <1>4 DEF Completes
  <2>2. c \in DOMAIN s /\ s[c] = r[c] BY <2>1 DEF Onwards
  <2>3. r[b].done + 1 \in 1..Len(flux) BY <1>1, <2>1 DEF Mark
  <2>4. flux'[r[b].done + 1] = flux[r[b].done + 1] BY <2>3 DEF Longer
  <2>5. r[b].done + 1 <= Len(flux') BY <1>1, <2>3
  <2> QED BY <1>1, <2>1, <2>2, <2>4, <2>5 DEF Completes
<1>5. s[b].done <= Len(flux') BY <1>1 DEF Mark
<1>6. b + 1 <= Len(stream) /\ stream'[b + 1] = stream[b + 1] BY <1>1, <1>3
<1>7. CASE stream[b + 1] < 250 /\ Completes(r, b, b + 1, ShortTicks(stream[b + 1]))
  <2>1. Completes(s, b, b + 1, ShortTicks(stream[b + 1]))' BY <1>1, <1>4, <1>6, <1>7
  <2> QED BY <1>1, <1>5, <1>6, <1>7, <2>1 DEF Leads
<1>8. CASE /\ stream[b + 1] \in 250..254
           /\ Completes(r, b, b + 2, ExtendedTicks(stream[b + 1], stream[b + 2]))
  <2>1. b + 2 <= Len(stream) /\ stream'[b + 2] = stream[b + 2] BY <1>2, <1>3, <1>8 DEF Completes
  <2> QED BY <1>1, <1>4, <1>5, <1>6, <1>8, <2>1 DEF Leads
<1>9. CASE /\ stream[b + 1] = 255 /\ stream[b + 2] = 1 /\ b + 6 \in DOMAIN r
           /\ r[b + 6] = Held(r[b].ticks, TRUE, r[b].done)
  <2>1. 6 \in 1..6 /\ b + 6 \in DOMAIN r BY <1>9
  <2>2. b + 6 <= Len(stream) /\ s[b + 6] = r[b + 6] /\ b + 6 \in DOMAIN s BY ONLY <1>2, <2>1
  <2>3. stream'[b + 2] = stream[b + 2] BY <1>1, <1>3, <2>2
  <2> QED BY <1>1, <1>5, <1>6, <1>9, <2>2, <2>3 DEF Leads
<1>10. CASE /\ stream[b + 1] = 255 /\ stream[b + 2] = 2 /\ b + 6 \in DOMAIN r
            /\ r[b + 6] = Held(r[b].ticks + Read28(stream[b + 3], stream[b + 4], stream[b + 5], stream[b + 6]),
                               r[b].index, r[b].done)
  <2>1. b + 6 <= Len(stream) /\ s[b + 6] = r[b + 6] /\ b + 6 \in DOMAIN s BY <1>2, <1>10
  <2>2. /\ stream'[b + 2] = stream[b + 2] /\ stream'[b + 3] = stream[b + 3]
        /\ stream'[b + 4] = stream[b + 4] /\ stream'[b + 5] = stream[b + 5]
        /\ stream'[b + 6] = stream[b + 6]
    BY <1>1, <1>3, <2>1
  <2> QED BY <1>1, <1>5, <1>6, <1>10, <2>1, <2>2 DEF Leads
<1>11. CASE /\ stream[b + 1] = 255 /\ stream[b + 2] = 3 /\ b + 3 \in DOMAIN r
            /\ r[b + 3] = Held(r[b].ticks, r[b].index, r[b].done)
  <2>1. b + 3 <= Len(stream) /\ s[b + 3] = r[b + 3] /\ b + 3 \in DOMAIN s BY <1>2, <1>11
  <2>2. stream'[b + 2] = stream[b + 2] BY <1>1, <1>3, <2>1
  <2> QED BY <1>1, <1>5, <1>6, <1>11, <2>1, <2>2 DEF Leads
<1> QED BY <1>1, <1>7, <1>8, <1>9, <1>10, <1>11 DEF Leads

(* One step further: from the end of the stream to the end of its bytes.   *)
Then(r, c, m) == [b \in DOMAIN r \cup {c} |-> IF b \in DOMAIN r THEN r[b] ELSE m]
LEMMA ThenIs ==
    ASSUME NEW r, NEW c, c \notin DOMAIN r, NEW m
    PROVE  /\ DOMAIN Then(r, c, m) = DOMAIN r \cup {c}
           /\ Then(r, c, m)[c] = m /\ Onwards(r, Then(r, c, m))
BY DEF Then, Onwards

(* Bytes behind a stream lie behind it.                                    *)
LEMMA Behind ==
    ASSUME NEW b, NoZero(b), stream \in Seq(Int), stream' = stream \o b
    PROVE  /\ stream' \in Seq(Int) /\ Len(stream) \in Nat /\ Len(b) \in Nat
           /\ Len(stream') = Len(stream) + Len(b)
           /\ \A i \in 1..Len(stream) : stream'[i] = stream[i]
           /\ \A i \in 1..Len(b) : stream'[Len(stream) + i] = b[i]
<1>1. b \in Seq(Int) BY DEF NoZero
<1>2. stream' \in Seq(Int) /\ Len(stream') = Len(stream) + Len(b) BY <1>1, ConcatProperties
<1>3. ASSUME NEW i \in 1..Len(stream) PROVE stream'[i] = stream[i]
  <2>1. i \in 1..(Len(stream) + Len(b)) /\ i <= Len(stream) BY <1>1
  <2> QED BY <1>1, <2>1, ConcatProperties
<1>4. ASSUME NEW i \in 1..Len(b) PROVE stream'[Len(stream) + i] = b[i]
  <2> DEFINE j == Len(stream) + i
  <2>1. j \in 1..(Len(stream) + Len(b)) /\ ~(j <= Len(stream)) /\ j - Len(stream) = i BY <1>1
  <2> HIDE DEF j
  <2>2. stream'[j] = b[j - Len(stream)] BY <1>1, <2>1, ConcatProperties
  <2> QED BY <2>1, <2>2 DEF j
<1> QED BY <1>1, <1>2, <1>3, <1>4

(* A way that leads on to the end of a longer stream is one through it.    *)
LEMMA LaidOn ==
    ASSUME Longer, NEW r, Laid(r), NEW s, Onwards(r, s),
           DOMAIN s \subseteq 0..Len(stream'), Len(stream') \in DOMAIN s,
           s[Len(stream')] = Held(0, marked', Len(flux')),
           \A b \in DOMAIN s : b \notin DOMAIN r \/ b = Len(stream) =>
              /\ s[b] \in Mark /\ s[b].done <= Len(flux')
              /\ b < Len(stream') => Leads(s, b)'
    PROVE  Laid(s)'
<1>1. 0 \in DOMAIN r /\ r[0] = Held(0, FALSE, 0) /\ DOMAIN r \subseteq 0..Len(stream) BY DEF Laid
<1>2. 0 \in DOMAIN s /\ s[0] = Held(0, FALSE, 0) BY <1>1 DEF Onwards
<1>3. Len(stream) \in Nat BY DEF Longer
<1>4. ASSUME NEW b \in DOMAIN s
      PROVE  /\ s[b] \in Mark /\ s[b].done <= Len(flux')
             /\ b < Len(stream') => Leads(s, b)'
  <2>1. CASE b \notin DOMAIN r \/ b = Len(stream) BY <2>1
  <2>2. CASE b \in DOMAIN r /\ b # Len(stream)
    <3>1. b < Len(stream) BY <1>1, <1>3, <2>2
    <3> QED BY <2>2, <3>1, LeadsOn
  <2> QED BY <2>1, <2>2
<1> QED BY <1>2, <1>4 DEF Laid
(* The same with one mark more.                                            *)
LEMMA LaidOneMore ==
    ASSUME Longer, NEW r, Laid(r), NEW c, c = Len(stream'), c > Len(stream), NEW m, m \in Mark,
           m = Held(0, marked', Len(flux')), NEW s, s = Then(r, c, m),
           NEW l, l = Len(stream), Leads(s, l)'
    PROVE  Laid(s)' /\ Onwards(r, s)
<1>1. /\ DOMAIN r \subseteq 0..Len(stream) /\ Len(stream) \in DOMAIN r /\ Len(stream) \in Nat
      /\ c \in Nat /\ Len(flux') \in Nat /\ Len(flux) \in Nat /\ Len(flux) <= Len(flux')
      /\ r[Len(stream)] \in Mark /\ r[Len(stream)].done <= Len(flux)
  BY DEF Laid, Longer
<1>2. c \notin DOMAIN r BY <1>1
<1>3. DOMAIN s = DOMAIN r \cup {c} /\ s[c] = m /\ Onwards(r, s)
  <2>1. DOMAIN s = DOMAIN r \cup {c} BY <1>2, ThenIs
  <2>2. s[c] = m BY <1>2 DEF Then
  <2>3. Onwards(r, s) BY <1>2, ThenIs
  <2> QED BY <2>1, <2>2, <2>3
<1>4. DOMAIN s \subseteq 0..Len(stream') /\ Len(stream') \in DOMAIN s BY <1>1, <1>3
<1>5. ASSUME NEW b \in DOMAIN s, b \notin DOMAIN r \/ b = Len(stream)
      PROVE  /\ s[b] \in Mark /\ s[b].done <= Len(flux')
             /\ b < Len(stream') => Leads(s, b)'
  <2>1. CASE b = c
    <3>1. s[b] = m /\ m.done = Len(flux') BY <1>3, <2>1 DEF Held
    <3> QED BY <1>1, <2>1, <3>1
  <2>2. CASE b = Len(stream)
    <3>1. s[b] = r[b] BY <1>1, <1>3, <2>2 DEF Onwards
    <3>2. s[b].done <= Len(flux') BY <1>1, <2>2, <3>1 DEF Mark
    <3>3. b = l BY <2>2
    <3> QED BY <1>1, <2>2, <3>1, <3>2, <3>3
  <2> QED BY <1>3, <1>5, <2>1, <2>2
<1> QED BY <1>3, <1>4, <1>5, LaidOn

(* An item that completes an interval, read at the end of the stream.      *)
LEMMA CompletesNext ==
    ASSUME CodecTyped, NEW r, Laid(r), NEW t \in Int,
           flux' = Append(flux, [ticks |-> t, index |-> marked])
    PROVE  /\ Len(flux') = Len(flux) + 1 /\ Len(flux) \in Nat /\ flux' \in Seq(Events)
           /\ flux'[Len(flux) + 1] = [ticks |-> t, index |-> marked]
           /\ \A i \in 1..Len(flux) : flux'[i] = flux[i]
           /\ Held(0, FALSE, Len(flux')) \in Mark
BY DEF CodecTyped, Events, Held, Mark

(* The firmware's steps lay the stream on.                                 *)
LEMMA LaidInterval ==
    ASSUME CodecTyped, NEW r, Laid(r), Interval
    PROVE  Longer /\ \E s : Laid(s)' /\ Onwards(r, s)
<1>1. PICK t \in Intervals : /\ flux' = Append(flux, [ticks |-> t, index |-> marked])
                             /\ stream' = stream \o EncodeTicks(t)
  BY DEF Interval
<1>2. t \in Encodable /\ t \in Int /\ t >= 1 /\ t <= Limit
  <2>1. t \in 1..Limit BY IntervalsAssumption
  <2> QED BY <2>1, LimitIsInt DEF Encodable
<1>3. ~marked' BY DEF Interval
<1>14. PICK l, n, m : l = Len(stream) /\ n = Len(flux) /\ m = marked OBVIOUS
<1> DEFINE b == EncodeTicks(t)
           e == [ticks |-> t, index |-> m]
           end == Held(0, FALSE, n + 1)
<1>4. NoZero(b) BY <1>2, NoZeroByte
<1>5. /\ stream' \in Seq(Int) /\ l \in Nat /\ Len(b) \in Nat /\ Len(stream') = l + Len(b)
      /\ \A i \in 1..l : stream'[i] = stream[i]
      /\ \A i \in 1..Len(b) : stream'[l + i] = b[i]
  <2>1. stream \in Seq(Int) /\ stream' = stream \o b BY <1>1 DEF CodecTyped
  <2> HIDE DEF b
  <2> QED BY <1>4, <1>14, <2>1, Behind
<1>6. /\ Len(flux') = n + 1 /\ n \in Nat /\ flux' \in Seq(Events) /\ flux'[n + 1] = e
      /\ \A i \in 1..n : flux'[i] = flux[i]
      /\ end \in Mark
  BY <1>1, <1>2, <1>14, CompletesNext
<1>7. Longer BY <1>5, <1>6, <1>14 DEF Longer, CodecTyped
<1>8. /\ r[l] = Held(0, m, n) /\ l \in DOMAIN r /\ DOMAIN r \subseteq 0..l
      /\ r[l].ticks = 0 /\ r[l].index = m /\ r[l].done = n
  BY <1>14 DEF Laid, Held
<1>9. end = Held(0, marked', Len(flux'))
  <2>1. marked' = FALSE BY DEF Interval
  <2> QED BY <1>6, <2>1
<1> HIDE DEF b, end
<1>10. ASSUME NEW c, c = Len(stream'), c > l, c \in {l + 1, l + 2},
              NEW s, s = Then(r, c, end), NEW x, x = t
       PROVE  Completes(s, l, c, x)'
  <2>1. c \notin DOMAIN r BY <1>5, <1>8, <1>10
  <2>2. c \in DOMAIN s BY <1>10 DEF Then
  <2>3. s[c] = end BY <1>10, <2>1 DEF Then
  <2>4. s[l] = r[l] BY <1>8, <1>10 DEF Then
  <2>5. s[l].done + 1 = n + 1 /\ 0 + x = x BY <1>2, <1>8, <1>10, <2>4
  <2>6. flux'[n + 1] = [ticks |-> s[l].ticks + x, index |-> s[l].index]
    BY <1>2, <1>6, <1>8, <1>10, <2>4, <2>5
  <2>7. s[l].done + 1 <= Len(flux') BY <1>6, <2>5
  <2>8. flux'[s[l].done + 1] = [ticks |-> s[l].ticks + x, index |-> s[l].index] BY <2>5, <2>6
  <2>9. s[c] = Held(0, FALSE, s[l].done + 1) BY <2>3, <2>5 DEF end
  <2> QED BY ONLY <2>2, <2>7, <2>8, <2>9 DEF Completes
<1>11. CASE t < 250
  <2> DEFINE c == l + 1
             s == Then(r, c, end)
  <2>1. b = <<t>> BY <1>2, <1>11, Forms DEF b
  <2>2. Len(b) = 1 /\ b[1] = t BY <2>1
  <2>3. c = Len(stream') /\ c > l /\ stream'[l + 1] = t BY <1>5, <2>2
  <2>4. Completes(s, l, l + 1, ShortTicks(stream[l + 1]))'
    <3>1. ShortTicks(stream'[l + 1]) = t BY <2>3 DEF ShortTicks
    <3> QED BY <1>10, <2>3, <3>1
  <2>5. Leads(s, l)' BY <1>11, <2>3, <2>4 DEF Leads
  <2>6. Laid(s)' /\ Onwards(r, s)
    <3> HIDE DEF c, s
    <3> QED BY <1>6, <1>7, <1>9, <2>3, <2>5, <1>14, LaidOneMore DEF s
  <2> QED BY <1>7, <2>6
<1>12. CASE t >= 250 /\ t < 1525
  <2> DEFINE c == l + 2
             s == Then(r, c, end)
             high == 250 + (t - 250) \div 255
             low == 1 + ((t - 250) % 255)
  <2>1. b = <<high, low>> BY <1>2, <1>12, Forms DEF b
  <2>2. high \in 250..254 /\ low \in 1..255 /\ 250 + (high - 250) * 255 + (low - 1) = t
    BY <1>2, <1>12
  <2>3. ExtendedTicks(high, low) = t BY <2>2 DEF ExtendedTicks
  <2> HIDE DEF high, low
  <2>4. Len(b) = 2 /\ b[1] = high /\ b[2] = low BY <2>1
  <2>5. c = Len(stream') /\ c > l /\ stream'[l + 1] = high /\ stream'[l + 2] = low BY <1>5, <2>4
  <2>6. Completes(s, l, l + 2, ExtendedTicks(stream[l + 1], stream[l + 2]))'
    <3>1. ExtendedTicks(stream'[l + 1], stream'[l + 2]) = t BY <2>3, <2>5
    <3> QED BY <1>10, <2>5, <3>1
  <2>7. Leads(s, l)' BY <2>2, <2>5, <2>6 DEF Leads
  <2>8. Laid(s)' /\ Onwards(r, s)
    <3> HIDE DEF c, s
    <3> QED BY <1>6, <1>7, <1>9, <2>5, <2>7, <1>14, LaidOneMore DEF s
  <2> QED BY <1>7, <2>8
<1>13. CASE t >= 1525
  <2> DEFINE q == Encode28(t - 249)
             c == l + 6
             d == l + 7
             held == Held(t - 249, m, n)
             u == Then(r, c, held)
             s == Then(u, d, end)
  <2>1. /\ Len(b) = 7 /\ b[1] = 255 /\ b[2] = 2 /\ b[7] = 249
        /\ Read28(b[3], b[4], b[5], b[6]) = t - 249
    BY <1>2, <1>13, FarBytes DEF b
  <2>2. d = Len(stream') /\ c > l /\ d > c /\ d > l BY <1>5, <2>1
  <2>3. /\ stream'[l + 1] = 255 /\ stream'[l + 2] = 2 /\ stream'[c + 1] = 249
        /\ Read28(stream'[l + 3], stream'[l + 4], stream'[l + 5], stream'[l + 6]) = t - 249
    BY <1>5, <2>1
  <2>4. c \notin DOMAIN r /\ c # d /\ d \notin DOMAIN r BY <1>5, <1>8, <2>2
  <2>5. /\ DOMAIN s = DOMAIN r \cup {c, d} /\ s[c] = held /\ s[d] = end
        /\ \A x \in DOMAIN r : s[x] = r[x]
    BY <2>4 DEF Then
  <2> HIDE DEF c, d, s, u
  <2>6. s[l] = r[l] /\ Onwards(r, s) BY <1>8, <2>5 DEF Onwards
  <2>7. Leads(s, l)'
    <3>1. 0 + (t - 249) = t - 249 BY <1>2
    <3>2. r[l].ticks + Read28(stream'[l + 3], stream'[l + 4], stream'[l + 5], stream'[l + 6]) = t - 249
      BY <1>8, <2>3, <3>1
    <3> QED BY <1>8, <2>3, <2>5, <2>6, <3>2 DEF Leads, c
  <2>8. Leads(s, c)'
    <3>1. held.ticks = t - 249 /\ held.index = m /\ held.done = n BY DEF Held
    <3>2. ShortTicks(stream'[c + 1]) = 249 /\ (t - 249) + 249 = t BY <1>2, <2>3 DEF ShortTicks
    <3>3. c + 1 = d BY <1>5 DEF c, d
    <3>4. s[c].done + 1 = n + 1 /\ s[c].ticks + 249 = t /\ s[c].index = m BY <2>5, <3>1, <3>2
    <3>5. d \in DOMAIN s /\ s[c].done + 1 <= Len(flux') BY <1>6, <2>5, <3>4
    <3>6. flux'[s[c].done + 1] = [ticks |-> s[c].ticks + 249, index |-> s[c].index] BY <1>6, <3>4
    <3>7. s[d] = Held(0, FALSE, s[c].done + 1) BY <2>5, <3>4 DEF end
    <3>8. Completes(s, c, c + 1, ShortTicks(stream[c + 1]))'
      BY ONLY <3>2, <3>3, <3>5, <3>6, <3>7 DEF Completes
    <3> QED BY <2>3, <3>8 DEF Leads
  <2>9. held \in Mark /\ held.done <= Len(flux')
    BY <1>2, <1>6, <1>14 DEF Held, Mark, CodecTyped
  <2>10. DOMAIN s \subseteq 0..Len(stream') /\ Len(stream') \in DOMAIN s
    BY <1>5, <1>8, <2>2, <2>5 DEF c
  <2>11. ASSUME NEW x \in DOMAIN s, x \notin DOMAIN r \/ x = Len(stream)
         PROVE  /\ s[x] \in Mark /\ s[x].done <= Len(flux')
                /\ x < Len(stream') => Leads(s, x)'
    <3>1. CASE x = l
      <4>1. s[x] \in Mark /\ s[x].done = n BY <1>8, <1>14, <2>6, <3>1 DEF Laid
      <4> QED BY <1>6, <2>7, <3>1, <4>1
    <3>2. CASE x = c BY <2>5, <2>8, <2>9, <3>2
    <3>3. CASE x = d
      <4>1. end.done = Len(flux') BY <1>6 DEF end, Held
      <4> QED BY <1>6, <2>2, <2>5, <3>3, <4>1
    <3> QED BY <2>5, <2>11, <3>1, <3>2, <3>3, <1>14
  <2>12. Laid(s)' BY <1>7, <1>9, <2>2, <2>5, <2>6, <2>10, <2>11, LaidOn
  <2> QED BY <1>7, <2>6, <2>12
<1> QED BY <1>2, <1>11, <1>12, <1>13

(* The same of an index pulse.                                             *)
LEMMA LaidIndex ==
    ASSUME CodecTyped, NEW r, Laid(r), IndexPulse
    PROVE  Longer /\ \E s : Laid(s)' /\ Onwards(r, s)
<1> DEFINE b == <<255, 1>> \o Encode28(0)
<1>1. PICK l, n : l = Len(stream) /\ n = Len(flux) OBVIOUS
<1>2. /\ flux' = flux /\ marked = FALSE /\ marked' = TRUE
      /\ stream' = (stream \o <<255, 1>>) \o Encode28(0)
  BY DEF IndexPulse, CodecTyped
<1>3. Encode28(0) = <<1, 1, 1, 1>> BY DEF Encode28
<1>4. NoZero(<<255, 1>>) /\ NoZero(<<1, 1, 1, 1>>) BY DEF NoZero
<1>5. stream' = stream \o b
  <2>1. stream \in Seq(Int) /\ <<255, 1>> \in Seq(Int) /\ <<1, 1, 1, 1>> \in Seq(Int)
    BY DEF CodecTyped
  <2> QED BY <1>2, <1>3, <2>1, ConcatAssociative
<1>6. NoZero(b) /\ Len(b) = 6 /\ b[1] = 255 /\ b[2] = 1
  <2>1. b = <<255, 1>> \o <<1, 1, 1, 1>> BY <1>3
  <2>2. Len(b) = 6 /\ b[1] = 255 /\ b[2] = 1 BY <2>1
  <2> QED BY <1>3, <1>4, <2>2, NoZeroConcat
<1> HIDE DEF b
<1>7. /\ stream' \in Seq(Int) /\ l \in Nat /\ Len(stream') = l + 6
      /\ \A i \in 1..l : stream'[i] = stream[i]
      /\ stream'[l + 1] = 255 /\ stream'[l + 2] = 1
  <2>1. stream \in Seq(Int) /\ NoZero(b) /\ stream' = stream \o b BY <1>5, <1>6 DEF CodecTyped
  <2>2. /\ stream' \in Seq(Int) /\ Len(stream) \in Nat /\ Len(stream') = Len(stream) + Len(b)
        /\ \A i \in 1..Len(stream) : stream'[i] = stream[i]
    BY ONLY <2>1, Behind
  <2>3. \A i \in 1..Len(b) : stream'[Len(stream) + i] = b[i] BY ONLY <2>1, Behind
  <2>4. 1 \in 1..Len(b) /\ 2 \in 1..Len(b) BY <1>6
  <2>5. stream'[Len(stream) + 1] = 255 /\ stream'[Len(stream) + 2] = 1 BY <1>6, <2>3, <2>4
  <2> QED BY <1>1, <1>6, <2>2, <2>5
<1>8. n \in Nat /\ n <= n /\ flux \in Seq(Events) BY <1>1 DEF CodecTyped
<1>9. Longer BY <1>1, <1>2, <1>7, <1>8 DEF Longer, CodecTyped
<1>10. /\ l \in DOMAIN r /\ DOMAIN r \subseteq 0..l
       /\ r[l].ticks = 0 /\ r[l].done = n
  BY <1>1 DEF Laid, Held
<1> DEFINE c == l + 6
           end == Held(0, TRUE, n)
           s == Then(r, c, end)
<1>11. c = Len(stream') /\ c > Len(stream) /\ end = Held(0, marked', Len(flux')) /\ end \in Mark
  BY <1>1, <1>2, <1>7, <1>8 DEF Held, Mark
<1>12. c \in DOMAIN s /\ s[c] = end /\ s[l] = r[l]
  <2>1. c \notin DOMAIN r /\ l \in DOMAIN r BY <1>7, <1>10
  <2> HIDE DEF c, end
  <2> QED BY <2>1 DEF Then
<1> HIDE DEF c, s
<1>13. Leads(s, l)' BY <1>7, <1>10, <1>12 DEF Leads, c
<1>14. Laid(s)' /\ Onwards(r, s)
  <2> HIDE DEF end
  <2> QED BY <1>1, <1>9, <1>11, <1>13, LaidOneMore DEF s
<1> QED BY <1>9, <1>14

(* The same of the opcode the decoder has no use for.                      *)
LEMMA LaidAstable ==
    ASSUME CodecTyped, NEW r, Laid(r), Astable
    PROVE  Longer /\ \E s : Laid(s)' /\ Onwards(r, s)
<1>1. /\ flux = <<>> /\ flux' = flux /\ stream = <<>> /\ stream' = <<255, 3, 1>> /\ UNCHANGED marked
  BY DEF Astable
<1>2. PICK l, m : l = 0 /\ m = marked OBVIOUS
<1>3. Len(stream) = l /\ Len(flux) = 0 /\ Len(flux') = 0 BY <1>1, <1>2
<1>4. stream' \in Seq(Int) /\ Len(stream') = 3 /\ stream'[l + 1] = 255 /\ stream'[l + 2] = 3
  BY <1>1, <1>2
<1>5. Longer BY <1>1, <1>2, <1>3, <1>4 DEF Longer, CodecTyped
<1>6. l \in DOMAIN r /\ DOMAIN r \subseteq 0..0 /\ r[l] = Held(0, m, 0) BY <1>2, <1>3 DEF Laid
<1> DEFINE c == l + 3
           end == Held(0, m, 0)
           s == Then(r, c, end)
<1>7. c = Len(stream') /\ c > Len(stream) /\ end = Held(0, marked', Len(flux')) /\ end \in Mark
  BY <1>1, <1>2, <1>3, <1>4 DEF Held, Mark, CodecTyped
<1>8. c \in DOMAIN s /\ s[c] = end /\ s[l] = r[l] BY <1>2, <1>6 DEF Then
<1>9. end.ticks = 0 /\ end.index = m /\ end.done = 0 BY DEF Held
<1> HIDE DEF c, s
<1>10. Leads(s, l)' 
  <2>1. s[c] = Held(s[l].ticks, s[l].index, s[l].done) BY <1>6, <1>8, <1>9
  <2> QED BY <1>4, <1>8, <2>1 DEF Leads, c
<1>11. Laid(s)' /\ Onwards(r, s)
  <2> HIDE DEF end
  <2> QED BY <1>3, <1>5, <1>7, <1>10, LaidOneMore DEF s
<1> QED BY <1>5, <1>11

(* A decoder under way, and what it has published, stay right as the track *)
(* goes on.                                                                *)
LEMMA StandsOn ==
    ASSUME CodecTyped, Arrived, PublishedTrue, Longer, UNCHANGED <<raw, decoderVars, published>>,
           NEW r, Laid(r), Stands(r), NEW s, Onwards(r, s)
    PROVE  Arrived' /\ PublishedTrue' /\ Stands(s)'
<1>1. UNCHANGED <<raw, queue, ticks, index, events, decoding, published>> BY DEF decoderVars
<1>2. /\ Len(raw) \in Nat /\ Len(stream) \in Nat /\ Len(stream') \in Nat /\ Len(queue) \in Nat
      /\ Len(flux) \in Nat /\ Len(flux') \in Nat /\ Len(events) \in Nat /\ Len(published) \in Nat
      /\ DOMAIN published = 1..Len(published)
  BY DEF CodecTyped, Longer
<1>3. Arrived' BY <1>1, <1>2 DEF Arrived, Longer
<1>4. PublishedTrue' BY <1>1, <1>2 DEF PublishedTrue, Longer
<1>5. ASSUME decoding = "yes"
      PROVE  /\ Taken \in DOMAIN s /\ s[Taken] = Held(ticks, index, Len(events))
             /\ \A i \in 1..Len(queue) : queue[i] = stream'[Taken + i]
             /\ \A i \in 1..Len(events) : events[i] = flux'[i]
  <2>1. /\ Taken \in DOMAIN r /\ r[Taken] = Held(ticks, index, Len(events)) /\ Taken \in Nat
        /\ r[Taken].done <= Len(flux)
    BY <1>5, <1>2 DEF Stands, Laid
  <2>2. s[Taken] = r[Taken] /\ Taken \in DOMAIN s BY <2>1 DEF Onwards
  <2>3. ASSUME NEW i \in 1..Len(queue) PROVE queue[i] = stream'[Taken + i]
    <3>1. queue[i] = stream[Taken + i] BY <1>5 DEF Stands
    <3>2. Taken + i \in 1..Len(stream) BY <1>2, <2>1 DEF Taken, Arrived
    <3> QED BY <3>1, <3>2 DEF Longer
  <2>4. ASSUME NEW i \in 1..Len(events) PROVE events[i] = flux'[i]
    <3>1. r[Taken].done = Len(events) BY <2>1 DEF Held
    <3>2. i \in 1..Len(flux) BY <1>2, <2>1, <3>1
    <3> QED BY <1>5, <3>2 DEF Stands, Longer
  <2> QED BY <2>1, <2>2, <2>3, <2>4
<1>6. Taken' = Taken BY <1>1 DEF Taken
<1>7. Stands(s)' BY <1>1, <1>5, <1>6 DEF Stands
<1> QED BY <1>3, <1>4, <1>7

(* The decoder's steps go from mark to mark.                               *)
LEMMA RestIs ==
    ASSUME queue \in Seq(Int), NEW k \in 1..6, ItemLength = k, Complete, queue' = Rest
    PROVE  /\ queue' \in Seq(Int) /\ Len(queue') = Len(queue) - k
           /\ \A i \in 1..Len(queue') : queue'[i] = queue[i + k]
<1>1. Len(queue) \in Nat /\ k <= Len(queue) BY DEF Complete
<1>2. queue' = SubSeq(queue, k + 1, Len(queue)) BY DEF Rest
<1>3. queue' = [i \in 1..(Len(queue) - k) |-> queue[i + k]]
  <2>1. Len(queue) - (k + 1) + 1 = Len(queue) - k BY <1>1
  <2>2. \A i \in Int : i + (k + 1) - 1 = i + k OBVIOUS
  <2> QED BY <1>1, <1>2, <2>1, <2>2
<1>4. \A i \in 1..(Len(queue) - k) : queue[i + k] \in Int BY <1>1
<1>5. Len(queue) - k \in Nat BY <1>1
<1> QED BY <1>3, <1>4, <1>5

(* Where the decoder stands, and what it has before it.                    *)
LEMMA AtItem ==
    ASSUME CodecTyped, Arrived, NEW r, Laid(r), Stands(r), decoding = "yes", queue # <<>>,
           NEW p, p = Taken
    PROVE  /\ p \in DOMAIN r /\ p \in Nat /\ Leads(r, p) /\ Len(raw) = p + Len(queue)
           /\ Len(queue) \in Nat \ {0} /\ p + Len(queue) <= Len(stream)
           /\ r[p].ticks = ticks /\ r[p].index = index /\ r[p].done = Len(events)
           /\ \A i \in 1..Len(queue) : queue[i] = stream[p + i]
           /\ \A i \in 1..Len(events) : events[i] = flux[i]
<1>1. Len(queue) \in Nat \ {0} /\ Len(raw) \in Nat /\ Len(stream) \in Nat
  <2>1. Len(queue) # 0 BY EmptySeq DEF CodecTyped
  <2> QED BY <2>1 DEF CodecTyped
<1>2. /\ p \in DOMAIN r /\ r[p] = Held(ticks, index, Len(events))
      /\ \A i \in 1..Len(queue) : queue[i] = stream[p + i]
      /\ \A i \in 1..Len(events) : events[i] = flux[i]
  BY DEF Stands
<1>3. p \in Nat BY <1>1, <1>2 DEF Laid
<1>4. Len(raw) = p + Len(queue) /\ Len(raw) <= Len(stream) BY <1>1 DEF Taken, Arrived
<1>5. p < Len(stream) BY <1>1, <1>3, <1>4
<1>6. Leads(r, p) BY <1>2, <1>5 DEF Laid
<1> QED BY <1>1, <1>2, <1>3, <1>4, <1>6 DEF Held

(* Taking the first k bytes moves the decoder on by k.                     *)
LEMMA Onto ==
    ASSUME CodecTyped, NEW r, NEW p, p = Taken, Len(raw) = p + Len(queue), NEW k \in 1..6,
           p \in Nat, Len(queue') = Len(queue) - k, UNCHANGED raw, queue' \in Seq(Int),
           \A i \in 1..Len(queue') : queue'[i] = queue[i + k],
           k <= Len(queue), \A i \in 1..Len(queue) : queue[i] = stream[p + i], UNCHANGED stream
    PROVE  Taken' = p + k /\ \A i \in 1..Len(queue') : queue'[i] = stream'[p + k + i]
<1>1. Len(queue) \in Nat /\ Len(raw) \in Nat BY DEF CodecTyped
<1>2. Taken' = p + k BY <1>1 DEF Taken
<1>3. ASSUME NEW i \in 1..Len(queue') PROVE queue'[i] = stream'[p + k + i]
  <2>1. i + k \in 1..Len(queue) /\ p + (i + k) = p + k + i BY <1>1
  <2>2. queue[i + k] = stream[p + (i + k)] BY <2>1
  <2> QED BY <2>1, <2>2
<1> QED BY <1>2, <1>3

(* An interval taken leads to the next mark.                               *)
LEMMA IntervalTaken ==
    ASSUME CodecTyped, Arrived, NEW r, Laid(r), Stands(r), TakeInterval
    PROVE  /\ queue' \in Seq(Int) /\ events' \in Seq(Events) /\ ticks' \in Int /\ index' \in BOOLEAN
           /\ Stands(r)'
<1>1. /\ decoding = "yes" /\ queue # <<>> /\ queue[1] < 255 /\ Complete
      /\ ticks' = 0 /\ index' = FALSE /\ queue' = Rest
      /\ UNCHANGED <<flux, stream, raw, decoding>>
  BY DEF TakeInterval, sourceVars
<1> DEFINE added == IF queue[1] < 250 THEN ShortTicks(queue[1]) ELSE ExtendedTicks(queue[1], queue[2])
           e == [ticks |-> ticks + added, index |-> index]
<1>2. events' = Append(events, e) BY DEF TakeInterval
<1>3. PICK p : p = Taken OBVIOUS
<1>4. /\ p \in DOMAIN r /\ p \in Nat /\ Leads(r, p) /\ Len(raw) = p + Len(queue)
      /\ Len(queue) \in Nat \ {0} /\ p + Len(queue) <= Len(stream)
      /\ r[p].ticks = ticks /\ r[p].index = index /\ r[p].done = Len(events)
      /\ \A i \in 1..Len(queue) : queue[i] = stream[p + i]
      /\ \A i \in 1..Len(events) : events[i] = flux[i]
  BY <1>1, <1>3, AtItem
<1>5. 1 \in 1..Len(queue) BY <1>4
<1>6. queue[1] = stream[p + 1] /\ queue[1] \in Int BY <1>4, <1>5 DEF CodecTyped
<1> DEFINE Taking(k) ==
             /\ ItemLength = k /\ p + k \in DOMAIN r /\ r[p].done + 1 <= Len(flux)
             /\ flux[r[p].done + 1] = [ticks |-> r[p].ticks + added, index |-> r[p].index]
             /\ r[p + k] = Held(0, FALSE, r[p].done + 1)
<1>7. PICK k \in 1..2 : Taking(k)
  <2>1. CASE queue[1] < 250
    <3>1. ItemLength = 1 BY <2>1 DEF ItemLength
    <3>2. stream[p + 1] < 250 /\ stream[p + 1] \in Int /\ Leads(r, p) BY <1>4, <1>6, <2>1
    <3>a. stream[p + 1] \notin 250..254 /\ stream[p + 1] # 255 BY ONLY <3>2
    <3>3. Completes(r, p, p + 1, ShortTicks(stream[p + 1])) BY ONLY <3>2, <3>a, Zenon DEF Leads
    <3>4. added = ShortTicks(stream[p + 1]) BY <1>6, <2>1
    <3> HIDE DEF added
    <3>5. Taking(1) BY ONLY <3>1, <3>3, <3>4 DEF Completes
    <3> HIDE DEF Taking
    <3> QED BY <3>5
  <2>2. CASE queue[1] >= 250
    <3>1. ItemLength = 2 BY <1>1, <1>6, <2>2 DEF ItemLength
    <3>2. 2 \in 1..Len(queue) BY <1>1, <1>4, <3>1 DEF Complete
    <3>3. queue[2] = stream[p + 2] BY <1>4, <3>2
    <3>4. stream[p + 1] \in 250..254 /\ Leads(r, p) BY <1>1, <1>4, <1>6, <2>2
    <3>b. ~(stream[p + 1] < 250) /\ stream[p + 1] # 255 BY ONLY <3>4
    <3>5. Completes(r, p, p + 2, ExtendedTicks(stream[p + 1], stream[p + 2])) BY ONLY <3>4, <3>b, Zenon DEF Leads
    <3>6. added = ExtendedTicks(stream[p + 1], stream[p + 2]) BY <1>6, <2>2, <3>3
    <3> HIDE DEF added
    <3>7. Taking(2) BY ONLY <3>1, <3>5, <3>6 DEF Completes
    <3> HIDE DEF Taking
    <3> QED BY <3>7
  <2>3. queue[1] < 250 \/ queue[1] >= 250 BY <1>6
  <2> QED BY <2>1, <2>2, <2>3
<1> HIDE DEF added
<1>8. e = flux[Len(events) + 1] /\ Len(events) + 1 <= Len(flux) BY <1>4, <1>7
<1>9. /\ events \in Seq(Events) /\ Len(events) \in Nat /\ flux \in Seq(Events) /\ Len(flux) \in Nat
  BY DEF CodecTyped
<1>10. e \in Events
  <2>1. Len(events) + 1 \in 1..Len(flux) BY <1>8, <1>9
  <2> QED BY <1>8, <1>9, <2>1
<1>11. /\ k \in 1..6 /\ queue' \in Seq(Int) /\ Len(queue') = Len(queue) - k
       /\ \A i \in 1..Len(queue') : queue'[i] = queue[i + k]
       /\ k <= Len(queue)
  <2>1. k \in 1..6 /\ queue \in Seq(Int) BY DEF CodecTyped
  <2>2. k <= Len(queue) BY <1>1, <1>7 DEF Complete
  <2> QED BY <1>1, <1>7, <2>1, <2>2, RestIs
<1>12. Taken' = p + k /\ \A i \in 1..Len(queue') : queue'[i] = stream'[p + k + i]
  <2>1. UNCHANGED raw /\ UNCHANGED stream BY <1>1
  <2>2. /\ Len(raw) = p + Len(queue) /\ p \in Nat
        /\ \A i \in 1..Len(queue) : queue[i] = stream[p + i]
    BY <1>4
  <2> QED BY ONLY CodecTyped, <1>3, <1>11, <2>1, <2>2, Onto
<1> HIDE DEF e
<1>13. /\ events' \in Seq(Events) /\ Len(events') = Len(events) + 1
       /\ \A i \in 1..Len(events) : events'[i] = events[i]
       /\ events'[Len(events) + 1] = e
  BY <1>2, <1>9, <1>10
<1>14. ASSUME NEW i \in 1..Len(events') PROVE events'[i] = flux'[i]
  <2>1. i \in 1..Len(events) \/ i = Len(events) + 1 BY <1>9, <1>13
  <2> QED BY <1>1, <1>4, <1>8, <1>13, <2>1
<1>15. r[Taken'] = Held(ticks', index', Len(events')) /\ Taken' \in DOMAIN r
  BY <1>1, <1>4, <1>7, <1>12, <1>13
<1>16. Stands(r)'
  <2>1. \A i \in 1..Len(queue') : queue'[i] = stream'[Taken' + i] BY <1>12
  <2> QED BY <1>14, <1>15, <2>1 DEF Stands
<1>17. ticks' \in Int /\ index' \in BOOLEAN
  <2>1. ticks' = 0 /\ index' = FALSE BY <1>1
  <2>2. 0 \in Int /\ FALSE \in BOOLEAN OBVIOUS
  <2> QED BY <2>1, <2>2
<1> QED BY <1>11, <1>13, <1>16, <1>17

(* An opcode taken leads to the next mark.                                 *)
LEMMA OpcodeTaken ==
    ASSUME CodecTyped, Arrived, NEW r, Laid(r), Stands(r), TakeOpcode
    PROVE  /\ queue' \in Seq(Int) /\ ticks' \in Int /\ index' \in BOOLEAN
           /\ Stands(r)'
<1>1. /\ decoding = "yes" /\ queue # <<>> /\ queue[1] = 255 /\ Complete /\ queue[2] \in {1, 2, 3}
      /\ index' = (index \/ queue[2] = 1) /\ queue' = Rest
      /\ UNCHANGED <<flux, stream, raw, events, decoding>>
  BY DEF TakeOpcode, sourceVars
<1>2. ticks' = IF queue[2] = 2 THEN ticks + Read28(queue[3], queue[4], queue[5], queue[6]) ELSE ticks
  BY DEF TakeOpcode
<1>3. PICK p : p = Taken OBVIOUS
<1>4. /\ p \in DOMAIN r /\ p \in Nat /\ Leads(r, p) /\ Len(raw) = p + Len(queue)
      /\ Len(queue) \in Nat \ {0} /\ p + Len(queue) <= Len(stream)
      /\ r[p].ticks = ticks /\ r[p].index = index /\ r[p].done = Len(events)
      /\ \A i \in 1..Len(queue) : queue[i] = stream[p + i]
      /\ \A i \in 1..Len(events) : events[i] = flux[i]
  BY <1>1, <1>3, AtItem
<1>5. PICK k \in {3, 6} : ItemLength = k /\ (k = 3 <=> queue[2] = 3)
  <2>1. Len(queue) # 1
    <3>1. SUFFICES ASSUME Len(queue) = 1 PROVE FALSE OBVIOUS
    <3>2. ItemLength = 2 BY <1>1, <3>1 DEF ItemLength
    <3> QED BY <1>1, <3>1, <3>2 DEF Complete
  <2>2. ItemLength = IF queue[2] = 3 THEN 3 ELSE 6 BY <1>1, <2>1 DEF ItemLength
  <2> QED BY <2>2
<1>6. k <= Len(queue) BY <1>1, <1>5 DEF Complete
<1>7. queue[1] = stream[p + 1] /\ queue[2] = stream[p + 2]
  <2>1. 1 \in 1..Len(queue) /\ 2 \in 1..Len(queue) BY <1>4, <1>6
  <2> QED BY <1>4, <2>1
<1>8. k = 6 => /\ queue[3] = stream[p + 3] /\ queue[4] = stream[p + 4]
               /\ queue[5] = stream[p + 5] /\ queue[6] = stream[p + 6]
  <2>1. SUFFICES ASSUME k = 6
                 PROVE  /\ queue[3] = stream[p + 3] /\ queue[4] = stream[p + 4]
                        /\ queue[5] = stream[p + 5] /\ queue[6] = stream[p + 6]
    OBVIOUS
  <2>2. 3 \in 1..Len(queue) /\ 4 \in 1..Len(queue) /\ 5 \in 1..Len(queue) /\ 6 \in 1..Len(queue)
    BY <1>4, <1>6, <2>1
  <2> QED BY <1>4, <2>2
<1>9. r[p + k] = Held(ticks', index', Len(events)) /\ p + k \in DOMAIN r
  <2>1. /\ stream[p + 1] = 255 /\ ~(stream[p + 1] < 250) /\ stream[p + 1] \notin 250..254
        /\ Leads(r, p)
    BY <1>1, <1>4, <1>7
  <2>2. \/ /\ stream[p + 2] = 1 /\ p + 6 \in DOMAIN r
           /\ r[p + 6] = Held(r[p].ticks, TRUE, r[p].done)
        \/ /\ stream[p + 2] = 2 /\ p + 6 \in DOMAIN r
           /\ r[p + 6] = Held(r[p].ticks + Read28(stream[p + 3], stream[p + 4], stream[p + 5], stream[p + 6]),
                              r[p].index, r[p].done)
        \/ /\ stream[p + 2] = 3 /\ p + 3 \in DOMAIN r
           /\ r[p + 3] = Held(r[p].ticks, r[p].index, r[p].done)
    BY ONLY <2>1, Zenon DEF Leads
  <2>3. CASE queue[2] = 1
    <3>1. k = 6 /\ ticks' = ticks BY <1>2, <1>5, <2>3
    <3>2. index' = TRUE BY <1>1, <2>3
    <3>3. stream[p + 2] = 1 /\ stream[p + 2] # 2 /\ stream[p + 2] # 3 BY <1>7, <2>3
    <3>4. p + 6 \in DOMAIN r /\ r[p + 6] = Held(r[p].ticks, TRUE, r[p].done)
      BY ONLY <2>2, <3>3, Zenon
    <3> QED BY <1>4, <3>1, <3>2, <3>4
  <2>4. CASE queue[2] = 2
    <3>1. /\ k = 6 /\ ticks' = ticks + Read28(queue[3], queue[4], queue[5], queue[6])
      BY <1>2, <1>5, <2>4
    <3>2. /\ p + 6 \in DOMAIN r
          /\ r[p + 6] = Held(r[p].ticks + Read28(stream[p + 3], stream[p + 4], stream[p + 5], stream[p + 6]),
                             r[p].index, r[p].done)
      BY <1>7, <2>2, <2>4
    <3>3. index' = index BY <1>1, <2>4 DEF CodecTyped
    <3> QED BY <1>4, <1>8, <3>1, <3>2, <3>3
  <2>5. CASE queue[2] = 3
    <3>1. k = 3 /\ ticks' = ticks BY <1>2, <1>5, <2>5
    <3>2. p + 3 \in DOMAIN r /\ r[p + 3] = Held(r[p].ticks, r[p].index, r[p].done)
      BY <1>7, <2>2, <2>5
    <3>3. index' = index BY <1>1, <2>5 DEF CodecTyped
    <3> QED BY <1>4, <3>1, <3>2, <3>3
  <2> QED BY <1>1, <2>3, <2>4, <2>5
<1>10. /\ queue' \in Seq(Int) /\ Len(queue') = Len(queue) - k
       /\ \A i \in 1..Len(queue') : queue'[i] = queue[i + k]
  <2>1. k \in 1..6 /\ queue \in Seq(Int) BY DEF CodecTyped
  <2> QED BY <1>1, <1>5, <2>1, RestIs
<1>11. Taken' = p + k /\ \A i \in 1..Len(queue') : queue'[i] = stream'[p + k + i]
  <2>1. UNCHANGED raw /\ UNCHANGED stream /\ k \in 1..6 BY <1>1
  <2>2. /\ Len(raw) = p + Len(queue) /\ p \in Nat
        /\ \A i \in 1..Len(queue) : queue[i] = stream[p + i]
    BY <1>4
  <2> QED BY ONLY CodecTyped, <1>3, <1>6, <1>10, <2>1, <2>2, Onto
<1>12. Stands(r)'
  <2>1. \A i \in 1..Len(queue') : queue'[i] = stream'[Taken' + i] BY <1>11
  <2>2. r[Taken'] = Held(ticks', index', Len(events')) /\ Taken' \in DOMAIN r BY <1>1, <1>9, <1>11
  <2>3. \A i \in 1..Len(events') : events'[i] = flux'[i] BY <1>1, <1>4
  <2> QED BY <2>1, <2>2, <2>3 DEF Stands
<1>13. ticks' \in Int /\ index' \in BOOLEAN
  <2>1. r[p + k] \in Mark BY <1>9 DEF Laid
  <2> QED BY <1>9, <2>1 DEF Mark, Held
<1> QED BY <1>10, <1>12, <1>13

(* A decode begins at the first mark.                                      *)
LEMMA BeginStands ==
    ASSUME CodecTyped, Arrived, NEW r, Laid(r), Begin
    PROVE  Stands(r)'
<1>1. /\ queue' = raw /\ ticks' = 0 /\ index' = FALSE /\ events' = <<>> /\ UNCHANGED <<stream, raw, flux>>
  BY DEF Begin, sourceVars
<1>2. Taken' = 0 /\ Len(events') = 0 BY <1>1 DEF Taken, CodecTyped
<1>3. 0 \in DOMAIN r /\ r[0] = Held(0, FALSE, 0) BY DEF Laid
<1>4. \A i \in 1..Len(queue') : queue'[i] = stream'[0 + i]
  <2>1. \A i \in 1..Len(raw) : 0 + i = i OBVIOUS
  <2> QED BY <1>1, <2>1 DEF Arrived
<1> QED BY <1>1, <1>2, <1>3, <1>4 DEF Stands

(* Laid speaks of the track alone.                                         *)
LEMMA LaidStays == ASSUME NEW r, Laid(r), UNCHANGED sourceVars PROVE Laid(r)'
BY DEF Laid, Leads, Completes, sourceVars

(* What is published is a beginning of the track; of one that has arrived  *)
(* whole, all of it.                                                       *)
LEMMA Published ==
    ASSUME CodecTyped, Arrived, NEW r, Laid(r), Stands(r), Publish
    PROVE  PublishedTrue' /\ (raw = stream => published' = flux)
<1>1. /\ decoding = "yes" /\ queue = <<>> /\ published' = events /\ UNCHANGED <<flux, stream, raw>>
  BY DEF Publish, sourceVars
<1>2. PICK p : p = Taken OBVIOUS
<1>3. /\ p \in DOMAIN r /\ r[p] = Held(ticks, index, Len(events))
      /\ \A i \in 1..Len(events) : events[i] = flux[i]
  BY <1>1, <1>2 DEF Stands
<1>4. r[p].done <= Len(flux) /\ r[p].done = Len(events) BY <1>3 DEF Laid, Held
<1>5. events \in Seq(Events) /\ flux \in Seq(Events) BY DEF CodecTyped
<1>6. PublishedTrue' BY <1>1, <1>3, <1>4, <1>5 DEF PublishedTrue
<1>7. ASSUME raw = stream PROVE published' = flux
  <2>1. p = Len(stream) BY <1>1, <1>2, <1>7 DEF Taken, CodecTyped
  <2>2. r[p] = Held(0, marked, Len(flux)) BY <2>1 DEF Laid
  <2>3. Len(events) = Len(flux) BY <1>4, <2>2 DEF Held
  <2>4. events = flux BY <1>3, <1>5, <2>3, SeqEqual
  <2> QED BY <1>1, <2>4
<1> QED BY <1>6, <1>7

(* A track that has arrived whole has no item the decoder cannot take.     *)
LEMMA NoneCut ==
    ASSUME CodecTyped, Arrived, NEW r, Laid(r), Stands(r), raw = stream
    PROVE  ~TakeFails
<1>1. SUFFICES ASSUME TakeFails PROVE FALSE OBVIOUS
<1>2. decoding = "yes" /\ queue # <<>> /\ (Complete => queue[1] = 255 /\ queue[2] \notin {1, 2, 3})
  BY <1>1 DEF TakeFails
<1>3. PICK p : p = Taken OBVIOUS
<1>4. /\ p \in DOMAIN r /\ p \in Nat /\ Leads(r, p) /\ Len(raw) = p + Len(queue)
      /\ Len(queue) \in Nat \ {0}
      /\ \A i \in 1..Len(queue) : queue[i] = stream[p + i]
  BY <1>2, <1>3, AtItem
<1>5. DOMAIN r \subseteq 0..Len(stream) /\ Len(stream) = p + Len(queue) BY <1>4 DEF Laid
<1>6. \A k \in 1..6 : p + k \in DOMAIN r => k <= Len(queue)
  <2>1. \A k \in 1..6 : p + k \in DOMAIN r => p + k <= p + Len(queue) BY <1>5
  <2> QED BY <1>4, <2>1
<1>7. queue[1] = stream[p + 1] /\ queue[1] \in Int
  <2>1. 1 \in 1..Len(queue) BY <1>4
  <2> QED BY <1>4, <2>1 DEF CodecTyped
<1>8. CASE stream[p + 1] < 250
  <2>1. ItemLength = 1 BY <1>7, <1>8 DEF ItemLength
  <2>2. Complete BY <1>4, <2>1 DEF Complete
  <2> QED BY <1>2, <1>7, <1>8, <2>2
<1>9. CASE stream[p + 1] \in 250..254
  <2>1. ItemLength = 2 BY <1>7, <1>9 DEF ItemLength
  <2>2. ~(stream[p + 1] < 250) /\ stream[p + 1] # 255 BY <1>9
  <2>3. Completes(r, p, p + 2, ExtendedTicks(stream[p + 1], stream[p + 2]))
    BY ONLY <1>4, <2>2, Zenon DEF Leads
  <2>4. p + 2 \in DOMAIN r BY <2>3 DEF Completes
  <2>5. Complete BY <1>6, <2>1, <2>4 DEF Complete
  <2> QED BY <1>2, <1>7, <1>9, <2>5
<1>10. CASE stream[p + 1] = 255
  <2>1. ~(stream[p + 1] < 250) /\ stream[p + 1] \notin 250..254 BY <1>10
  <2>2. \/ stream[p + 2] = 1 /\ p + 6 \in DOMAIN r
        \/ stream[p + 2] = 2 /\ p + 6 \in DOMAIN r
        \/ stream[p + 2] = 3 /\ p + 3 \in DOMAIN r
    BY ONLY <1>4, <2>1, Zenon DEF Leads
  <2>3. 3 <= Len(queue)
    <3>1. p + 3 \in DOMAIN r => 3 <= Len(queue) BY <1>6
    <3>2. p + 6 \in DOMAIN r => 6 <= Len(queue) BY <1>6
    <3> QED BY <1>4, <2>2, <3>1, <3>2
  <2>4. queue[2] = stream[p + 2]
    <3>1. 2 \in 1..Len(queue) BY <1>4, <2>3
    <3> QED BY <1>4, <3>1
  <2>5. ItemLength = IF queue[2] = 3 THEN 3 ELSE 6
    <3>1. queue[1] = 255 /\ Len(queue) # 1 /\ queue[2] \in {1, 2, 3} BY <1>4, <1>7, <1>10, <2>2, <2>3, <2>4
    <3> QED BY <3>1 DEF ItemLength
  <2>6. Complete
    <3>1. p + 3 \in DOMAIN r => 3 <= Len(queue) BY <1>6
    <3>2. p + 6 \in DOMAIN r => 6 <= Len(queue) BY <1>6
    <3> QED BY <2>2, <2>4, <2>5, <3>1, <3>2 DEF Complete
  <2> QED BY <1>2, <2>2, <2>4, <2>6
<1> QED BY <1>4, <1>7, <1>8, <1>9, <1>10, Zenon DEF Leads

(* CodecInv is the invariant.                                              *)
LEMMA CodecInit == Init => CodecInv
<1>1. SUFFICES ASSUME Init PROVE CodecInv OBVIOUS
<1>2. /\ flux = <<>> /\ stream = <<>> /\ marked = FALSE /\ raw = <<>> /\ queue = <<>> /\ ticks = 0
      /\ index = FALSE /\ events = <<>> /\ decoding = "no" /\ published = <<>>
  BY <1>1 DEF Init
<1>3. CodecTyped /\ Arrived /\ PublishedTrue
  <2>1. <<>> \in Seq(Int) /\ <<>> \in Seq(Events) /\ 0 \in Int /\ Len(<<>>) = 0 OBVIOUS
  <2>2. CodecTyped BY <1>2, <2>1 DEF CodecTyped
  <2>3. Arrived BY <1>2 DEF Arrived
  <2>4. PublishedTrue BY <1>2 DEF PublishedTrue
  <2> QED BY <2>2, <2>3, <2>4
<1> DEFINE r == [b \in {0} |-> Held(0, FALSE, 0)]
<1>4. Laid(r)
  <2>1. DOMAIN r = {0} /\ r[0] = Held(0, FALSE, 0) OBVIOUS
  <2>2. Held(0, FALSE, 0) \in Mark /\ Held(0, FALSE, 0).done = 0 BY DEF Held, Mark
  <2>3. Len(stream) = 0 /\ Len(flux) = 0 /\ marked = FALSE BY <1>2
  <2> HIDE DEF r
  <2> QED BY <2>1, <2>2, <2>3 DEF Laid
<1>5. Stands(r) BY <1>2 DEF Stands
<1> QED BY <1>3, <1>4, <1>5 DEF CodecInv

(* Every step keeps CodecInv.                                              *)
LEMMA CodecNext == CodecInv /\ [Next]_vars => CodecInv'
<1>1. SUFFICES ASSUME CodecInv, [Next]_vars PROVE CodecInv' OBVIOUS
<1>2. CodecTyped /\ Arrived /\ PublishedTrue BY <1>1 DEF CodecInv
<1>3. PICK r : Laid(r) /\ Stands(r) BY <1>1 DEF CodecInv
<1>4. CASE Longer /\ UNCHANGED <<raw, decoderVars, published>>
           /\ (marked' \in BOOLEAN) /\ \E s : Laid(s)' /\ Onwards(r, s)
  <2>1. PICK s : Laid(s)' /\ Onwards(r, s) BY <1>4
  <2>2. Arrived' /\ PublishedTrue' /\ Stands(s)' BY <1>2, <1>3, <1>4, <2>1, StandsOn
  <2>3. CodecTyped' BY <1>2, <1>4 DEF CodecTyped, Longer, decoderVars
  <2> QED BY <2>1, <2>2, <2>3 DEF CodecInv
<1>5. CASE Interval
  <2>1. Longer /\ \E s : Laid(s)' /\ Onwards(r, s) BY <1>2, <1>3, <1>5, LaidInterval
  <2>2. UNCHANGED <<raw, decoderVars, published>> /\ marked' \in BOOLEAN BY <1>5 DEF Interval
  <2> QED BY <1>4, <2>1, <2>2
<1>6. CASE IndexPulse
  <2>1. Longer /\ \E s : Laid(s)' /\ Onwards(r, s) BY <1>2, <1>3, <1>6, LaidIndex
  <2>2. UNCHANGED <<raw, decoderVars, published>> /\ marked' \in BOOLEAN BY <1>6 DEF IndexPulse
  <2> QED BY <1>4, <2>1, <2>2
<1>7. CASE Astable
  <2>1. Longer /\ \E s : Laid(s)' /\ Onwards(r, s) BY <1>2, <1>3, <1>7, LaidAstable
  <2>2. UNCHANGED <<raw, decoderVars, published>> /\ marked' \in BOOLEAN
    BY <1>2, <1>7 DEF Astable, CodecTyped
  <2> QED BY <1>4, <2>1, <2>2
<1>8. CASE UNCHANGED sourceVars /\ Arrived' /\ PublishedTrue' /\ CodecTyped' /\ Stands(r)'
  <2>1. Laid(r)' BY <1>3, <1>8, LaidStays
  <2> QED BY <1>8, <2>1 DEF CodecInv
<1>9. CASE Arrive
  <2>1. PICK n \in (Len(raw) + 1)..Len(stream) : raw' = SubSeq(stream, 1, n) BY <1>9 DEF Arrive
  <2>2. /\ stream \in Seq(Int) /\ Len(stream) \in Nat /\ Len(raw) \in Nat /\ n \in 1..Len(stream)
    BY <1>2, <2>1 DEF CodecTyped
  <2>3. raw' \in Seq(Int) /\ Len(raw') = n /\ \A i \in 1..n : raw'[i] = stream[i]
    BY <2>1, <2>2
  <2>4. UNCHANGED <<sourceVars, decoderVars, published>> /\ decoding' # "yes"
    BY <1>9 DEF Arrive, decoderVars
  <2>5. UNCHANGED <<flux, stream, marked, queue, ticks, index, events, published>>
    BY <2>4 DEF sourceVars, decoderVars
  <2>6. Arrived' BY <2>2, <2>3, <2>5 DEF Arrived
  <2>7. CodecTyped' BY <1>2, <2>3, <2>5 DEF CodecTyped
  <2>8. PublishedTrue' BY <1>2, <2>5 DEF PublishedTrue
  <2>9. Stands(r)' BY <2>4 DEF Stands
  <2> QED BY <1>8, <2>4, <2>6, <2>7, <2>8, <2>9
<1>10. CASE UNCHANGED <<sourceVars, raw, published>> /\ CodecTyped' /\ Stands(r)'
  <2>1. Arrived' /\ PublishedTrue' BY <1>2, <1>10 DEF Arrived, PublishedTrue, sourceVars
  <2> QED BY <1>8, <1>10, <2>1
<1>11. CASE Begin
  <2>1. Stands(r)' BY <1>2, <1>3, <1>11, BeginStands
  <2>2. UNCHANGED <<sourceVars, raw, published>> BY <1>11 DEF Begin
  <2>3. CodecTyped'
    <3>1. /\ UNCHANGED <<flux, stream, marked, raw, published>>
          /\ queue' = raw /\ ticks' = 0 /\ index' = FALSE /\ events' = <<>>
      BY <1>11 DEF Begin, sourceVars
    <3>2. <<>> \in Seq(Events) /\ 0 \in Int OBVIOUS
    <3>3. queue' \in Seq(Int) /\ ticks' \in Int /\ index' \in BOOLEAN /\ events' \in Seq(Events)
      BY <1>2, <3>1, <3>2 DEF CodecTyped
    <3> QED BY <1>2, <3>1, <3>3 DEF CodecTyped
  <2> QED BY <1>10, <2>1, <2>2, <2>3
<1>12. CASE TakeInterval
  <2>1. Stands(r)' BY <1>2, <1>3, <1>12, IntervalTaken
  <2>2. queue' \in Seq(Int) /\ events' \in Seq(Events) BY <1>2, <1>3, <1>12, IntervalTaken
  <2>3. ticks' \in Int /\ index' \in BOOLEAN BY <1>2, <1>3, <1>12, IntervalTaken
  <2>4. UNCHANGED <<sourceVars, raw, published>> BY <1>12 DEF TakeInterval
  <2>5. CodecTyped' BY <1>2, <2>2, <2>3, <2>4 DEF CodecTyped, sourceVars
  <2> QED BY <1>10, <2>1, <2>4, <2>5
<1>13. CASE TakeOpcode
  <2>1. Stands(r)' BY <1>2, <1>3, <1>13, OpcodeTaken
  <2>2. queue' \in Seq(Int) /\ ticks' \in Int /\ index' \in BOOLEAN
    BY <1>2, <1>3, <1>13, OpcodeTaken
  <2>3. UNCHANGED <<sourceVars, raw, published, events>> BY <1>13 DEF TakeOpcode
  <2>4. CodecTyped' BY <1>2, <2>2, <2>3 DEF CodecTyped, sourceVars
  <2> QED BY <1>10, <2>1, <2>3, <2>4
<1>14. CASE TakeFails
  <2>1. UNCHANGED <<sourceVars, raw, queue, ticks, index, events, published>> /\ decoding' = "failed"
    BY <1>14 DEF TakeFails
  <2>2. Stands(r)' BY <2>1 DEF Stands
  <2>3. CodecTyped' BY <1>2, <2>1 DEF CodecTyped, sourceVars
  <2> QED BY <1>10, <2>1, <2>2, <2>3
<1>15. CASE Publish
  <2>1. PublishedTrue' BY <1>2, <1>3, <1>15, Published
  <2>2. /\ UNCHANGED <<sourceVars, raw, queue, ticks, index, events>> /\ decoding' = "no"
        /\ published' = events
    BY <1>15 DEF Publish
  <2>3. Stands(r)' BY <2>2 DEF Stands
  <2>4. CodecTyped' BY <1>2, <2>2 DEF CodecTyped, sourceVars
  <2>5. Arrived' BY <1>2, <2>2 DEF Arrived, sourceVars
  <2> QED BY <1>8, <2>1, <2>2, <2>3, <2>4, <2>5
<1>16. CASE UNCHANGED vars
  <2>1. UNCHANGED <<sourceVars, raw, published>> BY <1>16 DEF vars
  <2>2. CodecTyped' BY <1>2, <1>16 DEF CodecTyped, vars, sourceVars, decoderVars
  <2>3. Stands(r)' BY <1>3, <1>16 DEF Stands, Taken, vars, sourceVars, decoderVars
  <2> QED BY <1>10, <2>1, <2>2, <2>3
<1> QED BY <1>1, <1>5, <1>6, <1>7, <1>9, <1>11, <1>12, <1>13, <1>14, <1>15, <1>16 DEF Next

(* PublishedTrueHolds: whatever drain_fast_stream publishes, decoded from  *)
(* the bytes there were so far, cut wherever a chunk ended, is a beginning *)
(* of the track, for every track of every length.                          *)
THEOREM PublishedTrueHolds == Spec => []PublishedTrue
<1>1. CodecInv => PublishedTrue BY DEF CodecInv
<1> QED BY <1>1, CodecInit, CodecNext, PTL DEF Spec

(* DecodableHolds: decode_stream, given the whole of an encoded track,     *)
(* fails at nothing and gives all the track, for every track.              *)
THEOREM DecodableHolds == Spec => Decodable
<1>1. CodecInv /\ [Next]_vars =>
        [decoding = "yes" /\ decoding' # "yes" /\ raw = stream
           => decoding' = "no" /\ published' = flux]_vars
  <2>1. SUFFICES ASSUME CodecInv, Next, decoding = "yes", decoding' # "yes", raw = stream
                 PROVE  decoding' = "no" /\ published' = flux
    OBVIOUS
  <2>2. PICK r : CodecTyped /\ Arrived /\ Laid(r) /\ Stands(r) BY <2>1 DEF CodecInv
  <2>3. ~TakeFails BY <2>1, <2>2, NoneCut
  <2>4. Publish
    BY <2>1, <2>3 DEF Next, Interval, IndexPulse, Astable, Arrive, Begin, TakeInterval, TakeOpcode,
                      decoderVars
  <2>5. published' = flux BY <2>1, <2>2, <2>4, Published
  <2> QED BY <2>4, <2>5 DEF Publish
<1> QED BY <1>1, CodecInit, CodecNext, PTL DEF Spec, Decodable
===============================================================================
