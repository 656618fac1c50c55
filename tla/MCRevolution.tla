---------------------------- MODULE MCRevolution ----------------------------
(* Tracks for TLC to write and to read back.                               *)
EXTENDS Revolution, SequencesExt

Track(delays, zeros) ==
    FoldLeft(LAMBDA cells, n : cells \o CellsOf(n), <<>>, delays) \o [i \in 1..zeros |-> FALSE]
(* Short ones, two of which end in zeros.                                  *)
MCIndexTracks ==
    {Track(<<4, 3, 4, 2, 2, 4, 3, 3, 2>>, 0), Track(<<4, 4, 2, 3, 2, 4, 4, 2>>, 1),
     Track(<<3, 2, 2, 4, 3, 4, 2, 3>>, 3)}

(* AmigaDOS tracks of two sectors, in longs of four data bits: a data bit  *)
(* follows its clock, which is set between two zeros.                      *)
MCSyncWord == [i \in 1..16 |-> i \in {2, 6, 9, 13, 16}]   \* 0x4489
Mfm(data) ==
    [i \in 1..(2 * Len(data)) |->
       LET b == (i + 1) \div 2 IN
         IF i % 2 = 0 THEN data[b] = 1 ELSE data[b] = 0 /\ b > 1 /\ data[b - 1] = 0]
Parity(longs) == [i \in 1..4 |-> FoldLeft(LAMBDA n, l : n + l[i], 0, longs) % 2]
Zero == <<0, 0, 0, 0>>
(* The bits of format, track, number and distance, then what is checked.   *)
MCSector(odd, even, label, checksum, data) ==
    MCSyncWord \o MCSyncWord \o
      Mfm(odd \o even \o label \o Zero \o Parity(<<odd, even, label>>)
          \o Zero \o checksum \o data[1] \o data[2])
Good(odd, even, label, data) == MCSector(odd, even, label, Parity(data), data)

(* One that is clean, and one of which a sector fails its checksum.  They  *)
(* are read from within the first sync word, so that the join lies there.  *)
MCImmediateTracks ==
    {Good(<<1, 0, 0, 0>>, <<1, 0, 0, 1>>, <<1, 1, 0, 0>>, <<<<0, 0, 1, 1>>, <<1, 1, 1, 0>>>>)
       \o Good(<<1, 0, 0, 0>>, <<1, 0, 1, 0>>, <<1, 1, 0, 1>>, <<<<0, 0, 0, 1>>, <<1, 1, 0, 0>>>>)
       \o Mfm(<<1, 0, 1, 1>>),
     MCSector(<<1, 1, 0, 0>>, <<1, 1, 0, 1>>, <<1, 0, 1, 0>>, <<1, 0, 0, 1>>,
              <<<<1, 1, 0, 0>>, <<1, 1, 0, 1>>>>)
       \o Good(<<1, 1, 0, 0>>, <<1, 1, 1, 0>>, <<1, 0, 0, 0>>, <<<<1, 0, 0, 0>>, <<1, 1, 1, 1>>>>)
       \o Mfm(<<1, 0, 0, 1>>)}
MCStarts == [index |-> [at : {1, 2, 8, 9}, cut : {0, 1000, 3121}], immediate |-> [at : {4}, cut : {760, 7241}]]
MCAnchors == <<0, 48, 96>>
MCMaxShifts == [index |-> 2, immediate |-> 0]
MCPatches == [index |-> {1}, immediate |-> {1, 6}]
=============================================================================
