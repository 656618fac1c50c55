--------------------------- MODULE MCGreaseweazle ---------------------------
(* Instances of Greaseweazle for TLC: the disks, and what an earlier       *)
(* session may have left on the link: an answer about a pin, the end of a  *)
(* flux stream, an answer to GetInfo, and the second half of one.          *)
EXTENDS Greaseweazle

MCDisk(p, wp) == [present |-> p, protected |-> wp]
MCDisks == {MCDisk(TRUE, FALSE), MCDisk(TRUE, TRUE), MCDisk(FALSE, FALSE)}
MCWritable == {MCDisk(TRUE, FALSE)}
MCLeftovers == {<<20, 0, 1>>, <<80, 80, 0>>, <<0>>, <<0, 0, 1>>}
=============================================================================
