---------------------------- MODULE MCController ----------------------------
(* Instances of Controller for TLC: the tracks, wishes, requests and disks *)
(* that the configurations name.                                           *)
EXTENDS Controller

T(c, s) == [cyl |-> c, side |-> s]
MCOneTrack == {T(0, "Lower")}
MCTwoSides == {T(0, "Lower"), T(0, "Upper")}
MCBeyondLast == {T(0, "Lower"), T(5, "Lower")}   \* 5 is clamped to the last cylinder

MCMotorOn == {[side |-> "Lower", on |-> TRUE]}
MCMotorOnOff == {[side |-> "Lower", on |-> b] : b \in BOOLEAN}

(* A whole revolution of the 160-bit tracks of these instances, and a      *)
(* sector in the middle of one, which only a cached reading can refuse.    *)
MCWhole(t) == [track |-> t, words |-> 10, bits |-> 160, start |-> 0]
MCWholeTracks == {MCWhole(t) : t \in MCTwoSides}
MCSector == [track |-> T(0, "Lower"), words |-> 4, bits |-> 64, start |-> 80]
MCWholesAndSector == MCWholeTracks \cup {MCSector}
MCOneWhole == {MCWhole(T(0, "Lower"))}

MCDisk(p, wp) == [present |-> p, protected |-> wp]
MCFixedDisk == {MCDisk(TRUE, FALSE)}
MCTab == {MCDisk(TRUE, FALSE), MCDisk(TRUE, TRUE)}   \* the write-protect tab is moved
MCSwaps == {MCDisk(TRUE, FALSE), MCDisk(FALSE, FALSE)}
=============================================================================
