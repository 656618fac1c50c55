---------------------------- MODULE MCDrawBridge ----------------------------
(* Instances of DrawBridge for TLC: firmwares too old, without and with    *)
(* feature flags, and the disks that may be in the drive.                  *)
EXTENDS DrawBridge

MCBoard(minor, full, detect) == [minor |-> minor, full |-> full, detect |-> detect]
MCBoards == {MCBoard(7, FALSE, FALSE), MCBoard(8, FALSE, FALSE), MCBoard(9, TRUE, TRUE)}
MCConfigs == {[mode |-> "Normal", density |-> "Auto"], [mode |-> "Compatible", density |-> "High"]}
MCDrive(present, protected, high) == [present |-> present, protected |-> protected, high |-> high]
MCDisks == {MCDrive(TRUE, FALSE, TRUE), MCDrive(TRUE, TRUE, FALSE), MCDrive(FALSE, FALSE, FALSE)}
=============================================================================
