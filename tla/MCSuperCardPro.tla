--------------------------- MODULE MCSuperCardPro ---------------------------
(* Instances of SuperCardPro for TLC: a writable disk or none, where the   *)
(* sensor of the write protection finds no tab, an answer an earlier       *)
(* session did not wait for and a head it left away from the position the  *)
(* driver starts with.                                                     *)
EXTENDS SuperCardPro

MCDisk(present, protected) == [present |-> present, protected |-> protected]
MCDisks == {MCDisk(TRUE, FALSE), MCDisk(FALSE, TRUE)}
MCLeftovers == {<<"Status", "OK">>, <<"flux", "stopped">>}
MCHeads == {[cyl |-> 1, side |-> 1]}
=============================================================================
