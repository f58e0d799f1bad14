----------------------------- MODULE MCConsole ------------------------------
(***************************************************************************)
(* Displays for the runs of Console.                                       *)
(***************************************************************************)
EXTENDS Console

SmallScreen == [cols |-> 4, rows |-> 4]
SomeBoot == {SmallScreen, [cols |-> 3, rows |-> 4], [cols |-> 4, rows |-> 3]}
=============================================================================
