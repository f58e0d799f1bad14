---------------------------- MODULE MCEmmcDriver ----------------------------
(***************************************************************************)
(* Cards and requests for the runs of EmmcDriver.                          *)
(***************************************************************************)
EXTENDS EmmcDriver

OldCard    == [v2 |-> FALSE, sdhc |-> FALSE, can18 |-> FALSE]
PlainSdhc  == [v2 |-> TRUE, sdhc |-> TRUE, can18 |-> FALSE]
LowVoltage == [v2 |-> TRUE, sdhc |-> TRUE, can18 |-> TRUE]

AllKinds     == {OldCard, PlainSdhc, LowVoltage}
NoSwitching  == {OldCard, PlainSdhc}
=============================================================================
