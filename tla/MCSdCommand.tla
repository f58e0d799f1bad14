---------------------------- MODULE MCSdCommand -----------------------------
(***************************************************************************)
(* Calls for the runs of SdCommand: CMD0, CMD13, CMD7, CMD12, CMD17/18,    *)
(* CMD24/25, ACMD41 and ACMD51.                                            *)
(***************************************************************************)
EXTENDS SdCommand

AllCalls == {<<c>> : c \in Commands} \cup {<<"plain", "plain">>, <<"plain", "read">>}
=============================================================================
