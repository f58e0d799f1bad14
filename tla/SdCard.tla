------------------------------- MODULE SdCard -------------------------------
(***************************************************************************)
(* The SD memory card at the other end of the bus: hardware, modelled from *)
(* the responses src/src/drivers/SD/emmc.c expects of it.  A card is a     *)
(* record: the state CMD13 reports, its bus width, and what kind it is.    *)
(***************************************************************************)
EXTENDS Integers

Kinds == [v2 : BOOLEAN, sdhc : BOOLEAN, can18 : BOOLEAN]

States == {"idle", "ready", "ident", "stby", "tran", "data", "rcv"}

Cards == [state : States, wide : BOOLEAN, kind : Kinds]

Reads  == {"READ_SINGLE_BLOCK", "READ_MULTIPLE_BLOCK"}
Writes == {"WRITE_BLOCK", "WRITE_MULTIPLE_BLOCK"}

(* The commands whose data phase uses the data lines.                      *)
DataCommands == Reads \cup Writes \cup {"SEND_SCR"}

(* A card that has just been powered.                                      *)
PoweredOn(k) == [state |-> "idle", wide |-> FALSE, kind |-> k]

(* The states in which a card executes a command; otherwise it is silent.  *)
LegalIn(cmd) ==
    CASE cmd = "GO_IDLE_STATE"      -> States
      [] cmd \in {"SEND_IF_COND", "INQUIRE_OCR", "SD_SEND_OP_COND"} -> {"idle"}
      [] cmd = "IO_SET_OP_COND"     -> {}
      [] cmd \in {"VOLTAGE_SWITCH", "ALL_SEND_CID"} -> {"ready"}
      [] cmd = "SEND_RELATIVE_ADDR" -> {"ident", "stby"}
      [] cmd = "SELECT_CARD"        -> {"stby"}
      [] cmd = "SEND_STATUS"        -> {"stby", "tran", "data", "rcv"}
      [] cmd = "STOP_TRANSMISSION"  -> {"data", "rcv"}
      [] OTHER                      -> {"tran"}

Accepts(c, cmd) ==
    /\ c.state \in LegalIn(cmd)
    /\ cmd = "SEND_IF_COND" => c.kind.v2

(* What executing a command makes of the card.  No stop command follows a  *)
(* multiple-block transfer, so the card stays in its transfer state.       *)
Executed(c, cmd) ==
    CASE cmd = "GO_IDLE_STATE"        -> PoweredOn(c.kind)
      [] cmd = "SD_SEND_OP_COND"      -> [c EXCEPT !.state = "ready"]
      [] cmd = "ALL_SEND_CID"         -> [c EXCEPT !.state = "ident"]
      [] cmd = "SEND_RELATIVE_ADDR"   -> [c EXCEPT !.state = "stby"]
      [] cmd \in {"SELECT_CARD", "STOP_TRANSMISSION"} -> [c EXCEPT !.state = "tran"]
      [] cmd = "SET_BUS_WIDTH"        -> [c EXCEPT !.wide = TRUE]
      [] cmd = "READ_MULTIPLE_BLOCK"  -> [c EXCEPT !.state = "data"]
      [] cmd = "WRITE_MULTIPLE_BLOCK" -> [c EXCEPT !.state = "rcv"]
      [] OTHER                        -> c
=============================================================================
