----------------------------- MODULE EmmcDriver -----------------------------
(***************************************************************************)
(* The SD card driver of src/src/drivers/SD/emmc.c: sd_card_init,          *)
(* sd_ensure_data_mode, sd_do_data_command, sd_read/sd_write and           *)
(* sd_card_cleanup, one step per command sent, against a card that may     *)
(* ignore a command, lose a response, or be pulled out and replaced        *)
(* between any two steps.  The heap is modelled by who still points to     *)
(* the blocks the driver allocates.                                        *)
(***************************************************************************)
EXTENDS SdCard

CONSTANTS
    CardKinds,      \* the kinds of card that may be inserted
    Requests,       \* the buffer sizes callers ask for
    SwitchResults,  \* may the checks of the 1.8V switch pass, fail
    MaxFaults,      \* bound: hardware faults in a behaviour
    MaxSwaps,       \* bound: card removals in a behaviour
    MaxBusy         \* bound: busy answers to ACMD41 in a behaviour

(* Buffer sizes: below a block, one block, several, more than 0xffff, and  *)
(* not a multiple of a block, with up to or over 0xffff whole blocks.      *)
Sizes == {"short", "one", "many", "huge", "ragged", "ragged_huge"}

ASSUME DriverAssumption ==
    /\ CardKinds \subseteq Kinds
    /\ Requests \subseteq Sizes
    /\ SwitchResults \subseteq BOOLEAN
    /\ MaxFaults \in Nat /\ MaxSwaps \in Nat /\ MaxBusy \in Nat

VARIABLES
    card, present,  \* the card in the slot (its last value when absent)
    removal,        \* SD_CARD_REMOVAL pending in the INTERRUPT register
    hostWide,       \* CONTROL0: the host uses four data lines
    edev,           \* the fields of struct emmc_block_dev
    dev,            \* the caller's pointer: "null", "wild", "live", "freed"
    pc,             \* the step to run next, "rest" between calls
    origin,         \* who runs sd_card_init: the caller, or a retry
    nested,         \* running below a `return sd_card_init(&ret)'
    v2_later, retry_count, op, size,  \* locals
    result,         \* what the last call returned
    leaked,         \* kinds of block nothing points to any more
    swapped,        \* ready card replaced, no call has failed since
    faults, swaps, busy               \* what is left of the bounds

hardware == <<card, present, removal, hostWide, faults, swaps, busy>>
locals   == <<origin, nested, v2_later, retry_count, op, size>>
vars     == <<hardware, locals, edev, dev, pc, result, leaked, swapped>>

InitSteps == {"reset", "prepare", "cmd0", "cmd8", "cmd5", "inquiry", "acmd41", "cmd11",
              "cmd2", "cmd3", "cmd7", "cmd16", "scr", "acmd6", "finish"}
DataSteps == {"status", "select", "stop", "recheck", "start", "transfer"}

Errors == {"none", "cmd_timeout", "other"}
Blocks == {"zero", "one", "many", "too_many"}

Devices ==
    [card_rca : BOOLEAN, card_removal : BOOLEAN, failed_voltage_switch : BOOLEAN,
     card_supports_sdhc : BOOLEAN, last_error : Errors, blocks_to_transfer : Blocks,
     device_id : BOOLEAN, scr : BOOLEAN]

(* memset(ret, 0, sizeof(struct emmc_block_dev)): pointers included.       *)
Zeroed ==
    [card_rca |-> FALSE, card_removal |-> FALSE, failed_voltage_switch |-> FALSE,
     card_supports_sdhc |-> FALSE, last_error |-> "none", blocks_to_transfer |-> "zero",
     device_id |-> FALSE, scr |-> FALSE]

HardwareOK ==
    /\ card \in Cards /\ present \in BOOLEAN /\ removal \in BOOLEAN /\ hostWide \in BOOLEAN
    /\ faults \in 0..MaxFaults /\ swaps \in 0..MaxSwaps /\ busy \in 0..MaxBusy

ControlOK ==
    /\ pc \in InitSteps \cup DataSteps \cup {"rest", "undefined"}
    /\ result \in {"none", "ready", "ok", "fail", "cleaned"}
    /\ dev \in {"null", "wild", "live", "freed"}
    /\ leaked \subseteq {"struct", "device_id", "scr"}
    /\ swapped \in BOOLEAN

LocalsOK ==
    /\ origin \in {"caller", "retry", "recover"} /\ nested \in BOOLEAN
    /\ v2_later \in BOOLEAN /\ retry_count \in 0..3
    /\ op \in {"read", "write"} /\ size \in Sizes

(* Every variable has its type; a transfer is tried at most MaxRetries     *)
(* times (sd_do_data_command).                                             *)
TypeOK == HardwareOK /\ ControlOK /\ LocalsOK /\ edev \in Devices

(* The controller is as the firmware left it; no device structure exists.  *)
(* The test sets the pointer it passes to NULL; the kernel leaves its own  *)
(* uninitialised, so that it may point anywhere.                           *)
Init ==
    /\ \E k \in CardKinds : card = PoweredOn(k)
    /\ present \in BOOLEAN /\ removal = FALSE /\ hostWide = FALSE
    /\ edev = Zeroed /\ dev \in {"null", "wild"} /\ pc = "rest"
    /\ origin = "caller" /\ nested = FALSE /\ v2_later = FALSE
    /\ retry_count = 0 /\ op = "read" /\ size = "one"
    /\ result = "none" /\ leaked = {} /\ swapped = FALSE
    /\ faults = MaxFaults /\ swaps = MaxSwaps /\ busy = MaxBusy

-----------------------------------------------------------------------------
(* sd_issue_command: the interrupts are handled first, so a removal since  *)
(* the last command fails this one, and all later ones: the flag stays.    *)

Outcome(v, c, n) == [verdict |-> v, card |-> c, cost |-> n]

(* The ways a command can end.  A silent card is a timeout of the          *)
(* controller or of the driver, and so is a lost response to a command the *)
(* card has executed; CMD0 alone has no response to wait for.              *)
Replies(cmd) ==
    LET silent(n) == {Outcome("cmd_timeout", card, n), Outcome("timeout", card, n)}
        garbled   == cmd \in DataCommands /\ hostWide # card.wide
        done      == Executed(card, cmd)
    IN  IF removal \/ edev.card_removal THEN {Outcome("removed", card, 0)}
        ELSE IF edev.blocks_to_transfer = "too_many" THEN {Outcome("refused", card, 0)}
        ELSE IF ~present /\ cmd = "GO_IDLE_STATE" THEN {Outcome("ok", card, 0)}
        ELSE IF ~present \/ ~Accepts(card, cmd) THEN silent(0)
        ELSE IF garbled THEN {Outcome("other", done, 0)}
        ELSE {Outcome("ok", done, 0)} \cup silent(1)
             \cup {Outcome(v, done, 1) : v \in {"cmd_timeout", "timeout", "other"}}

(* last_error is only written by a command that reached the controller.    *)
ErrorAfter(r, old) ==
    CASE r.verdict \in {"cmd_timeout", "other"}   -> r.verdict
      [] r.verdict = "timeout"                    -> "none"
      [] OTHER                                    -> old

(* The device structure once the command has ended.                        *)
Issued(r) ==
    [edev EXCEPT !.card_removal = removal \/ edev.card_removal,
                 !.last_error = ErrorAfter(r, edev.last_error)]

(* The command goes out; what the card does with it, and what further      *)
(* faults, outside the command itself, the same step suffers.              *)
Command(cmd, r, more) ==
    /\ r \in Replies(cmd)
    /\ r.cost + more <= faults
    /\ faults' = faults - r.cost - more
    /\ card' = r.card
    /\ removal' = FALSE
    /\ UNCHANGED <<present, swaps, busy>>

Failed(r)     == r.verdict # "ok"
TimedOut(r)   == Failed(r) /\ ErrorAfter(r, edev.last_error) = "none"
CmdTimeout(r) == Failed(r) /\ ErrorAfter(r, edev.last_error) = "cmd_timeout"

(* A call returns; an error tells the caller of every swap before it.      *)
Return(res) ==
    /\ pc' = "rest" /\ result' = res
    /\ swapped' = (swapped /\ res # "fail")

Goto(step) == pc' = step /\ UNCHANGED <<result, swapped>>

(* `return -1' of sd_card_init before it frees anything: a structure it    *)
(* allocated itself is lost.                                               *)
EarlyReturn ==
    /\ Return("fail")
    /\ leaked' = leaked \cup (IF dev = "null" THEN {"struct"} ELSE {})
    /\ UNCHANGED dev

(* `free(ret); return -1': ret may be the structure the caller holds, and  *)
(* device_id is freed on some of these paths only.                         *)
FreeReturn(lost) ==
    /\ Return("fail")
    /\ dev' = (IF dev = "live" THEN "freed" ELSE dev)
    /\ leaked' = leaked \cup lost

Proceed(step) == Goto(step) /\ UNCHANGED <<dev, leaked>>

-----------------------------------------------------------------------------
(* sd_card_init.                                                           *)

(* Power cycle (its result is only printed) and controller reset, then the *)
(* checks for a card in the slot and for a stable clock.                   *)
ResetController ==
    /\ pc = "reset"
    /\ \E fault \in {"none", "power", "reset", "clock"} :
        /\ fault # "none" => faults > 0
        /\ faults' = faults - (IF fault = "none" THEN 0 ELSE 1)
        /\ card' = (IF fault = "power" THEN card ELSE PoweredOn(card.kind))
        /\ hostWide' = (hostWide /\ fault = "reset")
        /\ IF present /\ fault \in {"none", "power"} THEN Proceed("prepare")
           ELSE IF nested THEN EarlyReturn
           ELSE Return("fail") /\ UNCHANGED <<dev, leaked>>
    /\ UNCHANGED <<present, removal, swaps, busy, locals, edev>>

(* Mutant of Prepare: the address of the old card survives the memset.     *)
Prepare_KeepRca ==
    /\ pc = "prepare"
    /\ removal' = FALSE
    /\ edev' = [Zeroed EXCEPT !.card_rca = edev.card_rca]
    /\ leaked' = leaked
    /\ Goto("cmd0")
    /\ UNCHANGED <<card, present, hostWide, faults, swaps, busy, locals, dev>>

(* Interrupts are reset, and the structure is allocated or, when the       *)
(* caller has one, wiped with the pointers to device_id and scr in it.     *)
Prepare ==
    /\ pc = "prepare"
    /\ removal' = FALSE
    /\ edev' = Zeroed
    /\ leaked' = leaked \cup (IF dev = "live"
                             THEN {b \in {"device_id", "scr"} : edev[b]} ELSE {})
    /\ Goto("cmd0")
    /\ UNCHANGED <<card, present, hostWide, faults, swaps, busy, locals, dev>>

(* CMD0.                                                                   *)
GoIdle ==
    /\ pc = "cmd0"
    /\ \E r \in Replies("GO_IDLE_STATE") :
        /\ Command("GO_IDLE_STATE", r, 0)
        /\ edev' = Issued(r)
        /\ IF Failed(r) THEN EarlyReturn ELSE Proceed("cmd8")
    /\ UNCHANGED <<hostWide, locals>>

(* CMD8: no answer means a version 1 card.  The command line is reset after *)
(* the controller's timeout; a wrong check pattern is an unusable card.    *)
SendIfCond ==
    /\ pc = "cmd8"
    /\ \E r \in Replies("SEND_IF_COND"), bad \in {0, 1} :
        /\ bad = 1 => ~TimedOut(r)
        /\ Command("SEND_IF_COND", r, bad)
        /\ edev' = Issued(r)
        /\ v2_later' = ~Failed(r)
        /\ IF bad = 0 /\ (~Failed(r) \/ TimedOut(r) \/ CmdTimeout(r))
           THEN Proceed("cmd5")
           ELSE EarlyReturn
    /\ UNCHANGED <<hostWide, origin, nested, retry_count, op, size>>

(* CMD5: any answer but a timeout is taken for an SDIO card.               *)
IoSetOpCond ==
    /\ pc = "cmd5"
    /\ \E r \in Replies("IO_SET_OP_COND"), bad \in {0, 1} :
        /\ bad = 1 => CmdTimeout(r)
        /\ Command("IO_SET_OP_COND", r, bad)
        /\ edev' = Issued(r)
        /\ IF bad = 0 /\ (TimedOut(r) \/ CmdTimeout(r))
           THEN Proceed("inquiry")
           ELSE EarlyReturn
    /\ UNCHANGED <<hostWide, locals>>

(* ACMD41 with an empty voltage window.                                    *)
InquireOcr ==
    /\ pc = "inquiry"
    /\ \E r \in Replies("INQUIRE_OCR") :
        /\ Command("INQUIRE_OCR", r, 0)
        /\ edev' = Issued(r)
        /\ IF Failed(r) THEN EarlyReturn ELSE Proceed("acmd41")
    /\ UNCHANGED <<hostWide, locals>>

(* ACMD41 until the card is no longer busy; 1.8V is asked for unless the   *)
(* switch to it has failed.  Then the clock goes to 25 MHz.                *)
NegotiateOcr ==
    /\ pc = "acmd41"
    /\ \E r \in Replies("SD_SEND_OP_COND"), wait \in {0, 1} :
        LET wants18 == v2_later /\ ~edev.failed_voltage_switch /\ card.kind.can18
        IN  /\ r.cost <= faults
            /\ wait <= busy /\ (wait = 1 => ~Failed(r))
            /\ faults' = faults - r.cost
            /\ busy' = busy - wait
            /\ card' = (IF wait = 1 THEN card ELSE r.card)
            /\ edev' = [Issued(r) EXCEPT !.card_supports_sdhc =
                            IF Failed(r) \/ wait = 1 THEN @ ELSE v2_later /\ card.kind.sdhc]
            /\ \/ Failed(r) /\ EarlyReturn
               \/ wait = 1 /\ Proceed("acmd41")
               \/ ~Failed(r) /\ wait = 0 /\ Proceed(IF wants18 THEN "cmd11" ELSE "cmd2")
    /\ removal' = FALSE
    /\ UNCHANGED <<present, swaps, hostWide, locals>>

(* CMD11 and the checks of DAT[3:0] and of the signal enable.  After any   *)
(* failure the flag is set, the power cut and sd_card_init starts over in a *)
(* nested call whose result this one returns.                              *)
SwitchVoltage ==
    /\ pc = "cmd11"
    /\ \E r \in Replies("VOLTAGE_SWITCH"), settles \in SwitchResults :
        /\ Command("VOLTAGE_SWITCH", r, 0)
        /\ IF ~Failed(r) /\ settles
           THEN edev' = Issued(r) /\ nested' = nested /\ Proceed("cmd2")
           ELSE /\ edev' = [Issued(r) EXCEPT !.failed_voltage_switch = TRUE]
                /\ nested' = TRUE /\ Proceed("reset")
    /\ UNCHANGED <<hostWide, origin, v2_later, retry_count, op, size>>

(* CMD2, whose response is kept in a block of its own.                     *)
AllSendCid ==
    /\ pc = "cmd2"
    /\ \E r \in Replies("ALL_SEND_CID") :
        /\ Command("ALL_SEND_CID", r, 0)
        /\ edev' = [Issued(r) EXCEPT !.device_id = ~Failed(r)]
        /\ IF Failed(r) THEN EarlyReturn ELSE Proceed("cmd3")
    /\ UNCHANGED <<hostWide, locals>>

(* CMD3 publishes the address; an error bit in it ends the call.           *)
SendRelativeAddr ==
    /\ pc = "cmd3"
    /\ \E r \in Replies("SEND_RELATIVE_ADDR"), bad \in {0, 1} :
        /\ Command("SEND_RELATIVE_ADDR", r, bad)
        /\ edev' = [Issued(r) EXCEPT !.card_rca = ~Failed(r)]
        /\ IF Failed(r) THEN FreeReturn({"device_id"})
           ELSE IF bad = 1 THEN FreeReturn({})
           ELSE Proceed("cmd7")
    /\ UNCHANGED <<hostWide, locals>>

(* CMD7 selects the card; the status in its response must be 3 or 4.       *)
SelectCard ==
    /\ pc = "cmd7"
    /\ \E r \in Replies("SELECT_CARD"), bad \in {0, 1} :
        /\ Command("SELECT_CARD", r, bad)
        /\ edev' = Issued(r)
        /\ IF Failed(r) THEN FreeReturn({"device_id"})
           ELSE IF bad = 1 THEN FreeReturn({})
           ELSE Proceed(IF edev.card_supports_sdhc THEN "scr" ELSE "cmd16")
    /\ UNCHANGED <<hostWide, locals>>

(* CMD16, for the cards that have no fixed block length.                   *)
SetBlocklen ==
    /\ pc = "cmd16"
    /\ \E r \in Replies("SET_BLOCKLEN") :
        /\ Command("SET_BLOCKLEN", r, 0)
        /\ edev' = Issued(r)
        /\ IF Failed(r) THEN FreeReturn({"device_id"}) ELSE Proceed("scr")
    /\ UNCHANGED <<hostWide, locals>>

(* ACMD51: the SCR says whether the card can use four data lines.          *)
SendScr ==
    /\ pc = "scr"
    /\ \E r \in Replies("SEND_SCR") :
        /\ Command("SEND_SCR", r, 0)
        /\ edev' = [Issued(r) EXCEPT !.scr = ~Failed(r), !.blocks_to_transfer = "one"]
        /\ IF Failed(r) THEN FreeReturn({"device_id"})
           ELSE \E step \in {"acmd6", "finish"} : Proceed(step)
    /\ UNCHANGED <<hostWide, locals>>

(* Mutant of SetBusWidth: the host switches whatever the card answered.    *)
SetBusWidth_Unchecked ==
    /\ pc = "acmd6"
    /\ \E r \in Replies("SET_BUS_WIDTH") :
        /\ Command("SET_BUS_WIDTH", r, 0)
        /\ edev' = Issued(r)
        /\ hostWide' = TRUE
    /\ Proceed("finish")
    /\ UNCHANGED locals

(* ACMD6, then the host; a failure is only printed.                        *)
SetBusWidth ==
    /\ pc = "acmd6"
    /\ \E r \in Replies("SET_BUS_WIDTH") :
        /\ Command("SET_BUS_WIDTH", r, 0)
        /\ edev' = Issued(r)
        /\ hostWide' = (hostWide \/ ~Failed(r))
    /\ Proceed("finish")
    /\ UNCHANGED locals

(* Interrupts are reset and the structure is handed over.  A nested call   *)
(* hands it to the frame above, which does not pass it on.                 *)
FinishInit ==
    /\ pc = "finish"
    /\ removal' = FALSE
    /\ nested' = FALSE
    /\ CASE origin = "retry"   -> Proceed("status")
         [] origin = "recover" -> Proceed("recheck")
         [] origin = "caller"  ->
                /\ Return("ready")
                /\ dev' = (IF nested THEN dev ELSE "live")
                /\ leaked' = leaked \cup
                       (IF nested THEN {"struct", "device_id", "scr"} ELSE {})
    /\ UNCHANGED <<card, present, hostWide, faults, swaps, busy, edev,
                   origin, v2_later, retry_count, op, size>>

-----------------------------------------------------------------------------
(* sd_ensure_data_mode and sd_do_data_command.                             *)

(* The card's address is forgotten, so that the next call re-initialises.  *)
GiveUp(r) ==
    /\ edev' = [Issued(r) EXCEPT !.card_rca = FALSE]
    /\ Return("fail")
    /\ UNCHANGED <<dev, leaked>>

(* sd_card_init runs on the caller's structure.                            *)
Reinitialise(from) ==
    /\ origin' = from /\ nested' = FALSE
    /\ Proceed("reset")

(* Mutant of CheckStatus: a selected card and one in stand-by are the same. *)
CheckStatus_NoSelect ==
    /\ pc = "status"
    /\ \E r \in Replies("SEND_STATUS") :
        /\ Command("SEND_STATUS", r, 0)
        /\ \/ Failed(r) /\ GiveUp(r) /\ UNCHANGED <<origin, nested>>
           \/ ~Failed(r) /\ edev' = Issued(r) /\ UNCHANGED <<origin, nested>> /\ Proceed("start")
    /\ UNCHANGED <<hostWide, v2_later, retry_count, op, size>>

(* Mutant of CheckStatus: a silent card is re-initialised within the call. *)
CheckStatus_Reinit ==
    /\ pc = "status"
    /\ \E r \in Replies("SEND_STATUS") :
        /\ Command("SEND_STATUS", r, 0)
        /\ edev' = Issued(r)
        /\ \/ Failed(r) /\ Reinitialise("recover")
           \/ ~Failed(r) /\ card.state = "tran" /\ UNCHANGED <<origin, nested>> /\ Proceed("start")
           \/ ~Failed(r) /\ card.state # "tran" /\ Reinitialise("recover")
    /\ UNCHANGED <<hostWide, v2_later, retry_count, op, size>>

(* CMD13; what follows depends on the state the card reports.              *)
CheckStatus ==
    /\ pc = "status"
    /\ \E r \in Replies("SEND_STATUS") :
        /\ Command("SEND_STATUS", r, 0)
        /\ \/ /\ Failed(r) /\ GiveUp(r)
              /\ UNCHANGED <<origin, nested>>
           \/ /\ ~Failed(r) /\ card.state \in {"tran", "stby", "data"}
              /\ edev' = Issued(r)
              /\ Proceed(CASE card.state = "tran" -> "start"
                           [] card.state = "stby" -> "select"
                           [] card.state = "data" -> "stop")
              /\ UNCHANGED <<origin, nested>>
           \/ /\ ~Failed(r) /\ card.state \notin {"tran", "stby", "data"}
              /\ edev' = Issued(r)
              /\ Reinitialise("recover")
    /\ UNCHANGED <<hostWide, v2_later, retry_count, op, size>>

(* CMD7 for a card in stand-by, CMD12 for one still sending data.          *)
LeaveState ==
    /\ pc \in {"select", "stop"}
    /\ LET cmd == IF pc = "select" THEN "SELECT_CARD" ELSE "STOP_TRANSMISSION"
       IN  \E r \in Replies(cmd) :
            /\ Command(cmd, r, 0)
            /\ \/ Failed(r) /\ GiveUp(r)
               \/ ~Failed(r) /\ edev' = Issued(r) /\ Proceed("recheck")
    /\ UNCHANGED <<hostWide, locals>>

(* CMD13 again: only the transfer state will do.                           *)
Recheck ==
    /\ pc = "recheck"
    /\ \E r \in Replies("SEND_STATUS") :
        /\ Command("SEND_STATUS", r, 0)
        /\ \/ (Failed(r) \/ card.state # "tran") /\ GiveUp(r)
           \/ ~Failed(r) /\ card.state = "tran" /\ edev' = Issued(r) /\ Proceed("start")
    /\ UNCHANGED <<hostWide, locals>>

(* The buffer size is checked.  The number of whole blocks is stored       *)
(* before the remainder is looked at.                                      *)
StartTransfer ==
    /\ pc = "start"
    /\ edev' = [edev EXCEPT !.blocks_to_transfer =
                    CASE size = "short"                    -> @
                      [] size = "one"                      -> "one"
                      [] size \in {"many", "ragged"}       -> "many"
                      [] size \in {"huge", "ragged_huge"}  -> "too_many"]
    /\ retry_count' = 0
    /\ IF size \in {"short", "ragged", "ragged_huge"} THEN Return("fail") ELSE Goto("transfer")
    /\ UNCHANGED <<hardware, origin, nested, v2_later, op, size, dev, leaked>>

DataCommand ==
    IF op = "write" THEN (IF size = "one" THEN "WRITE_BLOCK" ELSE "WRITE_MULTIPLE_BLOCK")
    ELSE (IF size = "one" THEN "READ_SINGLE_BLOCK" ELSE "READ_MULTIPLE_BLOCK")

MaxRetries == 3

(* Mutant of Transfer: giving up, the driver still trusts the card.        *)
Transfer_KeepRca ==
    /\ pc = "transfer"
    /\ \E r \in Replies(DataCommand) :
        /\ Command(DataCommand, r, 0)
        /\ edev' = Issued(r)
        /\ retry_count' = (IF Failed(r) THEN retry_count + 1 ELSE retry_count)
        /\ IF ~Failed(r) THEN Return("ok")
           ELSE IF retry_count' = MaxRetries THEN Return("fail") ELSE Goto("transfer")
    /\ UNCHANGED <<hostWide, origin, nested, v2_later, op, size, dev, leaked>>

(* Mutant of Transfer: the bound is tested before the count is raised.     *)
Transfer_OneMore ==
    /\ pc = "transfer"
    /\ \E r \in Replies(DataCommand) :
        /\ Command(DataCommand, r, 0)
        /\ retry_count' = (IF Failed(r) THEN retry_count + 1 ELSE retry_count)
        /\ \/ ~Failed(r) /\ edev' = Issued(r) /\ Return("ok") /\ UNCHANGED <<dev, leaked>>
           \/ Failed(r) /\ retry_count = MaxRetries /\ GiveUp(r)
           \/ Failed(r) /\ retry_count < MaxRetries /\ edev' = Issued(r) /\ Proceed("transfer")
    /\ UNCHANGED <<hostWide, origin, nested, v2_later, op, size>>

(* The data command, tried MaxRetries times with nothing in between.       *)
Transfer ==
    /\ pc = "transfer"
    /\ \E r \in Replies(DataCommand) :
        /\ Command(DataCommand, r, 0)
        /\ retry_count' = (IF Failed(r) THEN retry_count + 1 ELSE retry_count)
        /\ \/ ~Failed(r) /\ edev' = Issued(r) /\ Return("ok") /\ UNCHANGED <<dev, leaked>>
           \/ Failed(r) /\ retry_count' = MaxRetries /\ GiveUp(r)
           \/ Failed(r) /\ retry_count' < MaxRetries /\ edev' = Issued(r) /\ Proceed("transfer")
    /\ UNCHANGED <<hostWide, origin, nested, v2_later, op, size>>

-----------------------------------------------------------------------------
(* The callers: the kernel, its tests and the file system.                 *)

(* sd_card_init allocates the structure if the pointer is null; any other  *)
(* pointer it writes through.                                              *)
CallInit ==
    /\ pc = "rest" /\ dev \in {"null", "wild"} /\ result # "ready"
    /\ pc' = (IF dev = "null" THEN "reset" ELSE "undefined")
    /\ origin' = "caller" /\ nested' = FALSE
    /\ result' = "none" /\ swapped' = FALSE
    /\ UNCHANGED <<hardware, v2_later, retry_count, op, size, edev, dev, leaked>>

(* sd_read or sd_write: a card without an address is initialised first.    *)
CallTransfer(o, s) ==
    /\ pc = "rest" /\ dev = "live"
    /\ op' = o /\ size' = s /\ result' = "none"
    /\ IF edev.card_rca
       THEN pc' = "status" /\ UNCHANGED <<origin, nested>>
       ELSE pc' = "reset" /\ origin' = "retry" /\ nested' = FALSE
    /\ UNCHANGED <<hardware, v2_later, retry_count, edev, dev, leaked, swapped>>

(* sd_card_cleanup frees the structure and what it points to.              *)
CallCleanup ==
    /\ pc = "rest" /\ dev = "live"
    /\ dev' = "null" /\ result' = "cleaned" /\ swapped' = FALSE
    /\ UNCHANGED <<hardware, locals, edev, pc, leaked>>

(* Any use of a freed pointer, or of a null one after a reported success.  *)
UseBadPointer ==
    /\ pc = "rest" /\ (dev = "freed" \/ (dev = "null" /\ result = "ready"))
    /\ pc' = "undefined"
    /\ UNCHANGED <<hardware, locals, edev, dev, result, leaked, swapped>>

(* Nothing is known of a behaviour once it is undefined.                   *)
Undefined == pc = "undefined" /\ UNCHANGED vars

-----------------------------------------------------------------------------
(* The slot.                                                               *)

RemoveCard ==
    /\ pc # "undefined" /\ present /\ swaps > 0
    /\ present' = FALSE /\ removal' = TRUE /\ swaps' = swaps - 1
    /\ UNCHANGED <<card, hostWide, faults, busy, locals, edev, dev, pc, result, leaked, swapped>>

(* Another card, or the same one after a loss of power.                    *)
InsertCard(k) ==
    /\ pc # "undefined" /\ ~present
    /\ present' = TRUE /\ card' = PoweredOn(k)
    /\ swapped' = (swapped \/ (dev = "live" /\ edev.card_rca /\ pc \notin InitSteps))
    /\ UNCHANGED <<removal, hostWide, faults, swaps, busy, locals, edev, dev, pc, result, leaked>>

Driver ==
    \/ ResetController \/ Prepare \/ GoIdle \/ SendIfCond \/ IoSetOpCond \/ InquireOcr
    \/ NegotiateOcr \/ SwitchVoltage \/ AllSendCid \/ SendRelativeAddr \/ SelectCard
    \/ SetBlocklen \/ SendScr \/ SetBusWidth \/ FinishInit
    \/ CheckStatus \/ LeaveState \/ Recheck \/ StartTransfer \/ Transfer

Transfers == \E o \in {"read", "write"}, s \in Requests : CallTransfer(o, s)

Next ==
    \/ Driver
    \/ CallInit \/ Transfers \/ CallCleanup \/ UseBadPointer \/ Undefined
    \/ RemoveCard
    \/ \E k \in CardKinds : InsertCard(k)

Spec == Init /\ [][Next]_vars

(* The CPU runs on: a call that is entered is carried on.  The rest is     *)
(* about who uses the driver: a caller who goes on asking for the device   *)
(* until there is one, and then for blocks, and a card that is put back.   *)
FairSpec ==
    /\ Spec
    /\ WF_vars(Driver) /\ WF_vars(CallInit) /\ SF_vars(Transfers)
    /\ WF_vars(\E k \in CardKinds : InsertCard(k))

-----------------------------------------------------------------------------
(* A data command is first sent to a card in the transfer state: it was in *)
(* that state when its status was read, and unless a removal is pending,   *)
(* which fails the command, it still is.                                   *)
TransferStateFirst ==
    (pc = "start" \/ (pc = "transfer" /\ retry_count = 0))
        => removal \/ (present /\ card.state = "tran")

(* A card put in place of a ready one is never read or written before some *)
(* call has failed: the caller learns of the swap.                         *)
SwapNoticed ==
    [][(pc = "transfer" /\ result' = "ok") => ~swapped]_vars

(* Between calls, a device with a card address has all its parts, so that  *)
(* sd_card_cleanup frees a device_id and an scr that are allocated.        *)
ReadyIsComplete ==
    (pc = "rest" /\ dev = "live" /\ edev.card_rca) => (edev.device_id /\ edev.scr)

(* When a transfer starts, the host drives four lines only towards a card  *)
(* that was told to use them, unless a removal is pending.                 *)
WidthNegotiated ==
    (hostWide /\ (pc = "start" \/ (pc = "transfer" /\ retry_count = 0)))
        => removal \/ card.wide

(* Once the hardware misbehaves no more, a caller who goes on asking is    *)
(* served again, unless a failed re-initialisation has freed his structure *)
(* or his first pointer was a wild one.                                    *)
Recovers == []<>(result = "ok" \/ dev \in {"freed", "wild"})

(* src/src/drivers/SD/emmc.c:2009 says of a card without address "Try      *)
(* again to initialise the card": the structure to try with is kept.       *)
DeviceKept == dev # "freed"
=============================================================================
