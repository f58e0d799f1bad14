-------------------------- MODULE EmmcDriverProofs --------------------------
(***************************************************************************)
(* For every kind of card, set of requests and number of faults, removals  *)
(* and busy answers: the types of EmmcDriver are preserved, a ready device *)
(* is complete, and transfers start on a card in the transfer state.       *)
(***************************************************************************)
EXTENDS EmmcDriver, TLAPS

Verdicts == {"ok", "removed", "refused", "cmd_timeout", "timeout", "other"}

(* A command makes a card of a card.                                       *)
LEMMA ExecutedType ==
    ASSUME NEW c \in Cards, NEW cmd
    PROVE  Executed(c, cmd) \in Cards
  BY DEF Executed, PoweredOn, Cards, States

(* What a command can come to.                                             *)
LEMMA RepliesType ==
    ASSUME TypeOK, NEW cmd, NEW r \in Replies(cmd)
    PROVE  /\ r.verdict \in Verdicts /\ r.card \in Cards /\ r.cost \in {0, 1}
<1>1. Executed(card, cmd) \in Cards
  BY ExecutedType DEF TypeOK, HardwareOK
<1>2. card \in Cards
  BY DEF TypeOK, HardwareOK
<1>3. QED
  BY <1>1, <1>2 DEF Replies, Outcome, Verdicts

(* The structure keeps its type through a command, and a command only      *)
(* touches the removal flag and the error in it.                           *)
LEMMA IssuedType ==
    ASSUME TypeOK, NEW r, r.verdict \in Verdicts
    PROVE  /\ Issued(r) \in Devices
           /\ Issued(r).card_rca = edev.card_rca
           /\ Issued(r).device_id = edev.device_id
           /\ Issued(r).scr = edev.scr
<1>1. ErrorAfter(r, edev.last_error) \in Errors
  BY DEF ErrorAfter, Errors, Verdicts, TypeOK, Devices
<1>2. (removal \/ edev.card_removal) \in BOOLEAN
  OBVIOUS
<1>3. QED
  BY <1>1, <1>2 DEF Issued, TypeOK, Devices

-----------------------------------------------------------------------------
(* A command leaves the hardware in its types.                             *)
LEMMA CommandType ==
    ASSUME TypeOK, NEW cmd, NEW r \in Replies(cmd), NEW more \in {0, 1},
           Command(cmd, r, more), hostWide' \in BOOLEAN
    PROVE  HardwareOK'
<1>1. r.card \in Cards /\ r.cost \in {0, 1}
  BY RepliesType
<1>2. faults \in 0..MaxFaults /\ MaxFaults \in Nat
  BY DriverAssumption DEF TypeOK, HardwareOK
<1>3. faults' \in 0..MaxFaults
  BY <1>1, <1>2 DEF Command
<1>4. QED
  BY <1>1, <1>3 DEF Command, TypeOK, HardwareOK

(* The ways a step of the driver can end.                                  *)
Ends ==
    \/ EarlyReturn
    \/ \E lost \in SUBSET {"device_id"} : FreeReturn(lost)
    \/ \E step \in InitSteps \cup DataSteps : Proceed(step)
    \/ \E res \in {"ready", "ok", "fail"} : Return(res) /\ UNCHANGED <<dev, leaked>>

LEMMA ControlType == ASSUME ControlOK, Ends PROVE ControlOK'
<1>1. CASE EarlyReturn
  BY <1>1 DEF EarlyReturn, Return, ControlOK
<1>2. ASSUME NEW lost \in SUBSET {"device_id"}, FreeReturn(lost)
      PROVE  ControlOK'
  BY <1>2 DEF FreeReturn, Return, ControlOK
<1>3. ASSUME NEW step \in InitSteps \cup DataSteps, Proceed(step)
      PROVE  ControlOK'
  BY <1>3 DEF Proceed, Goto, ControlOK
<1>4. ASSUME NEW res \in {"ready", "ok", "fail"}, Return(res), UNCHANGED <<dev, leaked>>
      PROVE  ControlOK'
  BY <1>4 DEF Return, ControlOK
<1>5. QED
  BY <1>1, <1>2, <1>3, <1>4 DEF Ends

(* One command, however the step ends.                                     *)
LEMMA CommandStepType ==
    ASSUME TypeOK, NEW cmd, NEW r \in Replies(cmd), NEW more \in {0, 1},
           Command(cmd, r, more), hostWide' \in BOOLEAN,
           LocalsOK', edev' \in Devices, Ends
    PROVE  TypeOK'
<1>1. HardwareOK'
  BY CommandType
<1>2. ControlOK'
  BY ControlType DEF TypeOK
<1>3. QED
  BY <1>1, <1>2 DEF TypeOK

LEMMA SameLocals == ASSUME TypeOK, UNCHANGED locals PROVE LocalsOK'
  BY DEF TypeOK, LocalsOK, locals

LEMMA ZeroedType == Zeroed \in Devices
  BY DEF Zeroed, Devices, Errors, Blocks

LEMMA InitType == Init => TypeOK
<1> SUFFICES ASSUME Init
             PROVE  TypeOK
  OBVIOUS
<1>1. PICK k \in CardKinds : card = PoweredOn(k)
  BY DEF Init
<1>2. card \in Cards
  BY <1>1, DriverAssumption DEF PoweredOn, Cards, States
<1>3. edev \in Devices
  BY ZeroedType DEF Init
<1>4. HardwareOK
  <2>1. MaxFaults \in 0..MaxFaults /\ MaxSwaps \in 0..MaxSwaps /\ MaxBusy \in 0..MaxBusy
    BY DriverAssumption
  <2>2. QED
    BY <1>2, <2>1 DEF Init, HardwareOK
<1>5. ControlOK
  BY DEF Init, ControlOK
<1>6. retry_count \in 0..3
  BY DEF Init
<1>7. LocalsOK
  BY <1>6 DEF Init, LocalsOK, Sizes
<1>8. QED
  BY <1>3, <1>4, <1>5, <1>7 DEF TypeOK

LEMMA ResetControllerType == TypeOK /\ ResetController => TypeOK'
<1> SUFFICES ASSUME TypeOK, ResetController
             PROVE  TypeOK'
  OBVIOUS
<1>1. PICK fault \in {"none", "power", "reset", "clock"} :
          /\ fault # "none" => faults > 0
          /\ faults' = faults - (IF fault = "none" THEN 0 ELSE 1)
          /\ card' = (IF fault = "power" THEN card ELSE PoweredOn(card.kind))
          /\ hostWide' = (hostWide /\ fault = "reset")
          /\ IF present /\ fault \in {"none", "power"} THEN Proceed("prepare")
             ELSE IF nested THEN EarlyReturn
             ELSE Return("fail") /\ UNCHANGED <<dev, leaked>>
  BY DEF ResetController
<1>2. card \in Cards /\ faults \in 0..MaxFaults /\ MaxFaults \in Nat
  BY DriverAssumption DEF TypeOK, HardwareOK
<1>3. PoweredOn(card.kind) \in Cards
  BY <1>2 DEF PoweredOn, Cards, States
<1>4. card' \in Cards
  BY <1>1, <1>2, <1>3
<1>5. faults' \in 0..MaxFaults
  BY <1>1, <1>2
<1>6. hostWide' \in BOOLEAN
  BY <1>1
<1>7. HardwareOK'
  BY <1>4, <1>5, <1>6 DEF ResetController, TypeOK, HardwareOK
<1>8. Ends
  BY <1>1 DEF Ends, InitSteps
<1>9. ControlOK' /\ LocalsOK' /\ edev' \in Devices
  BY <1>8, ControlType, SameLocals DEF ResetController, TypeOK
<1>10. QED
  BY <1>7, <1>9 DEF TypeOK

LEMMA PrepareType == TypeOK /\ Prepare => TypeOK'
<1> SUFFICES ASSUME TypeOK, Prepare
             PROVE  TypeOK'
  OBVIOUS
<1>1. edev' \in Devices
  BY ZeroedType DEF Prepare
<1>2. LocalsOK'
  BY SameLocals DEF Prepare
<1>3. HardwareOK'
  BY DEF Prepare, TypeOK, HardwareOK
<1>4. ControlOK'
  BY DEF Prepare, Goto, TypeOK, ControlOK, InitSteps
<1>5. QED
  BY <1>1, <1>2, <1>3, <1>4 DEF TypeOK

(* sd_card_init, command by command.                                       *)
LEMMA GoIdleType == TypeOK /\ GoIdle => TypeOK'
<1> SUFFICES ASSUME TypeOK, GoIdle
             PROVE  TypeOK'
  OBVIOUS
<1>1. PICK r \in Replies("GO_IDLE_STATE") :
          /\ Command("GO_IDLE_STATE", r, 0)
          /\ edev' = Issued(r)
          /\ (EarlyReturn \/ Proceed("cmd8"))
  BY DEF GoIdle
<1>2. Issued(r) \in Devices
  BY RepliesType, IssuedType
<1>3. edev' \in Devices
  BY <1>1, <1>2 DEF Devices, Blocks, Failed
<1>4. Ends
  BY <1>1 DEF Ends, InitSteps
<1>5. LocalsOK'
  BY SameLocals DEF GoIdle
<1>6. hostWide' \in BOOLEAN
  BY DEF GoIdle, TypeOK, HardwareOK
<1>7. QED
  BY <1>1, <1>3, <1>4, <1>5, <1>6, CommandStepType

LEMMA SendIfCondType == TypeOK /\ SendIfCond => TypeOK'
<1> SUFFICES ASSUME TypeOK, SendIfCond
             PROVE  TypeOK'
  OBVIOUS
<1>1. PICK r \in Replies("SEND_IF_COND"), bad \in {0, 1} :
          /\ Command("SEND_IF_COND", r, bad)
          /\ edev' = Issued(r)
          /\ (EarlyReturn \/ Proceed("cmd5"))
  BY DEF SendIfCond
<1>2. Issued(r) \in Devices
  BY RepliesType, IssuedType
<1>3. edev' \in Devices
  BY <1>1, <1>2 DEF Devices, Blocks, Failed
<1>4. Ends
  BY <1>1 DEF Ends, InitSteps
<1>5. LocalsOK'
  BY DEF SendIfCond, TypeOK, LocalsOK, Failed
<1>6. hostWide' \in BOOLEAN
  BY DEF SendIfCond, TypeOK, HardwareOK
<1>7. QED
  BY <1>1, <1>3, <1>4, <1>5, <1>6, CommandStepType

LEMMA IoSetOpCondType == TypeOK /\ IoSetOpCond => TypeOK'
<1> SUFFICES ASSUME TypeOK, IoSetOpCond
             PROVE  TypeOK'
  OBVIOUS
<1>1. PICK r \in Replies("IO_SET_OP_COND"), bad \in {0, 1} :
          /\ Command("IO_SET_OP_COND", r, bad)
          /\ edev' = Issued(r)
          /\ (EarlyReturn \/ Proceed("inquiry"))
  BY DEF IoSetOpCond
<1>2. Issued(r) \in Devices
  BY RepliesType, IssuedType
<1>3. edev' \in Devices
  BY <1>1, <1>2 DEF Devices, Blocks, Failed
<1>4. Ends
  BY <1>1 DEF Ends, InitSteps
<1>5. LocalsOK'
  BY SameLocals DEF IoSetOpCond
<1>6. hostWide' \in BOOLEAN
  BY DEF IoSetOpCond, TypeOK, HardwareOK
<1>7. QED
  BY <1>1, <1>3, <1>4, <1>5, <1>6, CommandStepType

LEMMA InquireOcrType == TypeOK /\ InquireOcr => TypeOK'
<1> SUFFICES ASSUME TypeOK, InquireOcr
             PROVE  TypeOK'
  OBVIOUS
<1>1. PICK r \in Replies("INQUIRE_OCR") :
          /\ Command("INQUIRE_OCR", r, 0)
          /\ edev' = Issued(r)
          /\ (EarlyReturn \/ Proceed("acmd41"))
  BY DEF InquireOcr
<1>2. Issued(r) \in Devices
  BY RepliesType, IssuedType
<1>3. edev' \in Devices
  BY <1>1, <1>2 DEF Devices, Blocks, Failed
<1>4. Ends
  BY <1>1 DEF Ends, InitSteps
<1>5. LocalsOK'
  BY SameLocals DEF InquireOcr
<1>6. hostWide' \in BOOLEAN
  BY DEF InquireOcr, TypeOK, HardwareOK
<1>7. QED
  BY <1>1, <1>3, <1>4, <1>5, <1>6, CommandStepType

LEMMA NegotiateOcrType == TypeOK /\ NegotiateOcr => TypeOK'
<1> SUFFICES ASSUME TypeOK, NegotiateOcr
             PROVE  TypeOK'
  OBVIOUS
<1>1. PICK r \in Replies("SD_SEND_OP_COND"), wait \in {0, 1} :
          /\ r.cost <= faults /\ wait <= busy
          /\ faults' = faults - r.cost /\ busy' = busy - wait
          /\ card' = (IF wait = 1 THEN card ELSE r.card)
          /\ edev' = [Issued(r) EXCEPT !.card_supports_sdhc =
                          IF Failed(r) \/ wait = 1 THEN @ ELSE v2_later /\ card.kind.sdhc]
          /\ EarlyReturn \/ Proceed("acmd41") \/ Proceed("cmd11") \/ Proceed("cmd2")
  BY DEF NegotiateOcr
<1>2. r.card \in Cards /\ r.cost \in {0, 1} /\ Issued(r) \in Devices
  BY RepliesType, IssuedType
<1>3. faults' \in 0..MaxFaults /\ busy' \in 0..MaxBusy
  BY <1>1, <1>2, DriverAssumption DEF TypeOK, HardwareOK
<1>4. card' \in Cards
  BY <1>1, <1>2 DEF TypeOK, HardwareOK
<1>5. HardwareOK'
  BY <1>3, <1>4 DEF NegotiateOcr, TypeOK, HardwareOK
<1>6. Ends
  BY <1>1 DEF Ends, InitSteps
<1>7. ControlOK' /\ LocalsOK'
  BY <1>6, ControlType, SameLocals DEF NegotiateOcr, TypeOK
<1>8. edev' \in Devices
  <2>1. (v2_later /\ card.kind.sdhc) \in BOOLEAN
    OBVIOUS
  <2>2. QED
    BY <1>1, <1>2, <2>1 DEF Devices
<1>9. QED
  BY <1>5, <1>7, <1>8 DEF TypeOK

LEMMA SwitchVoltageType == TypeOK /\ SwitchVoltage => TypeOK'
<1> SUFFICES ASSUME TypeOK, SwitchVoltage
             PROVE  TypeOK'
  OBVIOUS
<1>1. PICK r \in Replies("VOLTAGE_SWITCH") :
          /\ Command("VOLTAGE_SWITCH", r, 0)
          /\ \/ edev' = Issued(r) /\ nested' = nested /\ Proceed("cmd2")
             \/ /\ edev' = [Issued(r) EXCEPT !.failed_voltage_switch = TRUE]
                /\ nested' = TRUE /\ Proceed("reset")
  BY DEF SwitchVoltage
<1>2. Issued(r) \in Devices
  BY RepliesType, IssuedType
<1>3. edev' \in Devices
  BY <1>1, <1>2 DEF Devices
<1>4. Ends
  BY <1>1 DEF Ends, InitSteps
<1>5. LocalsOK'
  BY <1>1 DEF SwitchVoltage, TypeOK, LocalsOK
<1>6. hostWide' \in BOOLEAN
  BY DEF SwitchVoltage, TypeOK, HardwareOK
<1>7. QED
  BY <1>1, <1>3, <1>4, <1>5, <1>6, CommandStepType

LEMMA AllSendCidType == TypeOK /\ AllSendCid => TypeOK'
<1> SUFFICES ASSUME TypeOK, AllSendCid
             PROVE  TypeOK'
  OBVIOUS
<1>1. PICK r \in Replies("ALL_SEND_CID") :
          /\ Command("ALL_SEND_CID", r, 0)
          /\ edev' = [Issued(r) EXCEPT !.device_id = ~Failed(r)]
          /\ (EarlyReturn \/ Proceed("cmd3"))
  BY DEF AllSendCid
<1>2. Issued(r) \in Devices
  BY RepliesType, IssuedType
<1>3. edev' \in Devices
  BY <1>1, <1>2 DEF Devices, Blocks, Failed
<1>4. Ends
  BY <1>1 DEF Ends, InitSteps
<1>5. LocalsOK'
  BY SameLocals DEF AllSendCid
<1>6. hostWide' \in BOOLEAN
  BY DEF AllSendCid, TypeOK, HardwareOK
<1>7. QED
  BY <1>1, <1>3, <1>4, <1>5, <1>6, CommandStepType

LEMMA SendRelativeAddrType == TypeOK /\ SendRelativeAddr => TypeOK'
<1> SUFFICES ASSUME TypeOK, SendRelativeAddr
             PROVE  TypeOK'
  OBVIOUS
<1>1. PICK r \in Replies("SEND_RELATIVE_ADDR"), bad \in {0, 1} :
          /\ Command("SEND_RELATIVE_ADDR", r, bad)
          /\ edev' = [Issued(r) EXCEPT !.card_rca = ~Failed(r)]
          /\ (FreeReturn({"device_id"}) \/ FreeReturn({}) \/ Proceed("cmd7"))
  BY DEF SendRelativeAddr
<1>2. Issued(r) \in Devices
  BY RepliesType, IssuedType
<1>3. edev' \in Devices
  BY <1>1, <1>2 DEF Devices, Blocks, Failed
<1>4. Ends
  BY <1>1 DEF Ends, InitSteps
<1>5. LocalsOK'
  BY SameLocals DEF SendRelativeAddr
<1>6. hostWide' \in BOOLEAN
  BY DEF SendRelativeAddr, TypeOK, HardwareOK
<1>7. QED
  BY <1>1, <1>3, <1>4, <1>5, <1>6, CommandStepType

LEMMA SelectCardType == TypeOK /\ SelectCard => TypeOK'
<1> SUFFICES ASSUME TypeOK, SelectCard
             PROVE  TypeOK'
  OBVIOUS
<1>1. PICK r \in Replies("SELECT_CARD"), bad \in {0, 1} :
          /\ Command("SELECT_CARD", r, bad)
          /\ edev' = Issued(r)
          /\ (FreeReturn({"device_id"}) \/ FreeReturn({}) \/ Proceed("scr") \/ Proceed("cmd16"))
  BY DEF SelectCard
<1>2. Issued(r) \in Devices
  BY RepliesType, IssuedType
<1>3. edev' \in Devices
  BY <1>1, <1>2 DEF Devices, Blocks, Failed
<1>4. Ends
  BY <1>1 DEF Ends, InitSteps
<1>5. LocalsOK'
  BY SameLocals DEF SelectCard
<1>6. hostWide' \in BOOLEAN
  BY DEF SelectCard, TypeOK, HardwareOK
<1>7. QED
  BY <1>1, <1>3, <1>4, <1>5, <1>6, CommandStepType

LEMMA SetBlocklenType == TypeOK /\ SetBlocklen => TypeOK'
<1> SUFFICES ASSUME TypeOK, SetBlocklen
             PROVE  TypeOK'
  OBVIOUS
<1>1. PICK r \in Replies("SET_BLOCKLEN") :
          /\ Command("SET_BLOCKLEN", r, 0)
          /\ edev' = Issued(r)
          /\ (FreeReturn({"device_id"}) \/ Proceed("scr"))
  BY DEF SetBlocklen
<1>2. Issued(r) \in Devices
  BY RepliesType, IssuedType
<1>3. edev' \in Devices
  BY <1>1, <1>2 DEF Devices, Blocks, Failed
<1>4. Ends
  BY <1>1 DEF Ends, InitSteps
<1>5. LocalsOK'
  BY SameLocals DEF SetBlocklen
<1>6. hostWide' \in BOOLEAN
  BY DEF SetBlocklen, TypeOK, HardwareOK
<1>7. QED
  BY <1>1, <1>3, <1>4, <1>5, <1>6, CommandStepType

LEMMA SendScrType == TypeOK /\ SendScr => TypeOK'
<1> SUFFICES ASSUME TypeOK, SendScr
             PROVE  TypeOK'
  OBVIOUS
<1>1. PICK r \in Replies("SEND_SCR") :
          /\ Command("SEND_SCR", r, 0)
          /\ edev' = [Issued(r) EXCEPT !.scr = ~Failed(r), !.blocks_to_transfer = "one"]
          /\ (FreeReturn({"device_id"}) \/ Proceed("acmd6") \/ Proceed("finish"))
  BY DEF SendScr
<1>2. Issued(r) \in Devices
  BY RepliesType, IssuedType
<1>3. edev' \in Devices
  BY <1>1, <1>2 DEF Devices, Blocks, Failed
<1>4. Ends
  BY <1>1 DEF Ends, InitSteps
<1>5. LocalsOK'
  BY SameLocals DEF SendScr
<1>6. hostWide' \in BOOLEAN
  BY DEF SendScr, TypeOK, HardwareOK
<1>7. QED
  BY <1>1, <1>3, <1>4, <1>5, <1>6, CommandStepType

LEMMA SetBusWidthType == TypeOK /\ SetBusWidth => TypeOK'
<1> SUFFICES ASSUME TypeOK, SetBusWidth
             PROVE  TypeOK'
  OBVIOUS
<1>1. PICK r \in Replies("SET_BUS_WIDTH") :
          /\ Command("SET_BUS_WIDTH", r, 0)
          /\ edev' = Issued(r)
          /\ Proceed("finish")
  BY DEF SetBusWidth
<1>2. Issued(r) \in Devices
  BY RepliesType, IssuedType
<1>3. edev' \in Devices
  BY <1>1, <1>2 DEF Devices, Blocks, Failed
<1>4. Ends
  BY <1>1 DEF Ends, InitSteps
<1>5. LocalsOK'
  BY SameLocals DEF SetBusWidth
<1>6. hostWide' \in BOOLEAN
  BY DEF SetBusWidth, TypeOK, HardwareOK
<1>7. QED
  BY <1>1, <1>3, <1>4, <1>5, <1>6, CommandStepType

LEMMA FinishInitType == TypeOK /\ FinishInit => TypeOK'
<1> SUFFICES ASSUME TypeOK, FinishInit
             PROVE  TypeOK'
  OBVIOUS
<1>1. origin \in {"caller", "retry", "recover"}
  BY DEF TypeOK, LocalsOK
<1>2. ControlOK'
  <2>1. CASE origin = "caller"
    BY <2>1 DEF FinishInit, Return, TypeOK, ControlOK
  <2>2. CASE origin = "retry"
    <3>1. Ends
      BY <2>2 DEF FinishInit, Ends, DataSteps
    <3>2. QED
      BY <3>1, ControlType DEF TypeOK
  <2>3. CASE origin = "recover"
    <3>1. Ends
      BY <2>3 DEF FinishInit, Ends, DataSteps
    <3>2. QED
      BY <3>1, ControlType DEF TypeOK
  <2>4. QED
    BY <1>1, <2>1, <2>2, <2>3
<1>3. HardwareOK' /\ LocalsOK' /\ edev' \in Devices
  BY DEF FinishInit, TypeOK, HardwareOK, LocalsOK
<1>4. QED
  BY <1>2, <1>3 DEF TypeOK

(* The status check and the transfer.                                      *)
LEMMA GiveUpType ==
    ASSUME TypeOK, NEW r, r.verdict \in Verdicts, GiveUp(r)
    PROVE  edev' \in Devices /\ Ends
<1>1. Issued(r) \in Devices
  BY IssuedType
<1>2. edev' \in Devices
  BY <1>1 DEF GiveUp, Devices
<1>3. QED
  BY <1>2 DEF GiveUp, Ends

LEMMA CheckStatusType == TypeOK /\ CheckStatus => TypeOK'
<1> SUFFICES ASSUME TypeOK, CheckStatus
             PROVE  TypeOK'
  OBVIOUS
<1>1. PICK r \in Replies("SEND_STATUS") :
          /\ Command("SEND_STATUS", r, 0)
          /\ \/ GiveUp(r) /\ UNCHANGED <<origin, nested>>
             \/ /\ edev' = Issued(r) /\ UNCHANGED <<origin, nested>>
                /\ Proceed("start") \/ Proceed("select") \/ Proceed("stop")
             \/ edev' = Issued(r) /\ Reinitialise("recover")
  BY DEF CheckStatus
<1>2. r.verdict \in Verdicts /\ Issued(r) \in Devices
  BY RepliesType, IssuedType
<1>3. edev' \in Devices
  BY <1>1, <1>2, GiveUpType
<1>4. Ends
  <2>1. CASE GiveUp(r)
    BY <1>2, <2>1, GiveUpType
  <2>2. CASE Proceed("start") \/ Proceed("select") \/ Proceed("stop")
    BY <2>2 DEF Ends, DataSteps
  <2>3. CASE Reinitialise("recover")
    BY <2>3 DEF Reinitialise, Ends, InitSteps
  <2>4. QED
    BY <1>1, <2>1, <2>2, <2>3
<1>5. LocalsOK'
  BY <1>1 DEF CheckStatus, Reinitialise, TypeOK, LocalsOK
<1>6. hostWide' \in BOOLEAN
  BY DEF CheckStatus, TypeOK, HardwareOK
<1>7. QED
  BY <1>1, <1>3, <1>4, <1>5, <1>6, CommandStepType

LEMMA LeaveStateType == TypeOK /\ LeaveState => TypeOK'
<1> SUFFICES ASSUME TypeOK, LeaveState
             PROVE  TypeOK'
  OBVIOUS
<1> DEFINE cmd == IF pc = "select" THEN "SELECT_CARD" ELSE "STOP_TRANSMISSION"
<1>1. PICK r \in Replies(cmd) :
          /\ Command(cmd, r, 0)
          /\ GiveUp(r) \/ (edev' = Issued(r) /\ Proceed("recheck"))
  BY DEF LeaveState
<1>2. r.verdict \in Verdicts /\ Issued(r) \in Devices
  BY RepliesType, IssuedType
<1>3. edev' \in Devices /\ Ends
  BY <1>1, <1>2, GiveUpType DEF Ends, DataSteps
<1>4. LocalsOK'
  BY SameLocals DEF LeaveState
<1>5. hostWide' \in BOOLEAN
  BY DEF LeaveState, TypeOK, HardwareOK
<1>6. QED
  BY <1>1, <1>3, <1>4, <1>5, CommandStepType

LEMMA RecheckType == TypeOK /\ Recheck => TypeOK'
<1> SUFFICES ASSUME TypeOK, Recheck
             PROVE  TypeOK'
  OBVIOUS
<1>1. PICK r \in Replies("SEND_STATUS") :
          /\ Command("SEND_STATUS", r, 0)
          /\ GiveUp(r) \/ (edev' = Issued(r) /\ Proceed("start"))
  BY DEF Recheck
<1>2. r.verdict \in Verdicts /\ Issued(r) \in Devices
  BY RepliesType, IssuedType
<1>3. edev' \in Devices /\ Ends
  BY <1>1, <1>2, GiveUpType DEF Ends, DataSteps
<1>4. LocalsOK'
  BY SameLocals DEF Recheck
<1>5. hostWide' \in BOOLEAN
  BY DEF Recheck, TypeOK, HardwareOK
<1>6. QED
  BY <1>1, <1>3, <1>4, <1>5, CommandStepType

LEMMA StartTransferType == TypeOK /\ StartTransfer => TypeOK'
<1> SUFFICES ASSUME TypeOK, StartTransfer
             PROVE  TypeOK'
  OBVIOUS
<1>1. \E b \in Blocks : edev' = [edev EXCEPT !.blocks_to_transfer = b]
  <2>1. edev.blocks_to_transfer \in Blocks /\ size \in Sizes
    BY DEF TypeOK, Devices, LocalsOK
  <2>2. CASE size = "short"
    BY <2>1, <2>2 DEF StartTransfer
  <2>3. CASE size = "one"
    BY <2>3 DEF StartTransfer, Blocks
  <2>4. CASE size \in {"many", "ragged"}
    BY <2>4 DEF StartTransfer, Blocks
  <2>5. CASE size \in {"huge", "ragged_huge"}
    BY <2>5 DEF StartTransfer, Blocks
  <2>6. QED
    BY <2>1, <2>2, <2>3, <2>4, <2>5 DEF Sizes
<1>2. edev' \in Devices
  BY <1>1 DEF TypeOK, Devices
<1>3. HardwareOK'
  BY DEF StartTransfer, hardware, TypeOK, HardwareOK
<1>4. retry_count' \in 0..3
  BY DEF StartTransfer
<1>5. LocalsOK'
  BY <1>4 DEF StartTransfer, TypeOK, LocalsOK
<1>6. ControlOK'
  BY DEF StartTransfer, Return, Goto, TypeOK, ControlOK, DataSteps
<1>7. QED
  BY <1>2, <1>3, <1>5, <1>6 DEF TypeOK

(* The retry count alone is not inductive: a transfer has tries left.      *)
RetriesLeft == pc = "transfer" => retry_count < MaxRetries

LEMMA TransferType == TypeOK /\ RetriesLeft /\ Transfer => TypeOK' /\ RetriesLeft'
<1> SUFFICES ASSUME TypeOK, RetriesLeft, Transfer
             PROVE  TypeOK' /\ RetriesLeft'
  OBVIOUS
<1>1. PICK r \in Replies(DataCommand) :
          /\ Command(DataCommand, r, 0)
          /\ retry_count' = (IF Failed(r) THEN retry_count + 1 ELSE retry_count)
          /\ \/ edev' = Issued(r) /\ Return("ok") /\ UNCHANGED <<dev, leaked>>
             \/ GiveUp(r)
             \/ Failed(r) /\ retry_count' < MaxRetries /\ edev' = Issued(r) /\ Proceed("transfer")
  BY DEF Transfer
<1>2. r.verdict \in Verdicts /\ Issued(r) \in Devices
  BY RepliesType, IssuedType
<1>3. edev' \in Devices
  BY <1>1, <1>2, GiveUpType
<1>4. Ends
  <2>1. CASE GiveUp(r)
    BY <1>2, <2>1, GiveUpType
  <2>2. CASE Return("ok") /\ UNCHANGED <<dev, leaked>>
    BY <2>2 DEF Ends
  <2>3. CASE Proceed("transfer")
    BY <2>3 DEF Ends, DataSteps
  <2>4. QED
    BY <1>1, <2>1, <2>2, <2>3
<1>5. retry_count \in 0..3 /\ retry_count < 3
  BY DEF TypeOK, LocalsOK, RetriesLeft, MaxRetries, Transfer
<1>6. retry_count' \in 0..3
  BY <1>1, <1>5
<1>7. LocalsOK'
  BY <1>6 DEF Transfer, TypeOK, LocalsOK
<1>8. hostWide' \in BOOLEAN
  BY DEF Transfer, TypeOK, HardwareOK
<1>9. RetriesLeft'
  BY <1>1 DEF RetriesLeft, GiveUp, Return
<1>10. QED
  BY <1>1, <1>3, <1>4, <1>7, <1>8, <1>9, CommandStepType

(* The callers and the slot.                                               *)
LEMMA CallersType ==
    ASSUME TypeOK,
           CallInit \/ Transfers \/ CallCleanup \/ UseBadPointer \/ Undefined
    PROVE  TypeOK'
<1>1. HardwareOK' /\ edev' \in Devices
  BY DEF CallInit, Transfers, CallTransfer, CallCleanup, UseBadPointer, Undefined, vars,
         hardware, TypeOK, HardwareOK
<1>2. ControlOK'
  BY DEF CallInit, Transfers, CallTransfer, CallCleanup, UseBadPointer, Undefined, vars,
         TypeOK, ControlOK, InitSteps, DataSteps
<1>3. LocalsOK'
  <2>1. CASE CallInit
    BY <2>1 DEF CallInit, TypeOK, LocalsOK
  <2>2. ASSUME NEW o \in {"read", "write"}, NEW s \in Requests, CallTransfer(o, s)
        PROVE  LocalsOK'
    BY <2>2, DriverAssumption DEF CallTransfer, TypeOK, LocalsOK
  <2>3. CASE CallCleanup \/ UseBadPointer \/ Undefined
    BY <2>3, SameLocals DEF CallCleanup, UseBadPointer, Undefined, vars
  <2>4. QED
    BY <2>1, <2>2, <2>3 DEF Transfers
<1>4. QED
  BY <1>1, <1>2, <1>3 DEF TypeOK

LEMMA SlotType ==
    ASSUME TypeOK, RemoveCard \/ (\E k \in CardKinds : InsertCard(k))
    PROVE  TypeOK'
<1>1. CASE RemoveCard
  <2>1. swaps \in 0..MaxSwaps /\ MaxSwaps \in Nat
    BY DriverAssumption DEF TypeOK, HardwareOK
  <2>2. swaps' \in 0..MaxSwaps
    BY <1>1, <2>1 DEF RemoveCard
  <2>3. HardwareOK'
    BY <1>1, <2>2 DEF RemoveCard, TypeOK, HardwareOK
  <2>4. ControlOK' /\ LocalsOK' /\ edev' \in Devices
    BY <1>1, SameLocals DEF RemoveCard, TypeOK, ControlOK
  <2>5. QED
    BY <2>3, <2>4 DEF TypeOK
<1>2. ASSUME NEW k \in CardKinds, InsertCard(k)
      PROVE  TypeOK'
  <2>1. PoweredOn(k) \in Cards
    BY DriverAssumption DEF PoweredOn, Cards, States
  <2>2. HardwareOK'
    BY <1>2, <2>1 DEF InsertCard, TypeOK, HardwareOK
  <2>3. swapped' \in BOOLEAN
    BY <1>2 DEF InsertCard, TypeOK, ControlOK
  <2>4. ControlOK'
    BY <1>2, <2>3 DEF InsertCard, TypeOK, ControlOK
  <2>5. LocalsOK' /\ edev' \in Devices
    BY <1>2, SameLocals DEF InsertCard, TypeOK
  <2>6. QED
    BY <2>2, <2>4, <2>5 DEF TypeOK
<1>3. QED
  BY <1>1, <1>2

TypeInv == TypeOK /\ RetriesLeft

(* Only StartTransfer and Transfer lead to the data command.               *)
LEMMA ElsewhereRetries ==
    ASSUME TypeInv, Next, ~StartTransfer, ~Transfer
    PROVE  RetriesLeft'
<1>1. CASE ResetController \/ Prepare \/ GoIdle \/ SendIfCond \/ IoSetOpCond \/ InquireOcr
  BY <1>1 DEF ResetController, Prepare, GoIdle, SendIfCond, IoSetOpCond, InquireOcr,
              EarlyReturn, Proceed, Goto, Return, RetriesLeft
<1>2. CASE NegotiateOcr \/ SwitchVoltage \/ AllSendCid
  BY <1>2 DEF NegotiateOcr, SwitchVoltage, AllSendCid,
              EarlyReturn, Proceed, Goto, Return, RetriesLeft
<1>3. CASE SendRelativeAddr \/ SelectCard \/ SetBlocklen \/ SendScr \/ SetBusWidth \/ FinishInit
  BY <1>3 DEF SendRelativeAddr, SelectCard, SetBlocklen, SendScr, SetBusWidth, FinishInit,
              FreeReturn, Proceed, Goto, Return, RetriesLeft, TypeInv, TypeOK, LocalsOK
<1>4. CASE CheckStatus \/ LeaveState \/ Recheck
  BY <1>4 DEF CheckStatus, LeaveState, Recheck, Reinitialise, GiveUp, Proceed, Goto, Return,
              RetriesLeft
<1>5. CASE CallInit \/ Transfers \/ CallCleanup \/ UseBadPointer \/ Undefined
  BY <1>5 DEF CallInit, Transfers, CallTransfer, CallCleanup, UseBadPointer, Undefined, vars,
              RetriesLeft
<1>6. CASE RemoveCard \/ (\E k \in CardKinds : InsertCard(k))
  BY <1>6 DEF RemoveCard, InsertCard, locals, TypeInv, RetriesLeft
<1>7. QED
  BY <1>1, <1>2, <1>3, <1>4, <1>5, <1>6 DEF Next, Driver

LEMMA TypeInvInductive == TypeInv /\ [Next]_vars => TypeInv'
<1> SUFFICES ASSUME TypeInv, [Next]_vars
             PROVE  TypeInv'
  OBVIOUS
<1>1. CASE UNCHANGED vars
  BY <1>1 DEF TypeInv, TypeOK, HardwareOK, ControlOK, LocalsOK, RetriesLeft,
                           vars, hardware, locals
<1>2. CASE StartTransfer
  <2>1. RetriesLeft'
    BY <1>2 DEF StartTransfer, RetriesLeft, MaxRetries
  <2>2. QED
    BY <1>2, <2>1, StartTransferType DEF TypeInv
<1>3. CASE Transfer
  BY <1>3, TransferType DEF TypeInv
<1>4. CASE Next /\ ~StartTransfer /\ ~Transfer
  <2>1. RetriesLeft'
    BY <1>4, ElsewhereRetries
  <2>2. TypeOK'
    BY <1>4, ResetControllerType, PrepareType, GoIdleType, SendIfCondType, IoSetOpCondType,
       InquireOcrType, NegotiateOcrType, SwitchVoltageType, AllSendCidType,
       SendRelativeAddrType, SelectCardType, SetBlocklenType, SendScrType, SetBusWidthType,
       FinishInitType, CheckStatusType, LeaveStateType, RecheckType, CallersType, SlotType
       DEF TypeInv, Next, Driver
  <2>3. QED
    BY <2>1, <2>2 DEF TypeInv
<1>5. QED
  BY <1>1, <1>2, <1>3, <1>4

(* In every behaviour of the driver every variable has its type; a data    *)
(* command is sent at most three times (sd_do_data_command), because one   *)
(* that is about to be sent has tries left.                                *)
THEOREM TypeCorrect == Spec => []TypeOK
<1>1. Init => TypeInv
  BY InitType DEF TypeInv, RetriesLeft, Init
<1>2. TypeInv /\ [Next]_vars => TypeInv'
  BY TypeInvInductive
<1>3. TypeInv => TypeOK
  BY DEF TypeInv
<1>4. QED
  BY <1>1, <1>2, <1>3, PTL DEF Spec

-----------------------------------------------------------------------------
(* A transfer starts on a card in the transfer state.                      *)

(* A status command that succeeds leaves the card as it is, in the slot.   *)
LEMMA StatusReply ==
    ASSUME NEW r \in Replies("SEND_STATUS"), ~Failed(r)
    PROVE  r.card = card /\ present /\ ~removal
<1>1. Executed(card, "SEND_STATUS") = card
  BY DEF Executed
<1>2. QED
  BY <1>1 DEF Replies, Outcome, Failed

(* The steps that do not lead to the data command.                         *)
LEMMA ElsewhereStart ==
    ASSUME TypeOK, Next, ~StartTransfer, ~Transfer, ~CheckStatus, ~Recheck,
           ~RemoveCard, ~\E k \in CardKinds : InsertCard(k)
    PROVE  pc' \notin {"start", "transfer"}
<1>1. CASE ResetController \/ Prepare \/ GoIdle \/ SendIfCond \/ IoSetOpCond \/ InquireOcr
  BY <1>1 DEF ResetController, Prepare, GoIdle, SendIfCond, IoSetOpCond, InquireOcr,
              EarlyReturn, Proceed, Goto, Return
<1>2. CASE NegotiateOcr \/ SwitchVoltage \/ AllSendCid
  BY <1>2 DEF NegotiateOcr, SwitchVoltage, AllSendCid, EarlyReturn, Proceed, Goto, Return
<1>3. CASE SendRelativeAddr \/ SelectCard \/ SetBlocklen \/ SendScr \/ SetBusWidth \/ FinishInit
  BY <1>3 DEF SendRelativeAddr, SelectCard, SetBlocklen, SendScr, SetBusWidth, FinishInit,
              FreeReturn, Proceed, Goto, Return, TypeOK, LocalsOK
<1>4. CASE LeaveState
  BY <1>4 DEF LeaveState, GiveUp, Proceed, Goto, Return
<1>5. CASE CallInit \/ Transfers \/ CallCleanup \/ UseBadPointer \/ Undefined
  BY <1>5 DEF CallInit, Transfers, CallTransfer, CallCleanup, UseBadPointer, Undefined, vars
<1>6. QED
  BY <1>1, <1>2, <1>3, <1>4, <1>5 DEF Next, Driver

LEMMA TransferStateFirstStep ==
    TypeOK /\ TransferStateFirst /\ [Next]_vars => TransferStateFirst'
<1> SUFFICES ASSUME TypeOK, TransferStateFirst, [Next]_vars
             PROVE  TransferStateFirst'
  OBVIOUS
<1>1. CASE UNCHANGED vars
  BY <1>1 DEF TransferStateFirst, vars, hardware, locals
<1>2. CASE CheckStatus
  <2>1. PICK r \in Replies("SEND_STATUS") :
            /\ Command("SEND_STATUS", r, 0)
            /\ pc' = "start" => ~Failed(r) /\ card.state = "tran"
            /\ pc' # "transfer"
    BY <1>2 DEF CheckStatus, GiveUp, Reinitialise, Proceed, Goto, Return
  <2>2. QED
    BY <2>1, StatusReply DEF Command, TransferStateFirst
<1>3. CASE Recheck
  <2>1. PICK r \in Replies("SEND_STATUS") :
            /\ Command("SEND_STATUS", r, 0)
            /\ pc' = "start" => ~Failed(r) /\ card.state = "tran"
            /\ pc' # "transfer"
    BY <1>3 DEF Recheck, GiveUp, Proceed, Goto, Return
  <2>2. QED
    BY <2>1, StatusReply DEF Command, TransferStateFirst
<1>4. CASE StartTransfer
  BY <1>4 DEF StartTransfer, Goto, Return, hardware, TransferStateFirst
<1>5. CASE Transfer
  <2>1. retry_count \in 0..3
    BY DEF TypeOK, LocalsOK
  <2>2. pc' = "rest" \/ retry_count' = retry_count + 1
    BY <1>5 DEF Transfer, Return, GiveUp
  <2>3. pc' \in {"rest", "transfer"}
    BY <1>5 DEF Transfer, Return, GiveUp, Proceed, Goto
  <2>4. QED
    BY <2>1, <2>2, <2>3 DEF TransferStateFirst
<1>6. CASE RemoveCard
  BY <1>6 DEF RemoveCard, TransferStateFirst
<1>7. ASSUME NEW k \in CardKinds, InsertCard(k)
      PROVE  TransferStateFirst'
  BY <1>7 DEF InsertCard, locals, TransferStateFirst
<1>8. CASE pc' \notin {"start", "transfer"}
  BY <1>8 DEF TransferStateFirst
<1>9. QED
  BY <1>1, <1>2, <1>3, <1>4, <1>5, <1>6, <1>7, <1>8, ElsewhereStart

(* Whatever faults and swaps the driver meets, sd_do_data_command first    *)
(* sends its command to a card whose status sd_ensure_data_mode has just   *)
(* seen to be the transfer state, or with a removal pending that fails it. *)
THEOREM TransferStateFirstCorrect == Spec => []TransferStateFirst
<1>1. Init => TransferStateFirst
  BY DEF Init, TransferStateFirst
<1>2. TypeOK /\ TransferStateFirst /\ [Next]_vars => TransferStateFirst'
  BY TransferStateFirstStep
<1>3. QED
  BY <1>1, <1>2, TypeCorrect, PTL DEF Spec

-----------------------------------------------------------------------------
(* Both ends of the bus agree on its width.                                *)

(* From the power cycle to ACMD6 the host drives one line; when it drives  *)
(* four, the card was told so, or is one that was never initialised.       *)
WidthInv ==
    /\ pc \in InitSteps \ {"reset", "finish"} => ~hostWide
    /\ hostWide => card.wide \/ card.state = "idle"

(* The commands sent to an initialised card keep its width; an idle card   *)
(* executes none of them.                                                  *)
LEMMA WidthKept ==
    ASSUME TypeOK, card.wide \/ card.state = "idle",
           NEW cmd \in {"SEND_STATUS", "SELECT_CARD", "STOP_TRANSMISSION"} \cup Reads \cup Writes,
           NEW r \in Replies(cmd)
    PROVE  r.card.wide \/ r.card.state = "idle"
<1>1. card \in Cards
  BY DEF TypeOK, HardwareOK
<1>2. r.card = card \/ (r.card = Executed(card, cmd) /\ Accepts(card, cmd))
  BY DEF Replies, Outcome, Reads, Writes
<1>3. Accepts(card, cmd) => card.state # "idle"
  BY DEF Accepts, LegalIn, Reads, Writes
<1>4. card.wide => Executed(card, cmd).wide
  BY <1>1 DEF Executed, Cards, Reads, Writes
<1>5. QED
  BY <1>2, <1>3, <1>4

LEMMA WidthInvStep == TypeOK /\ WidthInv /\ [Next]_vars => WidthInv'
<1> SUFFICES ASSUME TypeOK, WidthInv, [Next]_vars
             PROVE  WidthInv'
  OBVIOUS
<1>1. CASE UNCHANGED vars
  BY <1>1 DEF WidthInv, vars, hardware
<1>2. CASE ResetController
  <2>1. PICK fault \in {"none", "power", "reset", "clock"} :
            /\ card' = (IF fault = "power" THEN card ELSE PoweredOn(card.kind))
            /\ hostWide' = (hostWide /\ fault = "reset")
            /\ IF present /\ fault \in {"none", "power"} THEN Proceed("prepare")
               ELSE IF nested THEN EarlyReturn
               ELSE Return("fail") /\ UNCHANGED <<dev, leaked>>
    BY <1>2 DEF ResetController
  <2>2. hostWide' => card'.state = "idle" /\ pc' = "rest"
    BY <2>1 DEF PoweredOn, EarlyReturn, Return
  <2>3. QED
    BY <2>2 DEF WidthInv, InitSteps
<1>3. CASE /\ UNCHANGED hostWide
           /\ \/ Prepare \/ GoIdle \/ SendIfCond \/ IoSetOpCond \/ InquireOcr \/ NegotiateOcr
              \/ SwitchVoltage \/ AllSendCid \/ SendRelativeAddr \/ SelectCard
              \/ SetBlocklen \/ SendScr
  <2>1. pc \in InitSteps \ {"reset", "finish"}
    BY <1>3 DEF Prepare, GoIdle, SendIfCond, IoSetOpCond, InquireOcr, NegotiateOcr,
                SwitchVoltage, AllSendCid, SendRelativeAddr, SelectCard, SetBlocklen, SendScr,
                InitSteps
  <2>2. QED
    BY <1>3, <2>1 DEF WidthInv
<1>4. CASE SetBusWidth
  <2>1. PICK r \in Replies("SET_BUS_WIDTH") :
            /\ Command("SET_BUS_WIDTH", r, 0)
            /\ hostWide' = (hostWide \/ ~Failed(r))
            /\ Proceed("finish")
    BY <1>4 DEF SetBusWidth
  <2>2. ~hostWide
    BY <1>4 DEF SetBusWidth, WidthInv, InitSteps
  <2>3. ~Failed(r) => r.card = Executed(card, "SET_BUS_WIDTH")
    BY DEF Replies, Outcome, Failed, DataCommands, Reads, Writes
  <2>4. card \in Cards
    BY DEF TypeOK, HardwareOK
  <2>5. Executed(card, "SET_BUS_WIDTH").wide
    BY <2>4 DEF Executed, Cards
  <2>6. hostWide' => card'.wide
    BY <2>1, <2>2, <2>3, <2>5 DEF Command
  <2>7. pc' = "finish"
    BY <2>1 DEF Proceed, Goto
  <2>8. QED
    BY <2>6, <2>7 DEF WidthInv
<1>5. CASE FinishInit \/ StartTransfer \/ CallInit \/ Transfers \/ CallCleanup
           \/ UseBadPointer \/ Undefined
  <2>1. UNCHANGED <<card, hostWide>>
    BY <1>5 DEF FinishInit, StartTransfer, CallInit, Transfers, CallTransfer, CallCleanup,
                UseBadPointer, Undefined, vars, hardware
  <2>2. pc' \in InitSteps \ {"reset", "finish"} => pc' = pc
    <3>1. CASE FinishInit
      BY <3>1 DEF FinishInit, Proceed, Goto, Return, InitSteps, TypeOK, LocalsOK
    <3>2. CASE StartTransfer
      BY <3>2 DEF StartTransfer, Goto, Return, InitSteps
    <3>3. CASE CallInit \/ Transfers \/ CallCleanup \/ UseBadPointer \/ Undefined
      BY <3>3 DEF CallInit, Transfers, CallTransfer, CallCleanup, UseBadPointer, Undefined,
                  vars, InitSteps
    <3>4. QED
      BY <1>5, <3>1, <3>2, <3>3
  <2>3. QED
    BY <2>1, <2>2 DEF WidthInv
<1>6. CASE CheckStatus \/ LeaveState \/ Recheck \/ Transfer
  <2>1. pc' \notin InitSteps \ {"reset", "finish"}
    BY <1>6 DEF CheckStatus, LeaveState, Recheck, Transfer, GiveUp, Reinitialise, Proceed,
                Goto, Return, InitSteps
  <2>2. UNCHANGED hostWide
    BY <1>6 DEF CheckStatus, LeaveState, Recheck, Transfer
  <2>3. PICK cmd \in {"SEND_STATUS", "SELECT_CARD", "STOP_TRANSMISSION"} \cup Reads \cup Writes :
            \E r \in Replies(cmd) : card' = r.card
    BY <1>6 DEF CheckStatus, LeaveState, Recheck, Transfer, Command, DataCommand, Reads, Writes
  <2>4. QED
    BY <2>1, <2>2, <2>3, WidthKept DEF WidthInv
<1>7. CASE RemoveCard
  BY <1>7 DEF RemoveCard, WidthInv
<1>8. ASSUME NEW k \in CardKinds, InsertCard(k)
      PROVE  WidthInv'
  BY <1>8 DEF InsertCard, PoweredOn, WidthInv
<1>9. UNCHANGED hostWide \/ ResetController \/ SetBusWidth
  BY DEF Next, Driver, Prepare, GoIdle, SendIfCond, IoSetOpCond, InquireOcr, NegotiateOcr,
         SwitchVoltage, AllSendCid, SendRelativeAddr, SelectCard, SetBlocklen, SendScr,
         FinishInit, CheckStatus, LeaveState, Recheck, StartTransfer, Transfer, CallInit,
         Transfers, CallTransfer, CallCleanup, UseBadPointer, Undefined, RemoveCard,
         InsertCard, vars, hardware
<1>10. QED
  BY <1>1, <1>2, <1>3, <1>4, <1>5, <1>6, <1>7, <1>8, <1>9 DEF Next, Driver

(* Whatever ACMD6 comes to, and whatever swap goes unnoticed, a transfer   *)
(* starts with four data lines only if the card was told to use four:      *)
(* sd_card_init sets HCTL_DWITDH after the answer, and a card that lost    *)
(* its width lost its address with it.                                     *)
THEOREM WidthNegotiatedCorrect == Spec => []WidthNegotiated
<1>1. Init => WidthInv
  BY DEF Init, WidthInv
<1>2. TypeOK /\ WidthInv /\ [Next]_vars => WidthInv'
  BY WidthInvStep
<1>3. WidthInv /\ TransferStateFirst => WidthNegotiated
  BY DEF WidthInv, TransferStateFirst, WidthNegotiated
<1>4. QED
  BY <1>1, <1>2, <1>3, TypeCorrect, TransferStateFirstCorrect, PTL DEF Spec

-----------------------------------------------------------------------------
(* A device with an address is complete.                                   *)

(* Where sd_card_init stands tells which fields it has filled in; outside  *)
(* it, the address vouches for the other two.                              *)
PartsInv ==
    /\ (pc \in DataSteps \cup {"rest", "reset", "prepare"} /\ dev = "live" /\ edev.card_rca)
           => edev.device_id /\ edev.scr
    /\ pc \in {"cmd0", "cmd8", "cmd5", "inquiry", "acmd41", "cmd11", "cmd2", "cmd3"}
           => ~edev.card_rca
    /\ pc \in {"cmd3", "cmd7", "cmd16", "scr", "acmd6", "finish"} => edev.device_id
    /\ pc \in {"acmd6", "finish"} => edev.scr

(* The commands before CMD2.                                               *)
LEMMA EarlyParts ==
    ASSUME TypeOK, PartsInv,
           GoIdle \/ SendIfCond \/ IoSetOpCond \/ InquireOcr \/ NegotiateOcr \/ SwitchVoltage
    PROVE  PartsInv'
<1>1. ~edev.card_rca
  BY DEF PartsInv, GoIdle, SendIfCond, IoSetOpCond, InquireOcr, NegotiateOcr, SwitchVoltage
<1>2. \E cmd : \E r \in Replies(cmd) :
          \/ edev' = Issued(r)
          \/ \E b \in BOOLEAN : edev' = [Issued(r) EXCEPT !.card_supports_sdhc = b]
          \/ edev' = [Issued(r) EXCEPT !.failed_voltage_switch = TRUE]
  <2>1. CASE GoIdle \/ SendIfCond \/ IoSetOpCond \/ InquireOcr
    BY <2>1 DEF GoIdle, SendIfCond, IoSetOpCond, InquireOcr
  <2>2. CASE SwitchVoltage
    BY <2>2 DEF SwitchVoltage
  <2>3. CASE NegotiateOcr
    <3>1. PICK r \in Replies("SD_SEND_OP_COND"), wait \in {0, 1} :
              edev' = [Issued(r) EXCEPT !.card_supports_sdhc =
                          IF Failed(r) \/ wait = 1 THEN @ ELSE v2_later /\ card.kind.sdhc]
      BY <2>3 DEF NegotiateOcr
    <3>2. Issued(r) \in Devices
      BY RepliesType, IssuedType
    <3>3. (v2_later /\ card.kind.sdhc) \in BOOLEAN /\ Issued(r).card_supports_sdhc \in BOOLEAN
      BY <3>2 DEF Devices
    <3>4. \E b \in BOOLEAN : edev' = [Issued(r) EXCEPT !.card_supports_sdhc = b]
      BY <3>1, <3>3
    <3>5. QED
      BY <3>4
  <2>4. QED
    BY <2>1, <2>2, <2>3
<1>3. ~edev'.card_rca
  BY <1>1, <1>2, RepliesType, IssuedType DEF Devices
<1>4. pc' \in {"rest", "cmd8", "cmd5", "inquiry", "acmd41", "cmd11", "cmd2", "reset"}
  BY DEF GoIdle, SendIfCond, IoSetOpCond, InquireOcr, NegotiateOcr, SwitchVoltage,
         EarlyReturn, Proceed, Goto, Return
<1>5. QED
  BY <1>3, <1>4 DEF PartsInv

(* CMD2 and CMD3 fill in the identification and the address.               *)
LEMMA IdentityParts ==
    ASSUME TypeOK, PartsInv, AllSendCid \/ SendRelativeAddr
    PROVE  PartsInv'
<1>1. CASE AllSendCid
  <2>1. PICK r \in Replies("ALL_SEND_CID") :
            /\ edev' = [Issued(r) EXCEPT !.device_id = ~Failed(r)]
            /\ IF Failed(r) THEN pc' = "rest" ELSE pc' = "cmd3"
    BY <1>1 DEF AllSendCid, EarlyReturn, Proceed, Goto, Return
  <2>2. Issued(r) \in Devices /\ Issued(r).card_rca = edev.card_rca
    BY RepliesType, IssuedType
  <2>3. ~edev.card_rca
    BY <1>1 DEF PartsInv, AllSendCid
  <2>4. ~edev'.card_rca /\ edev'.device_id = ~Failed(r)
    BY <2>1, <2>2, <2>3 DEF Devices
  <2>5. QED
    BY <2>1, <2>4 DEF PartsInv, DataSteps
<1>2. CASE SendRelativeAddr
  <2>1. PICK r \in Replies("SEND_RELATIVE_ADDR") :
            /\ edev' = [Issued(r) EXCEPT !.card_rca = ~Failed(r)]
            /\ \/ pc' = "rest" /\ dev' # "live"
               \/ pc' = "cmd7"
    BY <1>2 DEF SendRelativeAddr, FreeReturn, Proceed, Goto, Return
  <2>2. Issued(r) \in Devices /\ Issued(r).device_id = edev.device_id
    BY RepliesType, IssuedType
  <2>3. edev.device_id
    BY <1>2 DEF PartsInv, SendRelativeAddr
  <2>4. edev'.device_id
    BY <2>1, <2>2, <2>3 DEF Devices
  <2>5. QED
    BY <2>1, <2>4 DEF PartsInv, DataSteps
<1>3. QED
  BY <1>1, <1>2

(* CMD7 to ACMD6: a failure frees the structure.                           *)
LEMMA SelectedParts ==
    ASSUME TypeOK, PartsInv, SelectCard \/ SetBlocklen \/ SendScr \/ SetBusWidth
    PROVE  PartsInv'
<1>1. CASE SelectCard \/ SetBlocklen
  <2>1. PICK cmd \in {"SELECT_CARD", "SET_BLOCKLEN"} :
            \E r \in Replies(cmd) : edev' = Issued(r)
    BY <1>1 DEF SelectCard, SetBlocklen
  <2>2. edev.device_id
    BY <1>1 DEF PartsInv, SelectCard, SetBlocklen
  <2>3. edev'.device_id
    BY <2>1, <2>2, RepliesType, IssuedType
  <2>4. (pc' = "rest" /\ dev' # "live") \/ pc' \in {"scr", "cmd16"}
    BY <1>1 DEF SelectCard, SetBlocklen, FreeReturn, Proceed, Goto, Return
  <2>5. QED
    BY <2>3, <2>4 DEF PartsInv, DataSteps
<1>2. CASE SendScr
  <2>1. PICK r \in Replies("SEND_SCR") :
            /\ edev' = [Issued(r) EXCEPT !.scr = ~Failed(r), !.blocks_to_transfer = "one"]
            /\ \/ pc' = "rest" /\ dev' # "live"
               \/ ~Failed(r) /\ pc' \in {"acmd6", "finish"}
    BY <1>2 DEF SendScr, FreeReturn, Proceed, Goto, Return
  <2>2. Issued(r) \in Devices /\ Issued(r).device_id = edev.device_id
    BY RepliesType, IssuedType
  <2>3. edev.device_id
    BY <1>2 DEF PartsInv, SendScr
  <2>4. edev'.device_id /\ edev'.scr = ~Failed(r)
    BY <2>1, <2>2, <2>3 DEF Devices
  <2>5. QED
    BY <2>1, <2>4 DEF PartsInv, DataSteps
<1>3. CASE SetBusWidth
  <2>1. PICK r \in Replies("SET_BUS_WIDTH") : edev' = Issued(r)
    BY <1>3 DEF SetBusWidth
  <2>2. edev.device_id /\ edev.scr
    BY <1>3 DEF PartsInv, SetBusWidth
  <2>3. edev'.device_id /\ edev'.scr
    BY <2>1, <2>2, RepliesType, IssuedType
  <2>4. pc' = "finish"
    BY <1>3 DEF SetBusWidth, Proceed, Goto
  <2>5. QED
    BY <2>3, <2>4 DEF PartsInv, DataSteps
<1>4. QED
  BY <1>1, <1>2, <1>3

(* sd_ensure_data_mode and sd_do_data_command only ever clear the address. *)
LEMMA DataParts ==
    ASSUME TypeOK, PartsInv, CheckStatus \/ LeaveState \/ Recheck \/ Transfer
    PROVE  PartsInv'
<1>1. pc \in DataSteps
  BY DEF CheckStatus, LeaveState, Recheck, Transfer, DataSteps
<1>2. pc' \in DataSteps \cup {"rest", "reset"} /\ UNCHANGED dev
  BY DEF CheckStatus, LeaveState, Recheck, Transfer, GiveUp, Reinitialise, Proceed, Goto,
         Return, DataSteps
<1>3. PICK cmd : \E r \in Replies(cmd) :
          edev' = Issued(r) \/ edev' = [Issued(r) EXCEPT !.card_rca = FALSE]
  BY DEF CheckStatus, LeaveState, Recheck, Transfer, GiveUp
<1>4. PICK r \in Replies(cmd) :
          edev' = Issued(r) \/ edev' = [Issued(r) EXCEPT !.card_rca = FALSE]
  BY <1>3
<1>5. /\ Issued(r) \in Devices /\ Issued(r).card_rca = edev.card_rca
      /\ Issued(r).device_id = edev.device_id /\ Issued(r).scr = edev.scr
  BY RepliesType, IssuedType
<1>6. edev'.card_rca
          => edev.card_rca /\ edev'.device_id = edev.device_id /\ edev'.scr = edev.scr
  BY <1>4, <1>5 DEF Devices
<1>7. QED
  BY <1>1, <1>2, <1>6 DEF PartsInv, DataSteps

LEMMA PartsInvStep == TypeOK /\ PartsInv /\ [Next]_vars => PartsInv'
<1> SUFFICES ASSUME TypeOK, PartsInv, [Next]_vars
             PROVE  PartsInv'
  OBVIOUS
<1>1. CASE UNCHANGED vars
  BY <1>1 DEF PartsInv, vars
<1>2. CASE ResetController
  <2>1. pc = "reset" /\ pc' \in {"prepare", "rest"} /\ UNCHANGED <<edev, dev>>
    BY <1>2 DEF ResetController, EarlyReturn, Proceed, Goto, Return
  <2>2. QED
    BY <2>1 DEF PartsInv, DataSteps
<1>3. CASE Prepare
  BY <1>3 DEF Prepare, Goto, Zeroed, PartsInv, DataSteps
<1>4. CASE FinishInit
  <2>1. pc = "finish" /\ pc' \in {"rest", "status", "recheck"} /\ UNCHANGED edev
    BY <1>4 DEF FinishInit, Proceed, Goto, Return, TypeOK, LocalsOK
  <2>2. QED
    BY <2>1 DEF PartsInv, DataSteps
<1>5. CASE StartTransfer
  <2>1. pc = "start" /\ pc' \in {"rest", "transfer"} /\ UNCHANGED dev
    BY <1>5 DEF StartTransfer, Goto, Return
  <2>2. edev \in Devices
    BY DEF TypeOK
  <2>3. /\ edev'.card_rca = edev.card_rca
        /\ edev'.device_id = edev.device_id /\ edev'.scr = edev.scr
    BY <1>5, <2>2 DEF StartTransfer, Devices
  <2>4. QED
    BY <2>1, <2>3 DEF PartsInv, DataSteps
<1>6. CASE CallInit \/ Transfers \/ CallCleanup \/ UseBadPointer \/ Undefined
  BY <1>6 DEF CallInit, Transfers, CallTransfer, CallCleanup, UseBadPointer, Undefined, vars,
              PartsInv, DataSteps
<1>7. CASE RemoveCard \/ (\E k \in CardKinds : InsertCard(k))
  BY <1>7 DEF RemoveCard, InsertCard, PartsInv
<1>8. QED
  BY <1>1, <1>2, <1>3, <1>4, <1>5, <1>6, <1>7, EarlyParts, IdentityParts, SelectedParts,
     DataParts DEF Next, Driver

(* After any sequence of calls, faults and swaps, a device whose card_rca  *)
(* is set has the device_id and the scr that sd_card_cleanup frees.        *)
THEOREM ReadyIsCompleteCorrect == Spec => []ReadyIsComplete
<1>1. Init => PartsInv
  BY DEF Init, Zeroed, PartsInv, DataSteps
<1>2. TypeOK /\ PartsInv /\ [Next]_vars => PartsInv'
  BY PartsInvStep
<1>3. PartsInv => ReadyIsComplete
  BY DEF PartsInv, ReadyIsComplete
<1>4. QED
  BY <1>1, <1>2, <1>3, TypeCorrect, PTL DEF Spec

-----------------------------------------------------------------------------
(* A swap is noticed.                                                      *)

(* From the swap to the failed call that tells of it, a removal is pending *)
(* or recorded, or the new card is one that was never initialised: the     *)
(* latter when the old card went just before sd_card_init cleared the      *)
(* interrupts.  No initialisation comes in between, as only a failed call  *)
(* forgets the address.                                                    *)
SwapInv ==
    /\ swapped => /\ pc \notin InitSteps /\ dev = "live" /\ edev.card_rca
                  /\ removal \/ edev.card_removal \/ card.state = "idle"
    /\ pc \in InitSteps \cup DataSteps => result = "none"

(* Until then no command succeeds.                                         *)
LEMMA SwappedReply ==
    ASSUME TypeOK, removal \/ edev.card_removal \/ card.state = "idle",
           NEW cmd \in {"SEND_STATUS", "SELECT_CARD", "STOP_TRANSMISSION"} \cup Reads \cup Writes,
           NEW r \in Replies(cmd)
    PROVE  /\ Failed(r) /\ r.card = card
           /\ Issued(r).card_removal \/ r.card.state = "idle"
           /\ Issued(r).card_rca = edev.card_rca
<1>1. CASE removal \/ edev.card_removal
  <2>1. r = Outcome("removed", card, 0)
    BY <1>1 DEF Replies
  <2>2. QED
    BY <1>1, <2>1 DEF Outcome, Failed, Issued, TypeOK, Devices
<1>2. CASE ~(removal \/ edev.card_removal)
  <2>1. ~Accepts(card, cmd)
    BY <1>2 DEF Accepts, LegalIn, Reads, Writes
  <2>2. r \in {Outcome("refused", card, 0), Outcome("cmd_timeout", card, 0),
               Outcome("timeout", card, 0)}
    BY <1>2, <2>1 DEF Replies, Reads, Writes
  <2>3. QED
    BY <1>2, <2>2 DEF Outcome, Failed, Issued, TypeOK, Devices
<1>3. QED
  BY <1>1, <1>2

(* A step returns from the call or goes on with it.                        *)
Moves == (\E res : Return(res)) \/ (\E step : Goto(step))

LEMMA MovesFacts ==
    /\ \A res : Return(res) => Moves
    /\ \A step : Goto(step) => Moves
    /\ EarlyReturn => Moves
    /\ \A lost : FreeReturn(lost) => Moves
    /\ \A step : Proceed(step) => Moves
<1>1. (\A res : Return(res) => Moves) /\ (\A step : Goto(step) => Moves)
  BY DEF Moves
<1>2. QED
  BY <1>1 DEF EarlyReturn, FreeReturn, Proceed

(* Without a swap, either way keeps the invariant.                         *)
LEMMA SwapFree ==
    ASSUME TypeOK, ~swapped, result = "none", Moves
    PROVE  SwapInv' /\ ~swapped'
<1>1. CASE \E res : Return(res)
  <2>1. PICK res : Return(res)
    BY <1>1
  <2>2. swapped = FALSE
    BY DEF TypeOK, ControlOK
  <2>3. pc' = "rest" /\ swapped' = FALSE
    BY <2>1, <2>2 DEF Return
  <2>4. QED
    BY <2>3 DEF SwapInv, InitSteps, DataSteps
<1>2. CASE \E step : Goto(step)
  <2>1. PICK step : Goto(step)
    BY <1>2
  <2>2. result' = "none" /\ swapped' = swapped
    BY <2>1 DEF Goto
  <2>3. QED
    BY <2>2 DEF SwapInv
<1>3. QED
  BY <1>1, <1>2 DEF Moves

(* The initialisation has no swap to tell of.                              *)
LEMMA SwapInitSteps ==
    ASSUME TypeOK, SwapInv,
           \/ ResetController \/ Prepare \/ GoIdle \/ SendIfCond \/ IoSetOpCond \/ InquireOcr
           \/ NegotiateOcr \/ SwitchVoltage \/ AllSendCid \/ SendRelativeAddr \/ SelectCard
           \/ SetBlocklen \/ SendScr \/ SetBusWidth \/ FinishInit
    PROVE  SwapInv'
<1>1. ASSUME ResetController PROVE pc \in InitSteps /\ Moves
  BY <1>1, MovesFacts DEF ResetController, InitSteps
<1>2. ASSUME Prepare PROVE pc \in InitSteps /\ Moves
  BY <1>2, MovesFacts DEF Prepare, InitSteps
<1>3. ASSUME GoIdle PROVE pc \in InitSteps /\ Moves
  BY <1>3, MovesFacts DEF GoIdle, InitSteps
<1>4. ASSUME SendIfCond PROVE pc \in InitSteps /\ Moves
  BY <1>4, MovesFacts DEF SendIfCond, InitSteps
<1>5. ASSUME IoSetOpCond PROVE pc \in InitSteps /\ Moves
  BY <1>5, MovesFacts DEF IoSetOpCond, InitSteps
<1>6. ASSUME InquireOcr PROVE pc \in InitSteps /\ Moves
  BY <1>6, MovesFacts DEF InquireOcr, InitSteps
<1>7. ASSUME NegotiateOcr PROVE pc \in InitSteps /\ Moves
  BY <1>7, MovesFacts DEF NegotiateOcr, InitSteps
<1>8. ASSUME SwitchVoltage PROVE pc \in InitSteps /\ Moves
  BY <1>8, MovesFacts DEF SwitchVoltage, InitSteps
<1>9. ASSUME AllSendCid PROVE pc \in InitSteps /\ Moves
  BY <1>9, MovesFacts DEF AllSendCid, InitSteps
<1>10. ASSUME SendRelativeAddr PROVE pc \in InitSteps /\ Moves
  BY <1>10, MovesFacts DEF SendRelativeAddr, InitSteps
<1>11. ASSUME SelectCard PROVE pc \in InitSteps /\ Moves
  BY <1>11, MovesFacts DEF SelectCard, InitSteps
<1>12. ASSUME SetBlocklen PROVE pc \in InitSteps /\ Moves
  BY <1>12, MovesFacts DEF SetBlocklen, InitSteps
<1>13. ASSUME SendScr PROVE pc \in InitSteps /\ Moves
  <2>1. FreeReturn({"device_id"}) \/ (\E step : Proceed(step))
    BY <1>13 DEF SendScr
  <2>2. QED
    BY <1>13, <2>1, MovesFacts DEF SendScr, InitSteps
<1>14. ASSUME SetBusWidth PROVE pc \in InitSteps /\ Moves
  BY <1>14, MovesFacts DEF SetBusWidth, InitSteps
<1>15. ASSUME FinishInit PROVE pc \in InitSteps /\ Moves
  <2>1. pc = "finish" /\ (Proceed("status") \/ Proceed("recheck") \/ Return("ready"))
    BY <1>15 DEF FinishInit, TypeOK, LocalsOK
  <2>2. QED
    BY <2>1, MovesFacts DEF InitSteps
<1>16. ~swapped /\ result = "none" /\ Moves
  <2>1. pc \in InitSteps /\ Moves
    BY <1>1, <1>2, <1>3, <1>4, <1>5, <1>6, <1>7, <1>8, <1>9, <1>10, <1>11, <1>12, <1>13,
       <1>14, <1>15
  <2>2. QED
    BY <2>1 DEF SwapInv
<1>17. QED
  BY <1>16, SwapFree

(* A command of a call whose card was swapped fails, and either the call   *)
(* with it or nothing else happens.                                        *)
LEMMA SwapDataSteps ==
    ASSUME TypeOK, SwapInv, CheckStatus \/ LeaveState \/ Recheck \/ Transfer
    PROVE  SwapInv' /\ (swapped => result' # "ok")
<1>1. result = "none" /\ pc \notin InitSteps
  BY DEF CheckStatus, LeaveState, Recheck, Transfer, SwapInv, DataSteps, InitSteps
<1>2. CASE ~swapped
  <2>1. (\A r : GiveUp(r) => Moves) /\ (\A from : Reinitialise(from) => Moves)
    BY MovesFacts DEF GiveUp, Reinitialise
  <2>2. CASE CheckStatus
    BY <2>1, <2>2, MovesFacts, <1>1, <1>2, SwapFree DEF CheckStatus
  <2>3. CASE LeaveState
    BY <2>1, <2>3, MovesFacts, <1>1, <1>2, SwapFree DEF LeaveState
  <2>4. CASE Recheck
    BY <2>1, <2>4, MovesFacts, <1>1, <1>2, SwapFree DEF Recheck
  <2>5. CASE Transfer
    BY <2>1, <2>5, MovesFacts, <1>1, <1>2, SwapFree DEF Transfer
  <2>6. QED
    BY <1>2, <2>2, <2>3, <2>4, <2>5
<1>3. CASE swapped
  <2>0. PICK cmd \in {"SEND_STATUS", "SELECT_CARD", "STOP_TRANSMISSION"} \cup Reads \cup Writes :
          \E r \in Replies(cmd) :
            /\ card' = r.card
            /\ Failed(r) => GiveUp(r) \/ (pc = "transfer" /\ edev' = Issued(r) /\ Proceed("transfer"))
    <3>1. CASE CheckStatus
      BY <3>1 DEF CheckStatus, Command
    <3>2. CASE LeaveState
      BY <3>2 DEF LeaveState, Command
    <3>3. CASE Recheck
      BY <3>3 DEF Recheck, Command
    <3>4. CASE Transfer
      BY <3>4 DEF Transfer, Command, DataCommand, Reads, Writes
    <3>5. QED
      BY <3>1, <3>2, <3>3, <3>4
  <2>1. PICK r \in Replies(cmd) :
            /\ card' = r.card
            /\ Failed(r) => GiveUp(r) \/ (pc = "transfer" /\ edev' = Issued(r) /\ Proceed("transfer"))
    BY <2>0
  <2>2. /\ Failed(r) /\ r.card = card
        /\ Issued(r).card_removal \/ r.card.state = "idle"
        /\ Issued(r).card_rca = edev.card_rca
    BY <1>3, <2>1, SwappedReply DEF SwapInv
  <2>3. CASE GiveUp(r)
    <3>1. pc' = "rest" /\ ~swapped' /\ result' = "fail"
      BY <2>3 DEF GiveUp, Return
    <3>2. QED
      BY <3>1 DEF SwapInv, InitSteps, DataSteps
  <2>4. CASE pc = "transfer" /\ edev' = Issued(r) /\ Proceed("transfer")
    <3>1. pc' = "transfer" /\ UNCHANGED <<result, swapped, dev>>
      BY <2>4 DEF Proceed, Goto
    <3>2. edev'.card_rca /\ dev' = "live" /\ (edev'.card_removal \/ card'.state = "idle")
      BY <1>3, <2>1, <2>2, <2>4, <3>1 DEF SwapInv
    <3>3. QED
      BY <1>1, <3>1, <3>2 DEF SwapInv, InitSteps, DataSteps
  <2>5. QED
    BY <2>1, <2>2, <2>3, <2>4
<1>4. QED
  BY <1>2, <1>3

LEMMA SwapInvStep == TypeOK /\ SwapInv /\ [Next]_vars => SwapInv'
<1> SUFFICES ASSUME TypeOK, SwapInv, [Next]_vars
             PROVE  SwapInv'
  OBVIOUS
<1>1. CASE UNCHANGED vars
  BY <1>1 DEF SwapInv, vars, hardware
<1>2. CASE StartTransfer
  <2>1. edev'.card_rca = edev.card_rca /\ edev'.card_removal = edev.card_removal
    BY <1>2 DEF StartTransfer, TypeOK, Devices
  <2>2. result = "none"
    BY <1>2 DEF StartTransfer, SwapInv, DataSteps
  <2>3. UNCHANGED <<card, removal, dev>>
    BY <1>2 DEF StartTransfer, hardware
  <2>4. \/ pc' = "rest" /\ ~swapped'
        \/ pc' = "transfer" /\ UNCHANGED <<result, swapped>>
    BY <1>2 DEF StartTransfer, Return, Goto
  <2>5. QED
    BY <2>1, <2>2, <2>3, <2>4 DEF SwapInv, InitSteps, DataSteps
<1>3. CASE CallInit \/ CallCleanup \/ UseBadPointer \/ Undefined
  BY <1>3 DEF CallInit, CallCleanup, UseBadPointer, Undefined, vars, hardware, SwapInv,
              InitSteps, DataSteps
<1>4. ASSUME NEW o \in {"read", "write"}, NEW s \in Requests, CallTransfer(o, s)
      PROVE  SwapInv'
  BY <1>4 DEF CallTransfer, hardware, SwapInv, InitSteps, DataSteps
<1>5. CASE RemoveCard
  BY <1>5 DEF RemoveCard, locals, SwapInv
<1>6. ASSUME NEW k \in CardKinds, InsertCard(k)
      PROVE  SwapInv'
  BY <1>6 DEF InsertCard, PoweredOn, locals, SwapInv
<1>7. QED
  BY <1>1, <1>2, <1>3, <1>4, <1>5, <1>6, SwapInitSteps, SwapDataSteps
     DEF Next, Driver, Transfers

(* A call never reports data read from, or written to, a card that was put *)
(* in place of the one the device was initialised for, unless a call has   *)
(* failed since: whatever cards come and go, and whenever.                 *)
THEOREM SwapNoticedCorrect == Spec => SwapNoticed
<1>1. Init => SwapInv
  BY DEF Init, SwapInv, InitSteps, DataSteps
<1>2. TypeOK /\ SwapInv /\ [Next]_vars => SwapInv'
  BY SwapInvStep
<1>3. TypeOK /\ SwapInv /\ [Next]_vars
        => [(pc = "transfer" /\ result' = "ok") => ~swapped]_vars
  <2> SUFFICES ASSUME TypeOK, SwapInv, Next, pc = "transfer", swapped
               PROVE  result' # "ok"
    OBVIOUS
  <2>1. result = "none"
    BY DEF SwapInv, DataSteps
  <2>2. Transfer \/ UNCHANGED result
    BY DEF Next, Driver, ResetController, Prepare, GoIdle, SendIfCond, IoSetOpCond, InquireOcr,
           NegotiateOcr, SwitchVoltage, AllSendCid, SendRelativeAddr, SelectCard, SetBlocklen,
           SendScr, SetBusWidth, FinishInit, CheckStatus, LeaveState, Recheck, StartTransfer,
           CallInit, Transfers, CallTransfer, CallCleanup, UseBadPointer, Undefined, vars,
           RemoveCard, InsertCard
  <2>3. QED
    BY <2>1, <2>2, SwapDataSteps
<1>4. QED
  BY <1>1, <1>2, <1>3, TypeCorrect, PTL DEF Spec, SwapNoticed
=============================================================================
