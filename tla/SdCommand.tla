----------------------------- MODULE SdCommand ------------------------------
(***************************************************************************)
(* One call of sd_issue_command in src/src/drivers/SD/emmc.c: the driver   *)
(* and the host controller run concurrently and meet in two registers,     *)
(* STATUS (the inhibit bits) and INTERRUPT (set by the controller, cleared *)
(* by writes of the driver).  The controller is hardware, modelled from    *)
(* what the driver waits for.                                              *)
(***************************************************************************)
EXTENDS Integers, Sequences

CONSTANTS
    Calls,      \* the command sequences sd_issue_command is asked for
    Blocks,     \* the values of blocks_to_transfer
    MaxBlocks,  \* BLKSIZECNT: the most blocks a command can move
    MaxFaults,  \* bound: errors the controller raises in a behaviour
    MaxLate,    \* bound: waits of the driver that end before the controller's
    MaxRemovals \* bound: card removals in a behaviour

(* A command, for the host: no response, a response, a response with busy, *)
(* the abort command (with busy), and the two directions of data.          *)
Commands == {"quiet", "plain", "busy", "abort", "read", "write"}
WithBusy == {"busy", "abort"}
WithData == {"read", "write"}

(* An application command is sent as APP_CMD and the command itself.       *)
ASSUME CommandAssumption ==
    /\ Calls \subseteq {<<c>> : c \in Commands} \cup {<<"plain", c>> : c \in Commands}
    /\ Blocks \subseteq Nat /\ MaxBlocks \in Nat
    /\ MaxFaults \in Nat /\ MaxLate \in Nat /\ MaxRemovals \in Nat

CommandErrors == {"cmd_timeout", "cmd_crc"}
DataErrors    == {"data_timeout", "data_crc"}
Errors        == CommandErrors \cup DataErrors
Interrupts    == Errors \cup {"command", "transfer", "read", "write", "removal"}

VARIABLES
    INTERRUPT,      \* the bits set in the register
    line,           \* "sent": a command is on the CMD line (inhibit CMD)
    data,           \* the data engine; not "idle": inhibit DAT
    answered,       \* the command last sent has been executed, within its call
    pc, todo,       \* the driver: its next step, the commands left to send
    irpts, cur_block,                                       \* its locals
    last_cmd_success, last_error, card_removal, blocks_to_transfer,
    own,            \* all the driver has taken in belongs to this command
    faults, late, removals

controller == <<line, data, answered>>
device     == <<last_cmd_success, last_error, card_removal, blocks_to_transfer>>
bounds     == <<faults, late, removals>>
vars       == <<INTERRUPT, controller, pc, todo, irpts, cur_block, device, own, bounds>>

(* phase: waiting for the response, moving a block, a block in the buffer; *)
(* own: it serves the command last sent; done: it raised transfer complete. *)
Engines == [phase : {"idle", "wait", "run", "buffer"}, kind : Commands,
            left : Nat, own : BOOLEAN, done : BOOLEAN]

TypeOK ==
    /\ INTERRUPT \subseteq Interrupts
    /\ line \in {"idle", "sent"} /\ data \in Engines /\ answered \in BOOLEAN
    /\ pc \in {"rest", "handle", "handled", "inhibit", "await", "acked", "block", "moved",
               "finish", "transfer", "completed"}
    /\ todo \in {<<>>} \cup Calls \cup {Tail(c) : c \in Calls}
    /\ irpts \subseteq Interrupts /\ cur_block \in 0..MaxBlocks
    /\ last_cmd_success \in BOOLEAN /\ last_error \subseteq Errors
    /\ card_removal \in BOOLEAN /\ blocks_to_transfer \in Nat /\ own \in BOOLEAN
    /\ faults \in 0..MaxFaults /\ late \in 0..MaxLate /\ removals \in 0..MaxRemovals

Init ==
    /\ INTERRUPT = {} /\ line = "idle" /\ answered = FALSE
    /\ data = [phase |-> "idle", kind |-> "plain", left |-> 0, own |-> FALSE, done |-> FALSE]
    /\ pc = "rest" /\ todo = <<>> /\ irpts = {} /\ cur_block = 0
    /\ last_cmd_success = FALSE /\ last_error = {} /\ card_removal = FALSE
    /\ blocks_to_transfer \in Blocks /\ own = TRUE
    /\ faults = MaxFaults /\ late = MaxLate /\ removals = MaxRemovals

cmd == Head(todo)

-----------------------------------------------------------------------------
(* The driver.                                                             *)

(* sd_issue_command is entered.  The caller has set blocks_to_transfer.    *)
Call(c, n) ==
    /\ pc = "rest" /\ pc' = "handle"
    /\ todo' = c /\ blocks_to_transfer' = n /\ answered' = FALSE
    /\ UNCHANGED <<INTERRUPT, line, data, irpts, cur_block, last_cmd_success, last_error,
                   card_removal, own, bounds>>

(* The call ends, or goes on with the command behind APP_CMD.              *)
End(ok) ==
    /\ last_cmd_success' = ok
    /\ IF ok /\ Len(todo) > 1
       THEN pc' = "inhibit" /\ todo' = Tail(todo)
       ELSE pc' = "rest" /\ UNCHANGED todo

(* sd_handle_interrupts reads the register; a buffer left over from an     *)
(* earlier transfer resets the data line.                                  *)
ReadInterrupts ==
    /\ pc = "handle" /\ pc' = "handled"
    /\ irpts' = INTERRUPT
    /\ card_removal' = (card_removal \/ "removal" \in INTERRUPT)
    /\ data' = (IF INTERRUPT \cap WithData # {} THEN [data EXCEPT !.phase = "idle"] ELSE data)
    /\ UNCHANGED <<INTERRUPT, line, answered, todo, cur_block, last_cmd_success, last_error,
                   blocks_to_transfer, own, bounds>>

(* Mutant of HandleInterrupts: the removal is noted, the command still sent. *)
HandleInterrupts_GoOn ==
    /\ pc = "handled" /\ pc' = "inhibit"
    /\ INTERRUPT' = INTERRUPT \ (irpts \cup IF irpts \cap Errors # {} THEN Errors ELSE {})
    /\ UNCHANGED <<todo, last_cmd_success>>
    /\ UNCHANGED <<controller, irpts, cur_block, last_error, card_removal,
                   blocks_to_transfer, own, bounds>>

(* It clears what it has read, all errors if there was one.  A removal     *)
(* ends the call.                                                          *)
HandleInterrupts ==
    /\ pc = "handled"
    /\ INTERRUPT' = INTERRUPT \ (irpts \cup IF irpts \cap Errors # {} THEN Errors ELSE {})
    /\ IF card_removal THEN End(FALSE)
       ELSE pc' = "inhibit" /\ UNCHANGED <<todo, last_cmd_success>>
    /\ UNCHANGED <<controller, irpts, cur_block, last_error, card_removal,
                   blocks_to_transfer, own, bounds>>

(* sd_issue_command_int waits for the lines without a limit, then writes   *)
(* BLKSIZECNT, ARG1 and CMDTM.  Nothing clears INTERRUPT.                  *)
Issue ==
    /\ pc = "inhibit" /\ line = "idle"
    /\ cmd = "busy" => data.phase = "idle"
    /\ IF blocks_to_transfer > MaxBlocks
       THEN End(FALSE) /\ UNCHANGED <<controller, own>>
       ELSE /\ last_cmd_success' = FALSE /\ pc' = "await" /\ UNCHANGED todo
            /\ line' = "sent" /\ answered' = FALSE /\ own' = TRUE
            /\ data' = (IF cmd \in WithBusy \cup WithData
                        THEN [phase |-> "wait", kind |-> cmd, own |-> TRUE, done |-> FALSE,
                              left |-> IF cmd \in WithData THEN blocks_to_transfer ELSE 0]
                        ELSE [data EXCEPT !.own = FALSE])
    /\ UNCHANGED <<INTERRUPT, irpts, cur_block, last_error, card_removal,
                   blocks_to_transfer, bounds>>

Quiet == line = "idle" /\ data.phase \in {"idle", "buffer"}

(* TIMEOUT_WAIT for some of the bits or an error, and the read after it.   *)
(* The time runs out when the controller has no more to say, or too early. *)
Await(bits) ==
    /\ \/ (INTERRUPT \cap (bits \cup Errors) # {} \/ Quiet) /\ UNCHANGED late
       \/ INTERRUPT \cap (bits \cup Errors) = {} /\ late > 0 /\ late' = late - 1
    /\ irpts' = INTERRUPT
    /\ UNCHANGED <<INTERRUPT, controller, todo, cur_block, device, own, faults, removals>>

(* The interrupts waited for are cleared, with whatever of them came since *)
(* they were read; anything but the one expected ends the command.         *)
Acknowledge(bit) == INTERRUPT' = INTERRUPT \ (Errors \cup {bit})
Expected(bit)    == irpts \cap (Errors \cup {bit}) = {bit}

(* Mutant of Fail: the interrupts are stored without the error mask.       *)
Fail_Unmasked == last_error' = irpts /\ End(FALSE)

(* last_error = irpts & 0xffff0000: empty after a timeout of the driver.   *)
Fail == last_error' = irpts \cap Errors /\ End(FALSE)

AwaitCompletion == pc = "await" /\ pc' = "acked" /\ Await({"command"})

(* Mutant of AckCompletion: the completion stays in the register.          *)
AckCompletion_NoClear ==
    /\ pc = "acked"
    /\ \/ ~Expected("command") /\ Fail /\ UNCHANGED <<cur_block, own>>
       \/ /\ Expected("command") /\ UNCHANGED last_error
          /\ own' = (own /\ answered)
          /\ cur_block' = 0
          /\ IF cmd \in WithData \cup WithBusy
             THEN /\ pc' = (IF cmd \in WithData /\ blocks_to_transfer > 0 THEN "block" ELSE "finish")
                  /\ UNCHANGED <<todo, last_cmd_success>>
             ELSE End(TRUE)
    /\ UNCHANGED <<INTERRUPT, controller, irpts, card_removal, blocks_to_transfer, bounds>>

(* The response is read; then the data or the busy signal, if any.         *)
AckCompletion ==
    /\ pc = "acked" /\ Acknowledge("command")
    /\ \/ ~Expected("command") /\ Fail /\ UNCHANGED <<cur_block, own>>
       \/ /\ Expected("command") /\ UNCHANGED last_error
          /\ own' = (own /\ answered)
          /\ cur_block' = 0
          /\ IF cmd \in WithData \cup WithBusy
             THEN /\ pc' = (IF cmd \in WithData /\ blocks_to_transfer > 0 THEN "block" ELSE "finish")
                  /\ UNCHANGED <<todo, last_cmd_success>>
             ELSE End(TRUE)
    /\ UNCHANGED <<controller, irpts, card_removal, blocks_to_transfer, bounds>>

AwaitBlock == pc = "block" /\ pc' = "moved" /\ Await({cmd})

(* Mutant of MoveBlock: the last block is left to the next command.        *)
MoveBlock_OneShort ==
    /\ pc = "moved" /\ Acknowledge(cmd)
    /\ \/ ~Expected(cmd) /\ Fail /\ UNCHANGED <<data, cur_block, own>>
       \/ /\ Expected(cmd)
          /\ own' = (own /\ data.own /\ data.phase = "buffer")
          /\ data' = (IF data.phase = "buffer"
                      THEN [data EXCEPT !.phase = "run", !.left = @ - 1] ELSE data)
          /\ cur_block' = cur_block + 1
          /\ pc' = (IF cur_block + 2 < blocks_to_transfer THEN "block" ELSE "finish")
          /\ UNCHANGED <<todo, last_cmd_success, last_error>>
    /\ UNCHANGED <<line, answered, irpts, card_removal, blocks_to_transfer, bounds>>

(* One block through the DATA register.                                    *)
MoveBlock ==
    /\ pc = "moved" /\ Acknowledge(cmd)
    /\ \/ ~Expected(cmd) /\ Fail /\ UNCHANGED <<data, cur_block, own>>
       \/ /\ Expected(cmd)
          /\ own' = (own /\ data.own /\ data.phase = "buffer")
          /\ data' = (IF data.phase = "buffer"
                      THEN [data EXCEPT !.phase = "run", !.left = @ - 1] ELSE data)
          /\ cur_block' = cur_block + 1
          /\ pc' = (IF cur_block' < blocks_to_transfer THEN "block" ELSE "finish")
          /\ UNCHANGED <<todo, last_cmd_success, last_error>>
    /\ UNCHANGED <<line, answered, irpts, card_removal, blocks_to_transfer, bounds>>

(* A data line that is free already ends the command, errors or not.       *)
CheckDataLine ==
    /\ pc = "finish"
    /\ IF data.phase = "idle"
       THEN Acknowledge("transfer") /\ End(TRUE)
       ELSE pc' = "transfer" /\ UNCHANGED <<INTERRUPT, todo, last_cmd_success>>
    /\ UNCHANGED <<controller, irpts, cur_block, last_error, card_removal,
                   blocks_to_transfer, own, bounds>>

AwaitTransfer == pc = "transfer" /\ pc' = "completed" /\ Await({"transfer"})

(* Transfer complete overrides a data timeout.                             *)
AckTransfer ==
    /\ pc = "completed" /\ Acknowledge("transfer")
    /\ IF irpts \cap (Errors \cup {"transfer"}) \in {{"transfer"}, {"transfer", "data_timeout"}}
       THEN End(TRUE) /\ UNCHANGED last_error
       ELSE Fail
    /\ UNCHANGED <<controller, irpts, cur_block, card_removal, blocks_to_transfer, own, bounds>>

Driver ==
    \/ ReadInterrupts \/ HandleInterrupts \/ Issue \/ AwaitCompletion \/ AckCompletion
    \/ AwaitBlock \/ MoveBlock \/ CheckDataLine \/ AwaitTransfer \/ AckTransfer

-----------------------------------------------------------------------------
(* The controller.                                                         *)

Raise(bits) ==
    /\ INTERRUPT' = INTERRUPT \cup bits
    /\ UNCHANGED <<pc, todo, irpts, cur_block, device, own, late, removals>>

Respond ==
    /\ line = "sent" /\ line' = "idle" /\ answered' = (pc # "rest")
    /\ data' = (IF data.phase = "wait" THEN [data EXCEPT !.phase = "run"] ELSE data)
    /\ Raise({"command"}) /\ UNCHANGED faults

(* No response, or a broken one: there will be no data.                    *)
RejectCommand ==
    /\ line = "sent" /\ faults > 0 /\ faults' = faults - 1
    /\ line' = "idle" /\ UNCHANGED answered
    /\ data' = (IF data.phase = "wait" THEN [data EXCEPT !.phase = "idle"] ELSE data)
    /\ \E e \in CommandErrors : Raise({e})

(* The buffer can be read, or written.                                     *)
OfferBuffer ==
    /\ data.phase = "run" /\ data.left > 0
    /\ data' = [data EXCEPT !.phase = "buffer"]
    /\ Raise({data.kind}) /\ UNCHANGED <<line, answered, faults>>

(* The last block has been moved, or the card is no longer busy.           *)
CompleteTransfer ==
    /\ data.phase = "run" /\ data.left = 0
    /\ data' = [data EXCEPT !.phase = "idle", !.done = TRUE]
    /\ \E bits \in {{"transfer"}, {"transfer", "data_timeout"}} : Raise(bits)
    /\ UNCHANGED <<line, answered, faults>>

(* The transfer is broken off.                                             *)
RejectData ==
    /\ data.phase = "run" /\ faults > 0 /\ faults' = faults - 1
    /\ data' = [data EXCEPT !.phase = "idle"]
    /\ \E e \in DataErrors : Raise({e})
    /\ UNCHANGED <<line, answered>>

Controller == Respond \/ RejectCommand \/ OfferBuffer \/ CompleteTransfer \/ RejectData

RemoveCard ==
    /\ removals > 0 /\ removals' = removals - 1
    /\ INTERRUPT' = INTERRUPT \cup {"removal"}
    /\ UNCHANGED <<controller, pc, todo, irpts, cur_block, device, own, faults, late>>

Next ==
    \/ Driver \/ Controller \/ RemoveCard
    \/ \E c \in Calls, n \in Blocks : Call(c, n)

Spec == Init /\ [][Next]_vars

(* The CPU runs on, and the controller ends what it has begun.             *)
FairSpec == Spec /\ WF_vars(Driver) /\ WF_vars(Controller)

-----------------------------------------------------------------------------
(* A call keeps the promises of SdContract, and is answered, as long as    *)
(* the controller's own timeouts come before the driver's.                 *)
Contract == INSTANCE SdContract WITH
    ErrorSets <- SUBSET Errors,
    pending   <- pc # "rest",
    executed  <- answered /\ Len(todo) = 1 /\ pc # "inhibit",
    success   <- pc = "rest" /\ last_cmd_success,
    error     <- last_error

ImplementsContract == Contract!FairSpec

(* A read or write that succeeds has moved every block, each between the   *)
(* buffer offered for it and memory.                                       *)
AllBlocksMoved ==
    (pc = "rest" /\ last_cmd_success /\ cmd \in WithData)
        => own /\ cur_block = blocks_to_transfer /\ data.left = 0

(* Once a removal is recorded nothing is sent: card_removal is only reset  *)
(* with the whole structure, by sd_card_init.                              *)
RemovalStopsCommands == [][card_removal => (line' = "sent" => line = "sent")]_vars
=============================================================================
