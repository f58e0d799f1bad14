--------------------------- MODULE SdCommandProofs --------------------------
(* sd_issue_command for any calls, numbers of blocks, errors and removals.   *)
EXTENDS SdCommand, TLAPS

Todos == {<<>>} \cup Calls \cup {Tail(c) : c \in Calls}
Sending == {"await", "acked", "block", "moved", "finish", "transfer", "completed"}
Late    == Sending \ {"await", "acked"}
Engaged == cmd \in WithBusy \cup WithData

(* Where the driver is tells what it has to do, and a block is offered only  *)
(* while some are left.                                                      *)
Asked    == pc # "rest" => todo # <<>>
InLimit  == pc \in Sending => blocks_to_transfer <= MaxBlocks
InLoop   == pc \in {"block", "moved"} => cmd \in WithData /\ cur_block < blocks_to_transfer
Goes     == pc \in Late => Engaged
Offered  == /\ data.phase = "buffer" => data.left > 0
            /\ data.left > 0 => data.kind \in WithData
Removed  == card_removal => pc \in {"rest", "handle", "handled"}
Place    == Asked /\ InLimit /\ InLoop /\ Goes /\ Offered /\ Removed

TInv == TypeOK /\ Place

(* A call has one command, or APP_CMD and one.                               *)
LEMMA TodoFacts ==
    ASSUME NEW t \in Todos
    PROVE  /\ t # <<>> => Head(t) \in Commands /\ Len(t) \in {1, 2}
           /\ Len(t) > 1 => /\ Head(t) = "plain" /\ Tail(t) \in Todos
                            /\ Tail(t) # <<>> /\ Len(Tail(t)) = 1
  <1> DEFINE One == {<<c>> : c \in Commands}
             Two == {<<"plain", c>> : c \in Commands}
  <1>1. Calls \subseteq One \cup Two
    BY CommandAssumption
  <1>2. \A c \in Commands : /\ Len(<<c>>) = 1 /\ Head(<<c>>) = c /\ Tail(<<c>>) = <<>>
                            /\ <<c>> # <<>>
    OBVIOUS
  <1>3. \A c \in Commands : /\ Len(<<"plain", c>>) = 2 /\ Head(<<"plain", c>>) = "plain"
                            /\ Tail(<<"plain", c>>) = <<c>>
    OBVIOUS
  <1>4. \A d \in Calls : Tail(d) = <<>> \/ Tail(d) \in One
    <2> SUFFICES ASSUME NEW d \in Calls PROVE Tail(d) = <<>> \/ Tail(d) \in One
      OBVIOUS
    <2>1. ASSUME NEW e \in Commands, d = <<e>> PROVE Tail(d) = <<>>
      BY <2>1, <1>2
    <2>2. ASSUME NEW e \in Commands, d = <<"plain", e>> PROVE Tail(d) \in One
      BY <2>2, <1>3
    <2> QED
      BY <2>1, <2>2, <1>1
  <1>5. t \in Calls \/ t = <<>> \/ t \in One
    BY <1>4 DEF Todos
  <1>6. ASSUME NEW c \in Commands, t = <<c>>
        PROVE  Head(t) \in Commands /\ Len(t) = 1
    BY <1>2, <1>6
  <1>7. ASSUME NEW c \in Commands, t = <<"plain", c>>
        PROVE  /\ Head(t) = "plain" /\ Len(t) = 2 /\ Tail(t) # <<>> /\ Len(Tail(t)) = 1
               /\ t \in Calls
    <2>1. Tail(t) = <<c>> /\ Len(t) = 2 /\ Head(t) = "plain"
      BY <1>7, <1>3
    <2>2. t # <<>>
      BY <2>1
    <2>3. t \notin One
      BY <2>1, <1>2
    <2> QED
      BY <2>1, <2>2, <2>3, <1>2, <1>5
  <1>8. t = <<>> => Len(t) = 0
    OBVIOUS
  <1>9. "plain" \in Commands /\ (t \in Calls => Tail(t) \in Todos)
    BY DEF Commands, Todos
  <1>10. t = <<>> \/ (\E c \in Commands : t = <<c>>) \/ (\E c \in Commands : t = <<"plain", c>>)
    BY <1>1, <1>5
  <1> QED
    BY <1>6, <1>7, <1>8, <1>9, <1>10

(* How a command ends: the call is over, or the command behind APP_CMD is    *)
(* next.                                                                     *)
LEMMA EndFacts ==
    ASSUME TypeOK, Asked, pc # "rest", NEW ok \in BOOLEAN, End(ok)
    PROVE  /\ last_cmd_success' = ok /\ todo' \in Todos /\ pc' \in {"rest", "inhibit"}
           /\ pc' = "inhibit" => /\ ok /\ cmd = "plain"
                                 /\ todo' = Tail(todo) /\ todo' # <<>> /\ Len(todo') = 1
           /\ pc' = "rest" => todo' = todo /\ (ok => Len(todo) = 1)
  <1>1. todo \in Todos /\ todo # <<>>
    BY DEF TypeOK, Asked, Todos
  <1>2. last_cmd_success' = ok
    BY Zenon DEF End
  <1>3. CASE ok /\ Len(todo) > 1
    <2>1. pc' = "inhibit" /\ todo' = Tail(todo)
      BY <1>3, Zenon DEF End
    <2> QED
      BY <1>1, <1>2, <1>3, <2>1, TodoFacts DEF cmd
  <1>4. CASE ~(ok /\ Len(todo) > 1)
    <2>1. pc' = "rest" /\ todo' = todo
      BY <1>4, Zenon DEF End
    <2>2. Len(todo) \in {1, 2}
      BY <1>1, TodoFacts
    <2> QED
      BY <1>1, <1>2, <1>4, <2>1, <2>2
  <1> QED
    BY <1>3, <1>4

-----------------------------------------------------------------------------
(* The types, and where the driver is, for any behaviour of the controller.  *)
LEMMA InitType == Init => TInv
  <1> SUFFICES ASSUME Init PROVE TInv
    OBVIOUS
  <1>1. "plain" \in Commands /\ 0 \in Nat /\ 0 \in 0..MaxBlocks
    BY CommandAssumption DEF Commands
  <1>2. /\ MaxFaults \in 0..MaxFaults /\ MaxLate \in 0..MaxLate /\ MaxRemovals \in 0..MaxRemovals
        /\ blocks_to_transfer \in Nat
    BY CommandAssumption DEF Init
  <1>3. data \in Engines
    BY <1>1 DEF Init, Engines
  <1>4. /\ answered \in BOOLEAN /\ last_cmd_success \in BOOLEAN /\ card_removal \in BOOLEAN
        /\ own \in BOOLEAN
    BY Zenon DEF Init
  <1>5. <<>> \in Todos
    BY DEF Todos
  <1> QED
    BY <1>1, <1>2, <1>3, <1>4, <1>5 DEF Init, TInv, TypeOK, Place, Asked, InLimit, InLoop,
       Goes, Offered, Removed, Todos, Sending, Late

LEMMA CallType ==
    ASSUME TInv, NEW c \in Calls, NEW n \in Blocks, Call(c, n) PROVE TInv'
  <1>1. n \in Nat /\ c \in Todos /\ c # <<>>
    <2>1. \A e \in Commands : <<e>> # <<>> /\ <<"plain", e>> # <<>>
      OBVIOUS
    <2> QED
      BY <2>1, CommandAssumption DEF Todos
  <1>2. TypeOK'
    BY <1>1 DEF TInv, Call, TypeOK, Todos, bounds
  <1>3. Place'
    BY <1>1 DEF TInv, Call, Place, Asked, InLimit, InLoop, Goes, Offered, Removed, Sending, Late
  <1> QED
    BY <1>2, <1>3 DEF TInv

LEMMA ReadInterruptsType == TInv /\ ReadInterrupts => TInv'
  <1> SUFFICES ASSUME TInv, ReadInterrupts PROVE TInv'
    OBVIOUS
  <1>1. data' \in Engines /\ Offered'
    BY DEF ReadInterrupts, TInv, TypeOK, Engines, Place, Offered
  <1>2. card_removal' \in BOOLEAN
    BY Zenon DEF ReadInterrupts, TInv, TypeOK
  <1>3. TypeOK'
    BY <1>1, <1>2 DEF ReadInterrupts, TInv, TypeOK, bounds
  <1>4. Place'
    BY <1>1 DEF TInv, ReadInterrupts, Place, Asked, InLimit, InLoop, Goes, Offered, Removed,
                Sending, Late
  <1> QED
    BY <1>3, <1>4 DEF TInv

LEMMA HandleInterruptsType == TInv /\ HandleInterrupts => TInv'
  <1> SUFFICES ASSUME TInv, HandleInterrupts PROVE TInv'
    OBVIOUS
  <1>1. pc = "handled" /\ TypeOK /\ Asked
    BY DEF HandleInterrupts, TInv, Place
  <1>2. /\ last_cmd_success' \in BOOLEAN /\ todo' \in Todos /\ pc' \in {"rest", "inhibit"}
        /\ todo' # <<>> /\ (card_removal => pc' = "rest")
    <2>1. CASE card_removal
      <3>1. End(FALSE)
        BY <2>1, Zenon DEF HandleInterrupts
      <3> QED
        BY <3>1, <1>1, EndFacts DEF Asked
    <2>2. CASE ~card_removal
      <3>1. pc' = "inhibit" /\ todo' = todo /\ last_cmd_success' = last_cmd_success
        BY <2>2, Zenon DEF HandleInterrupts
      <3> QED
        BY <3>1, <2>2, <1>1 DEF TypeOK, Todos, Asked
    <2> QED
      BY <2>1, <2>2
  <1>3. INTERRUPT' \subseteq INTERRUPT
    BY DEF HandleInterrupts
  <1>4. UNCHANGED <<line, data, answered, irpts, cur_block, last_error, card_removal,
                    blocks_to_transfer, own, faults, late, removals>>
    BY DEF HandleInterrupts, controller, bounds
  <1>5. TypeOK'
    BY <1>1, <1>2, <1>3, <1>4 DEF TypeOK, Todos
  <1>6. Place'
    BY <1>2, <1>4 DEF TInv, Place, Asked, InLimit, InLoop, Goes, Offered, Removed, Sending, Late
  <1> QED
    BY <1>5, <1>6 DEF TInv

LEMMA IssueType == TInv /\ Issue => TInv'
  <1> SUFFICES ASSUME TInv, Issue PROVE TInv'
    OBVIOUS
  <1>1. pc = "inhibit" /\ TypeOK /\ Asked /\ ~card_removal
    BY DEF Issue, TInv, Place, Removed
  <1>2. UNCHANGED <<INTERRUPT, irpts, cur_block, last_error, card_removal,
                    blocks_to_transfer, faults, late, removals>>
    BY DEF Issue, bounds
  <1>3. CASE blocks_to_transfer > MaxBlocks
    <2>1. End(FALSE) /\ UNCHANGED <<line, data, answered, own>>
      BY <1>3, Zenon DEF Issue, controller
    <2>2. /\ last_cmd_success' \in BOOLEAN /\ todo' \in Todos /\ pc' = "rest" /\ todo' = todo
      BY <2>1, <1>1, EndFacts
    <2>3. TypeOK'
      BY <2>1, <2>2, <1>1, <1>2 DEF TypeOK, Todos
    <2>4. Place'
      BY <2>1, <2>2, <1>1, <1>2 DEF TInv, Place, Asked, InLimit, InLoop, Goes, Offered, Removed,
         Sending, Late
    <2> QED
      BY <2>3, <2>4 DEF TInv
  <1>4. CASE ~(blocks_to_transfer > MaxBlocks)
    <2>1. /\ pc' = "await" /\ todo' = todo /\ line' = "sent"
          /\ last_cmd_success' = FALSE /\ answered' = FALSE /\ own' = TRUE
          /\ data' = (IF Engaged
                      THEN [phase |-> "wait", kind |-> cmd, own |-> TRUE, done |-> FALSE,
                            left |-> IF cmd \in WithData THEN blocks_to_transfer ELSE 0]
                      ELSE [data EXCEPT !.own = FALSE])
      BY <1>4, Zenon DEF Issue, Engaged
    <2>2. cmd \in Commands
      BY <1>1, TodoFacts DEF TypeOK, Todos, Asked, cmd
    <2>3. blocks_to_transfer \in Nat /\ data \in Engines
      BY <1>1 DEF TypeOK
    <2>4. data' \in Engines /\ Offered'
      <3>1. CASE Engaged
        BY <2>1, <2>2, <2>3, <3>1 DEF Engines, Offered
      <3>2. CASE ~Engaged
        <4>1. data' = [data EXCEPT !.own = FALSE]
          BY <2>1, <3>2
        <4> QED
          BY <2>3, <4>1 DEF Engines, TInv, Place, Offered
      <3> QED
        BY <3>1, <3>2
    <2>5. TypeOK'
      BY <2>1, <2>4, <1>1, <1>2 DEF TypeOK, Todos
    <2>6. blocks_to_transfer <= MaxBlocks
      BY <1>4, <2>3, CommandAssumption
    <2>7. Place'
      BY <2>1, <2>4, <2>6, <1>1, <1>2 DEF TInv, Place, Asked, InLimit, InLoop, Goes, Offered,
         Removed, Sending, Late
    <2> QED
      BY <2>5, <2>7 DEF TInv
  <1> QED
    BY <1>3, <1>4

(* A wait changes only what the driver has read, and where it is.            *)
LEMMA AwaitType ==
    ASSUME TInv, NEW bits, Await(bits), NEW next \in {"acked", "moved", "completed"}, pc' = next,
           next = "acked" => pc = "await",
           next = "moved" => pc = "block",
           next = "completed" => pc = "transfer"
    PROVE  TInv'
  <1>1. /\ late' \in 0..MaxLate /\ irpts' = INTERRUPT
        /\ UNCHANGED <<INTERRUPT, line, data, answered, todo, cur_block, last_cmd_success,
                       last_error, card_removal, blocks_to_transfer, own, faults, removals>>
    BY CommandAssumption DEF Await, TInv, TypeOK, controller, device
  <1>2. TypeOK'
    BY <1>1 DEF TInv, TypeOK
  <1>3. Place'
    BY <1>1 DEF TInv, Place, Asked, InLimit, InLoop, Goes, Offered, Removed, Sending, Late,
                Engaged, cmd, WithData, WithBusy
  <1> QED
    BY <1>2, <1>3 DEF TInv

LEMMA FailType ==
    ASSUME TInv, Fail, pc \in Sending
    PROVE  /\ last_error' \subseteq Errors /\ last_cmd_success' = FALSE /\ pc' = "rest"
           /\ todo' = todo
  <1>1. End(FALSE) /\ last_error' = irpts \cap Errors
    BY DEF Fail
  <1> QED
    BY <1>1, EndFacts DEF TInv, Place, Sending

LEMMA AckCompletionType == TInv /\ AckCompletion => TInv'
  <1> SUFFICES ASSUME TInv, AckCompletion PROVE TInv'
    OBVIOUS
  <1>1. /\ pc = "acked" /\ TypeOK /\ Asked /\ ~card_removal /\ blocks_to_transfer <= MaxBlocks
        /\ INTERRUPT' \subseteq INTERRUPT
        /\ UNCHANGED <<line, data, answered, irpts, card_removal, blocks_to_transfer,
                       faults, late, removals>>
    BY DEF AckCompletion, TInv, Place, Removed, InLimit, Sending, Acknowledge, controller, bounds
  <1>2. CASE ~Expected("command") /\ Fail /\ UNCHANGED <<cur_block, own>>
    <2>1. /\ last_error' \subseteq Errors /\ last_cmd_success' = FALSE /\ pc' = "rest"
          /\ todo' = todo
      BY <1>1, <1>2, FailType DEF Sending
    <2>2. TypeOK'
      BY <1>1, <1>2, <2>1 DEF TypeOK
    <2>3. Place'
      BY <1>1, <2>1 DEF TInv, Place, Asked, InLimit, InLoop, Goes, Offered, Removed, Sending, Late
    <2> QED
      BY <2>2, <2>3 DEF TInv
  <1>3. CASE /\ Expected("command") /\ UNCHANGED last_error
             /\ own' = (own /\ answered) /\ cur_block' = 0
             /\ IF Engaged
                THEN /\ pc' = (IF cmd \in WithData /\ blocks_to_transfer > 0 THEN "block" ELSE "finish")
                     /\ UNCHANGED <<todo, last_cmd_success>>
                ELSE End(TRUE)
    <2>1. own' \in BOOLEAN /\ cur_block' = 0 /\ cur_block' \in 0..MaxBlocks /\ last_error' = last_error
      BY <1>1, <1>3, CommandAssumption DEF TypeOK
    <2>2. CASE Engaged
      <3>1. /\ pc' = (IF cmd \in WithData /\ blocks_to_transfer > 0 THEN "block" ELSE "finish")
            /\ UNCHANGED <<todo, last_cmd_success>>
        BY <1>3, <2>2
      <3>2. TypeOK'
        BY <1>1, <2>1, <3>1 DEF TypeOK
      <3>3. Place'
        BY <1>1, <2>1, <2>2, <3>1 DEF TInv, Place, Asked, InLimit, InLoop, Goes, Offered, Removed,
           Sending, Late, Engaged, cmd
      <3> QED
        BY <3>2, <3>3 DEF TInv
    <2>3. CASE ~Engaged
      <3>1. End(TRUE)
        BY <1>3, <2>3
      <3>2. /\ last_cmd_success' = TRUE /\ todo' \in Todos /\ pc' \in {"rest", "inhibit"}
            /\ todo' # <<>>
        BY <3>1, <1>1, EndFacts DEF Asked
      <3>3. TypeOK'
        BY <1>1, <2>1, <3>2 DEF TypeOK, Todos
      <3>4. Place'
        BY <1>1, <2>1, <3>2 DEF TInv, Place, Asked, InLimit, InLoop, Goes, Offered, Removed,
           Sending, Late
      <3> QED
        BY <3>3, <3>4 DEF TInv
    <2> QED
      BY <2>2, <2>3
  <1> QED
    BY <1>2, <1>3, Zenon DEF AckCompletion, Engaged

(* The block that is moved was one of those left.                            *)
LEMMA MoveBlockType == TInv /\ MoveBlock => TInv'
  <1> SUFFICES ASSUME TInv, MoveBlock PROVE TInv'
    OBVIOUS
  <1>1. /\ pc = "moved" /\ TypeOK /\ Asked /\ ~card_removal /\ blocks_to_transfer <= MaxBlocks
        /\ cmd \in WithData /\ cur_block < blocks_to_transfer
        /\ INTERRUPT' \subseteq INTERRUPT
        /\ UNCHANGED <<line, answered, irpts, card_removal, blocks_to_transfer,
                       faults, late, removals>>
    BY DEF MoveBlock, TInv, Place, Removed, InLimit, InLoop, Sending, Acknowledge, bounds
  <1>2. CASE ~Expected(cmd) /\ Fail /\ UNCHANGED <<data, cur_block, own>>
    <2>1. /\ last_error' \subseteq Errors /\ last_cmd_success' = FALSE /\ pc' = "rest"
          /\ todo' = todo
      BY <1>1, <1>2, FailType DEF Sending
    <2>2. TypeOK'
      BY <1>1, <1>2, <2>1 DEF TypeOK
    <2>3. Place'
      BY <1>1, <1>2, <2>1 DEF TInv, Place, Asked, InLimit, InLoop, Goes, Offered, Removed,
         Sending, Late
    <2> QED
      BY <2>2, <2>3 DEF TInv
  <1>3. CASE /\ Expected(cmd)
             /\ own' = (own /\ data.own /\ data.phase = "buffer")
             /\ data' = (IF data.phase = "buffer"
                         THEN [data EXCEPT !.phase = "run", !.left = @ - 1] ELSE data)
             /\ cur_block' = cur_block + 1
             /\ pc' = (IF cur_block' < blocks_to_transfer THEN "block" ELSE "finish")
             /\ UNCHANGED <<todo, last_cmd_success, last_error>>
    <2>1. own' \in BOOLEAN /\ cur_block' \in 0..MaxBlocks
      BY <1>1, <1>3, CommandAssumption DEF TypeOK
    <2>2. data' \in Engines /\ Offered'
      <3>1. data \in Engines /\ Offered
        BY <1>1 DEF TypeOK, TInv, Place
      <3>2. CASE data.phase = "buffer"
        <4>1. data.left - 1 \in Nat /\ data.kind \in WithData
          BY <3>1, <3>2 DEF Offered, Engines
        <4>2. data' = [data EXCEPT !.phase = "run", !.left = data.left - 1]
          BY <1>3, <3>2
        <4> QED
          BY <3>1, <4>1, <4>2 DEF Engines, Offered
      <3>3. CASE data.phase # "buffer"
        BY <1>3, <3>1, <3>3 DEF Offered
      <3> QED
        BY <3>2, <3>3
    <2>3. TypeOK'
      BY <1>1, <1>3, <2>1, <2>2 DEF TypeOK
    <2>4. Place'
      BY <1>1, <1>3, <2>2 DEF TInv, Place, Asked, InLimit, InLoop, Goes, Offered, Removed,
         Sending, Late, Engaged, cmd
    <2> QED
      BY <2>3, <2>4 DEF TInv
  <1> QED
    BY <1>2, <1>3 DEF MoveBlock

LEMMA CheckDataLineType == TInv /\ CheckDataLine => TInv'
  <1> SUFFICES ASSUME TInv, CheckDataLine PROVE TInv'
    OBVIOUS
  <1>1. /\ pc = "finish" /\ TypeOK /\ Asked /\ ~card_removal /\ blocks_to_transfer <= MaxBlocks
        /\ Engaged
        /\ UNCHANGED <<line, data, answered, irpts, cur_block, last_error, card_removal,
                       blocks_to_transfer, own, faults, late, removals>>
    BY DEF CheckDataLine, TInv, Place, Removed, InLimit, Goes, Sending, Late, controller, bounds
  <1>2. CASE data.phase = "idle"
    <2>1. Acknowledge("transfer") /\ End(TRUE)
      BY <1>2 DEF CheckDataLine
    <2>2. /\ last_cmd_success' = TRUE /\ todo' \in Todos /\ pc' \in {"rest", "inhibit"}
          /\ todo' # <<>>
      BY <2>1, <1>1, EndFacts DEF Asked
    <2>3. INTERRUPT' \subseteq INTERRUPT
      BY <2>1 DEF Acknowledge
    <2>4. TypeOK'
      BY <1>1, <2>2, <2>3 DEF TypeOK, Todos
    <2>5. Place'
      BY <1>1, <2>2 DEF TInv, Place, Asked, InLimit, InLoop, Goes, Offered, Removed, Sending, Late
    <2> QED
      BY <2>4, <2>5 DEF TInv
  <1>3. CASE data.phase # "idle"
    <2>1. pc' = "transfer" /\ UNCHANGED <<INTERRUPT, todo, last_cmd_success>>
      BY <1>3 DEF CheckDataLine
    <2>2. TypeOK'
      BY <1>1, <2>1 DEF TypeOK
    <2>3. Place'
      BY <1>1, <2>1 DEF TInv, Place, Asked, InLimit, InLoop, Goes, Offered, Removed, Sending, Late,
         Engaged, cmd
    <2> QED
      BY <2>2, <2>3 DEF TInv
  <1> QED
    BY <1>2, <1>3

LEMMA AckTransferType == TInv /\ AckTransfer => TInv'
  <1> SUFFICES ASSUME TInv, AckTransfer PROVE TInv'
    OBVIOUS
  <1>1. /\ pc = "completed" /\ TypeOK /\ Asked /\ ~card_removal
        /\ INTERRUPT' \subseteq INTERRUPT
        /\ UNCHANGED <<line, data, answered, irpts, cur_block, card_removal,
                       blocks_to_transfer, own, faults, late, removals>>
    BY DEF AckTransfer, TInv, Place, Removed, Acknowledge, controller, bounds
  <1>2. /\ last_cmd_success' \in BOOLEAN /\ todo' \in Todos /\ pc' \in {"rest", "inhibit"}
        /\ todo' # <<>> /\ last_error' \subseteq Errors
    <2>1. CASE End(TRUE) /\ UNCHANGED last_error
      BY <1>1, <2>1, EndFacts DEF Asked, TypeOK
    <2>2. CASE Fail
      <3>1. /\ last_error' \subseteq Errors /\ last_cmd_success' = FALSE /\ pc' = "rest"
            /\ todo' = todo
        BY <1>1, <2>2, FailType DEF Sending
      <3> QED
        BY <3>1, <1>1 DEF TypeOK, Todos, Asked
    <2> QED
      BY <2>1, <2>2, Zenon DEF AckTransfer
  <1>3. TypeOK'
    BY <1>1, <1>2 DEF TypeOK, Todos
  <1>4. Place'
    BY <1>1, <1>2 DEF TInv, Place, Asked, InLimit, InLoop, Goes, Offered, Removed, Sending, Late
  <1> QED
    BY <1>3, <1>4 DEF TInv

(* The controller and the card leave the driver alone.                       *)
LEMMA HardwareType == TInv /\ (Controller \/ RemoveCard) => TInv'
  <1> SUFFICES ASSUME TInv, Controller \/ RemoveCard PROVE TInv'
    OBVIOUS
  <1> USE DEF TInv, TypeOK
  <1>1. UNCHANGED <<pc, todo, irpts, cur_block, device, own, late>>
    BY DEF Controller, Respond, RejectCommand, OfferBuffer, CompleteTransfer, RejectData, Raise,
           RemoveCard
  <1>2. INTERRUPT' \subseteq Interrupts
    BY DEF Controller, Respond, RejectCommand, OfferBuffer, CompleteTransfer, RejectData, Raise,
           RemoveCard, Interrupts, Errors, CommandErrors, DataErrors, Engines, Place, Offered,
           WithData
  <1>3. data' \in Engines /\ Offered'
    BY DEF Controller, Respond, RejectCommand, OfferBuffer, CompleteTransfer, RejectData,
           RemoveCard, Engines, Place, Offered, controller
  <1>4. /\ line' \in {"idle", "sent"}
        /\ faults' \in 0..MaxFaults /\ removals' \in 0..MaxRemovals
    BY CommandAssumption DEF Controller, Respond, RejectCommand, OfferBuffer, CompleteTransfer,
           RejectData, RemoveCard, Raise, controller
  <1>4a. answered' \in BOOLEAN
    BY Zenon DEF Controller, Respond, RejectCommand, OfferBuffer, CompleteTransfer,
           RejectData, RemoveCard, controller
  <1>5. TypeOK'
    BY <1>1, <1>2, <1>3, <1>4, <1>4a DEF device
  <1>6. Place'
    BY <1>1, <1>3 DEF Place, Asked, InLimit, InLoop, Goes, Offered, Removed, Sending, Late,
                      Engaged, cmd, device
  <1> QED
    BY <1>5, <1>6

LEMMA StutterType == TInv /\ UNCHANGED vars => TInv'
  <1> SUFFICES ASSUME TInv, UNCHANGED vars PROVE TInv'
    OBVIOUS
  <1> QED
    BY DEF vars, controller, device, bounds, TInv, TypeOK, Place, Asked, InLimit, InLoop, Goes,
           Offered, Removed, Sending, Late, Engaged, cmd

LEMMA TypeInductive == Spec => []TInv
  <1>1. ASSUME TInv, AwaitCompletion \/ AwaitBlock \/ AwaitTransfer PROVE TInv'
    BY <1>1, AwaitType DEF AwaitCompletion, AwaitBlock, AwaitTransfer
  <1>2. TInv /\ [Next]_vars => TInv'
    BY <1>1, CallType, ReadInterruptsType, HandleInterruptsType, IssueType, AckCompletionType,
       MoveBlockType, CheckDataLineType, AckTransferType, HardwareType, StutterType
       DEF Next, Driver
  <1> QED
    BY InitType, <1>2, PTL DEF Spec

(* The variables keep their types, whatever the controller does: the driver's*)
(* count of blocks stays in its range and the controller's never passes zero.*)
THEOREM TypeCorrect == Spec => []TypeOK
  <1>1. TInv => TypeOK
    BY DEF TInv
  <1> QED
    BY <1>1, TypeInductive, PTL

(* A card that was removed gets no further command.                          *)
THEOREM RemovalStopsCommandsCorrect == Spec => RemovalStopsCommands
  <1>1. TInv /\ [Next]_vars => [card_removal => (line' = "sent" => line = "sent")]_vars
    <2> SUFFICES ASSUME TInv, Next, card_removal, line' = "sent" PROVE line = "sent"
      OBVIOUS
    <2>1. pc # "inhibit"
      BY DEF TInv, Place, Removed
    <2> QED
      BY <2>1 DEF Next, Driver, Controller, Call, ReadInterrupts, HandleInterrupts, Issue,
         AwaitCompletion, AwaitBlock, AwaitTransfer, Await, AckCompletion, MoveBlock,
         CheckDataLine, AckTransfer, Respond, RejectCommand, OfferBuffer, CompleteTransfer,
         RejectData, RemoveCard, controller
  <1> QED
    BY <1>1, TypeInductive, PTL DEF Spec, RemovalStopsCommands

-----------------------------------------------------------------------------
(* From here on the driver never gives up before the controller has ended    *)
(* what it began: MaxLate = 0.  Between commands the controller is at rest   *)
(* and nothing of an earlier command is left in INTERRUPT when one is sent.  *)
Settles == pc \notin Sending => Quiet
Clears ==
    /\ pc = "handled" => INTERRUPT \subseteq irpts \cup {"removal"}
    /\ pc = "inhibit" => INTERRUPT \subseteq {"removal"}
    /\ (pc \in Sending /\ ~Engaged) => INTERRUPT \subseteq CommandErrors \cup {"command", "removal"}
Lines ==
    /\ (pc \in Sending /\ line = "sent") =>
          /\ pc = "await" /\ INTERRUPT \subseteq {"removal"} /\ ~answered
          /\ Engaged => data.phase = "wait"
    /\ (pc \in Sending /\ ~Engaged) => data.phase \in {"idle", "buffer"}
    /\ (pc \in Sending /\ line = "idle") => data.phase # "wait"

(* An error, or the end of the transfer, is the last of a command.           *)
Ends == (pc \in Sending /\ INTERRUPT \cap (Errors \cup {"transfer"}) # {})
           => line = "idle" /\ (Engaged => data.phase = "idle")

(* What has been read is still in the register, and what has not come by then*)
(* will not.                                                                 *)
Reads ==
    /\ pc \in {"acked", "moved", "completed"} => irpts \subseteq INTERRUPT
    /\ (pc = "acked" /\ "command" \notin irpts) => Quiet
    /\ (pc = "moved" /\ cmd \notin irpts) => Quiet
    /\ pc = "completed" => Quiet
Answers ==
    /\ (pc \in {"await", "acked"} /\ "command" \in INTERRUPT) => answered
    /\ pc \in Late => answered
    /\ pc \in {"handle", "handled"} => ~answered
    /\ (pc = "inhibit" /\ answered) => Len(todo) = 1 /\ blocks_to_transfer <= MaxBlocks

(* The driver's count and the controller's add up.                           *)
Counted ==
    (pc \in Sending /\ cmd \in WithData) =>
       /\ data.kind = cmd /\ data.own
       /\ pc \in {"await", "acked"} => data.left = blocks_to_transfer
       /\ pc \in Late => data.left + cur_block = blocks_to_transfer
       /\ cmd \in INTERRUPT => data.phase = "buffer"
       /\ pc \in {"finish", "transfer", "completed"} => cur_block = blocks_to_transfer
Owns == pc \in Sending => own

Punctual ==
    /\ late = 0 /\ Settles /\ Clears /\ Lines /\ Ends /\ Reads /\ Answers /\ Counted /\ Owns
    /\ AllBlocksMoved

LEMMA RestPunctual ==
    ASSUME late' = 0, pc' = "rest", Quiet', AllBlocksMoved' PROVE Punctual'
  BY DEF Punctual, Settles, Clears, Lines, Ends, Reads, Answers, Counted, Owns, Sending, Late

LEMMA EndedIsQuiet ==
    ASSUME Lines, Ends, pc \in Sending, INTERRUPT \cap (Errors \cup {"transfer"}) # {}
    PROVE  Quiet
  BY DEF Lines, Ends, Quiet

(* A command that fails leaves the controller at rest.                       *)
LEMMA FailPunctual ==
    ASSUME TInv, Punctual, Fail, pc \in Sending, Quiet, UNCHANGED <<line, data, late>>
    PROVE  Punctual'
  <1>1. last_cmd_success' = FALSE /\ pc' = "rest"
    BY FailType
  <1>2. Quiet' /\ AllBlocksMoved' /\ late' = 0
    BY <1>1 DEF Quiet, AllBlocksMoved, Punctual
  <1> QED
    BY <1>1, <1>2, RestPunctual

LEMMA CallPunctual ==
    ASSUME Punctual, NEW c \in Calls, NEW n \in Blocks, Call(c, n) PROVE Punctual'
  BY DEF Call, Punctual, Settles, Clears, Lines, Ends, Reads, Answers, Counted, Owns, Sending,
         Late, Quiet, bounds, AllBlocksMoved

LEMMA ReadInterruptsPunctual == TInv /\ Punctual /\ ReadInterrupts => Punctual'
  <1> SUFFICES ASSUME TInv, Punctual, ReadInterrupts PROVE Punctual'
    OBVIOUS
  <1>1. Quiet
    BY DEF ReadInterrupts, Punctual, Settles, Sending
  <1>2. data' = data \/ data' = [data EXCEPT !.phase = "idle"]
    BY DEF ReadInterrupts
  <1>3. Quiet'
    BY <1>1, <1>2 DEF ReadInterrupts, Quiet, TInv, TypeOK, Engines
  <1> QED
    BY <1>3 DEF ReadInterrupts, Punctual, Settles, Clears, Lines, Ends, Reads, Answers, Counted,
       Owns, Sending, Late, bounds, AllBlocksMoved

LEMMA HandleInterruptsPunctual == TInv /\ Punctual /\ HandleInterrupts => Punctual'
  <1> SUFFICES ASSUME TInv, Punctual, HandleInterrupts PROVE Punctual'
    OBVIOUS
  <1>1. /\ pc = "handled" /\ Quiet /\ UNCHANGED <<line, data, answered, irpts, late>>
    BY DEF HandleInterrupts, Punctual, Settles, Sending, controller, bounds
  <1>2. Quiet'
    BY <1>1 DEF Quiet
  <1>3. CASE card_removal
    <2>1. End(FALSE)
      BY <1>3, Zenon DEF HandleInterrupts
    <2>2. pc' = "rest" /\ last_cmd_success' = FALSE
      BY <2>1, <1>1, EndFacts DEF TInv, Place
    <2> QED
      BY <2>2, <1>1, <1>2, RestPunctual DEF AllBlocksMoved, Punctual
  <1>4. CASE ~card_removal
    <2>1. pc' = "inhibit"
      BY <1>4, Zenon DEF HandleInterrupts
    <2>2. INTERRUPT' \subseteq {"removal"}
      BY <1>1 DEF HandleInterrupts, Punctual, Clears
    <2> QED
      BY <1>1, <1>2, <2>1, <2>2 DEF Punctual, Settles, Clears, Lines, Ends, Reads, Answers, Counted,
         Owns, Sending, Late, AllBlocksMoved
  <1> QED
    BY <1>3, <1>4

LEMMA IssuePunctual == TInv /\ Punctual /\ Issue => Punctual'
  <1> SUFFICES ASSUME TInv, Punctual, Issue PROVE Punctual'
    OBVIOUS
  <1>1. /\ pc = "inhibit" /\ Quiet /\ INTERRUPT \subseteq {"removal"}
        /\ UNCHANGED <<INTERRUPT, blocks_to_transfer, late>>
    BY DEF Issue, Punctual, Settles, Clears, Sending, bounds
  <1>2. CASE blocks_to_transfer > MaxBlocks
    <2>1. End(FALSE) /\ UNCHANGED <<line, data>>
      BY <1>2, Zenon DEF Issue, controller
    <2>2. pc' = "rest" /\ last_cmd_success' = FALSE
      BY <2>1, <1>1, EndFacts DEF TInv, Place
    <2> QED
      BY <2>1, <2>2, <1>1, RestPunctual DEF AllBlocksMoved, Punctual, Quiet
  <1>3. CASE ~(blocks_to_transfer > MaxBlocks)
    <2>1. /\ pc' = "await" /\ todo' = todo /\ line' = "sent" /\ own' = TRUE /\ answered' = FALSE
          /\ data' = (IF Engaged
                      THEN [phase |-> "wait", kind |-> cmd, own |-> TRUE, done |-> FALSE,
                            left |-> IF cmd \in WithData THEN blocks_to_transfer ELSE 0]
                      ELSE [data EXCEPT !.own = FALSE])
      BY <1>3, Zenon DEF Issue, Engaged
    <2>2. (Engaged' <=> Engaged) /\ cmd' = cmd
      BY <2>1 DEF Engaged, cmd
    <2>3. Engaged => data'.phase = "wait"
      BY <2>1
    <2>4. ~Engaged => data'.phase \in {"idle", "buffer"}
      BY <2>1, <1>1 DEF Quiet, TInv, TypeOK, Engines
    <2>5. cmd \in WithData => data'.kind = cmd /\ data'.own /\ data'.left = blocks_to_transfer
      BY <2>1 DEF Engaged
    <2>6. late' = 0 /\ Settles' /\ Clears' /\ Reads' /\ Answers' /\ Owns' /\ AllBlocksMoved'
      BY <1>1, <2>1 DEF Punctual, Settles, Clears, Reads, Answers, Owns, AllBlocksMoved, Sending, Late
    <2>7. Lines'
      BY <1>1, <2>1, <2>2, <2>3, <2>4 DEF Lines, Sending
    <2>8. Ends'
      BY <1>1, <2>1 DEF Ends, Sending, Errors, CommandErrors, DataErrors
    <2>9. Counted'
      BY <1>1, <2>1, <2>2, <2>5 DEF Counted, Sending, Late, WithData
    <2> QED
      BY <2>6, <2>7, <2>8, <2>9 DEF Punctual
  <1> QED
    BY <1>2, <1>3

(* A wait ends with what it waited for, with an error, or when there is      *)
(* nothing to wait for.                                                      *)
LEMMA AwaitPunctual ==
    ASSUME TInv, Punctual, NEW bits, Await(bits), pc \in Sending
    PROVE  /\ late' = 0 /\ irpts' = INTERRUPT /\ (INTERRUPT \cap bits = {} => Quiet)
           /\ UNCHANGED <<INTERRUPT, line, data, answered, todo, cur_block,
                          blocks_to_transfer, own, last_cmd_success>>
  <1>1. /\ late' = 0 /\ (INTERRUPT \cap (bits \cup Errors) # {} \/ Quiet)
    BY DEF Await, Punctual
  <1>2. UNCHANGED <<INTERRUPT, line, data, answered, todo, cur_block,
                    blocks_to_transfer, own, last_cmd_success>> /\ irpts' = INTERRUPT
    BY DEF Await, controller, device
  <1>3. INTERRUPT \cap Errors # {} => Quiet
    BY EndedIsQuiet DEF Punctual
  <1> QED
    BY <1>1, <1>2, <1>3

LEMMA AwaitsPunctual ==
    TInv /\ Punctual /\ (AwaitCompletion \/ AwaitBlock \/ AwaitTransfer) => Punctual'
  <1> SUFFICES ASSUME TInv, Punctual, AwaitCompletion \/ AwaitBlock \/ AwaitTransfer PROVE Punctual'
    OBVIOUS
  <1>1. PICK bits : /\ Await(bits)
                    /\ \/ pc = "await" /\ pc' = "acked" /\ bits = {"command"}
                       \/ pc = "block" /\ pc' = "moved" /\ bits = {cmd}
                       \/ pc = "transfer" /\ pc' = "completed" /\ bits = {"transfer"}
    BY DEF AwaitCompletion, AwaitBlock, AwaitTransfer
  <1>2. /\ late' = 0 /\ irpts' = INTERRUPT /\ (INTERRUPT \cap bits = {} => Quiet)
        /\ UNCHANGED <<INTERRUPT, line, data, answered, todo, cur_block,
                       blocks_to_transfer, own, last_cmd_success>>
    BY <1>1, AwaitPunctual DEF Sending
  <1>3. cmd' = cmd /\ (Engaged' <=> Engaged) /\ (Quiet' <=> Quiet)
    BY <1>2 DEF cmd, Engaged, Quiet
  <1>4. line = "idle"
    <2>1. CASE pc = "await"
      <3>1. bits = {"command"}
        BY <1>1, <2>1
      <3>2. CASE line = "sent"
        <4>1. INTERRUPT \subseteq {"removal"}
          BY <2>1, <3>2 DEF Punctual, Lines, Sending
        <4>2. INTERRUPT \cap bits = {}
          BY <3>1, <4>1
        <4> QED
          BY <4>2, <1>2 DEF Quiet
      <3> QED
        BY <3>2 DEF TInv, TypeOK
    <2>2. CASE pc # "await"
      BY <1>1, <2>2 DEF Punctual, Lines, Sending, TInv, TypeOK
    <2> QED
      BY <2>1, <2>2
  <1>5. pc' = "completed" => Quiet
    <2>1. "transfer" \in INTERRUPT /\ pc = "transfer" => Quiet
      BY EndedIsQuiet DEF Punctual, Sending
    <2> QED
      BY <1>1, <1>2, <2>1
  <1>6. Reads'
    BY <1>1, <1>2, <1>3, <1>5 DEF Reads
  <1>7. Lines' /\ Ends' /\ Clears' /\ Settles'
    BY <1>1, <1>2, <1>3, <1>4 DEF Punctual, Lines, Ends, Clears, Settles, Sending
  <1>8. Answers' /\ Owns' /\ AllBlocksMoved' /\ Counted'
    BY <1>1, <1>2, <1>3 DEF Punctual, Answers, Owns, AllBlocksMoved, Counted, Sending, Late
  <1> QED
    BY <1>2, <1>6, <1>7, <1>8 DEF Punctual

(* The answer is to this command, and what is not expected is the last of it.*)
LEMMA AckCompletionPunctual == TInv /\ Punctual /\ AckCompletion => Punctual'
  <1> SUFFICES ASSUME TInv, Punctual, AckCompletion PROVE Punctual'
    OBVIOUS
  <1>1. /\ pc = "acked" /\ pc \in Sending /\ line = "idle" /\ irpts \subseteq INTERRUPT /\ own
        /\ INTERRUPT' = INTERRUPT \ (Errors \cup {"command"})
        /\ UNCHANGED <<line, data, answered, irpts, blocks_to_transfer, late>>
    BY DEF AckCompletion, Acknowledge, controller, bounds, Punctual, Lines, Reads, Owns, Sending,
           TInv, TypeOK
  <1>2. CASE ~Expected("command") /\ Fail
    <2>1. Quiet
      <3>1. CASE "command" \notin irpts
        BY <1>1, <3>1 DEF Punctual, Reads
      <3>2. CASE "command" \in irpts
        <4>1. irpts \cap Errors # {}
          BY <1>2, <3>2 DEF Expected
        <4>2. INTERRUPT \cap (Errors \cup {"transfer"}) # {}
          BY <4>1, <1>1
        <4> QED
          BY <1>1, <4>2, EndedIsQuiet DEF Punctual
      <3> QED
        BY <3>1, <3>2
    <2> QED
      BY <1>1, <1>2, <2>1, FailPunctual
  <1>3. CASE /\ Expected("command") /\ own' = (own /\ answered) /\ cur_block' = 0
             /\ IF Engaged
                THEN /\ pc' = (IF cmd \in WithData /\ blocks_to_transfer > 0 THEN "block" ELSE "finish")
                     /\ UNCHANGED <<todo, last_cmd_success>>
                ELSE End(TRUE)
    <2>1. answered /\ own'
      <3>1. "command" \in INTERRUPT
        BY <1>1, <1>3 DEF Expected
      <3>2. answered
        BY <1>1, <3>1 DEF Punctual, Answers
      <3> QED
        BY <1>1, <1>3, <3>2, Zenon
    <2>2. CASE Engaged
      <3>1. /\ pc' = (IF cmd \in WithData /\ blocks_to_transfer > 0 THEN "block" ELSE "finish")
            /\ UNCHANGED <<todo, last_cmd_success>>
        BY <1>3, <2>2
      <3>2. cmd' = cmd /\ (Engaged' <=> Engaged) /\ pc' \in {"block", "finish"}
        BY <3>1 DEF cmd, Engaged
      <3>3. Settles' /\ Clears' /\ Lines' /\ Ends'
        BY <1>1, <2>2, <3>2 DEF Punctual, Settles, Clears, Lines, Ends, Sending
      <3>4. Reads' /\ Answers' /\ Owns' /\ AllBlocksMoved' /\ late' = 0
        BY <1>1, <2>1, <3>2 DEF Punctual, Reads, Answers, Owns, AllBlocksMoved, Sending, Late
      <3>5. Counted'
        <4>1. ASSUME cmd \in WithData
              PROVE  /\ data.kind = cmd /\ data.own /\ data.left = blocks_to_transfer
                     /\ cmd \in INTERRUPT' => data.phase = "buffer"
          BY <4>1, <1>1 DEF Punctual, Counted
        <4>2. blocks_to_transfer \in Nat
          BY DEF TInv, TypeOK
        <4>3. cmd \in WithData /\ pc' = "finish" => blocks_to_transfer = 0
          BY <3>1, <4>2
        <4> QED
          BY <1>1, <1>3, <3>2, <4>1, <4>2, <4>3 DEF Counted, Late
      <3> QED
        BY <3>3, <3>4, <3>5 DEF Punctual
    <2>3. CASE ~Engaged
      <3>1. End(TRUE)
        BY <1>3, <2>3
      <3>2. /\ pc' \in {"rest", "inhibit"}
            /\ pc' = "inhibit" => todo' # <<>> /\ Len(todo') = 1
            /\ pc' = "rest" => todo' = todo
        BY <3>1, <1>1, EndFacts DEF TInv, Place
      <3>3. Quiet'
        BY <1>1, <2>3 DEF Quiet, Punctual, Lines
      <3>4. CASE pc' = "rest"
        <4>1. cmd' = cmd
          BY <3>2, <3>4 DEF cmd
        <4>2. AllBlocksMoved'
          BY <4>1, <2>3 DEF AllBlocksMoved, Engaged
        <4> QED
          BY <1>1, <3>3, <3>4, <4>2, RestPunctual DEF Punctual
      <3>5. CASE pc' = "inhibit"
        <4>1. INTERRUPT' \subseteq {"removal"}
          BY <1>1, <2>3 DEF Punctual, Clears, Errors
        <4>2. blocks_to_transfer' <= MaxBlocks
          BY <1>1 DEF TInv, Place, InLimit
        <4> QED
          BY <1>1, <3>2, <3>3, <3>5, <4>1, <4>2 DEF Punctual, Settles, Clears, Lines, Ends, Reads,
             Answers, Counted, Owns, AllBlocksMoved, Sending, Late
      <3> QED
        BY <3>2, <3>4, <3>5
    <2> QED
      BY <2>2, <2>3
  <1> QED
    BY <1>2, <1>3, Zenon DEF AckCompletion, Engaged

(* A block that is expected is in the buffer, and was offered for this       *)
(* command.                                                                  *)
LEMMA MoveBlockPunctual == TInv /\ Punctual /\ MoveBlock => Punctual'
  <1> SUFFICES ASSUME TInv, Punctual, MoveBlock PROVE Punctual'
    OBVIOUS
  <1>1. /\ pc = "moved" /\ pc \in Sending /\ line = "idle" /\ irpts \subseteq INTERRUPT /\ own
        /\ cmd \in WithData /\ Engaged /\ answered /\ cur_block < blocks_to_transfer
        /\ INTERRUPT' = INTERRUPT \ (Errors \cup {cmd})
        /\ UNCHANGED <<line, answered, irpts, blocks_to_transfer, late>>
    BY DEF MoveBlock, Acknowledge, bounds, Punctual, Lines, Reads, Owns, Answers, Sending, Late,
           TInv, TypeOK, Place, InLoop, Engaged
  <1>2. CASE ~Expected(cmd) /\ Fail /\ UNCHANGED data
    <2>1. Quiet
      <3>1. CASE cmd \notin irpts
        BY <1>1, <3>1 DEF Punctual, Reads
      <3>2. CASE cmd \in irpts
        <4>1. irpts \cap Errors # {}
          BY <1>2, <3>2 DEF Expected
        <4>2. INTERRUPT \cap (Errors \cup {"transfer"}) # {}
          BY <4>1, <1>1
        <4> QED
          BY <1>1, <4>2, EndedIsQuiet DEF Punctual
      <3> QED
        BY <3>1, <3>2
    <2> QED
      BY <1>1, <1>2, <2>1, FailPunctual
  <1>3. CASE /\ Expected(cmd)
             /\ own' = (own /\ data.own /\ data.phase = "buffer")
             /\ data' = (IF data.phase = "buffer"
                         THEN [data EXCEPT !.phase = "run", !.left = @ - 1] ELSE data)
             /\ cur_block' = cur_block + 1
             /\ pc' = (IF cur_block' < blocks_to_transfer THEN "block" ELSE "finish")
             /\ UNCHANGED <<todo, last_cmd_success, last_error>>
    <2>1. /\ data.phase = "buffer" /\ data.own /\ data.kind = cmd
          /\ data.left + cur_block = blocks_to_transfer
      <3>1. cmd \in INTERRUPT
        BY <1>1, <1>3 DEF Expected
      <3> QED
        BY <3>1, <1>1 DEF Punctual, Counted, Late
    <2>2. own'
      BY <1>1, <1>3, <2>1, Zenon
    <2>3. data' = [data EXCEPT !.phase = "run", !.left = data.left - 1]
      BY <1>3, <2>1
    <2>4. /\ data'.phase = "run" /\ data'.own /\ data'.kind = cmd /\ data'.left = data.left - 1
          /\ data.left \in Nat /\ cur_block \in Nat /\ blocks_to_transfer \in Nat
          /\ data.left > 0
      BY <2>1, <2>3 DEF TInv, TypeOK, Engines, Place, Offered
    <2>5. cmd' = cmd /\ Engaged' /\ pc' \in {"block", "finish"}
      BY <1>1, <1>3 DEF cmd, Engaged
    <2>6. INTERRUPT' \cap (Errors \cup {"transfer"}) = {}
      <3>1. INTERRUPT \cap (Errors \cup {"transfer"}) = {}
        BY <1>1, <2>1 DEF Punctual, Ends
      <3> QED
        BY <1>1, <3>1
    <2>7. Settles' /\ Clears' /\ Lines' /\ Ends'
      BY <1>1, <2>4, <2>5, <2>6 DEF Settles, Clears, Lines, Ends, Sending
    <2>8. Reads' /\ Answers' /\ Owns' /\ AllBlocksMoved' /\ late' = 0
      BY <1>1, <2>2, <2>5 DEF Punctual, Reads, Answers, Owns, AllBlocksMoved, Sending, Late
    <2>9. Counted'
      <3>1. data'.left + cur_block' = blocks_to_transfer
        BY <1>3, <2>1, <2>4
      <3>2. pc' = "finish" => cur_block' = blocks_to_transfer
        BY <1>1, <1>3, <2>4
      <3>3. cmd' \notin INTERRUPT'
        BY <1>1, <2>5
      <3> QED
        BY <1>1, <2>4, <2>5, <3>1, <3>2, <3>3 DEF Counted, Late
    <2> QED
      BY <2>7, <2>8, <2>9 DEF Punctual
  <1> QED
    BY <1>2, <1>3 DEF MoveBlock

(* The call ends after a command that has a busy signal or data.             *)
LEMMA SuccessPunctual ==
    ASSUME TInv, Punctual, End(TRUE), pc \in {"finish", "completed"}, Quiet,
           UNCHANGED <<line, data, late, own, cur_block, blocks_to_transfer>>
    PROVE  Punctual'
  <1>1. pc \in Sending /\ Engaged /\ own
    BY DEF TInv, Place, Goes, Late, Sending, Punctual, Owns
  <1>2. cmd # "plain"
    BY <1>1 DEF Engaged, WithBusy, WithData
  <1>3. pc' = "rest" /\ todo' = todo
    BY <1>2, EndFacts DEF TInv, Place
  <1>4. Quiet' /\ cmd' = cmd
    BY <1>3 DEF Quiet, cmd
  <1>5. cmd \in WithData => cur_block = blocks_to_transfer /\ data.left + cur_block = blocks_to_transfer
    BY <1>1 DEF Punctual, Counted, Late, Sending
  <1>6. cmd \in WithData => data.left = 0
    BY <1>5 DEF TInv, TypeOK, Engines
  <1>7. AllBlocksMoved'
    BY <1>1, <1>4, <1>5, <1>6 DEF AllBlocksMoved
  <1> QED
    BY <1>3, <1>4, <1>7, RestPunctual DEF Punctual

LEMMA CheckDataLinePunctual == TInv /\ Punctual /\ CheckDataLine => Punctual'
  <1> SUFFICES ASSUME TInv, Punctual, CheckDataLine PROVE Punctual'
    OBVIOUS
  <1>1. /\ pc = "finish" /\ line = "idle"
        /\ UNCHANGED <<line, data, answered, irpts, cur_block, blocks_to_transfer, own, late>>
    BY DEF CheckDataLine, controller, bounds, Punctual, Lines, Sending, TInv, TypeOK
  <1>2. CASE data.phase = "idle"
    <2>1. End(TRUE)
      BY <1>2 DEF CheckDataLine
    <2> QED
      BY <1>1, <1>2, <2>1, SuccessPunctual DEF Quiet
  <1>3. CASE data.phase # "idle"
    <2>1. pc' = "transfer" /\ UNCHANGED <<INTERRUPT, todo, last_cmd_success>>
      BY <1>3 DEF CheckDataLine
    <2>2. cmd' = cmd /\ (Engaged' <=> Engaged)
      BY <2>1 DEF cmd, Engaged
    <2> QED
      BY <1>1, <2>1, <2>2 DEF Punctual, Settles, Clears, Lines, Ends, Reads, Answers, Counted, Owns,
         AllBlocksMoved, Sending, Late
  <1> QED
    BY <1>2, <1>3

LEMMA AckTransferPunctual == TInv /\ Punctual /\ AckTransfer => Punctual'
  <1> SUFFICES ASSUME TInv, Punctual, AckTransfer PROVE Punctual'
    OBVIOUS
  <1>1. /\ pc = "completed" /\ pc \in Sending /\ Quiet
        /\ UNCHANGED <<line, data, cur_block, blocks_to_transfer, own, late>>
    BY DEF AckTransfer, controller, bounds, Punctual, Reads, Sending
  <1>2. CASE End(TRUE)
    BY <1>1, <1>2, SuccessPunctual
  <1>3. CASE Fail
    BY <1>1, <1>3, FailPunctual
  <1> QED
    BY <1>2, <1>3, Zenon DEF AckTransfer

(* The controller acts on a command that was sent, or on data it is moving,  *)
(* and the driver waits for both.                                            *)
LEMMA LinePunctual ==
    ASSUME TInv, Punctual, line = "sent", line' = "idle", UNCHANGED <<pc, todo, irpts, cur_block,
           blocks_to_transfer, last_cmd_success, own, late>>,
           \/ /\ INTERRUPT' = INTERRUPT \cup {"command"} /\ answered'
              /\ data' = (IF data.phase = "wait" THEN [data EXCEPT !.phase = "run"] ELSE data)
           \/ /\ \E e \in CommandErrors : INTERRUPT' = INTERRUPT \cup {e}
              /\ answered' = answered
              /\ data' = (IF data.phase = "wait" THEN [data EXCEPT !.phase = "idle"] ELSE data)
    PROVE  Punctual'
  <1>1. pc \in Sending
    BY DEF Punctual, Settles, Quiet
  <1>2. /\ pc = "await" /\ INTERRUPT \subseteq {"removal"}
        /\ Engaged => data.phase = "wait"
        /\ ~Engaged => data.phase \in {"idle", "buffer"}
    BY <1>1 DEF Punctual, Lines
  <1>3. cmd' = cmd /\ (Engaged' <=> Engaged)
    BY DEF cmd, Engaged
  <1>4. data \in Engines
    BY DEF TInv, TypeOK
  <1>5. /\ data'.phase \in {"run", "idle", "buffer"} /\ data'.kind = data.kind
        /\ data'.own = data.own /\ data'.left = data.left
        /\ ~Engaged => data'.phase \in {"idle", "buffer"}
        /\ INTERRUPT' \cap (Errors \cup {"transfer"}) # {} /\ Engaged => data'.phase = "idle"
    BY <1>2, <1>4 DEF Engines, Errors, CommandErrors, DataErrors
  <1>6. INTERRUPT' \subseteq CommandErrors \cup {"command", "removal"}
    BY <1>2
  <1>7. Settles' /\ Clears' /\ Lines' /\ Ends'
    BY <1>1, <1>2, <1>3, <1>5, <1>6 DEF Settles, Clears, Lines, Ends, Sending
  <1>8. Reads' /\ Owns' /\ AllBlocksMoved' /\ late' = 0
    BY <1>1, <1>2, <1>3 DEF Punctual, Reads, Owns, AllBlocksMoved
  <1>9. Answers'
    BY <1>2 DEF Answers, Late, Sending, CommandErrors
  <1>10. Counted'
    BY <1>1, <1>2, <1>3, <1>5, <1>6 DEF Punctual, Counted, Late, Sending, WithData, CommandErrors
  <1> QED
    BY <1>7, <1>8, <1>9, <1>10 DEF Punctual

LEMMA DataPunctual ==
    ASSUME TInv, Punctual, data.phase = "run", UNCHANGED <<line, answered, pc, todo, irpts,
           cur_block, blocks_to_transfer, last_cmd_success, own, late>>,
           \/ /\ data.left > 0 /\ INTERRUPT' = INTERRUPT \cup {data.kind}
              /\ data' = [data EXCEPT !.phase = "buffer"]
           \/ /\ \E bits \in SUBSET (Errors \cup {"transfer"}) :
                    bits # {} /\ INTERRUPT' = INTERRUPT \cup bits
              /\ \E done \in BOOLEAN : data' = [data EXCEPT !.phase = "idle", !.done = done]
    PROVE  Punctual'
  <1>1. pc \in Sending
    BY DEF Punctual, Settles, Quiet
  <1>2. Engaged /\ line = "idle" /\ INTERRUPT \cap (Errors \cup {"transfer"}) = {}
    BY <1>1 DEF Punctual, Lines, Ends, TInv, TypeOK
  <1>3. cmd' = cmd /\ (Engaged' <=> Engaged)
    BY DEF cmd, Engaged
  <1>4. /\ data'.kind = data.kind /\ data'.own = data.own /\ data'.left = data.left
        /\ data'.phase \in {"buffer", "idle"}
    BY DEF TInv, TypeOK, Engines
  <1>5. ~Quiet
    BY DEF Quiet
  <1>6. Settles' /\ Clears' /\ Lines' /\ Answers'
    <2>1. "command" \in INTERRUPT' <=> "command" \in INTERRUPT
      BY DEF TInv, Place, Offered, WithData, Errors, CommandErrors, DataErrors
    <2> QED
      BY <1>1, <1>2, <1>3, <1>4, <2>1 DEF Punctual, Settles, Clears, Lines, Answers, Sending, Late
  <1>7. Ends'
    <2>1. CASE data.left > 0 /\ INTERRUPT' = INTERRUPT \cup {data.kind}
      <3>1. data.kind \in WithData
        BY <2>1 DEF TInv, Place, Offered
      <3>2. INTERRUPT' \cap (Errors \cup {"transfer"}) = {}
        BY <1>2, <2>1, <3>1 DEF WithData, Errors, CommandErrors, DataErrors
      <3> QED
        BY <3>2 DEF Ends
    <2>2. CASE \E done \in BOOLEAN : data' = [data EXCEPT !.phase = "idle", !.done = done]
      <3>1. data'.phase = "idle"
        BY <2>2 DEF TInv, TypeOK, Engines
      <3> QED
        BY <1>2, <1>3, <3>1 DEF Ends
    <2> QED
      BY <2>1, <2>2
  <1>8. Reads'
    <2>1. INTERRUPT \subseteq INTERRUPT'
      OBVIOUS
    <2>2. Reads
      BY DEF Punctual
    <2>3. pc # "completed" /\ (pc = "acked" => "command" \in irpts) /\ (pc = "moved" => cmd \in irpts)
      BY <1>5, <2>2 DEF Reads
    <2> QED
      BY <1>3, <2>1, <2>2, <2>3 DEF Reads
  <1>9. Owns' /\ AllBlocksMoved' /\ late' = 0
    BY <1>1, <1>3 DEF Punctual, Owns, AllBlocksMoved, Sending
  <1>10. Counted'
    <2>1. ASSUME cmd \in WithData PROVE cmd \in INTERRUPT' => data'.phase = "buffer"
      <3>1. cmd \notin INTERRUPT /\ data.kind = cmd
        BY <1>1, <2>1 DEF Punctual, Counted
      <3>2. cmd \notin Errors \cup {"transfer"}
        BY <2>1 DEF WithData, Errors, CommandErrors, DataErrors
      <3>3. CASE data' = [data EXCEPT !.phase = "buffer"]
        BY <3>3 DEF TInv, TypeOK, Engines
      <3>4. CASE \E bits \in SUBSET (Errors \cup {"transfer"}) : INTERRUPT' = INTERRUPT \cup bits
        BY <3>1, <3>2, <3>4
      <3> QED
        BY <3>3, <3>4
    <2>2. pc' = pc /\ cur_block' = cur_block /\ blocks_to_transfer' = blocks_to_transfer
      OBVIOUS
    <2>3. Counted
      BY DEF Punctual
    <2> QED
      BY <1>3, <1>4, <2>1, <2>2, <2>3 DEF Counted
  <1> QED
    BY <1>6, <1>7, <1>8, <1>9, <1>10 DEF Punctual

LEMMA RemovePunctual == TInv /\ Punctual /\ RemoveCard => Punctual'
  <1> SUFFICES ASSUME TInv, Punctual, RemoveCard PROVE Punctual'
    OBVIOUS
  <1>1. /\ INTERRUPT' = INTERRUPT \cup {"removal"}
        /\ UNCHANGED <<line, data, answered, pc, todo, irpts, cur_block, blocks_to_transfer,
                       last_cmd_success, own, late>>
    BY DEF RemoveCard, controller, device
  <1>2. cmd' = cmd /\ (Engaged' <=> Engaged) /\ (Quiet' <=> Quiet)
    BY <1>1 DEF cmd, Engaged, Quiet
  <1>3. /\ INTERRUPT' \cap (Errors \cup {"transfer"}) = INTERRUPT \cap (Errors \cup {"transfer"})
        /\ ("command" \in INTERRUPT' <=> "command" \in INTERRUPT)
        /\ \A k \in WithData : k \in INTERRUPT' <=> k \in INTERRUPT
    BY <1>1 DEF Errors, CommandErrors, DataErrors, WithData
  <1>4. Settles' /\ Clears' /\ Lines'
    BY <1>1, <1>2 DEF Punctual, Settles, Clears, Lines
  <1>5. Ends' /\ Reads' /\ Answers'
    BY <1>1, <1>2, <1>3 DEF Punctual, Ends, Reads, Answers
  <1>6. Counted' /\ Owns' /\ AllBlocksMoved' /\ late' = 0
    BY <1>1, <1>2, <1>3 DEF Punctual, Counted, Owns, AllBlocksMoved
  <1> QED
    BY <1>4, <1>5, <1>6 DEF Punctual

LEMMA ControllerPunctual == TInv /\ Punctual /\ Controller => Punctual'
  <1> SUFFICES ASSUME TInv, Punctual, Controller PROVE Punctual'
    OBVIOUS
  <1>1. UNCHANGED <<pc, todo, irpts, cur_block, blocks_to_transfer, last_cmd_success, own, late>>
    BY DEF Controller, Respond, RejectCommand, OfferBuffer, CompleteTransfer, RejectData, Raise, device
  <1>2. CASE Respond
    <2>1. pc # "rest"
      BY <1>2 DEF Respond, Punctual, Settles, Quiet, Sending
    <2> QED
      BY <1>1, <1>2, <2>1, LinePunctual DEF Respond, Raise
  <1>3. CASE RejectCommand
    BY <1>1, <1>3, LinePunctual DEF RejectCommand, Raise
  <1>4. CASE OfferBuffer
    BY <1>1, <1>4, DataPunctual DEF OfferBuffer, Raise
  <1>5. CASE CompleteTransfer
    <2>1. \E bits \in SUBSET (Errors \cup {"transfer"}) : bits # {} /\ INTERRUPT' = INTERRUPT \cup bits
      BY <1>5 DEF CompleteTransfer, Raise, Errors, DataErrors
    <2> QED
      BY <1>1, <1>5, <2>1, DataPunctual DEF CompleteTransfer
  <1>6. CASE RejectData
    <2>1. \E bits \in SUBSET (Errors \cup {"transfer"}) : bits # {} /\ INTERRUPT' = INTERRUPT \cup bits
      BY <1>6 DEF RejectData, Raise, Errors
    <2>2. \E done \in BOOLEAN : data' = [data EXCEPT !.phase = "idle", !.done = done]
      <3>1. data.done \in BOOLEAN /\ data' = [data EXCEPT !.phase = "idle"]
        BY <1>6 DEF RejectData, TInv, TypeOK, Engines
      <3>2. [data EXCEPT !.phase = "idle"] = [data EXCEPT !.phase = "idle", !.done = data.done]
        BY DEF TInv, TypeOK, Engines
      <3> QED
        BY <3>1, <3>2
    <2> QED
      BY <1>1, <1>6, <2>1, <2>2, DataPunctual DEF RejectData
  <1> QED
    BY <1>2, <1>3, <1>4, <1>5, <1>6 DEF Controller

LEMMA PunctualInductive ==
    ASSUME MaxLate = 0 PROVE Spec => [](TInv /\ Punctual)
  <1>1. Init => Punctual
    <2> SUFFICES ASSUME Init PROVE Punctual
      OBVIOUS
    <2>1. /\ pc = "rest" /\ line = "idle" /\ data.phase = "idle" /\ last_cmd_success = FALSE
          /\ late = 0
      BY DEF Init
    <2> QED
      BY <2>1 DEF Punctual, Settles, Quiet, Clears, Lines, Ends, Reads, Answers, Counted, Owns,
         AllBlocksMoved, Sending, Late
  <1>2. TInv /\ Punctual /\ UNCHANGED vars => Punctual'
    <2> SUFFICES ASSUME TInv, Punctual, UNCHANGED vars PROVE Punctual'
      OBVIOUS
    <2>1. UNCHANGED <<INTERRUPT, line, data, answered, pc, todo, irpts, cur_block,
                      blocks_to_transfer, last_cmd_success, own, late>>
      BY DEF vars, controller, device, bounds
    <2>2. cmd' = cmd /\ (Engaged' <=> Engaged) /\ (Quiet' <=> Quiet)
      BY <2>1 DEF cmd, Engaged, Quiet
    <2> QED
      BY <2>1, <2>2 DEF Punctual, Settles, Clears, Lines, Ends, Reads, Answers, Counted, Owns,
         AllBlocksMoved
  <1>3. TInv /\ Punctual /\ [Next]_vars => Punctual'
    BY <1>2, CallPunctual, ReadInterruptsPunctual, HandleInterruptsPunctual, IssuePunctual,
       AwaitsPunctual, AckCompletionPunctual, MoveBlockPunctual, CheckDataLinePunctual,
       AckTransferPunctual, ControllerPunctual, RemovePunctual DEF Next, Driver
  <1> QED
    BY TypeInductive, <1>1, <1>3, PTL DEF Spec

(* A read or write that is reported successful has moved all its blocks, if  *)
(* the driver never gives up first.                                          *)
THEOREM AllBlocksMovedCorrect ==
    ASSUME MaxLate = 0 PROVE Spec => []AllBlocksMoved
  <1>1. TInv /\ Punctual => AllBlocksMoved
    BY DEF Punctual
  <1> QED
    BY <1>1, PunctualInductive, PTL

-----------------------------------------------------------------------------
(* The refinement: what the contract sees of a step.                         *)
Pending  == pc # "rest"
Executed == answered /\ Len(todo) = 1 /\ pc # "inhibit"
Success  == pc = "rest" /\ last_cmd_success

(* The steps the contract does not see.                                      *)
LEMMA HiddenStep ==
    ASSUME Pending' <=> Pending, Executed' <=> Executed, Success' <=> Success,
           last_error' = last_error
    PROVE  [Contract!Next]_(Contract!vars)
  BY Zenon DEF Contract!vars, Pending, Executed, Success

LEMMA AnswerStep ==
    ASSUME TInv, Punctual, NEW ok \in BOOLEAN, End(ok), pc # "rest", UNCHANGED answered,
           pc = "inhibit" => ok = FALSE /\ ~Executed',
           ok => answered /\ pc # "inhibit" /\ last_error' = last_error,
           last_error' \subseteq Errors
    PROVE  [Contract!Next]_(Contract!vars)
  <1>1. /\ last_cmd_success' = ok /\ pc' \in {"rest", "inhibit"}
        /\ pc' = "inhibit" => /\ ok /\ cmd = "plain"
                              /\ todo' = Tail(todo) /\ todo' # <<>> /\ Len(todo') = 1
        /\ pc' = "rest" => todo' = todo /\ (ok => Len(todo) = 1)
    BY EndFacts DEF TInv, Place
  <1>2. CASE pc' = "inhibit"
    <2>1. ok /\ last_error' = last_error /\ Pending /\ Pending' /\ ~Success /\ ~Success' /\ ~Executed'
      BY <1>1, <1>2 DEF Pending, Success, Executed
    <2>2. Len(todo) > 1
      BY <1>2, Zenon DEF End
    <2>3. Len(todo) \in {1, 2}
      BY TodoFacts DEF TInv, TypeOK, Todos, Place, Asked
    <2>4. ~Executed
      BY <2>2, <2>3 DEF Executed
    <2> QED
      BY <2>1, <2>4, HiddenStep
  <1>3. CASE pc' = "rest"
    <2>1. Pending /\ ~Pending' /\ (Success' <=> ok)
      BY <1>1, <1>3 DEF Pending, Success
    <2>2. Executed' <=> Executed
      BY <1>1, <1>3 DEF Executed
    <2>3. ok => Executed /\ last_error' = last_error
      BY <1>1, <1>3 DEF Executed
    <2>4. Contract!Answer(ok, last_error')
      BY <2>1, <2>2, <2>3, Zenon DEF Contract!Answer, Pending, Executed, Success
    <2>5. last_error' \in SUBSET Errors
      OBVIOUS
    <2> QED
      BY <2>4, <2>5, Zenon DEF Contract!Next
  <1> QED
    BY <1>1, <1>2, <1>3

(* A call begins: the contract is asked.                                     *)
LEMMA AskStep ==
    ASSUME NEW c \in Calls, NEW n \in Blocks, Call(c, n)
    PROVE  [Contract!Next]_(Contract!vars)
  <1>1. ~Pending /\ Pending' /\ ~Executed' /\ ~Success' /\ last_error' = last_error
    BY DEF Call, Pending, Executed, Success
  <1>2. Contract!Ask
    BY <1>1, Zenon DEF Contract!Ask, Pending, Executed, Success
  <1> QED
    BY <1>2 DEF Contract!Next

(* The driver's steps that leave the call where it was.                      *)
LEMMA WaitStep ==
    ASSUME pc \notin {"rest", "inhibit"}, pc' \notin {"rest", "inhibit"},
           UNCHANGED <<todo, answered, last_error>>
    PROVE  [Contract!Next]_(Contract!vars)
  <1>1. (Pending' <=> Pending) /\ (Executed' <=> Executed) /\ (Success' <=> Success)
    BY DEF Pending, Executed, Success
  <1> QED
    BY <1>1, HiddenStep

LEMMA SendStep ==
    ASSUME TInv, Punctual, HandleInterrupts \/ Issue
    PROVE  [Contract!Next]_(Contract!vars)
  <1>1. last_error' = last_error /\ last_error \subseteq Errors
    BY DEF HandleInterrupts, Issue, TInv, TypeOK
  <1>2. CASE HandleInterrupts
    <2>1. pc = "handled" /\ UNCHANGED answered /\ ~answered
      BY <1>2 DEF HandleInterrupts, controller, Punctual, Answers
    <2>2. CASE card_removal
      <3>1. End(FALSE)
        BY <1>2, <2>2, Zenon DEF HandleInterrupts
      <3> QED
        BY <3>1, <2>1, <1>1, AnswerStep
    <2>3. CASE ~card_removal
      <3>1. pc' = "inhibit"
        BY <1>2, <2>3, Zenon DEF HandleInterrupts
      <3>2. (Pending' <=> Pending) /\ (Executed' <=> Executed) /\ (Success' <=> Success)
        BY <2>1, <3>1 DEF Pending, Executed, Success
      <3> QED
        BY <3>2, <1>1, HiddenStep
    <2> QED
      BY <2>2, <2>3
  <1>3. CASE Issue
    <2>1. pc = "inhibit"
      BY <1>3 DEF Issue
    <2>2. CASE blocks_to_transfer > MaxBlocks
      <3>1. End(FALSE) /\ UNCHANGED answered
        BY <1>3, <2>2, Zenon DEF Issue, controller
      <3>2. ~answered
        <4>1. blocks_to_transfer \in Nat /\ MaxBlocks \in Nat
          BY CommandAssumption DEF TInv, TypeOK
        <4> QED
          BY <4>1, <2>1, <2>2 DEF Punctual, Answers
      <3> QED
        BY <3>1, <3>2, <2>1, <1>1, AnswerStep DEF Executed
    <2>3. CASE ~(blocks_to_transfer > MaxBlocks)
      <3>1. pc' = "await" /\ ~answered'
        BY <1>3, <2>3, Zenon DEF Issue
      <3>2. (Pending' <=> Pending) /\ (Executed' <=> Executed) /\ (Success' <=> Success)
        BY <2>1, <3>1 DEF Pending, Executed, Success
      <3> QED
        BY <3>2, <1>1, HiddenStep
    <2> QED
      BY <2>2, <2>3
  <1> QED
    BY <1>2, <1>3

LEMMA FailStep ==
    ASSUME TInv, Punctual, Fail, pc \in Sending, UNCHANGED answered
    PROVE  [Contract!Next]_(Contract!vars)
  <1>1. End(FALSE) /\ last_error' \subseteq Errors /\ pc \notin {"rest", "inhibit"}
    BY DEF Fail, Sending
  <1> QED
    BY <1>1, AnswerStep

(* A success is told after the answer of the card.                           *)
LEMMA AckStep ==
    ASSUME TInv, Punctual, AckCompletion \/ MoveBlock \/ CheckDataLine \/ AckTransfer
    PROVE  [Contract!Next]_(Contract!vars)
  <1>1. /\ pc \in {"acked", "moved", "finish", "completed"} /\ UNCHANGED answered
        /\ last_error \subseteq Errors
    BY DEF AckCompletion, MoveBlock, CheckDataLine, AckTransfer, controller, TInv, TypeOK
  <1>2. pc \in Sending /\ pc \notin {"rest", "inhibit"}
    BY <1>1 DEF Sending
  <1>3. CASE Fail
    BY <1>1, <1>2, <1>3, FailStep
  <1>4. CASE UNCHANGED <<todo, last_error>> /\ pc' \notin {"rest", "inhibit"}
    BY <1>1, <1>2, <1>4, WaitStep
  <1>5. CASE End(TRUE) /\ UNCHANGED last_error /\ answered
    BY <1>1, <1>2, <1>5, AnswerStep
  <1>6. ASSUME AckCompletion, ~Fail
        PROVE  \/ UNCHANGED <<todo, last_error>> /\ pc' \notin {"rest", "inhibit"}
               \/ End(TRUE) /\ UNCHANGED last_error /\ answered
    <2>1. /\ Expected("command") /\ UNCHANGED last_error /\ pc = "acked"
          /\ IF Engaged
             THEN /\ pc' = (IF cmd \in WithData /\ blocks_to_transfer > 0 THEN "block" ELSE "finish")
                  /\ UNCHANGED todo
             ELSE End(TRUE)
      BY <1>6, Zenon DEF AckCompletion, Engaged
    <2>2. "command" \in INTERRUPT
      BY <2>1 DEF Expected, Punctual, Reads
    <2>3. answered
      BY <2>1, <2>2 DEF Punctual, Answers
    <2> QED
      BY <2>1, <2>3
  <1>7. ASSUME MoveBlock, ~Fail PROVE UNCHANGED <<todo, last_error>> /\ pc' \notin {"rest", "inhibit"}
    BY <1>7 DEF MoveBlock
  <1>8. ASSUME CheckDataLine
        PROVE  \/ UNCHANGED <<todo, last_error>> /\ pc' \notin {"rest", "inhibit"}
               \/ End(TRUE) /\ UNCHANGED last_error /\ answered
    <2>1. answered
      BY <1>8 DEF CheckDataLine, Punctual, Answers, Late, Sending
    <2> QED
      BY <1>8, <2>1 DEF CheckDataLine
  <1>9. ASSUME AckTransfer, ~Fail PROVE End(TRUE) /\ UNCHANGED last_error /\ answered
    <2>1. answered
      BY <1>9 DEF AckTransfer, Punctual, Answers, Late, Sending
    <2> QED
      BY <1>9, <2>1, Zenon DEF AckTransfer
  <1> QED
    BY <1>3, <1>4, <1>5, <1>6, <1>7, <1>8, <1>9

(* The card answers once: the contract executes, unless it was APP_CMD.      *)
LEMMA ExecuteStep ==
    ASSUME TInv, Punctual, Controller \/ RemoveCard
    PROVE  [Contract!Next]_(Contract!vars)
  <1>1. UNCHANGED <<pc, todo, last_cmd_success, last_error>>
    BY DEF Controller, Respond, RejectCommand, OfferBuffer, CompleteTransfer, RejectData, Raise,
           RemoveCard, device
  <1>2. CASE UNCHANGED answered
    <2>1. (Pending' <=> Pending) /\ (Executed' <=> Executed) /\ (Success' <=> Success)
      BY <1>1, <1>2 DEF Pending, Executed, Success
    <2> QED
      BY <2>1, <1>1, HiddenStep
  <1>3. CASE Respond
    <2>1. pc \in Sending /\ line = "sent"
      BY <1>3 DEF Respond, Punctual, Settles, Quiet
    <2>2. pc = "await" /\ ~answered /\ answered'
      BY <1>3, <2>1 DEF Respond, Punctual, Lines
    <2>3. (Pending' <=> Pending) /\ (Success' <=> Success) /\ Pending /\ ~Executed
          /\ (Executed' <=> Len(todo) = 1)
      BY <1>1, <2>2 DEF Pending, Success, Executed
    <2>4. CASE Executed'
      <3>1. Contract!Execute
        BY <1>1, <2>3, <2>4, Zenon DEF Contract!Execute, Pending, Executed, Success
      <3> QED
        BY <3>1 DEF Contract!Next
    <2>5. CASE ~Executed'
      BY <1>1, <2>3, <2>5, HiddenStep
    <2> QED
      BY <2>4, <2>5
  <1> QED
    BY <1>2, <1>3 DEF Controller, RejectCommand, OfferBuffer, CompleteTransfer, RejectData,
       RemoveCard, controller

(* Every call keeps the safety part of the contract: the command is executed *)
(* at most once, and only what was executed is reported successful.          *)
THEOREM ImplementsContractSafely ==
    ASSUME MaxLate = 0 PROVE Spec => Contract!Spec
  <1>1. Init => Contract!Init
    BY DEF Init, Contract!Init
  <1>2. TInv /\ Punctual /\ UNCHANGED vars => [Contract!Next]_(Contract!vars)
    <2> SUFFICES ASSUME UNCHANGED vars PROVE [Contract!Next]_(Contract!vars)
      OBVIOUS
    <2>1. UNCHANGED <<pc, todo, answered, last_cmd_success, last_error>>
      BY DEF vars, controller, device
    <2>2. (Pending' <=> Pending) /\ (Executed' <=> Executed) /\ (Success' <=> Success)
      BY <2>1 DEF Pending, Executed, Success
    <2> QED
      BY <2>1, <2>2, HiddenStep
  <1>3. ASSUME TInv, ReadInterrupts \/ AwaitCompletion \/ AwaitBlock \/ AwaitTransfer
        PROVE  [Contract!Next]_(Contract!vars)
    <2>1. /\ pc \notin {"rest", "inhibit"} /\ pc' \notin {"rest", "inhibit"}
          /\ UNCHANGED <<todo, answered, last_error>>
      BY <1>3 DEF ReadInterrupts, AwaitCompletion, AwaitBlock, AwaitTransfer, Await, controller, device
    <2> QED
      BY <2>1, WaitStep
  <1>4. TInv /\ Punctual /\ [Next]_vars => [Contract!Next]_(Contract!vars)
    BY <1>2, <1>3, AskStep, SendStep, AckStep, ExecuteStep DEF Next, Driver
  <1> QED
    BY <1>1, <1>4, PunctualInductive, PTL DEF Spec, Contract!Spec
=============================================================================
