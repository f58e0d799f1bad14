------------------------------ MODULE Mailbox -------------------------------
(***************************************************************************)
(* The property mailbox of src/src/drivers/mbox.c: the CPU lends a buffer  *)
(* to the VideoCore firmware, which reads it, answers in place and sends   *)
(* the address back, while messages of other channels arrive in between.   *)
(***************************************************************************)
EXTENDS Integers, Sequences

CONSTANTS
    Buffers,        \* message buffers, on the stack or at fixed addresses
    Misaligned,     \* those that are not aligned to 16 bytes
    Requests,       \* what callers ask for
    Inputs,         \* what they pass
    Capacity,       \* entries of each of the two mailboxes
    MaxForeign      \* bound: messages of other channels waiting at a time

(* A request: its tag, whether the firmware knows it, how many words its    *)
(* value has, and the input.                                               *)
RequestOK(q) ==
    /\ q.known \in BOOLEAN /\ q.words \in 0..2
    /\ q.input \in Inputs \cup {"null"}

ASSUME MailboxAssumption ==
    /\ Misaligned \subseteq Buffers /\ \A q \in Requests : RequestOK(q)
    /\ Capacity \in Nat \ {0} /\ MaxForeign \in Nat
    /\ "foreign" \notin Buffers /\ "none" \notin Buffers
    /\ {"answer", "zero", "old"} \cap Inputs = {}

VARIABLES
    mem,                    \* what each buffer holds
    to_gpu, from_gpu,       \* the two mailboxes: addresses, or "foreign"
    working, answered,      \* the message the firmware works on
    pc, call, mbox, request, \* the call that runs, or the last one
    result, value,          \* what it returned
    gaveUp                  \* a wait has ended on a message not its own

firmware == <<working, answered>>
calling  == <<call, mbox, request>>
vars     == <<mem, to_gpu, from_gpu, firmware, pc, calling, result, value, gaveUp>>

Words  == Inputs \cup {"zero", "old", "answer"}
Values == [1..2 -> Words]
Codes  == {"old", "MBOX_REQUEST", "MBOX_RESPONSE_SUCCESS", "MBOX_RESPONSE_PARSE_ERROR"}
Old    == [i \in 1..2 |-> "old"]

(* Neither mailbox ever holds more than it has room for.                   *)
QueuesOK ==
    /\ to_gpu \in Seq(Buffers) /\ Len(to_gpu) <= Capacity
    /\ from_gpu \in Seq(Buffers \cup {"foreign"}) /\ Len(from_gpu) <= Capacity

MemoryOK == mem \in [Buffers -> [code : Codes, request : Requests, value : Values]]

CallOK ==
    /\ pc \in {"rest", "header", "tag", "send", "wait", "look"}
    /\ call \in {"prop", "raw", "pair"} /\ mbox \in Buffers /\ request \in Requests
    /\ result \in {"none", "MBOX_SUCCESS", "MBOX_ERR_UNKNOWN", "MBOX_ERR_PTR_ALIGN"}
    /\ value \in Values

(* Every variable has its type.                                            *)
TypeOK ==
    /\ QueuesOK /\ MemoryOK /\ CallOK
    /\ working \in Buffers \cup {"none"} /\ answered \in BOOLEAN /\ gaveUp \in BOOLEAN

Init ==
    /\ \E q \in Requests :
        /\ mem = [b \in Buffers |-> [code |-> "old", request |-> q, value |-> Old]]
        /\ request = q
    /\ to_gpu = <<>> /\ from_gpu = <<>> /\ working = "none" /\ answered = FALSE
    /\ pc = "rest" /\ call = "raw" /\ mbox \in Buffers
    /\ result = "none" /\ value = Old
    /\ gaveUp = FALSE

-----------------------------------------------------------------------------
(* The CPU.                                                                *)

(* The value is copied, or looked at by the caller, after a success only.  *)
Return(res) ==
    /\ pc' = "rest" /\ result' = res
    /\ value' = IF res = "MBOX_SUCCESS" THEN mem[mbox].value ELSE Old

(* mbox_prop_call looks at the alignment first.  In the other calls,       *)
(* mbox_call_raw and mbox_command_start with mbox_command_wait, the caller *)
(* has filled the buffer by then.                                          *)
Call(c, b, q) ==
    /\ pc = "rest"
    /\ call' = c /\ mbox' = b /\ request' = q /\ value' = Old
    /\ IF c = "prop" /\ b \in Misaligned
       THEN pc' = "rest" /\ result' = "MBOX_ERR_PTR_ALIGN"
       ELSE pc' = "header" /\ result' = "none"
    /\ UNCHANGED <<mem, to_gpu, from_gpu, firmware, gaveUp>>

FillHeader ==
    /\ pc = "header" /\ pc' = "tag"
    /\ mem' = [mem EXCEPT ![mbox].code = "MBOX_REQUEST"]
    /\ UNCHANGED <<to_gpu, from_gpu, firmware, calling, result, value, gaveUp>>

Asked(q) == IF q.input = "null" THEN "zero" ELSE q.input

(* The loop of mbox_prop_call_internal ends before buf_max, which is the   *)
(* index of the last word.  The other callers write every word.            *)
Prepared(old) ==
    [i \in 1..2 |->
        IF i < request.words \/ (i = request.words /\ call # "prop")
        THEN Asked(request) ELSE old[i]]

FillTag ==
    /\ pc = "tag" /\ pc' = "send"
    /\ mem' = [mem EXCEPT ![mbox] = [code |-> @.code, request |-> request,
                                     value |-> Prepared(@.value)]]
    /\ UNCHANGED <<to_gpu, from_gpu, firmware, calling, result, value, gaveUp>>

(* Mutant of CommandStart: MBOX_FULL is not looked at.                     *)
CommandStart_NoWait ==
    /\ pc = "send"
    /\ IF mbox \in Misaligned
       THEN /\ Return(IF call = "raw" THEN "MBOX_ERR_PTR_ALIGN" ELSE "MBOX_ERR_UNKNOWN")
            /\ UNCHANGED to_gpu
       ELSE /\ to_gpu' = Append(to_gpu, mbox)
            /\ pc' = "wait" /\ UNCHANGED <<result, value>>
    /\ UNCHANGED <<mem, from_gpu, firmware, calling, gaveUp>>

(* mbox_command_start, and the first half of mbox_call_raw.  The callers   *)
(* of the pair ignore its errors and find the code still a request.        *)
CommandStart ==
    /\ pc = "send"
    /\ IF mbox \in Misaligned
       THEN /\ Return(IF call = "raw" THEN "MBOX_ERR_PTR_ALIGN" ELSE "MBOX_ERR_UNKNOWN")
            /\ UNCHANGED to_gpu
       ELSE /\ Len(to_gpu) < Capacity
            /\ to_gpu' = Append(to_gpu, mbox)
            /\ pc' = "wait" /\ UNCHANGED <<result, value>>
    /\ UNCHANGED <<mem, from_gpu, firmware, calling, gaveUp>>

(* mbox_command_wait takes one message and returns, whatever it is; only   *)
(* a message of its own makes it look at the code.  The callers of the     *)
(* pair ignore its errors and look at the code in any case.                *)
CommandWait ==
    /\ pc = "wait" /\ call \in {"prop", "pair"} /\ from_gpu # <<>>
    /\ from_gpu' = Tail(from_gpu)
    /\ gaveUp' = (gaveUp \/ Head(from_gpu) # mbox)
    /\ IF call = "pair" \/ Head(from_gpu) = mbox
       THEN pc' = "look" /\ UNCHANGED <<result, value>>
       ELSE Return("MBOX_ERR_UNKNOWN")
    /\ UNCHANGED <<mem, to_gpu, firmware, calling>>

(* Mutant of CallRaw: the first message is taken for the answer.           *)
CallRaw_AnyMessage ==
    /\ pc = "wait" /\ call = "raw" /\ from_gpu # <<>>
    /\ from_gpu' = Tail(from_gpu) /\ pc' = "look"
    /\ UNCHANGED <<mem, to_gpu, firmware, calling, result, value, gaveUp>>

(* Mutant of CallRaw: an answer that is no success is discarded too.       *)
CallRaw_OnlySuccess ==
    /\ pc = "wait" /\ call = "raw" /\ from_gpu # <<>>
    /\ from_gpu' = Tail(from_gpu)
    /\ pc' = IF Head(from_gpu) = mbox /\ mem[mbox].code = "MBOX_RESPONSE_SUCCESS"
             THEN "look" ELSE "wait"
    /\ UNCHANGED <<mem, to_gpu, firmware, calling, result, value, gaveUp>>

(* mbox_call_raw discards what is not for it.                              *)
CallRaw ==
    /\ pc = "wait" /\ call = "raw" /\ from_gpu # <<>>
    /\ from_gpu' = Tail(from_gpu)
    /\ pc' = IF Head(from_gpu) = mbox THEN "look" ELSE "wait"
    /\ UNCHANGED <<mem, to_gpu, firmware, calling, result, value, gaveUp>>

(* Mutant of LookAtCode: any answer to the message is a success.           *)
LookAtCode_AnyCode ==
    /\ pc = "look"
    /\ Return("MBOX_SUCCESS")
    /\ UNCHANGED <<mem, to_gpu, from_gpu, firmware, calling, gaveUp>>

(* The code of the buffer decides.                                         *)
LookAtCode ==
    /\ pc = "look"
    /\ Return(IF mem[mbox].code = "MBOX_RESPONSE_SUCCESS"
              THEN "MBOX_SUCCESS" ELSE "MBOX_ERR_UNKNOWN")
    /\ UNCHANGED <<mem, to_gpu, from_gpu, firmware, calling, gaveUp>>

-----------------------------------------------------------------------------
(* The firmware.                                                           *)

Take ==
    /\ working = "none" /\ to_gpu # <<>>
    /\ working' = Head(to_gpu) /\ to_gpu' = Tail(to_gpu) /\ answered' = FALSE
    /\ UNCHANGED <<mem, from_gpu, pc, calling, result, value, gaveUp>>

(* A tag it does not know keeps its value, and the message still succeeds. *)
AnswerTo(m) ==
    [i \in 1..2 |-> IF m.request.known /\ i <= m.request.words THEN "answer" ELSE m.value[i]]

Answer ==
    /\ working # "none" /\ ~answered /\ answered' = TRUE
    /\ \E code \in {"MBOX_RESPONSE_SUCCESS", "MBOX_RESPONSE_PARSE_ERROR"} :
        mem' = [mem EXCEPT ![working] =
                   [code |-> code, request |-> @.request,
                    value |-> IF code = "MBOX_RESPONSE_SUCCESS" THEN AnswerTo(@) ELSE @.value]]
    /\ UNCHANGED <<to_gpu, from_gpu, working, pc, calling, result, value, gaveUp>>

Post ==
    /\ working # "none" /\ answered /\ Len(from_gpu) < Capacity
    /\ from_gpu' = Append(from_gpu, working) /\ working' = "none"
    /\ UNCHANGED <<mem, to_gpu, answered, pc, calling, result, value, gaveUp>>

ForeignWaiting == Len(SelectSeq(from_gpu, LAMBDA m : m = "foreign"))

(* A message of another channel.                                           *)
PostForeign ==
    /\ Len(from_gpu) < Capacity
    /\ ForeignWaiting < MaxForeign
    /\ from_gpu' = Append(from_gpu, "foreign")
    /\ UNCHANGED <<mem, to_gpu, firmware, pc, calling, result, value, gaveUp>>

CPU      == FillHeader \/ FillTag \/ CommandStart \/ CommandWait \/ CallRaw \/ LookAtCode
Firmware == Take \/ Answer \/ Post

Next ==
    \/ CPU \/ Firmware \/ PostForeign
    \/ \E c \in {"prop", "raw", "pair"}, b \in Buffers, q \in Requests : Call(c, b, q)

Spec == Init /\ [][Next]_vars

(* The CPU runs on, and the firmware answers what it is sent.              *)
FairSpec == Spec /\ WF_vars(CPU) /\ WF_vars(Firmware)

-----------------------------------------------------------------------------
Holds(b) == b = working \/ \E i \in DOMAIN to_gpu : to_gpu[i] = b

Returning(b) == \E i \in DOMAIN from_gpu : from_gpu[i] = b

(* Until a wait has ended on a message of another channel, a buffer is     *)
(* lent only while a call waits for it: when a call returns, its buffer,   *)
(* often a local of the caller, is neither read nor written any more, and  *)
(* no answer is left that a later call could take for its own.             *)
LentWhileWaiting ==
    ~gaveUp => \A b \in Buffers : Holds(b) \/ Returning(b) => pc = "wait" /\ b = mbox

(* Until then, too, a success is the firmware's answer to this request.    *)
AnswerIsOwn ==
    (~gaveUp /\ pc = "rest" /\ result = "MBOX_SUCCESS" /\ request.known)
        => \A i \in 1..request.words : value[i] = "answer"

(* Both mailboxes are full: the firmware cannot post, the CPU cannot send. *)
Jammed == Len(to_gpu) = Capacity /\ Len(from_gpu) = Capacity

(* Every call returns, whatever other messages it meets and whatever calls *)
(* before it have left behind, unless that fills both mailboxes.           *)
EveryCallReturns == (pc # "rest") ~> (pc = "rest" \/ Jammed)
=============================================================================
