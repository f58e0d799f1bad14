---------------------------- MODULE MailboxProofs ----------------------------
(***************************************************************************)
(* For every number of buffers, requests and mailbox entries: until a wait *)
(* has ended on a message of another channel, buffers are lent only while  *)
(* a call waits, and a success is the firmware's own answer.               *)
(***************************************************************************)
EXTENDS Mailbox, SequenceTheorems, TLAPS

OnlyForeign == \A i \in 1..Len(from_gpu) : from_gpu[i] = "foreign"

(* The firmware has answered the buffer of the call.                       *)
Done ==
    (mem[mbox].code = "MBOX_RESPONSE_SUCCESS" /\ request.known)
        => \A i \in 1..request.words : mem[mbox].value[i] = "answer"

(* The three places a lent buffer can be at.                               *)
Sent     == to_gpu = <<mbox>> /\ working = "none" /\ OnlyForeign
InWork   == to_gpu = <<>> /\ working = mbox /\ OnlyForeign /\ (answered => Done)
SentBack ==
    /\ to_gpu = <<>> /\ working = "none" /\ Done
    /\ \E k \in 1..Len(from_gpu) :
        /\ from_gpu[k] = mbox
        /\ \A i \in 1..Len(from_gpu) : i # k => from_gpu[i] = "foreign"

NotLent == to_gpu = <<>> /\ working = "none" /\ OnlyForeign

Loan ==
    ~gaveUp => IF pc = "wait" THEN Sent \/ InWork \/ SentBack ELSE NotLent

(* Between the sending and the return, the buffer holds the call's request. *)
HeaderWritten == pc \in {"send", "wait", "look"} => mem[mbox].request = request

LookedAt == (~gaveUp /\ pc = "look") => Done

Inv == TypeOK /\ Loan /\ HeaderWritten /\ LookedAt /\ AnswerIsOwn

-----------------------------------------------------------------------------
LEMMA OldValue == Old \in Values
  BY DEF Old, Values, Words

LEMMA InitInv == Init => Inv
<1> SUFFICES ASSUME Init PROVE Inv
  OBVIOUS
<1>1. QueuesOK
  BY MailboxAssumption DEF Init, QueuesOK
<1>2. MemoryOK /\ CallOK
  BY OldValue DEF Init, MemoryOK, CallOK, Codes
<1>3. TypeOK
  BY <1>1, <1>2 DEF Init, TypeOK
<1> QED
  BY <1>3 DEF Init, Inv, Loan, NotLent, OnlyForeign, HeaderWritten, LookedAt, AnswerIsOwn

(* What a call returns has the type of a result and a value.               *)
LEMMA ReturnOK ==
  ASSUME TypeOK, NEW res \in {"MBOX_SUCCESS", "MBOX_ERR_UNKNOWN", "MBOX_ERR_PTR_ALIGN"},
         Return(res), UNCHANGED calling
  PROVE  CallOK'
<1>1. mem[mbox].value \in Values
  BY DEF TypeOK, MemoryOK, CallOK
<1> QED
  BY <1>1, OldValue DEF TypeOK, CallOK, Return, calling

LEMMA CallInv ==
  ASSUME Inv, NEW c \in {"prop", "raw", "pair"}, NEW b \in Buffers, NEW q \in Requests,
         Call(c, b, q)
  PROVE  Inv'
<1>1. UNCHANGED <<mem, to_gpu, from_gpu, working, answered, gaveUp>>
  BY DEF Call, firmware
<1>2. CallOK'
  BY OldValue DEF Call, CallOK, Inv, TypeOK
<1>3. TypeOK'
  BY <1>1, <1>2 DEF Inv, TypeOK, QueuesOK, MemoryOK
<1>4. pc = "rest" /\ pc' \in {"rest", "header"} /\ result' # "MBOX_SUCCESS"
  BY DEF Call
<1>5. Loan'
  BY <1>1, <1>4 DEF Inv, Loan, NotLent, OnlyForeign
<1> QED
  BY <1>3, <1>4, <1>5 DEF Inv, HeaderWritten, LookedAt, AnswerIsOwn

LEMMA FillInv == ASSUME Inv, FillHeader \/ FillTag PROVE Inv'
<1>1. /\ UNCHANGED <<to_gpu, from_gpu, working, answered, gaveUp, call, mbox, request, result, value>>
      /\ pc \in {"header", "tag"} /\ pc' \in {"tag", "send"}
  BY DEF FillHeader, FillTag, firmware, calling
<1>2. MemoryOK'
  <2>1. CASE FillHeader
    BY <2>1 DEF FillHeader, Inv, TypeOK, MemoryOK, CallOK, Codes
  <2>2. CASE FillTag
    <3>1. \A old \in Values : Prepared(old) \in Values
      <4>1. Asked(request) \in Words
        BY MailboxAssumption DEF Asked, RequestOK, Words, Inv, TypeOK, CallOK
      <4> QED BY <4>1 DEF Prepared, Values
    <3>2. mem' = [mem EXCEPT ![mbox] = [code |-> mem[mbox].code, request |-> request,
                                        value |-> Prepared(mem[mbox].value)]]
      BY <2>2 DEF FillTag, Inv, TypeOK, MemoryOK, CallOK
    <3>3. mem[mbox].code \in Codes /\ mem[mbox].value \in Values /\ request \in Requests
      BY DEF Inv, TypeOK, MemoryOK, CallOK
    <3> QED BY <3>1, <3>2, <3>3 DEF Inv, TypeOK, MemoryOK, CallOK
  <2> QED BY <2>1, <2>2
<1>3. TypeOK'
  BY <1>1, <1>2 DEF Inv, TypeOK, QueuesOK, CallOK
<1>4. Loan'
  BY <1>1 DEF Inv, Loan, NotLent, OnlyForeign
<1>5. HeaderWritten'
  BY <1>1 DEF FillHeader, FillTag, HeaderWritten, Inv, TypeOK, MemoryOK, CallOK
<1> QED
  BY <1>1, <1>3, <1>4, <1>5 DEF Inv, LookedAt, AnswerIsOwn

LEMMA CommandStartInv == ASSUME Inv, CommandStart PROVE Inv'
<1>1. UNCHANGED <<mem, from_gpu, working, answered, gaveUp, call, mbox, request>> /\ pc = "send"
  BY DEF CommandStart, firmware, calling
<1>2. CASE mbox \in Misaligned
  <2>1. PICK res \in {"MBOX_ERR_UNKNOWN", "MBOX_ERR_PTR_ALIGN"} : Return(res)
    BY <1>2 DEF CommandStart
  <2>2. to_gpu' = to_gpu
    BY <1>2 DEF CommandStart
  <2>3. CallOK'
    BY <1>1, <2>1, ReturnOK DEF Inv, calling
  <2>4. TypeOK'
    BY <1>1, <2>2, <2>3 DEF Inv, TypeOK, QueuesOK, MemoryOK
  <2>5. pc' = "rest" /\ result' # "MBOX_SUCCESS"
    BY <2>1 DEF Return
  <2>6. Loan'
    BY <1>1, <2>2, <2>5 DEF Inv, Loan, NotLent, OnlyForeign
  <2> QED BY <2>4, <2>5, <2>6 DEF Inv, HeaderWritten, LookedAt, AnswerIsOwn
<1>3. CASE mbox \notin Misaligned
  <2>1. /\ to_gpu' = Append(to_gpu, mbox) /\ Len(to_gpu) < Capacity
        /\ pc' = "wait" /\ UNCHANGED <<result, value>>
    BY <1>3 DEF CommandStart
  <2>2. QueuesOK'
    BY <1>1, <2>1, MailboxAssumption DEF Inv, TypeOK, QueuesOK, CallOK
  <2>3. TypeOK'
    BY <1>1, <2>1, <2>2 DEF Inv, TypeOK, MemoryOK, CallOK
  <2>4. Loan'
    <3>1. NotLent => Sent'
      BY <1>1, <2>1 DEF NotLent, Sent, OnlyForeign
    <3> QED BY <1>1, <2>1, <3>1 DEF Inv, Loan
  <2> QED BY <1>1, <2>1, <2>3, <2>4 DEF Inv, HeaderWritten, LookedAt, AnswerIsOwn
<1> QED BY <1>2, <1>3

(* A message is taken from the head of the mailbox.                        *)
LEMMA TailOK ==
  ASSUME TypeOK, from_gpu # <<>>, from_gpu' = Tail(from_gpu), to_gpu' = to_gpu
  PROVE  QueuesOK'
<1>1. from_gpu \in Seq(Buffers \cup {"foreign"}) /\ Len(from_gpu) <= Capacity
  BY DEF TypeOK, QueuesOK
<1>2. /\ Tail(from_gpu) \in Seq(Buffers \cup {"foreign"})
      /\ Len(Tail(from_gpu)) = Len(from_gpu) - 1
  BY <1>1, HeadTailProperties
<1> QED BY <1>1, <1>2, MailboxAssumption DEF TypeOK, QueuesOK

(* Until then the head is foreign, or the answer, and only foreign messages *)
(* are behind an answer.                                                   *)
LEMMA HeadOfQueue ==
  ASSUME Inv, ~gaveUp, pc = "wait", from_gpu # <<>>, from_gpu' = Tail(from_gpu),
         UNCHANGED <<mem, to_gpu, firmware, calling>>
  PROVE  /\ Head(from_gpu) = mbox => Done /\ NotLent'
         /\ Head(from_gpu) # mbox => Sent' \/ InWork' \/ SentBack'
<1>1. /\ from_gpu \in Seq(Buffers \cup {"foreign"}) /\ mbox \in Buffers /\ mbox # "foreign"
      /\ Len(from_gpu) \in Nat \ {0} /\ Head(from_gpu) = from_gpu[1]
      /\ Len(Tail(from_gpu)) = Len(from_gpu) - 1
      /\ \A i \in 1..Len(from_gpu) - 1 : Tail(from_gpu)[i] = from_gpu[i + 1]
  BY MailboxAssumption DEF Inv, TypeOK, QueuesOK, CallOK
<1>2. UNCHANGED <<mem, to_gpu, working, answered, call, mbox, request>>
  BY DEF firmware, calling
<1>3. Done' = Done
  BY <1>2 DEF Done
<1>4. CASE Sent \/ InWork
  <2>1. Head(from_gpu) = "foreign"
    BY <1>1, <1>4 DEF Sent, InWork, OnlyForeign
  <2>2. OnlyForeign'
    BY <1>1, <1>4 DEF Sent, InWork, OnlyForeign
  <2> QED BY <1>1, <1>2, <1>3, <1>4, <2>1, <2>2 DEF Sent, InWork
<1>5. CASE SentBack
  <2>1. PICK k \in 1..Len(from_gpu) :
            /\ from_gpu[k] = mbox
            /\ \A i \in 1..Len(from_gpu) : i # k => from_gpu[i] = "foreign"
    BY <1>5 DEF SentBack
  <2>2. CASE k = 1
    <3>1. Head(from_gpu) = mbox /\ OnlyForeign'
      BY <1>1, <2>1, <2>2 DEF OnlyForeign
    <3> QED BY <1>2, <1>5, <3>1 DEF SentBack, NotLent
  <2>3. CASE k # 1
    <3>1. Head(from_gpu) # mbox
      BY <1>1, <2>1, <2>3
    <3>2. /\ k - 1 \in 1..Len(from_gpu') /\ from_gpu'[k - 1] = mbox
          /\ \A i \in 1..Len(from_gpu') : i # k - 1 => from_gpu'[i] = "foreign"
      BY <1>1, <2>1, <2>3
    <3>3. SentBack'
      BY <1>2, <1>3, <1>5, <3>2 DEF SentBack
    <3> QED BY <3>1, <3>3
  <2> QED BY <2>2, <2>3
<1> QED BY <1>4, <1>5 DEF Inv, Loan

LEMMA CommandWaitInv == ASSUME Inv, CommandWait PROVE Inv'
<1>1. /\ UNCHANGED <<mem, to_gpu, firmware, calling>> /\ from_gpu # <<>>
      /\ from_gpu' = Tail(from_gpu) /\ pc = "wait"
      /\ gaveUp' = (gaveUp \/ Head(from_gpu) # mbox)
  BY Zenon DEF CommandWait
<1>2. UNCHANGED <<working, answered, call, mbox, request>>
  BY <1>1 DEF firmware, calling
<1>3. gaveUp' \in BOOLEAN /\ (~gaveUp' => ~gaveUp /\ Head(from_gpu) = mbox)
  BY <1>1, Zenon
<1>4. \/ pc' = "look" /\ UNCHANGED <<result, value>>
      \/ Return("MBOX_ERR_UNKNOWN")
  BY Zenon DEF CommandWait
<1>5. CallOK'
  <2>1. CASE pc' = "look" /\ UNCHANGED <<result, value>>
    BY <1>2, <2>1 DEF Inv, TypeOK, CallOK
  <2>2. CASE Return("MBOX_ERR_UNKNOWN")
    BY <1>1, <2>2, ReturnOK DEF Inv
  <2> QED BY <1>4, <2>1, <2>2
<1>6. TypeOK'
  BY <1>1, <1>2, <1>3, <1>5, TailOK DEF Inv, TypeOK, MemoryOK
<1>7. pc' # "wait" /\ (pc' = "rest" => result' # "MBOX_SUCCESS")
  BY <1>4 DEF Return
<1>8. ~gaveUp' => Done /\ NotLent'
  BY <1>1, <1>3, HeadOfQueue
<1>9. Loan' /\ LookedAt'
  BY <1>1, <1>2, <1>7, <1>8 DEF Loan, LookedAt, Done
<1>10. HeaderWritten' /\ AnswerIsOwn'
  BY <1>1, <1>2, <1>7 DEF Inv, HeaderWritten, AnswerIsOwn
<1> QED BY <1>6, <1>9, <1>10 DEF Inv

LEMMA CallRawInv == ASSUME Inv, CallRaw PROVE Inv'
<1>1. /\ UNCHANGED <<mem, to_gpu, firmware, calling, result, value, gaveUp>>
      /\ from_gpu # <<>> /\ from_gpu' = Tail(from_gpu) /\ pc = "wait"
      /\ pc' = IF Head(from_gpu) = mbox THEN "look" ELSE "wait"
  BY DEF CallRaw
<1>2. UNCHANGED <<working, answered, call, mbox, request>>
  BY <1>1 DEF firmware, calling
<1>3. TypeOK'
  BY <1>1, <1>2, TailOK DEF Inv, TypeOK, MemoryOK, CallOK
<1>4. ~gaveUp => /\ pc' = "look" => Done /\ NotLent'
                 /\ pc' # "look" => Sent' \/ InWork' \/ SentBack'
  BY <1>1, HeadOfQueue
<1>5. Loan' /\ LookedAt'
  BY <1>1, <1>2, <1>4 DEF Loan, LookedAt, Done
<1>6. HeaderWritten' /\ AnswerIsOwn'
  BY <1>1, <1>2 DEF Inv, HeaderWritten, AnswerIsOwn
<1> QED BY <1>3, <1>5, <1>6 DEF Inv

LEMMA LookAtCodeInv == ASSUME Inv, LookAtCode PROVE Inv'
<1>1. /\ UNCHANGED <<mem, to_gpu, from_gpu, firmware, calling, gaveUp>> /\ pc = "look"
  BY DEF LookAtCode
<1>2. UNCHANGED <<working, answered, call, mbox, request>>
  BY <1>1 DEF firmware, calling
<1>3. PICK res \in {"MBOX_SUCCESS", "MBOX_ERR_UNKNOWN"} :
        Return(res) /\ (res = "MBOX_SUCCESS" => mem[mbox].code = "MBOX_RESPONSE_SUCCESS")
  BY DEF LookAtCode
<1>4. CallOK'
  BY <1>1, <1>3, ReturnOK DEF Inv
<1>5. TypeOK'
  BY <1>1, <1>2, <1>4 DEF Inv, TypeOK, QueuesOK, MemoryOK
<1>6. pc' = "rest"
  BY <1>3 DEF Return
<1>7. Loan' /\ LookedAt' /\ HeaderWritten'
  BY <1>1, <1>2, <1>6 DEF Inv, Loan, LookedAt, HeaderWritten, NotLent, OnlyForeign
<1>8. AnswerIsOwn'
  BY <1>1, <1>2, <1>3 DEF Inv, LookedAt, Done, AnswerIsOwn, Return
<1> QED BY <1>5, <1>7, <1>8 DEF Inv

-----------------------------------------------------------------------------
LEMMA TakeInv == ASSUME Inv, Take PROVE Inv'
<1>1. /\ UNCHANGED <<mem, from_gpu, pc, calling, result, value, gaveUp>>
      /\ working = "none" /\ to_gpu # <<>> /\ working' = Head(to_gpu)
      /\ to_gpu' = Tail(to_gpu) /\ answered' = FALSE
  BY DEF Take
<1>2. UNCHANGED <<call, mbox, request>>
  BY <1>1 DEF calling
<1>3. /\ Head(to_gpu) \in Buffers /\ Tail(to_gpu) \in Seq(Buffers)
      /\ Len(Tail(to_gpu)) <= Capacity
  BY <1>1, HeadTailProperties, MailboxAssumption DEF Inv, TypeOK, QueuesOK
<1>4. TypeOK'
  BY <1>1, <1>2, <1>3 DEF Inv, TypeOK, QueuesOK, MemoryOK, CallOK
<1>5. Sent => InWork'
  BY <1>1, <1>2 DEF Sent, InWork, OnlyForeign
<1>6. Loan'
  BY <1>1, <1>2, <1>5 DEF Inv, Loan, InWork, SentBack, NotLent
<1>7. HeaderWritten' /\ LookedAt' /\ AnswerIsOwn'
  BY <1>1, <1>2 DEF Inv, HeaderWritten, LookedAt, AnswerIsOwn, Done
<1> QED BY <1>4, <1>6, <1>7 DEF Inv

LEMMA AnswerInv == ASSUME Inv, Answer PROVE Inv'
<1>1. /\ UNCHANGED <<to_gpu, from_gpu, working, pc, calling, result, value, gaveUp>>
      /\ working \in Buffers /\ answered' = TRUE
  BY MailboxAssumption DEF Answer, Inv, TypeOK
<1>2. UNCHANGED <<call, mbox, request>>
  BY <1>1 DEF calling
<1>3. PICK code \in Codes, v \in Values :
        /\ mem' = [mem EXCEPT ![working] = [code |-> code, request |-> mem[working].request,
                                            value |-> v]]
        /\ code = "MBOX_RESPONSE_SUCCESS" => v = AnswerTo(mem[working])
  <2>1. mem[working] \in [code : Codes, request : Requests, value : Values]
    BY <1>1 DEF Inv, TypeOK, MemoryOK
  <2>2. AnswerTo(mem[working]) \in Values
    BY <2>1 DEF AnswerTo, Values, Words
  <2>3. PICK code \in {"MBOX_RESPONSE_SUCCESS", "MBOX_RESPONSE_PARSE_ERROR"} :
          mem' = [mem EXCEPT ![working] =
                     [code |-> code, request |-> mem[working].request,
                      value |-> IF code = "MBOX_RESPONSE_SUCCESS" THEN AnswerTo(mem[working])
                               ELSE mem[working].value]]
    BY DEF Answer
  <2> QED BY <2>1, <2>2, <2>3 DEF Codes
<1>4. MemoryOK'
  BY <1>1, <1>3 DEF Inv, TypeOK, MemoryOK
<1>5. TypeOK'
  BY <1>1, <1>2, <1>4 DEF Inv, TypeOK, QueuesOK, CallOK
<1>6. HeaderWritten'
  BY <1>1, <1>2, <1>3 DEF Inv, HeaderWritten, TypeOK, MemoryOK, CallOK
<1>7. ASSUME ~gaveUp PROVE pc = "wait" /\ InWork
  BY <1>1, <1>7, MailboxAssumption DEF Inv, Loan, Sent, SentBack, NotLent
<1>8. ASSUME ~gaveUp PROVE Done'
  <2>1. working = mbox /\ mem[mbox].request = request /\ mbox \in Buffers
    BY <1>1, <1>7, <1>8 DEF InWork, Inv, HeaderWritten
  <2>2. mem'[mbox].code = code /\ mem'[mbox].value = v
    BY <1>3, <2>1 DEF Inv, TypeOK, MemoryOK
  <2>3. request.words \in 0..2
    BY MailboxAssumption DEF RequestOK, Inv, TypeOK, CallOK
  <2> QED BY <1>2, <1>3, <2>1, <2>2, <2>3 DEF Done, AnswerTo
<1>9. Loan' /\ LookedAt'
  BY <1>1, <1>2, <1>7, <1>8 DEF Loan, LookedAt, InWork, OnlyForeign
<1>10. AnswerIsOwn'
  BY <1>1, <1>2 DEF Inv, AnswerIsOwn
<1> QED BY <1>5, <1>6, <1>9, <1>10 DEF Inv

(* A message is added behind the others.                                   *)
LEMMA AppendOK ==
  ASSUME TypeOK, NEW m \in Buffers \cup {"foreign"}, Len(from_gpu) < Capacity,
         from_gpu' = Append(from_gpu, m), to_gpu' = to_gpu
  PROVE  /\ QueuesOK'
         /\ Len(from_gpu) \in Nat /\ Len(from_gpu') = Len(from_gpu) + 1
         /\ from_gpu'[Len(from_gpu')] = m
         /\ \A i \in 1..Len(from_gpu) : from_gpu'[i] = from_gpu[i]
  BY MailboxAssumption DEF TypeOK, QueuesOK

LEMMA PostInv == ASSUME Inv, Post PROVE Inv'
<1>1. /\ UNCHANGED <<mem, to_gpu, answered, pc, calling, result, value, gaveUp>>
      /\ working \in Buffers /\ answered /\ working' = "none"
      /\ Len(from_gpu) < Capacity /\ from_gpu' = Append(from_gpu, working)
  BY MailboxAssumption DEF Post, Inv, TypeOK
<1>2. UNCHANGED <<call, mbox, request>>
  BY <1>1 DEF calling
<1>3. TypeOK'
  BY <1>1, <1>2, AppendOK DEF Inv, TypeOK, MemoryOK, CallOK
<1>4. ASSUME ~gaveUp PROVE pc = "wait" /\ SentBack'
  <2>1. pc = "wait" /\ InWork
    BY <1>1, <1>4, MailboxAssumption DEF Inv, Loan, Sent, SentBack, NotLent
  <2>2. Done'
    BY <1>1, <1>2, <2>1 DEF InWork, Done
  <2>3. /\ Len(from_gpu') \in 1..Len(from_gpu') /\ from_gpu'[Len(from_gpu')] = mbox
        /\ \A i \in 1..Len(from_gpu') : i # Len(from_gpu') => from_gpu'[i] = "foreign"
    BY <1>1, <2>1, AppendOK DEF Inv, InWork, OnlyForeign
  <2> QED BY <1>1, <1>2, <2>1, <2>2, <2>3 DEF InWork, SentBack
<1>5. Loan' /\ LookedAt'
  BY <1>1, <1>4 DEF Loan, LookedAt
<1>6. HeaderWritten' /\ AnswerIsOwn'
  BY <1>1, <1>2 DEF Inv, HeaderWritten, AnswerIsOwn
<1> QED BY <1>3, <1>5, <1>6 DEF Inv

LEMMA PostForeignInv == ASSUME Inv, PostForeign PROVE Inv'
<1>1. /\ UNCHANGED <<mem, to_gpu, working, answered, pc, call, mbox, request, result, value, gaveUp>>
      /\ Len(from_gpu) < Capacity /\ from_gpu' = Append(from_gpu, "foreign")
  BY DEF PostForeign, firmware, calling
<1>2. TypeOK'
  BY <1>1, AppendOK DEF Inv, TypeOK, MemoryOK, CallOK
<1>3. OnlyForeign => OnlyForeign'
  BY <1>1, AppendOK DEF Inv, OnlyForeign
<1>4. SentBack => SentBack'
  <2> SUFFICES ASSUME SentBack PROVE SentBack'
    OBVIOUS
  <2>1. PICK k \in 1..Len(from_gpu) :
            /\ from_gpu[k] = mbox
            /\ \A i \in 1..Len(from_gpu) : i # k => from_gpu[i] = "foreign"
    BY DEF SentBack
  <2>2. /\ k \in 1..Len(from_gpu') /\ from_gpu'[k] = mbox
        /\ \A i \in 1..Len(from_gpu') : i # k => from_gpu'[i] = "foreign"
    BY <1>1, <2>1, AppendOK DEF Inv
  <2> QED BY <1>1, <2>2 DEF SentBack, Done
<1>5. Loan'
  BY <1>1, <1>3, <1>4 DEF Inv, Loan, Sent, InWork, NotLent, Done
<1>6. HeaderWritten' /\ LookedAt' /\ AnswerIsOwn'
  BY <1>1 DEF Inv, HeaderWritten, LookedAt, AnswerIsOwn, Done
<1> QED BY <1>2, <1>5, <1>6 DEF Inv

LEMMA NextInv == ASSUME Inv, [Next]_vars PROVE Inv'
<1>1. ASSUME NEW c \in {"prop", "raw", "pair"}, NEW b \in Buffers, NEW q \in Requests,
             Call(c, b, q)
      PROVE  Inv'
  BY <1>1, CallInv
<1>2. CASE FillHeader \/ FillTag
  BY <1>2, FillInv
<1>3. CASE CommandStart
  BY <1>3, CommandStartInv
<1>4. CASE CommandWait
  BY <1>4, CommandWaitInv
<1>5. CASE CallRaw
  BY <1>5, CallRawInv
<1>6. CASE LookAtCode
  BY <1>6, LookAtCodeInv
<1>7. CASE Take
  BY <1>7, TakeInv
<1>8. CASE Answer
  BY <1>8, AnswerInv
<1>9. CASE Post
  BY <1>9, PostInv
<1>10. CASE PostForeign
  BY <1>10, PostForeignInv
<1>11. CASE UNCHANGED vars
  BY <1>11 DEF vars, firmware, calling, Inv, TypeOK, QueuesOK, MemoryOK, CallOK, Loan, Sent,
               InWork, SentBack, NotLent, OnlyForeign, Done, HeaderWritten, LookedAt,
               AnswerIsOwn
<1> QED
  BY <1>1, <1>2, <1>3, <1>4, <1>5, <1>6, <1>7, <1>8, <1>9, <1>10, <1>11 DEF Next, CPU, Firmware

LEMMA LoanMeansLent == Inv => LentWhileWaiting
<1> SUFFICES ASSUME Inv, ~gaveUp, NEW b \in Buffers, Holds(b) \/ Returning(b)
             PROVE  pc = "wait" /\ b = mbox
  BY DEF LentWhileWaiting
<1>1. b # "foreign" /\ b # "none"
  BY MailboxAssumption
<1>2. from_gpu \in Seq(Buffers \cup {"foreign"}) /\ DOMAIN from_gpu = 1..Len(from_gpu)
  BY DEF Inv, TypeOK, QueuesOK
<1>3. ~NotLent
  BY <1>1, <1>2 DEF NotLent, OnlyForeign, Holds, Returning
<1>4. Sent => b = mbox
  BY <1>1, <1>2 DEF Sent, OnlyForeign, Holds, Returning
<1>5. InWork => b = mbox
  BY <1>1, <1>2 DEF InWork, OnlyForeign, Holds, Returning
<1>6. SentBack => b = mbox
  BY <1>1, <1>2 DEF SentBack, Holds, Returning
<1> QED BY <1>3, <1>4, <1>5, <1>6 DEF Inv, Loan

LEMMA Invariance == Spec => []Inv
  BY InitInv, NextInv, PTL DEF Spec

(* Every variable keeps its type, and no mailbox overflows.                *)
THEOREM TypeCorrect == Spec => []TypeOK
<1>1. Inv => TypeOK
  BY DEF Inv
<1> QED BY <1>1, Invariance, PTL

(* For every number of buffers, requests and entries: until a wait has     *)
(* ended on a foreign message, a buffer is lent only while its call waits. *)
THEOREM LentWhileWaitingCorrect == Spec => []LentWhileWaiting
  BY LoanMeansLent, Invariance, PTL

(* Until then, a success of any of the three kinds of call hands out the   *)
(* firmware's answer to the request of that call.                          *)
THEOREM AnswerIsOwnCorrect == Spec => []AnswerIsOwn
<1>1. Inv => AnswerIsOwn
  BY DEF Inv
<1> QED BY <1>1, Invariance, PTL
=============================================================================
