----------------------------- MODULE TimerProofs -----------------------------
(***************************************************************************)
(* For every counter width, poll gap and set of delays: the types of Timer *)
(* are preserved, and no delay is reported over before it has passed.      *)
(***************************************************************************)
EXTENDS Timer, TLAPS

(* What relates the counter to true time while a wait runs.  Before the    *)
(* counter has wrapped since registration, it is `elapsed' past the        *)
(* registration value; once it has wrapped, more time has passed than any  *)
(* deadline before the wrap asks for.                                      *)
Clock ==
    (pc # "idle" /\ ~tw.rollover /\ ~Degenerate) =>
        \/ /\ tw.trigger_value - usec <= clo
           /\ elapsed = clo - (tw.trigger_value - usec)
        \/ elapsed >= usec

IInv == TypeOK /\ Clock /\ NeverEarly

(* Both register-width operators stay within the register.                 *)
LEMMA WrapType ==
    ASSUME NEW x \in Int, -Ticks <= x, x < 2 * Ticks
    PROVE  Wrap(x) \in 0..(Ticks - 1)
  BY TimerAssumption DEF Wrap

(* What register_timer leaves in the wait, for every delay.                *)
LEMMA RegisterTimerFacts ==
    ASSUME TypeOK, NEW u \in Usecs
    PROVE  /\ RegisterTimer(u) \in [trigger_value : 0..(Ticks - 1), rollover : BOOLEAN]
           /\ (RegisterTimer(u).trigger_value # 0 /\ ~RegisterTimer(u).rollover)
                => RegisterTimer(u).trigger_value = clo + u
<1>1. u \in Int /\ u < Ticks
  BY TimerAssumption
<1>2. CASE u < 0
  BY <1>2, TimerAssumption DEF RegisterTimer
<1>3. CASE u >= 0
  <2>1. Wrap(clo + u) \in 0..(Ticks - 1)
    BY <1>1, <1>3, TimerAssumption, WrapType DEF TypeOK
  <2>2. ~(Wrap(clo + u) > clo) \/ Wrap(clo + u) = clo + u
    BY <1>1, <1>3, TimerAssumption DEF TypeOK, Wrap
  <2> DEFINE trig == IF clo = 0 THEN 0 ELSE Wrap(clo + u)
             late == ~(trig > clo)
  <2>3. RegisterTimer(u) = [trigger_value |-> trig, rollover |-> late]
    BY <1>1, <1>3 DEF RegisterTimer
  <2>4. trig \in 0..(Ticks - 1) /\ late \in BOOLEAN
    BY <2>1, TimerAssumption
  <2>5. trig # 0 /\ ~late => trig = clo + u
    BY <2>2
  <2> HIDE DEF trig, late
  <2>6. QED
    BY <2>3, <2>4, <2>5
<1>4. QED
  BY <1>1, <1>2, <1>3

(* The invariant holds of every reachable state.                           *)
LEMMA InvInductive == Spec => []IInv
<1>1. Init => IInv
  <2> SUFFICES ASSUME Init
               PROVE  IInv
    OBVIOUS
  <2>1. TypeOK
    <3>1. 0 \in 0..ElapsedCap /\ 0 \in 0..(Ticks - 1) /\ 0 \in 0..PollGap
      BY TimerAssumption DEF ElapsedCap
    <3>2. tw \in [trigger_value : 0..(Ticks - 1), rollover : BOOLEAN]
      BY <3>1 DEF Init
    <3>3. QED
      BY <3>1, <3>2 DEF Init, TypeOK
  <2>2. Clock /\ NeverEarly
    BY DEF Init, Clock, NeverEarly
  <2>3. QED
    BY <2>1, <2>2 DEF IInv
<1>2. IInv /\ [Next]_vars => IInv'
  <2> SUFFICES ASSUME IInv, [Next]_vars
               PROVE  IInv'
    OBVIOUS
  <2>. USE TimerAssumption
  <2>1. ASSUME NEW loop \in {"usleep", "test"}, NEW u \in Usecs, Register(loop, u)
        PROVE  IInv'
    <3>1. /\ tw' \in [trigger_value : 0..(Ticks - 1), rollover : BOOLEAN]
          /\ (tw'.trigger_value # 0 /\ ~tw'.rollover) => tw'.trigger_value = clo + u
      BY <2>1, RegisterTimerFacts DEF IInv, Register
    <3>2. TypeOK'
      <4>1. 0 \in 0..ElapsedCap /\ 0 \in 0..PollGap
        BY DEF ElapsedCap
      <4>2. QED
        BY <2>1, <3>1, <4>1 DEF IInv, Register, TypeOK
    <3>3. Clock' /\ NeverEarly'
      BY <2>1, <3>1 DEF IInv, Register, TypeOK, Clock, NeverEarly, Degenerate
    <3>4. QED
      BY <3>2, <3>3 DEF IInv
  <2>2. CASE Test
    <3>1. TypeOK'
      BY <2>2 DEF IInv, Test, TypeOK
    <3>2. Clock' /\ NeverEarly'
      BY <2>2 DEF IInv, Test, TypeOK, Clock, NeverEarly, Degenerate
    <3>3. QED
      BY <3>1, <3>2 DEF IInv
  <2>6. CASE Compare
    <3>1. TypeOK'
      BY <2>6 DEF IInv, Compare, TypeOK
    <3>2. Clock' /\ NeverEarly'
      BY <2>6 DEF IInv, Compare, TypeOK, Clock, NeverEarly, CompareTimer, Degenerate
    <3>3. QED
      BY <3>1, <3>2 DEF IInv
  <2>3. CASE Tick
    <3>1. TypeOK'
      BY <2>3 DEF IInv, Tick, TypeOK, ElapsedCap, Wrap
    <3>2. Clock'
      BY <2>3 DEF IInv, Tick, TypeOK, Clock, ElapsedCap, Wrap, Degenerate
    <3>3. NeverEarly'
      BY <2>3 DEF IInv, Tick, TypeOK, NeverEarly, Degenerate, ElapsedCap
    <3>4. QED
      BY <3>1, <3>2, <3>3 DEF IInv
  <2>4. CASE RaiseCondition
    BY <2>4 DEF IInv, RaiseCondition, TypeOK, Clock, NeverEarly, Degenerate
  <2>5. CASE UNCHANGED vars
    BY <2>5 DEF IInv, vars, TypeOK, Clock, NeverEarly, Degenerate
  <2>7. QED
    BY <2>1, <2>2, <2>3, <2>4, <2>5, <2>6 DEF Next
<1>3. QED
  BY <1>1, <1>2, PTL DEF Spec

(* The timer's variables keep their types.                                 *)
THEOREM TypeCorrect == Spec => []TypeOK
<1>1. IInv => TypeOK
  BY DEF IInv
<1>2. QED
  BY <1>1, InvInductive, PTL

(* No wait but a degenerate one is over before its delay has passed.       *)
THEOREM NeverEarlyCorrect == Spec => []NeverEarly
<1>1. IInv => NeverEarly
  BY DEF IInv
<1>2. QED
  BY <1>1, InvInductive, PTL

(* While a positive wait runs whose deadline has room for a poll before the *)
(* wrap, the counter has not wrapped, the mark for the wrap is not set, and  *)
(* the wait is past its deadline by less than what the counter has counted   *)
(* since the last poll.                                                      *)
Roomy == usec > 0 /\ BeforeWrap
OnTime ==
    /\ pc # "idle" => outcome = "none"
    /\ (pc # "idle" /\ Roomy) =>
          /\ tw.trigger_value = (IF start = 0 THEN 0 ELSE start + usec)
          /\ start > 0 => ~tw.rollover
          /\ clo = start + elapsed
          /\ elapsed < usec + unpolled
PInv == TypeOK /\ OnTime /\ Prompt

LEMMA PromptInductive == Spec => []PInv
<1>1. Init => OnTime /\ Prompt
  BY DEF Init, OnTime, Prompt
<1>2. TypeOK /\ TypeOK' /\ OnTime /\ Prompt /\ [Next]_vars => OnTime' /\ Prompt'
  <2> SUFFICES ASSUME TypeOK, TypeOK', OnTime, Prompt, [Next]_vars
               PROVE  OnTime' /\ Prompt'
    OBVIOUS
  <2>. USE TimerAssumption
  <2>. /\ clo \in 0..(Ticks - 1) /\ start \in 0..(Ticks - 1) /\ usec \in Int
       /\ elapsed \in Int /\ unpolled \in 0..PollGap
       /\ tw.trigger_value \in 0..(Ticks - 1)
    BY DEF TypeOK
  <2>1. ASSUME NEW loop \in {"usleep", "test"}, NEW u \in Usecs, Register(loop, u)
        PROVE  OnTime' /\ Prompt'
    <3>1. /\ outcome' = "none" /\ clo' = clo /\ start' = clo /\ usec' = u
          /\ elapsed' = 0 /\ unpolled' = 0 /\ u \in Int /\ u < Ticks
      BY <2>1 DEF Register
    <3>2. ASSUME u > 0, clo + u + PollGap <= Ticks
          PROVE  /\ tw'.trigger_value = (IF clo = 0 THEN 0 ELSE clo + u)
                 /\ clo > 0 => ~tw'.rollover
      <4> DEFINE trig == IF clo = 0 THEN 0 ELSE Wrap(clo + u)
                 late == ~(trig > clo)
      <4>1. tw' = [trigger_value |-> trig, rollover |-> late]
        BY <2>1, <3>1, <3>2 DEF Register, RegisterTimer
      <4>2. /\ trig = (IF clo = 0 THEN 0 ELSE clo + u)
            /\ clo > 0 => ~late
        BY <3>1, <3>2 DEF Wrap
      <4> HIDE DEF trig, late
      <4>3. QED
        BY <4>1, <4>2
    <3>3. OnTime'
      BY <3>1, <3>2 DEF OnTime, Roomy, BeforeWrap
    <3>4. Prompt'
      BY <3>1 DEF Prompt
    <3>5. QED
      BY <3>3, <3>4
  <2>2. CASE Test
    BY <2>2 DEF Test, OnTime, Prompt, Roomy, BeforeWrap
  <2>3. CASE Compare
    <3>1. /\ clo' = clo /\ tw' = tw /\ usec' = usec /\ elapsed' = elapsed /\ unpolled' = 0
          /\ start' = start /\ pc # "idle"
      BY <2>3 DEF Compare
    <3>2. CASE pc' = "idle" /\ outcome' = "elapsed"
      BY <3>1, <3>2 DEF OnTime, Prompt, Roomy, BeforeWrap
    <3>3. CASE pc' # "idle" /\ outcome' = outcome /\ ~CompareTimer(tw)
      BY <3>1, <3>3 DEF OnTime, Prompt, Roomy, BeforeWrap, CompareTimer
    <3>4. QED
      BY <2>3, <3>2, <3>3 DEF Compare
  <2>4. CASE Tick
    <3>1. /\ tw' = tw /\ pc' = pc /\ outcome' = outcome /\ usec' = usec /\ start' = start
          /\ clo' = Wrap(clo + 1)
      BY <2>4 DEF Tick
    <3>2. CASE pc = "idle"
      <4>1. elapsed' = elapsed
        BY <2>4, <3>2 DEF Tick
      <4>2. QED
        BY <3>1, <3>2, <4>1 DEF OnTime, Prompt, BeforeWrap
    <3>3. CASE pc # "idle"
      <4>1. /\ unpolled < PollGap /\ unpolled' = unpolled + 1
            /\ elapsed' = IF elapsed < ElapsedCap THEN elapsed + 1 ELSE elapsed
        BY <2>4, <3>3 DEF Tick
      <4>2. ASSUME Roomy
            PROVE  /\ clo' = start + elapsed'
                   /\ elapsed' < usec + unpolled'
                   /\ elapsed' <= usec + PollGap
        <5>1. /\ clo = start + elapsed
              /\ elapsed < usec + unpolled
          BY <3>3, <4>2 DEF OnTime
        <5>2. elapsed < ElapsedCap
          BY <4>1, <5>1, <4>2 DEF ElapsedCap, Roomy, BeforeWrap
        <5>3. clo + 1 < Ticks
          BY <4>1, <4>2, <5>1 DEF Roomy, BeforeWrap
        <5>4. QED
          BY <3>1, <4>1, <4>2, <5>1, <5>2, <5>3 DEF Wrap, Roomy
      <4>3. OnTime'
        BY <3>1, <4>2 DEF OnTime, Roomy, BeforeWrap
      <4>4. Prompt'
        BY <3>1, <3>3, <4>2 DEF OnTime, Prompt, Roomy, BeforeWrap
      <4>5. QED
        BY <4>3, <4>4
    <3>4. QED
      BY <3>2, <3>3
  <2>5. CASE RaiseCondition
    BY <2>5 DEF RaiseCondition, OnTime, Prompt, Roomy, BeforeWrap
  <2>6. CASE UNCHANGED vars
    BY <2>6 DEF vars, OnTime, Prompt, Roomy, BeforeWrap
  <2>7. QED
    BY <2>1, <2>2, <2>3, <2>4, <2>5, <2>6 DEF Next
<1>3. QED
  BY <1>1, <1>2, InvInductive, PTL DEF Spec, IInv, PInv

(* A positive delay that ends before the wrap is over, or still in its loop, *)
(* no later than one polling gap after its deadline.                         *)
THEOREM PromptCorrect == Spec => []Prompt
<1>1. PInv => Prompt
  BY DEF PInv
<1>2. QED
  BY <1>1, PromptInductive, PTL
=============================================================================
