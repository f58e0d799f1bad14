------------------------------- MODULE Timer -------------------------------
(***************************************************************************)
(* The busy-wait clock of src/src/kernel/timer.c and the TIMEOUT_WAIT       *)
(* macro of src/include/kernel/timer.h.  Two actors share the 32-bit system *)
(* timer: the hardware increments it, the CPU reads it once when a wait is  *)
(* registered and once per poll.                                           *)
(***************************************************************************)
EXTENDS Integers

CONSTANTS
    Ticks,     \* values of the counter register: 2^32 on the hardware
    Usecs,     \* the delays the callers ask for (a signed int)
    PollGap    \* the CPU polls at least once every PollGap ticks

ASSUME TimerAssumption ==
    /\ Ticks \in Nat \ {0, 1}
    /\ Usecs \subseteq {u \in Int : u < Ticks}
    /\ PollGap \in Nat \ {0}

VARIABLES
    clo,       \* TIMER_CLO, the low word of the system timer
    tw,        \* struct timer_wait of the wait in progress
    pc,        \* "idle", "usleep" in its loop, or a TIMEOUT_WAIT about to
               \* "test" its condition or to "compare" the time
    cond,      \* the condition a TIMEOUT_WAIT polls for, set by hardware
    outcome,   \* how the last wait ended
    usec,      \* what the last wait was asked for
    start,     \* what the counter read when it was registered
    elapsed,   \* true time since the wait was registered, saturating
    unpolled   \* ticks since the CPU last looked at the timer

vars == <<clo, tw, pc, cond, outcome, usec, start, elapsed, unpolled>>

-----------------------------------------------------------------------------
(* 32-bit addition: x + y for two register values wraps once at most.      *)
Wrap(x) == IF x >= Ticks THEN x - Ticks ELSE IF x < 0 THEN x + Ticks ELSE x

(* True time is counted up to a value no delay reaches.                    *)
ElapsedCap == 2 * Ticks

(* Mutant of RegisterTimer: a wait that crosses the wrap is not marked.     *)
RegisterTimer_NoRollover(u) ==
    IF u < 0 THEN [trigger_value |-> 0, rollover |-> FALSE]
    ELSE [trigger_value |-> IF clo = 0 THEN 0 ELSE Wrap(clo + u), rollover |-> FALSE]

(* Mutant of RegisterTimer: the sum is not reduced to the register's width. *)
RegisterTimer_NoWrap(u) ==
    [trigger_value |-> clo + u, rollover |-> FALSE]

(* register_timer: the wait computed from one read of the counter.         *)
RegisterTimer(u) ==
    LET trig == IF clo = 0 THEN 0 ELSE Wrap(clo + u)
    IN  IF u < 0 THEN [trigger_value |-> 0, rollover |-> FALSE]  \* EINVAL
        ELSE [trigger_value |-> trig, rollover |-> ~(trig > clo)]

(* Mutant of CompareTimer: only the exact deadline ends the wait.          *)
CompareTimer_Exact(w) ==
    \/ w.trigger_value = 0
    \/ clo = w.trigger_value /\ ~w.rollover

(* compare_timer: its argument is a copy, so clearing rollover is lost.    *)
CompareTimer(w) ==
    \/ w.trigger_value = 0
    \/ clo >= w.trigger_value /\ ~w.rollover

TypeOK ==
    /\ clo \in 0..(Ticks - 1)
    /\ tw \in [trigger_value : 0..(Ticks - 1), rollover : BOOLEAN]
    /\ pc \in {"idle", "usleep", "test", "compare"}
    /\ cond \in BOOLEAN
    /\ outcome \in {"none", "condition", "elapsed"}
    /\ usec \in Usecs \cup {0}
    /\ start \in 0..(Ticks - 1)
    /\ elapsed \in 0..ElapsedCap
    /\ unpolled \in 0..PollGap

Init ==
    /\ clo \in 0..(Ticks - 1)
    /\ tw = [trigger_value |-> 0, rollover |-> FALSE]
    /\ pc = "idle"
    /\ cond = FALSE
    /\ outcome = "none"
    /\ usec = 0
    /\ start = 0
    /\ elapsed = 0
    /\ unpolled = 0

(* A caller enters usleep() or a TIMEOUT_WAIT.                             *)
Register(loop, u) ==
    /\ pc = "idle"
    /\ tw' = RegisterTimer(u)
    /\ pc' = loop
    /\ usec' = u
    /\ start' = clo
    /\ outcome' = "none"
    /\ elapsed' = 0
    /\ unpolled' = 0
    /\ cond' = FALSE
    /\ UNCHANGED clo

(* The macro looks at its condition first ...                              *)
Test ==
    /\ pc = "test"
    /\ IF cond THEN pc' = "idle" /\ outcome' = "condition"
               ELSE pc' = "compare" /\ UNCHANGED outcome
    /\ UNCHANGED <<clo, tw, cond, usec, start, elapsed, unpolled>>

(* ... and at the time afterwards, as usleep does in every turn.           *)
Compare ==
    /\ pc \in {"usleep", "compare"}
    /\ IF CompareTimer(tw)
       THEN pc' = "idle" /\ outcome' = "elapsed"
       ELSE pc' = (IF pc = "compare" THEN "test" ELSE pc) /\ UNCHANGED outcome
    /\ unpolled' = 0
    /\ UNCHANGED <<clo, tw, cond, usec, start, elapsed>>

(* The hardware counts one microsecond.                                    *)
Tick ==
    /\ pc # "idle" => unpolled < PollGap
    /\ clo' = Wrap(clo + 1)
    /\ elapsed' = IF pc # "idle" /\ elapsed < ElapsedCap THEN elapsed + 1 ELSE elapsed
    /\ unpolled' = IF pc = "idle" THEN 0 ELSE unpolled + 1
    /\ UNCHANGED <<tw, pc, cond, outcome, usec, start>>

(* The awaited device reaches the condition of a TIMEOUT_WAIT: before the  *)
(* macro's test of it or between that test and the comparison.             *)
RaiseCondition ==
    /\ pc \in {"test", "compare"} /\ ~cond
    /\ cond' = TRUE
    /\ UNCHANGED <<clo, tw, pc, outcome, usec, start, elapsed, unpolled>>

Next ==
    \/ \E loop \in {"usleep", "test"}, u \in Usecs : Register(loop, u)
    \/ Test
    \/ Compare
    \/ Tick
    \/ RaiseCondition

Spec == Init /\ [][Next]_vars

(* The timer never stops and the CPU never stops polling it.               *)
FairSpec == Spec /\ WF_vars(Tick) /\ WF_vars(Test \/ Compare)

-----------------------------------------------------------------------------
(* A wait is degenerate when register_timer left trigger 0: a negative     *)
(* delay, a registration at counter 0, or a deadline exactly at the wrap.  *)
Degenerate == tw.trigger_value = 0

(* The deadline comes before the counter wraps, with room for one poll.    *)
BeforeWrap == start + usec + PollGap <= Ticks

(* timer.c:42 takes a delay of zero for one that crosses the wrap, unless  *)
(* the counter reads zero: it is the one wait before the wrap that hangs.  *)
ZeroDelay == usec = 0 /\ start # 0

(* usleep() and the macro never report an elapsed delay too soon, however  *)
(* the counter wraps between two polls, unless the wait is degenerate.     *)
NeverEarly ==
    (outcome = "elapsed" /\ ~Degenerate) => elapsed >= usec

(* A positive delay that ends before the wrap is noticed by the first poll *)
(* after its deadline: no wait for it, over or still in its loop, has      *)
(* lasted longer than the delay and the time between two polls.            *)
Prompt ==
    (usec > 0 /\ BeforeWrap /\ (pc # "idle" \/ outcome = "elapsed"))
        => elapsed <= usec + PollGap

(* Every wait whose deadline lies before the wrap, with room for one poll, *)
(* comes to an end, but for the delay of zero.                             *)
PlainWaitEnds ==
    (pc # "idle" /\ BeforeWrap /\ ~ZeroDelay) ~> (pc = "idle")
=============================================================================
