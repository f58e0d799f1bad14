-------------------------------- MODULE Clock --------------------------------
(* The SD clock of drivers/SD/emmc.c: sd_get_clock_divider and the register  *)
(* sd_switch_clock_rate leaves.  Rates are in any unit that divides both.    *)
EXTENDS Integers

MaxDivisor == 1023       \* ten bits

(* The quotient the divider is looked for: one less when it is not exact.    *)
targetted_divisor(base_clock, target_rate) ==
    IF target_rate > base_clock THEN 1
    ELSE base_clock \div target_rate - (IF base_clock % target_rate = 0 THEN 0 ELSE 1)

(* Mutant: a divisor that is no power of two is not made larger.             *)
divisor_Down(d) ==
    LET first_bit == CHOOSE k \in 0..30 : 2^k <= d /\ d < 2^(k + 1)
    IN IF d = 0 THEN MaxDivisor ELSE IF first_bit = 0 THEN 0
       ELSE IF 2^(first_bit - 1) > MaxDivisor THEN MaxDivisor ELSE 2^(first_bit - 1)

(* Half the least power of two that is not below d; 0 stands for none, and   *)
(* becomes the largest divisor there is.                                     *)
divisor(d) ==
    LET first_bit == CHOOSE k \in 0..30 : 2^k <= d /\ d < 2^(k + 1)
        power == IF d = 2^first_bit THEN first_bit ELSE first_bit + 1
    IN IF d = 0 THEN MaxDivisor ELSE IF power = 0 THEN 0
       ELSE IF 2^(power - 1) > MaxDivisor THEN MaxDivisor ELSE 2^(power - 1)

(* The fields of CONTROL1: eight low bits, two high ones.                    *)
sd_get_clock_divider(base_clock, target_rate) ==
    LET d == divisor(targetted_divisor(base_clock, target_rate))
    IN [freq_select |-> d % 256, upper_bits |-> d \div 256]

(* sd_switch_clock_rate stops the clock, writes the divider and starts it.   *)
sd_switch_clock_rate(control1, base_clock, target_rate) ==
    LET off == [control1 EXCEPT !.clock = FALSE]
        set == [off EXCEPT !.divider = sd_get_clock_divider(base_clock, target_rate)]
    IN [set EXCEPT !.clock = TRUE]

(* The card's clock is the base clock over twice the divisor, or itself.     *)
denominator(divider) ==
    LET d == 256 * divider.upper_bits + divider.freq_select IN IF d = 0 THEN 1 ELSE 2 * d
=============================================================================
