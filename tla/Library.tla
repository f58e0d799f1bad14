------------------------------- MODULE Library -------------------------------
(* The functions without state of their own, each against a definition of    *)
(* what it is for: libc/string.c, lib/io/printf.c, the SD clock divider and  *)
(* the bit tricks and tree bins of mm/malloc.c.  A behaviour either goes     *)
(* through insertions and removals of chunks, or looks at one case.          *)
EXTENDS TreeBin, CString, Printf, Clock

CONSTANTS Memories,      \* contents of a small memory
          Texts,         \* sequences of characters, as numbers
          Numbers,       \* numbers to find bits of, to print and to divide
          Rates,         \* clock rates asked for
          Pieces         \* [fmt, args]: parts of a format with their arguments

VARIABLE looked          \* the case looked at, or NoCase

vars == <<tries, looked>>

NoCase == [kind |-> "none"]
Cases == [kind : {"memory"}, mem : Memories] \union [kind : {"text"}, s : Texts]
         \union [kind : {"number"}, n : Numbers] \union [kind : {"format"}, p : Pieces]

Init == BinInit /\ looked = NoCase

LookAt(c) == looked = NoCase /\ sized = <<>> /\ looked' = c /\ UNCHANGED tries

Next ==
    \/ looked = NoCase /\ BinNext /\ UNCHANGED looked
    \/ \E c \in Cases : LookAt(c)

Spec == Init /\ [][Next]_vars
-----------------------------------------------------------------------------
(* Memory.  Areas [dest, dest + n) and [src, src + n) are given.             *)

Moved(mem, dest, src, n) ==
    [a \in DOMAIN mem |-> IF a \in dest..(dest + n - 1) THEN mem[src + a - dest] ELSE mem[a]]
Apart(dest, src, n) == dest + n <= src \/ src + n <= dest
Least(a, b) == IF a <= b THEN a ELSE b

(* memcpy copies between areas that are apart, and as scrolling needs it also*)
(* downwards; memmove into the start of its source, and to behind its source;*)
(* memset fills.  Nothing else is changed.                                   *)
AreasRight(mem, dest, src, n) ==
    /\ Apart(dest, src, n) \/ dest <= src => memcpy(mem, dest, src, n) = Moved(mem, dest, src, n)
    /\ (dest <= src /\ src < dest + n) \/ src + n <= dest =>
           memmove(mem, dest, src, n) = Moved(mem, dest, src, n)
    /\ \A a \in DOMAIN mem :
           memset(mem, dest, 2, n)[a] = IF a \in dest..(dest + n - 1) THEN 2 ELSE mem[a]

(* A string of n characters at most, with room for it: its length; copied by *)
(* strncpy, its first characters, and nothing behind the n changes; copied by*)
(* strcpy and ended by memset, as cd does, the same string.                  *)
StringsRight(mem, dest, src, n) ==
    /\ strlen(mem, src) <= n => strnlen(mem, src, n) = strlen(mem, src)
    /\ LET copy == strncpy(mem, dest, src, n)
       IN /\ \A k \in 0..(Least(n, strlen(mem, src)) - 1) : copy[dest + k] = mem[src + k]
          /\ \A a \in DOMAIN mem \ (dest..(dest + n - 1)) : copy[a] = mem[a]
    /\ strlen(mem, src) < n =>
           StringAt(memset(strcpy(mem, dest, src), dest + strlen(mem, src), 0, 1), dest)
             = StringAt(mem, src)

(* A string that begins with another character than the delimiter 1 and has  *)
(* one before its last character is cut at the first one.                    *)
TokensRight(mem, str) ==
    LET s == StringAt(mem, str)
    IN Len(s) > 0 /\ s[1] # 1 /\ (\E i \in 1..(Len(s) - 1) : s[i] = 1) =>
           LET t == strtok_r(mem, str, 1, FALSE)
               tok == StringAt(t.mem, t.tok)
           IN tok \o <<1>> \o StringAt(t.mem, t.save) = s /\ \A i \in DOMAIN tok : tok[i] # 1

(* Of n wide characters at most, up to the first NUL, the low bytes; and how *)
(* many, when the text ends before the n.                                    *)
WideRight(mem, dest, src, n) ==
    LET len == FirstOf({k \in 0..n : k = n \/ mem[src + 2 * k] = 0})
        r == str_from_wchar(mem, dest, src, n)
    IN /\ StringAt(r.mem, dest) = [i \in 1..len |-> mem[src + 2 * (i - 1)]]
       /\ \A a \in DOMAIN mem \ (dest..(dest + len)) : r.mem[a] = mem[a]
       /\ len < n => r.count = len

MemoryRight(mem) ==
    \A dest, src \in DOMAIN mem, n \in 0..Cardinality(DOMAIN mem) :
        /\ InMemory(mem, dest, n) /\ InMemory(mem, src, n) => AreasRight(mem, dest, src, n)
        /\ InMemory(mem, dest, n) /\ InMemory(mem, src, n + 1) /\ Apart(dest, src, n + 1)
               /\ Terminated(mem, src) => StringsRight(mem, dest, src, n)
        /\ Terminated(mem, src) => TokensRight(mem, src)
        /\ InMemory(mem, dest, n + 1) /\ InMemory(mem, src, 2 * n + 1)
               /\ (dest + n < src \/ src + 2 * n < dest) => WideRight(mem, dest, src, n)

(* Texts compare as the numbers whose digits are their characters; those of  *)
(* strcasecmp as small letters, unless the first one is a part of the other. *)
Weight(s, places) ==
    LET f[i \in 0..places] == IF i = 0 THEN 0 ELSE 256 * f[i - 1] + ByteOf(s, i) IN f[places]
Order(s, t) ==
    LET places == Len(s) + Len(t) IN Sign(Weight(s, places) - Weight(t, places))
Front(s, n) == SubSeq(s, 1, Least(n, Len(s)))
TextRight(s) ==
    \A t \in Texts :
        /\ strcmp(s, t) = Order(s, t)
        /\ Len(s) >= Len(t) => strcasecmp(s, t) = Order(Lowered(s), Lowered(t))
        /\ \A n \in 0..Len(s) :
               strncasecmp(s, t, n) = Order(Lowered(Front(s, n)), Lowered(Front(t, n)))
-----------------------------------------------------------------------------
(* Numbers.                                                                  *)

NumeralValue(c) == CHOOSE d \in 0..15 : Small[d + 1] = c \/ Capital[d + 1] = c
ReadBack(out, base) ==
    LET f[i \in 0..Len(out)] == IF i = 0 THEN 0 ELSE base * f[i - 1] + NumeralValue(out[i])
    IN f[Len(out)]
(* What is printed for <<specifier, number>>.                                *)
Printed(asked) == [q \in asked |-> generic_printf(<<"%", q[1]>>, <<q[2]>>).out]

(* A number printed reads back as the number, in the fewest digits.          *)
Bases == {<<"u", 10>>, <<"o", 8>>, <<"x", 16>>, <<"X", 16>>}
PrintRight(n) ==
    LET out == Printed({<<b[1], n>> : b \in Bases} \union {<<"d", n>>, <<"d", -n>>})
    IN /\ n < IntMod =>
              \A b \in Bases :
                  /\ ReadBack(out[b[1], n], b[2]) = n
                  /\ Len(out[b[1], n]) > 1 => out[b[1], n][1] # "0"
       /\ 0 < n /\ 2 * n < IntMod => out["d", -n] = <<"-">> \o out["d", n]
       /\ 2 * n < IntMod => out["d", n] = out["u", n]

Log2(x) == CHOOSE k \in 0..30 : 2^k <= x /\ x < 2^(k + 1)

(* The bit tricks: bins by the two highest bits; the place of a single bit.  *)
BitsRight(n) ==
    /\ n \in 16..(2^20 - 1) =>
           LET k == Log2(n \div 16) IN compute_tree_index(n) = 2 * k + Bit(n, k + 3)
    /\ n >= 2^20 => compute_tree_index(n) = LastBin
    /\ n <= 30 => compute_bit2idx(2^n) = n /\ ffs(2^n) = n + 1
    /\ n > 0 => n % 2^ffs(n) = 2^(ffs(n) - 1)

(* What the card's clock is the base clock divided by, once the rate is set. *)
ClockedBy(base, rate) ==
    denominator(sd_switch_clock_rate([clock |-> FALSE, divider |-> 0], base, rate).divider)
InReach(base, rate) == base \div rate \in 1..MaxDivisor

(* A rate that divides the base clock is not exceeded; it, and one up to half*)
(* the base clock, is not missed by half.                                    *)
ClockRight(base, rate) ==
    InReach(base, rate) =>
        /\ base % rate = 0 => base <= rate * ClockedBy(base, rate)
        /\ base % rate = 0 \/ 2 * rate <= base => 2 * base > rate * ClockedBy(base, rate)

(* printf works piece by piece: it puts the piece's text, takes each         *)
(* conversion's argument and goes on behind it; the count is that of the     *)
(* characters put, %n stores it so far, and the outputs that are on agree.   *)
FormatRight(p) ==
    \A o \in Pieces :
        LET both == generic_printf(p.fmt \o o.fmt, p.args \o o.args)
        IN /\ both.out = p.text \o o.text /\ both.count = Len(both.out)
           /\ both.stored = p.stored \o [i \in DOMAIN o.stored |-> Len(p.text) + o.stored[i]]
           /\ \A uart0, console \in BOOLEAN :
                  printf(p.fmt, p.args, uart0, console) = IF uart0 \/ console THEN Len(p.text) ELSE 0

(* Every function does what it is for, wherever its parts above say: the     *)
(* areas and strings of string.c, the numbers and formats of printf.c, the   *)
(* bits of malloc.c and the clocks of emmc.c.                                *)
FunctionsRight ==
    CASE looked.kind = "memory" -> MemoryRight(looked.mem)
      [] looked.kind = "text" -> TextRight(looked.s)
      [] looked.kind = "number" ->
             /\ PrintRight(looked.n) /\ BitsRight(looked.n)
             /\ \A r \in Rates : ClockRight(looked.n, r)
      [] looked.kind = "format" -> FormatRight(looked.p)
      [] looked.kind = "none" -> TRUE
=============================================================================
