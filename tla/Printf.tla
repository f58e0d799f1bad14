------------------------------- MODULE Printf -------------------------------
(* generic_printf of lib/io/printf.c and kernel/printf.c above it.  A format *)
(* is a sequence of characters, each a string of length one; an argument is a*)
(* number, a character with its low byte and what is above it, a sequence of *)
(* characters, a pointer to store to (any), or NoString for a null pointer.  *)
(* Widths and precisions are parsed and used nowhere.                        *)
EXTENDS Integers, Sequences, FiniteSets

CONSTANTS CharMod, ShortMod, IntMod, LongMod,  \* 2^w for C's integer types
          Width                                \* w of the widest

ASSUME WidthAssumption ==
    /\ {CharMod, ShortMod, IntMod, LongMod} \subseteq Nat \ {0}
    /\ Width \in Nat /\ LongMod <= 2^Width

NoString == <<"null">>

FlagChars == {"-", "+", " ", "#", "0"}
DigitChars == {"0", "1", "2", "3", "4", "5", "6", "7", "8", "9"}
LengthChars == {"h", "l", "j", "z", "t", "L"}
Specifiers == {"d", "i", "u", "o", "x", "X", "c", "s", "p", "n", "%"}
Floats == {"f", "F", "e", "E", "g", "G", "a", "A"}

CharAt(fmt, p) == IF p > Len(fmt) THEN "nul" ELSE fmt[p]
(* The first place from p on with a character outside S.                     *)
Past(fmt, p, S) ==
    CHOOSE q \in p..(Len(fmt) + 1) :
        CharAt(fmt, q) \notin S /\ \A k \in p..(q - 1) : fmt[k] \in S

(* printf_parse_width: a star, or digits.                                    *)
PastWidth(fmt, p) == IF CharAt(fmt, p) = "*" THEN p + 1 ELSE Past(fmt, p, DigitChars)

(* printf_parse_precision: a point, then digits and stars in any order.      *)
PastPrecision(fmt, p) ==
    IF CharAt(fmt, p) = "." THEN Past(fmt, p + 1, DigitChars \union {"*"}) ELSE p

(* Mutant: of a doubled length one letter is taken.                          *)
LengthAt_Single(fmt, p) == IF CharAt(fmt, p) \in LengthChars THEN <<fmt[p]>> ELSE <<>>

(* printf_parse_length                                                       *)
LengthAt(fmt, p) ==
    IF CharAt(fmt, p) \notin LengthChars THEN <<>>
    ELSE IF CharAt(fmt, p) \in {"h", "l"} /\ CharAt(fmt, p + 1) = CharAt(fmt, p)
    THEN <<fmt[p], fmt[p]>> ELSE <<fmt[p]>>

(* printf_parse_format: what is no specifier, or one for floats, counts as a *)
(* %d, and the former is left to be printed.                                 *)
printf_parse_format(fmt, p) ==
    LET afterFlags == Past(fmt, p, FlagChars)
        l == PastPrecision(fmt, PastWidth(fmt, afterFlags))
        s == l + Len(LengthAt(fmt, l))
        known == CharAt(fmt, s) \in Specifiers \union Floats
    IN [char |-> "%", flags |-> {fmt[k] : k \in p..(afterFlags - 1)}, length |-> LengthAt(fmt, l),
        specifier |-> IF CharAt(fmt, s) \in Specifiers THEN CharAt(fmt, s) ELSE "d",
        next |-> IF known THEN s + 1 ELSE s]

(* What a type holds of a number: 2^w for its width w; with its sign.        *)
Modulus(length) ==
    IF length = <<"h", "h">> THEN CharMod ELSE IF length = <<"h">> THEN ShortMod
    ELSE IF length \in {<<>>, <<"L">>} THEN IntMod ELSE LongMod
WithSign(v, m) == IF 2 * (v % m) >= m THEN (v % m) - m ELSE v % m

(* The argument as the length makes it: masked when short, never extended.   *)
Unsigned(v, length) == v % Modulus(length)
Signed(v, length) ==
    IF length \in {<<"h">>, <<"h", "h">>} THEN Unsigned(v, length)
    ELSE WithSign(v, Modulus(length))

Small == <<"0", "1", "2", "3", "4", "5", "6", "7", "8", "9", "a", "b", "c", "d", "e", "f">>
Capital == <<"0", "1", "2", "3", "4", "5", "6", "7", "8", "9", "A", "B", "C", "D", "E", "F">>

(* Mutant: the loop that counts the digits stops one early.                  *)
Digits_OneShort(n, base, numerals) ==
    LET count == CHOOSE i \in 0..Width : n \div base^i < base /\ \A k \in 0..(i - 1) : n \div base^k >= base
    IN [j \in 1..count |-> numerals[((n \div base^(count - j)) % base) + 1]]

(* The digits of a number, none for 0; then the 0 all conversions add.       *)
Digits(n, base, numerals) ==
    LET count == CHOOSE i \in 0..Width : n \div base^i = 0 /\ \A k \in 0..(i - 1) : n \div base^k > 0
    IN [j \in 1..count |-> numerals[((n \div base^(count - j)) % base) + 1]]
Number(n, base, numerals) ==
    (IF n = 0 THEN <<"0">> ELSE <<>>) \o Digits(n, base, numerals)

generic_printf_decimal(f, v) ==
    LET d == Signed(v, f.length)
    IN (IF d < 0 THEN <<"-">> ELSE IF "+" \in f.flags THEN <<"+">>
        ELSE IF " " \in f.flags THEN <<" ">> ELSE <<>>)
       \o Number(IF d < 0 THEN -d ELSE d, 10, Small)
generic_printf_unsigned(f, v) == Number(Unsigned(v, f.length), 10, Small)
generic_printf_octal(f, v) ==
    (IF "#" \in f.flags THEN <<"0">> ELSE <<>>) \o Number(Unsigned(v, f.length), 8, Small)
generic_printf_hex(f, v) ==
    LET capital == f.specifier = "X"
    IN (IF "#" \in f.flags THEN <<"0", f.specifier>> ELSE <<>>)
       \o Number(Unsigned(v, f.length), 16, IF capital THEN Capital ELSE Small)
generic_printf_pointer(v) == <<"0", "x">> \o Number(v % LongMod, 16, Small)

(* %c puts the whole of the wide character it takes, %lc its low byte.       *)
generic_printf_char(f, v) == IF f.length = <<"l">> \/ v.high = 0 THEN <<v.low>> ELSE <<v>>

(* A string's characters; a null pointer prints nothing and counts as -1.    *)
generic_printf_string(v) == IF v = NoString THEN <<>> ELSE v

Converted(f, v) ==
    CASE f.specifier = "d" -> generic_printf_decimal(f, v)
      [] f.specifier = "i" -> generic_printf_decimal(f, v)
      [] f.specifier = "u" -> generic_printf_unsigned(f, v)
      [] f.specifier = "o" -> generic_printf_octal(f, v)
      [] f.specifier \in {"x", "X"} -> generic_printf_hex(f, v)
      [] f.specifier = "c" -> generic_printf_char(f, v)
      [] f.specifier = "s" -> generic_printf_string(v)
      [] f.specifier = "p" -> generic_printf_pointer(v)
      [] f.specifier = "n" -> <<>>

(* The conversions of a format; a character outside them puts itself, as %%  *)
(* does.                                                                     *)
Conversion == [char : STRING, flags : SUBSET FlagChars, length : Seq(LengthChars),
               specifier : Specifiers, next : Nat]
Conversions(fmt) ==
    LET f[p \in 1..(Len(fmt) + 1)] ==
            IF p > Len(fmt) THEN <<>>
            ELSE LET c == IF fmt[p] = "%" THEN printf_parse_format(fmt, p + 1)
                          ELSE [char |-> fmt[p], flags |-> {}, length |-> <<>>,
                                specifier |-> "%", next |-> p + 1]
                 IN <<c>> \o f[c.next]
    IN f[1]

(* generic_printf: what is put, the count returned, and what the %n store:   *)
(* the count so far, as their type holds it.  An argument is taken for every *)
(* conversion but %%; none for a star.                                       *)
generic_printf(fmt, args) ==
    LET f[todo \in Seq(Conversion), a \in Nat, count \in Int] ==
            IF todo = <<>> THEN [out |-> <<>>, count |-> count, stored |-> <<>>]
            ELSE LET c == Head(todo)
                     takes == c.specifier # "%"
                     text == IF takes THEN Converted(c, args[a]) ELSE <<c.char>>
                     null == c.specifier \in {"s", "n"} /\ args[a] = NoString
                     rest == f[Tail(todo), IF takes THEN a + 1 ELSE a,
                               count + (IF null /\ c.specifier = "s" THEN -1 ELSE Len(text))]
                     here == IF c.specifier = "n" /\ ~null
                             THEN <<WithSign(count, Modulus(c.length))>> ELSE <<>>
                 IN [rest EXCEPT !.out = text \o @, !.stored = here \o @]
    IN f[Conversions(fmt), 1, 0]

(* printf of kernel/printf.c: the same text for every output that is on, and *)
(* the count they agree about.                                               *)
printf(fmt, args, uart0_putc_enabled, console_putc_enabled) ==
    LET c == generic_printf(fmt, args).count
        Agreed(count) == IF count \in {0, c} THEN c ELSE -1
        first == IF uart0_putc_enabled THEN Agreed(0) ELSE 0
    IN IF console_putc_enabled THEN Agreed(first) ELSE first
=============================================================================
