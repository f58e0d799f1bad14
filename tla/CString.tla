------------------------------- MODULE CString -------------------------------
(* The functions of libc/string.c.  Memory is a function from addresses to   *)
(* bytes; those that write return it changed, or Runaway when they write     *)
(* past the end of it.  The functions left to do, which return NULL or 0, are*)
(* not here.                                                                 *)
EXTENDS Integers, Sequences, FiniteSets

CONSTANT SizeMod         \* 2^w for the width w of size_t

ASSUME SizeAssumption == SizeMod \in Nat \ {0}

NULL == -1
Runaway == <<>>
InMemory(mem, a, n) == \A k \in a..(a + n - 1) : k \in DOMAIN mem

(* strlen: the string at a ends before the memory does.                      *)
Terminated(mem, a) == \E k \in DOMAIN mem : k >= a /\ mem[k] = 0
strlen(mem, a) ==
    CHOOSE n \in 0..Cardinality(DOMAIN mem) :
        mem[a + n] = 0 /\ \A k \in a..(a + n - 1) : mem[k] # 0
StringAt(mem, a) == [i \in 1..strlen(mem, a) |-> mem[a + i - 1]]

FirstOf(S) == CHOOSE i \in S : \A k \in S : i <= k

(* strnlen counts the character that made it stop, when that is not a NUL.   *)
strnlen(mem, a, n) ==
    LET ends == {k \in 0..n : mem[a + k] = 0}
    IN IF ends = {} THEN n + 1 ELSE FirstOf(ends)

Sign(n) == IF n < 0 THEN -1 ELSE IF n > 0 THEN 1 ELSE 0

(* The places where two texts differ, the NUL after each included.           *)
ByteOf(s, i) == IF i > Len(s) THEN 0 ELSE s[i]
Differ(s, t) == {i \in 1..(Len(s) + Len(t)) : ByteOf(s, i) # ByteOf(t, i)}

strcmp(s, t) ==
    IF Differ(s, t) = {} THEN 0
    ELSE LET i == FirstOf(Differ(s, t)) IN Sign(ByteOf(s, i) - ByteOf(t, i))

(* Letters of either case compare as small ones.                             *)
Lower(c) == IF c \in 65..90 THEN c + 32 ELSE c
Lowered(s) == [i \in DOMAIN s |-> Lower(s[i])]

(* strcasecmp ends with the first text, strncasecmp after n characters too.  *)
strncasecmp(s, t, n) ==
    LET places == {i \in Differ(Lowered(s), Lowered(t)) : i <= Len(s) /\ i <= n}
    IN IF places = {} THEN 0
       ELSE LET i == FirstOf(places) IN Sign(ByteOf(Lowered(s), i) - ByteOf(Lowered(t), i))
strcasecmp(s, t) == strncasecmp(s, t, Len(s))

(* memcpy goes upwards, whatever the areas.                                  *)
memcpy(mem, dest, src, n) ==
    IF ~InMemory(mem, dest, n) \/ ~InMemory(mem, src, n) THEN Runaway
    ELSE LET f[i \in 0..n] ==
                 IF i = 0 THEN mem
                 ELSE [f[i - 1] EXCEPT ![dest + i - 1] = f[i - 1][src + i - 1]]
         IN f[n]

(* Mutant: the first case is chosen when the source lies behind.             *)
memmove_Swapped(mem, dest, src, n) ==
    IF dest < src THEN memcpy(mem, dest, src, n)
    ELSE memcpy(mem, dest, src, (dest - src) % SizeMod)

(* memmove: its first case is taken for every target that does not end before*)
(* the source; in the other one the last size is negative.                   *)
memmove(mem, dest, src, n) ==
    IF dest + n > src THEN memcpy(mem, dest, src, n)
    ELSE IF src + n <= dest THEN mem
    ELSE LET moved == memcpy(mem, dest - (src - dest), dest, (n - (dest - src)) % SizeMod)
         IN IF moved = Runaway THEN Runaway
            ELSE memcpy(moved, dest, src, (dest - src) % SizeMod)

memset(mem, a, c, n) ==
    IF c > 255 THEN mem
    ELSE IF ~InMemory(mem, a, n) THEN Runaway
    ELSE [k \in DOMAIN mem |-> IF k \in a..(a + n - 1) THEN c % 256 ELSE mem[k]]

(* strcpy and strncpy leave the terminator behind.                           *)
strcpy(mem, dest, src) == memcpy(mem, dest, src, strlen(mem, src))
strncpy(mem, dest, src, n) ==
    memcpy(mem, dest, src, IF strlen(mem, src) < n THEN strlen(mem, src) ELSE n)

(* Mutant: every byte is taken, the high ones too.                           *)
str_from_wchar_Bytes(mem, dest, src, n) ==
    LET len == FirstOf({k \in 0..n : k = n \/ mem[src + k] = 0})
    IN [mem |-> [a \in DOMAIN mem |-> IF a = dest + len THEN 0
                                      ELSE IF a \in dest..(dest + len - 1)
                                      THEN mem[src + (a - dest)] ELSE mem[a]],
        count |-> len]

(* str_from_wchar: every other byte, until one is 0 or n are copied; the     *)
(* count returned is one too many in the second case.                        *)
str_from_wchar(mem, dest, src, n) ==
    LET stops == {k \in 0..n : k = n \/ mem[src + 2 * k] = 0}
        len == FirstOf(stops)
    IN [mem |-> [a \in DOMAIN mem |-> IF a = dest + len THEN 0
                                      ELSE IF a \in dest..(dest + len - 1)
                                      THEN mem[src + 2 * (a - dest)] ELSE mem[a]],
        count |-> IF mem[src + 2 * len] = 0 THEN len ELSE n + 1]

(* ffs counts bits from 1.                                                   *)
ffs(i) ==
    IF i = 0 THEN 0
    ELSE 1 + FirstOf({n \in 0..30 : (i \div 2^n) % 2 = 1})

(* strtok and strtok_r with a delimiter of one character: the text from str  *)
(* to the delimiter, which becomes a NUL; NULL when there is none.  The      *)
(* comparison with a delimiter that is the last character goes on behind both*)
(* strings: `over' is what it comes to.                                      *)
Delimiters(mem, str, c, over) ==
    {k \in str..(str + strlen(mem, str) - 1) :
        mem[k] = c /\ (mem[k + 1] # 0 \/ over)}
strtok_r(mem, str, c, over) ==
    IF str = NULL \/ Delimiters(mem, str, c, over) = {}
    THEN [tok |-> NULL, mem |-> mem, save |-> str]
    ELSE LET k == FirstOf(Delimiters(mem, str, c, over))
         IN [tok |-> str, mem |-> [mem EXCEPT ![k] = 0], save |-> k + 1]
=============================================================================
