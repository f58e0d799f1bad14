-------------------------------- MODULE Blocks --------------------------------
(* What malloc, free and realloc promise: blocks of as many words as were    *)
(* asked for, none sharing a word with another, that change only when their  *)
(* own holder frees or resizes them.                                         *)
EXTENDS Integers

CONSTANTS Requests,     \* the sizes asked for, in bytes
          Units         \* the units a chunk may begin at, of two words each
VARIABLE blocks         \* chunk -> bytes; the block begins a unit after it

Span(p, bytes) == (2 * p + 2)..(2 * p + 1 + (bytes + 7) \div 8)
With(f, p, x) == [q \in DOMAIN f \union {p} |-> IF q = p THEN x ELSE f[q]]
Without(f, p) == [q \in DOMAIN f \ {p} |-> f[q]]

Apart(f) == \A p, q \in DOMAIN f : p # q => Span(p, f[p]) \intersect Span(q, f[q]) = {}

Init == blocks = <<>>

Get(p, bytes) == p \notin DOMAIN blocks /\ blocks' = With(blocks, p, bytes) /\ Apart(blocks')
Drop(p) == blocks' = Without(blocks, p)
Resize(p, q, bytes) ==
    /\ q \notin DOMAIN blocks \ {p}
    /\ blocks' = With(Without(blocks, p), q, bytes) /\ Apart(blocks')

Next ==
    \/ \E p \in Units, bytes \in Requests : Get(p, bytes)
    \/ \E p \in DOMAIN blocks : Drop(p)
    \/ \E p \in DOMAIN blocks, q \in Units, bytes \in Requests : Resize(p, q, bytes)
Spec == Init /\ [][Next]_blocks
=============================================================================
