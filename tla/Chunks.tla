-------------------------------- MODULE Chunks --------------------------------
(* The memory dlmalloc works on (mm/malloc.c), in units of MALLOC_ALIGNMENT: *)
(* a unit of a chunk's start holds two words, prev_foot and head.  A heap is *)
(* a record m of                                                             *)
(*   head, foot     the words, by unit; a head is [size, pinuse, cinuse],    *)
(*   bins           the binned chunks of each size, in the order they will   *)
(*                  be taken,                                                *)
(*   dv, dvsize, top, topsize, seg, contiguous    the fields of malloc_state,*)
(*   brk            cur_brk of mm/heap.c.                                    *)
EXTENDS Integers, Sequences, FiniteSets

CONSTANTS Base,          \* __end, aligned to a page, in units; not 0
          MaxBrk,        \* MAX_BRK, in units
          Granule,       \* units of a page, which is the granularity too
          TopFoot,       \* TOP_FOOT_SIZE in units
          SmallLimit     \* chunks of fewer units are small

ASSUME ChunksAssumption ==
    /\ Base \in Nat \ {0} /\ MaxBrk \in Nat /\ Base < MaxBrk
    /\ Granule \in Nat \ {0} /\ TopFoot \in Nat \ {0}
    /\ SmallLimit \in 3..MaxBrk

Units == 0..MaxBrk
Sizes == 1..MaxBrk
UnitBytes == 16
WordBytes == 8
MinChunk == 2
NULL == 0

(* Mutant: the room for the head is forgotten.                               *)
request2size_NoOverhead(bytes) ==
    IF bytes < 23 THEN MinChunk ELSE (bytes + UnitBytes - 1) \div UnitBytes

(* The chunk a request of so many bytes needs: one word more, rounded up.    *)
request2size(bytes) ==
    IF bytes < 23 THEN MinChunk
    ELSE (bytes + WordBytes + UnitBytes - 1) \div UnitBytes

is_small(size) == size < SmallLimit
granularity_align(n) == ((n + Granule - 1) \div Granule) * Granule

HeadWord(size, pinuse, cinuse) == [size |-> size, pinuse |-> pinuse, cinuse |-> cinuse]
set_head(m, p, h) == [m EXCEPT !.head[p] = h]
mark_pinuse(m, p, yes) == [m EXCEPT !.head[p].pinuse = yes]
set_foot(m, p, size) == [m EXCEPT !.foot[p + size] = size]
in_use_both(m, p) == m.head[p].pinuse /\ m.head[p].cinuse

set_inuse(m, p, size) ==
    mark_pinuse(set_head(m, p, HeadWord(size, m.head[p].pinuse, TRUE)), p + size, TRUE)
set_inuse_and_pinuse(m, p, size) ==
    mark_pinuse(set_head(m, p, HeadWord(size, TRUE, TRUE)), p + size, TRUE)
set_size_and_pinuse_of_inuse_chunk(m, p, size) == set_head(m, p, HeadWord(size, TRUE, TRUE))
set_size_and_pinuse_of_free_chunk(m, p, size) ==
    set_foot(set_head(m, p, HeadWord(size, TRUE, FALSE)), p, size)

(* Mutant: the chunk after is not told.                                      *)
set_free_with_pinuse_Silent(m, p, size, next) ==
    set_size_and_pinuse_of_free_chunk(m, p, size)

set_free_with_pinuse(m, p, size, next) ==
    set_size_and_pinuse_of_free_chunk(mark_pinuse(m, next, FALSE), p, size)
-----------------------------------------------------------------------------
(* A list of chunks, and what is left of it when one goes.                   *)
Listed(list) == {list[i] : i \in DOMAIN list}
Unlinked(list, p) ==
    LET k == CHOOSE i \in DOMAIN list : list[i] = p
    IN IF p \in Listed(list)
       THEN [i \in 1..(Len(list) - 1) |-> IF i < k THEN list[i] ELSE list[i + 1]]
       ELSE list

(* A small bin is taken from where it was last put; of the chunks of one size*)
(* in a tree, the oldest is the one in the tree, to be used first.           *)
insert_chunk(m, p, size) ==
    [m EXCEPT !.bins[size] = IF is_small(size) THEN <<p>> \o @ ELSE Append(@, p)]
unlink_chunk(m, p, size) == [m EXCEPT !.bins[size] = Unlinked(@, p)]

(* Mutant: the old dv is forgotten.                                          *)
replace_dv_Lost(m, p, size) == [m EXCEPT !.dv = p, !.dvsize = size]

replace_dv(m, p, size) ==
    [(IF m.dvsize # 0 THEN insert_chunk(m, m.dv, m.dvsize) ELSE m)
        EXCEPT !.dv = p, !.dvsize = size]

Marked(m) == {s \in Sizes : m.bins[s] # <<>>}
Least(S) == CHOOSE s \in S : \A t \in S : s <= t
OldestOf(m, size) == m.bins[size][1]

init_top(m, p, size) ==
    [m EXCEPT !.top = p, !.topsize = size,
              !.head[p] = HeadWord(size, TRUE, FALSE),
              !.head[p + size] = HeadWord(TopFoot, FALSE, FALSE)]

(* Mutant: the limit is tested before the increment.                         *)
sbrk_ok_Before(m, increment) == m.brk < MaxBrk

(* sbrk, as a new break; it stays where it is when it would reach the limit. *)
sbrk_ok(m, increment) == m.brk + increment < MaxBrk

EmptyHeap ==
    [head |-> [u \in Units |-> HeadWord(0, FALSE, FALSE)], foot |-> [u \in Units |-> 0],
     bins |-> [s \in Sizes |-> <<>>], dv |-> NULL, dvsize |-> 0, top |-> NULL,
     topsize |-> 0, seg |-> [base |-> 0, size |-> 0], contiguous |-> TRUE, brk |-> Base]
=============================================================================
