-------------------------------- MODULE Malloc --------------------------------
(* dlmalloc, dlfree and dlrealloc as this kernel builds them (mm/malloc.c):  *)
(* no mmap, no locks, one segment got from sbrk, and callers that write every*)
(* byte they asked for.                                                      *)
EXTENDS Chunks

CONSTANTS Requests,      \* the sizes asked for, in bytes, below MAX_REQUEST
          Huge,          \* a size from MAX_REQUEST on
          MaxLive        \* bound: blocks held at once

ASSUME MallocAssumption ==
    Requests \subseteq Nat /\ Huge \in Nat /\ \A bytes \in Requests : bytes < Huge

VARIABLES
    gm,      \* the heap
    live,    \* the blocks callers hold: chunk -> bytes asked for
    kept     \* history: no realloc has lost data

vars == <<gm, live, kept>>

(* A call's result: the heap after it and the chunk, NULL when it failed.    *)
Result(m, p) == [m |-> m, p |-> p]

(* A free chunk p is cut to nb units; what remains becomes dv or is binned.  *)
Split(m, p, nb) ==
    set_size_and_pinuse_of_inuse_chunk(
        set_size_and_pinuse_of_free_chunk(m, p + nb, m.head[p].size - nb), p, nb)

Cut(m, p, nb, dv) ==
    LET rsize == m.head[p].size - nb IN
    IF rsize < MinChunk THEN set_inuse_and_pinuse(m, p, m.head[p].size)
    ELSE IF dv THEN replace_dv(Split(m, p, nb), p + nb, rsize)
    ELSE insert_chunk(Split(m, p, nb), p + nb, rsize)

FromBin(m, size, nb, dv) ==
    LET p == OldestOf(m, size)
    IN Result(Cut(unlink_chunk(m, p, size), p, nb, dv), p)

FromDv(m, nb) ==
    LET p == m.dv
        rsize == m.dvsize - nb
    IN Result(IF rsize >= MinChunk
              THEN [Split(m, p, nb) EXCEPT !.dv = p + nb, !.dvsize = rsize]
              ELSE [set_inuse_and_pinuse(m, p, m.dvsize) EXCEPT !.dv = NULL, !.dvsize = 0],
              p)

FromTop(m, nb) ==
    LET rest == set_head(m, m.top + nb, HeadWord(m.topsize - nb, TRUE, FALSE))
    IN Result([set_size_and_pinuse_of_inuse_chunk(rest, m.top, nb)
                   EXCEPT !.top = @ + nb, !.topsize = @ - nb], m.top)

(* sys_alloc: the break is moved by what top lacks; when that fails, never   *)
(* again, but by all that is needed.  Memory got so always follows on.       *)
Extended(m, tsize) ==
    LET n == [m EXCEPT !.brk = @ + tsize] IN
    IF m.top = NULL
    THEN init_top([n EXCEPT !.seg = [base |-> m.brk, size |-> tsize]],
                  m.brk, tsize - TopFoot)
    ELSE init_top([n EXCEPT !.seg.size = @ + tsize], m.top, m.topsize + tsize)

Missing(m, nb) ==
    IF m.top = NULL THEN granularity_align(nb + TopFoot + 1)
    ELSE granularity_align(nb - m.topsize + TopFoot + 1)

sys_alloc(m, nb) ==
    LET asize == granularity_align(nb + TopFoot + 1)
        off == [m EXCEPT !.contiguous = FALSE]
    IN IF m.contiguous /\ sbrk_ok(m, Missing(m, nb))
       THEN FromTop(Extended(m, Missing(m, nb)), nb)
       ELSE IF sbrk_ok(m, asize) THEN FromTop(Extended(off, asize), nb)
       ELSE Result(off, NULL)

(* tmalloc_large: the best fit of the trees, unless dv fits as well; the size*)
(* left over of dv is unsigned.                                              *)
tmalloc_large(m, nb) ==
    \E s \in Marked(m) : s >= nb /\ (m.dvsize < nb \/ s < m.dvsize)

(* dlmalloc                                                                  *)
dlmalloc(m, bytes) ==
    LET nb == request2size(bytes)
        larger == {s \in Marked(m) : s > nb}
        small == {s \in larger : is_small(s)}
    IN IF bytes >= Huge THEN Result(m, NULL)
       ELSE IF is_small(nb) /\ m.bins[nb] # <<>>
       THEN LET p == OldestOf(m, nb)
            IN Result(set_inuse_and_pinuse(unlink_chunk(m, p, nb), p, nb), p)
       ELSE IF is_small(nb) /\ nb > m.dvsize /\ small # {}
       THEN FromBin(m, Least(small), nb, TRUE)
       ELSE IF is_small(nb) /\ nb > m.dvsize /\ larger # {}
       THEN FromBin(m, Least(larger), nb, TRUE)
       ELSE IF ~is_small(nb) /\ tmalloc_large(m, nb)
       THEN FromBin(m, Least({s \in Marked(m) : s >= nb}), nb, FALSE)
       ELSE IF nb <= m.dvsize THEN FromDv(m, nb)
       ELSE IF nb < m.topsize THEN FromTop(m, nb)
       ELSE sys_alloc(m, nb)
-----------------------------------------------------------------------------
(* dispose_chunk, and dlfree after its checks: p is merged with the free     *)
(* chunk before it, then with top, dv or the free chunk after it.            *)
Forward(m, p, psize, next) ==
    LET nsize == m.head[next].size
        both == set_size_and_pinuse_of_free_chunk(unlink_chunk(m, next, nsize), p, psize + nsize)
    IN IF m.head[next].cinuse
       THEN insert_chunk(set_free_with_pinuse(m, p, psize, next), p, psize)
       ELSE IF next = m.top
       THEN LET t == [m EXCEPT !.top = p, !.topsize = @ + psize,
                               !.head[p] = HeadWord(m.topsize + psize, TRUE, FALSE)]
            IN IF p = m.dv THEN [t EXCEPT !.dv = NULL, !.dvsize = 0] ELSE t
       ELSE IF next = m.dv
       THEN [set_size_and_pinuse_of_free_chunk(m, p, m.dvsize + psize)
                 EXCEPT !.dv = p, !.dvsize = @ + psize]
       ELSE IF p = m.dv THEN [both EXCEPT !.dvsize = psize + nsize]
       ELSE insert_chunk(both, p, psize + nsize)

(* Mutant: dv before the chunk is unlinked from a bin like any other.        *)
dispose_chunk_DvBinned(m, p, psize) ==
    LET next == p + psize
        prevsize == m.foot[p]
        prev == p - prevsize
    IN IF m.head[p].pinuse THEN Forward(m, p, psize, next)
       ELSE IF in_use_both(m, next)
       THEN insert_chunk(set_free_with_pinuse(unlink_chunk(m, prev, prevsize),
                             prev, psize + prevsize, next), prev, psize + prevsize)
       ELSE Forward(unlink_chunk(m, prev, prevsize), prev, psize + prevsize, next)

dispose_chunk(m, p, psize) ==
    LET next == p + psize
        prevsize == m.foot[p]
        prev == p - prevsize
    IN IF m.head[p].pinuse THEN Forward(m, p, psize, next)
       ELSE IF prev # m.dv
       THEN Forward(unlink_chunk(m, prev, prevsize), prev, psize + prevsize, next)
       ELSE IF in_use_both(m, next)
       THEN [set_free_with_pinuse(m, prev, psize + prevsize, next)
                 EXCEPT !.dvsize = psize + prevsize]
       ELSE Forward(m, prev, psize + prevsize, next)

dlfree(m, p) == dispose_chunk(m, p, m.head[p].size)
-----------------------------------------------------------------------------
(* try_realloc_chunk: p shrinks in place, or grows into top, dv or a free    *)
(* chunk after it; NULL when it can do none of these.                        *)
SplitOff(m, p, nb, rsize) ==
    dispose_chunk(set_inuse(set_inuse(m, p, nb), p + nb, rsize), p + nb, rsize)

IntoTop(m, p, nb) ==
    LET newtopsize == m.head[p].size + m.topsize - nb
    IN [set_head(set_inuse(m, p, nb), p + nb, HeadWord(newtopsize, TRUE, FALSE))
            EXCEPT !.top = p + nb, !.topsize = newtopsize]

IntoDv(m, p, nb) ==
    LET both == m.head[p].size + m.dvsize
        dsize == both - nb
    IN IF dsize < MinChunk
       THEN [set_inuse(m, p, both) EXCEPT !.dv = NULL, !.dvsize = 0]
       ELSE [mark_pinuse(set_size_and_pinuse_of_free_chunk(set_inuse(m, p, nb), p + nb, dsize),
                         p + both, FALSE)
                 EXCEPT !.dv = p + nb, !.dvsize = dsize]

(* Mutant: the free chunk taken over stays in its bin.                       *)
IntoNext_StillBinned(m, p, nb, next) ==
    LET both == m.head[p].size + m.head[next].size
    IN IF both - nb < MinChunk THEN set_inuse(m, p, both) ELSE SplitOff(m, p, nb, both - nb)

IntoNext(m, p, nb, next) ==
    LET both == m.head[p].size + m.head[next].size
        off == unlink_chunk(m, next, m.head[next].size)
    IN IF both - nb < MinChunk THEN set_inuse(off, p, both) ELSE SplitOff(off, p, nb, both - nb)

try_realloc_chunk(m, p, nb) ==
    LET oldsize == m.head[p].size
        next == p + oldsize
    IN IF oldsize >= nb
       THEN Result(IF oldsize - nb >= MinChunk THEN SplitOff(m, p, nb, oldsize - nb) ELSE m, p)
       ELSE IF next = m.top
       THEN IF oldsize + m.topsize > nb THEN Result(IntoTop(m, p, nb), p) ELSE Result(m, NULL)
       ELSE IF next = m.dv
       THEN IF oldsize + m.dvsize >= nb THEN Result(IntoDv(m, p, nb), p) ELSE Result(m, NULL)
       ELSE IF ~m.head[next].cinuse /\ oldsize + m.head[next].size >= nb
       THEN Result(IntoNext(m, p, nb, next), p)
       ELSE Result(m, NULL)

(* The words of a block, the first being the one after its chunk's head.     *)
Words(bytes) == (bytes + WordBytes - 1) \div WordBytes
FootUnits(p, w) == (p + 1)..(p + (w + 1) \div 2)
HeadUnits(p, w) == (p + 1)..(p + w \div 2)
Copied(m, from, to, w) ==
    [m EXCEPT !.foot = [u \in Units |-> IF u \in FootUnits(to, w) THEN m.foot[u - to + from] ELSE @[u]],
              !.head = [u \in Units |-> IF u \in HeadUnits(to, w) THEN m.head[u - to + from] ELSE @[u]]]

(* Mutant: the old block is freed before it is copied.                       *)
dlrealloc_FreeFirst(m, p, bytes) ==
    LET nb == request2size(bytes)
        inPlace == try_realloc_chunk(m, p, nb)
        other == dlmalloc(dlfree(m, p), bytes)
    IN IF bytes >= Huge THEN Result(m, NULL)
       ELSE IF inPlace.p # NULL THEN inPlace
       ELSE IF other.p = NULL THEN other
       ELSE Result(Copied(other.m, p, other.p,
                          Words(IF 16 * m.head[p].size - 8 < bytes
                                THEN 16 * m.head[p].size - 8 ELSE bytes)), other.p)

(* dlrealloc of a block; what is copied is the old chunk's room at most.     *)
dlrealloc(m, p, bytes) ==
    LET nb == request2size(bytes)
        inPlace == try_realloc_chunk(m, p, nb)
        other == dlmalloc(m, bytes)
        oc == UnitBytes * m.head[p].size - WordBytes
    IN IF bytes >= Huge THEN Result(m, NULL)
       ELSE IF inPlace.p # NULL THEN inPlace
       ELSE IF other.p = NULL THEN other
       ELSE Result(dlfree(Copied(other.m, p, other.p, Words(IF oc < bytes THEN oc ELSE bytes)), p),
                   other.p)
-----------------------------------------------------------------------------
(* The caller writes all of its block, a word of its own at a time.          *)
OwnHead(p) == HeadWord(-p, FALSE, FALSE)
Written(m, p, bytes) ==
    LET w == Words(bytes) IN
    [m EXCEPT !.foot = [u \in Units |-> IF u \in FootUnits(p, w) THEN -p ELSE @[u]],
              !.head = [u \in Units |-> IF u \in HeadUnits(p, w) THEN OwnHead(p) ELSE @[u]]]
Holds(m, p, owner, bytes) ==
    LET w == Words(bytes) IN
    /\ \A u \in FootUnits(p, w) : m.foot[u] = -owner
    /\ \A u \in HeadUnits(p, w) : m.head[u] = OwnHead(owner)

Without(f, p) == [q \in DOMAIN f \ {p} |-> f[q]]
With(f, p, x) == [q \in DOMAIN f \union {p} |-> IF q = p THEN x ELSE f[q]]

Init ==
    /\ gm = EmptyHeap /\ live = <<>> /\ kept = TRUE

Malloc(bytes) ==
    /\ Cardinality(DOMAIN live) < MaxLive
    /\ LET r == dlmalloc(gm, bytes) IN
       /\ gm' = IF r.p = NULL THEN r.m ELSE Written(r.m, r.p, bytes)
       /\ live' = IF r.p = NULL THEN live ELSE With(live, r.p, bytes)
    /\ UNCHANGED kept

Free(p) ==
    /\ gm' = dlfree(gm, p)
    /\ live' = Without(live, p)
    /\ UNCHANGED kept

Realloc(p, bytes) ==
    LET r == dlrealloc(gm, p, bytes)
        least == IF bytes < live[p] THEN bytes ELSE live[p]
    IN /\ gm' = IF r.p = NULL THEN r.m ELSE Written(r.m, r.p, bytes)
       /\ live' = IF r.p = NULL THEN live ELSE With(Without(live, p), r.p, bytes)
       /\ kept' = (kept /\ (r.p # NULL => Holds(r.m, r.p, p, least)))

Next ==
    \/ \E bytes \in Requests \union {Huge} : Malloc(bytes)
    \/ \E p \in DOMAIN live : Free(p)
    \/ \E p \in DOMAIN live, bytes \in Requests \union {Huge} : Realloc(p, bytes)

Spec == Init /\ [][Next]_vars
-----------------------------------------------------------------------------
(* The chunks from the segment's base to top, walked as traverse_and_check   *)
(* does, by the sizes in their heads.                                        *)
WalkFrom(m) ==
    LET walk[p \in Units] ==
            IF p >= m.top \/ m.head[p].size < 1 \/ p + m.head[p].size > m.top
            THEN {} ELSE {p} \union walk[p + m.head[p].size]
    IN walk
Walk(m) == IF m.top = NULL THEN {} ELSE WalkFrom(m)[m.seg.base]
After(m, p) == p + m.head[p].size
FreeChunks(m) == {p \in Walk(m) : ~m.head[p].cinuse}

(* The shape of the heap, and a break that has not passed its limit.         *)
TypeOK ==
    /\ gm.dv \in Units /\ gm.top \in Units /\ gm.dvsize \in 0..MaxBrk
    /\ gm.topsize \in 0..MaxBrk /\ gm.contiguous \in BOOLEAN /\ gm.brk \in Base..MaxBrk
    /\ DOMAIN live \subseteq Units /\ kept \in BOOLEAN
    /\ \A u \in Units : gm.head[u].size \in -MaxBrk..MaxBrk /\ gm.foot[u] \in -MaxBrk..MaxBrk

(* What callers wrote in their blocks stays there until they free them, and  *)
(* goes with them in a realloc, whichever of its ways it takes: no two blocks*)
(* overlap, and no head, foot or copy lands in one.                          *)
OwnersData == kept /\ \A p \in DOMAIN live : Holds(gm, p, p, live[p])

(* The chunks tile a segment that ends at the break; each in-use bit and each*)
(* foot agrees with the chunk before; those in use are the callers'.         *)
BoundaryTags ==
    gm.top # NULL =>
        LET chunks == Walk(gm) \union {gm.top} IN
        /\ gm.seg.base + gm.seg.size = gm.brk
        /\ gm.top + gm.topsize + TopFoot = gm.brk
        /\ gm.head[gm.top] = HeadWord(gm.topsize, TRUE, FALSE)
        /\ {p \in Walk(gm) : gm.head[p].cinuse} = DOMAIN live
        /\ \A p \in Walk(gm) :
              /\ After(gm, p) \in chunks
              /\ gm.head[After(gm, p)].pinuse = gm.head[p].cinuse
              /\ ~gm.head[p].cinuse => gm.foot[After(gm, p)] = gm.head[p].size

(* Each free chunk is dv or in the bin of its size, once, and nothing else   *)
(* is: what a bin holds may be given out.                                    *)
BinsExact ==
    LET entries == UNION {{<<s, i>> : i \in DOMAIN gm.bins[s]} : s \in Sizes} IN
    /\ FreeChunks(gm) \ {gm.dv} = {gm.bins[e[1]][e[2]] : e \in entries}
    /\ Cardinality(entries) = Cardinality(FreeChunks(gm) \ {gm.dv})
    /\ \A e \in entries : gm.head[gm.bins[e[1]][e[2]]].size = e[1]
    /\ gm.dvsize # 0 => gm.dv \in FreeChunks(gm) /\ gm.head[gm.dv].size = gm.dvsize

(* What do_check_malloc_state asserts in a build with DEBUG, after each call.*)
MallocStateOK == BoundaryTags /\ BinsExact

(* Free neighbours are merged at once, and when the last block is freed the  *)
(* whole segment is top again: the heap does not fragment for good.          *)
Merged ==
    /\ \A p \in FreeChunks(gm) : After(gm, p) \notin FreeChunks(gm) \union {gm.top}
    /\ DOMAIN live = {} /\ gm.top # NULL => gm.top = gm.seg.base

(* malloc would fail only when no free chunk fits and the break cannot be    *)
(* moved by the whole request, which is what sys_alloc asks for once the     *)
(* heap is not contiguous, although top and less would do; a large request   *)
(* would get the smallest free chunk that fits, and top be cut only when     *)
(* there is none.                                                            *)
ServedIfPossible ==
    \A bytes \in Requests :
        LET nb == request2size(bytes)
            got == dlmalloc(gm, bytes).p
            fits == {p \in FreeChunks(gm) : gm.head[p].size >= nb}
        IN /\ got = NULL => /\ fits = {} /\ gm.topsize <= nb
                            /\ ~sbrk_ok(gm, granularity_align(nb + TopFoot + 1))
           /\ ~is_small(nb) /\ fits # {} =>
                got \in fits /\ \A p \in fits : gm.head[got].size <= gm.head[p].size

(* Seen from outside it is a store of blocks of bytes.                       *)
Blocks == INSTANCE Blocks WITH blocks <- live
IsBlockStore == Blocks!Spec
=============================================================================
