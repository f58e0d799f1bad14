------------------------------- MODULE TreeBin -------------------------------
(* The tree bins of dlmalloc (mm/malloc.c): a trie for each range of sizes,  *)
(* branching on the bits of the size.  A trie is a function from the paths   *)
(* in it, sequences of 0 and 1, to the chunks chained there, all of one size,*)
(* the oldest first.  Sizes are in units of 16 bytes.                        *)
EXTENDS Integers, Sequences, FiniteSets

CONSTANTS Chunks,        \* the chunks there are
          ChunkSizes,    \* their sizes
          LargeAsked,    \* sizes tmalloc_large is asked for
          SmallAsked     \* and tmalloc_small

(* Chunks below 16 units have bins of their own; the heap ends at MAX_BRK,   *)
(* before there is room for a chunk of the last bin.                         *)
ASSUME TreeBinAssumption ==
    /\ ChunkSizes \subseteq 16..(3 * 2^18 - 1)
    /\ LargeAsked \subseteq Nat \ 0..15 /\ SmallAsked \subseteq 1..15

VARIABLES trees,         \* bin -> trie
          sized,         \* history: chunk -> its size, for the chunks binned
          before         \* history: pairs of binned chunks, the older one first

tries == <<trees, sized, before>>

Bit(s, n) == (s \div 2^n) % 2

(* compute_tree_index, branch free: the shifts that bring the highest bit of *)
(* the size up to bit 15 tell where it was; two bins for each power of two.  *)
LastBin == 31
compute_tree_index(s) ==
    LET x == s \div 16
        n1 == 8 * Bit((x - 2^8) \div 2^16, 3)
        y1 == x * 2^n1
        n2 == 4 * Bit((y1 - 2^12) \div 2^16, 2)
        y2 == y1 * 2^n2
        n3 == 2 * Bit((y2 - 2^14) \div 2^16, 1)
        y3 == y2 * 2^n3
        k == 14 - (n1 + n2 + n3) + y3 \div 2^15
    IN IF x = 0 THEN 0 ELSE IF x > 2^16 - 1 THEN LastBin ELSE 2 * k + Bit(s, k + 3)

(* compute_bit2idx: the number of the only bit of x that is set.             *)
compute_bit2idx(x) ==
    LET y0 == x - 1
        k1 == 16 * Bit(y0 \div 2^12, 4)  y1 == y0 \div 2^k1
        k2 == 8 * Bit(y1 \div 2^5, 3)    y2 == y1 \div 2^k2
        k3 == 4 * Bit(y2 \div 2^2, 2)    y3 == y2 \div 2^k3
        k4 == 2 * Bit(y3 \div 2, 1)      y4 == y3 \div 2^k4
        k5 == Bit(y4, 0)
    IN k1 + k2 + k3 + k4 + k5 + y4 \div 2^k5

(* The path of a size: its bits below those that tell the bin, all of them in*)
(* the last bin.                                                             *)
Depth(i) == IF i = LastBin THEN 60 ELSE i \div 2 + 3
Path(s) == LET d == Depth(compute_tree_index(s)) IN [n \in 1..d |-> Bit(s, d - n)]
Prefix(p, n) == SubSeq(p, 1, n)

EmptyTrie == <<>>
At(t, p, chain) == [q \in DOMAIN t \union {p} |-> IF q = p THEN chain ELSE t[q]]
Less(t, p) == [q \in DOMAIN t \ {p} |-> t[q]]
SizeAt(t, p) == sized[t[p][1]]
Child(p, b) == Append(p, b)

(* Down the path of the size as far as there are nodes of other sizes.       *)
Stops(t, s) == {n \in 0..Len(Path(s)) :
                   Prefix(Path(s), n) \notin DOMAIN t \/ SizeAt(t, Prefix(Path(s), n)) = s}
InsertAt(t, s) == Prefix(Path(s), CHOOSE n \in Stops(t, s) : \A k \in Stops(t, s) : n <= k)

(* Mutant: linked in on the other side of the chain's first chunk, and so the*)
(* next in its place.                                                        *)
insert_large_chunk_Second(t, x, s) ==
    LET p == InsertAt(t, s)
    IN At(t, p, IF p \in DOMAIN t THEN <<t[p][1], x>> \o Tail(t[p]) ELSE <<x>>)

(* insert_large_chunk: a new node, or the end of the chain of this size.     *)
insert_large_chunk(t, x, s) ==
    LET p == InsertAt(t, s)
    IN At(t, p, IF p \in DOMAIN t THEN Append(t[p], x) ELSE <<x>>)

(* The nodes from p down, to side b wherever there is a child.               *)
Downward(t, p, b) ==
    {q \in DOMAIN t :
        /\ Len(p) <= Len(q) /\ Prefix(q, Len(p)) = p
        /\ \A n \in Len(p)..(Len(q) - 1) :
               q[n + 1] # b => Child(Prefix(q, n), b) \notin DOMAIN t}

(* The rightmost leaf below a node.                                          *)
Leaf(t, p) == CHOOSE q \in Downward(t, p, 1) : \A r \in Downward(t, p, 1) : Len(r) <= Len(q)

(* A chain without one of its chunks.                                        *)
Unchained(chain, x) ==
    LET k == CHOOSE j \in DOMAIN chain : chain[j] = x
    IN [j \in 1..(Len(chain) - 1) |-> IF j < k THEN chain[j] ELSE chain[j + 1]]

(* Mutant: the child takes the node's place, wherever its bits belong.       *)
unlink_large_chunk_Child(t, x) ==
    LET p == CHOOSE q \in DOMAIN t : \E k \in DOMAIN t[q] : t[q][k] = x
        kids == {q \in {Child(p, 1), Child(p, 0)} : q \in DOMAIN t}
        kid == CHOOSE q \in kids : TRUE
    IN IF Len(t[p]) > 1 THEN At(t, p, Unchained(t[p], x))
       ELSE IF kids = {} THEN Less(t, p)
       ELSE Less(At(t, p, t[kid]), kid)

(* unlink_large_chunk: from its chain; the last of its size gives its place  *)
(* to the rightmost leaf below it.                                           *)
unlink_large_chunk(t, x) ==
    LET p == CHOOSE q \in DOMAIN t : \E k \in DOMAIN t[q] : t[q][k] = x
    IN IF Len(t[p]) > 1 THEN At(t, p, Unchained(t[p], x))
       ELSE IF Leaf(t, p) = p THEN Less(t, p)
       ELSE Less(At(t, p, t[Leaf(t, p)]), Leaf(t, p))

(* leftmost_child, again and again.                                          *)
Leftmost(t, p) == Downward(t, p, 0)

(* Of the nodes looked at, the one that fits best, if one does.              *)
Fitting(t, nodes, nb) == {q \in nodes : SizeAt(t, q) >= nb}
BestOf(t, nodes, nb) ==
    LET fit == Fitting(t, nodes, nb)
        best == {q \in fit : \A o \in fit : SizeAt(t, q) <= SizeAt(t, o)}
    IN IF fit = {} THEN {} ELSE {t[q][1] : q \in best}

NonEmpty == {i \in 0..LastBin : trees[i] # EmptyTrie}
Root(i) == Leftmost(trees[i], <<>>)

(* Mutant: of the right subtrees passed by, the first is kept.               *)
Untaken_First(t, walked, path) ==
    LET passed == {n \in 0..(Len(path) - 1) :
                      /\ Prefix(path, n) \in walked /\ path[n + 1] = 0
                      /\ Child(Prefix(path, n), 1) \in DOMAIN t}
    IN IF passed = {} THEN {}
       ELSE Leftmost(t, Child(Prefix(path, CHOOSE n \in passed : \A k \in passed : n <= k), 1))

(* The least subtree holding larger sizes: the deepest right child the walk  *)
(* did not take.                                                             *)
Untaken(t, walked, path) ==
    LET passed == {n \in 0..(Len(path) - 1) :
                      /\ Prefix(path, n) \in walked /\ path[n + 1] = 0
                      /\ Child(Prefix(path, n), 1) \in DOMAIN t}
    IN IF passed = {} THEN {}
       ELSE Leftmost(t, Child(Prefix(path, CHOOSE n \in passed : \A k \in passed : k <= n), 1))

(* tmalloc_large's search: along the bits of nb, then the least untaken right*)
(* subtree; in the next bin only if nothing in this one fits.                *)
large_fit(nb) ==
    LET i == compute_tree_index(nb)
        t == trees[i]
        walked == {Prefix(Path(nb), n) : n \in 0..Len(Path(nb))} \intersect DOMAIN t
        here == BestOf(t, walked \union Untaken(t, walked, Path(nb)), nb)
        later == {j \in NonEmpty : j > i}
        next == CHOOSE j \in later : \A k \in later : j <= k
    IN IF here # {} THEN here
       ELSE IF later = {} THEN {} ELSE BestOf(trees[next], Root(next), nb)

(* tmalloc_small's: the leftmost way down the least bin.                     *)
small_fit(nb) ==
    LET i == CHOOSE j \in NonEmpty : \A k \in NonEmpty : j <= k
    IN IF NonEmpty = {} THEN {} ELSE BestOf(trees[i], Root(i), nb)

BinInit == trees = [i \in 0..LastBin |-> EmptyTrie] /\ sized = <<>> /\ before = {}

InsertLarge(x, s) ==
    /\ x \in Chunks \ DOMAIN sized
    /\ trees' = [trees EXCEPT ![compute_tree_index(s)] = insert_large_chunk(@, x, s)]
    /\ sized' = [y \in DOMAIN sized \union {x} |-> IF y = x THEN s ELSE sized[y]]
    /\ before' = before \union {<<y, x>> : y \in DOMAIN sized}

UnlinkLarge(x) ==
    /\ trees' = [trees EXCEPT ![compute_tree_index(sized[x])] = unlink_large_chunk(@, x)]
    /\ sized' = [y \in DOMAIN sized \ {x} |-> sized[y]]
    /\ before' = {e \in before : x \notin {e[1], e[2]}}

BinNext ==
    \/ \E s \in ChunkSizes, x \in Chunks : InsertLarge(x, s)
    \/ \E x \in DOMAIN sized : UnlinkLarge(x)

BinSpec == BinInit /\ [][BinNext]_tries
-----------------------------------------------------------------------------
(* The chunks that fit, and of the smallest of them the one binned longest.  *)
LargeEnough(nb) == {x \in DOMAIN sized : sized[x] >= nb}
BestFit(nb) ==
    {x \in LargeEnough(nb) :
        \A y \in LargeEnough(nb) \ {x} :
            sized[x] < sized[y] \/ (sized[x] = sized[y] /\ <<x, y>> \in before)}

(* A search of the tries finds the smallest chunk that fits, and of those of *)
(* this size the oldest, wherever earlier removals have moved the nodes.     *)
BestFitFound ==
    /\ \A nb \in LargeAsked :
           large_fit(nb) = BestFit(nb) /\ (LargeEnough(nb) # {} => large_fit(nb) # {})
    /\ \A nb \in SmallAsked :
           small_fit(nb) = BestFit(nb) /\ (LargeEnough(nb) # {} => small_fit(nb) # {})
=============================================================================
