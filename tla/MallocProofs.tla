---------------------------- MODULE MallocProofs -----------------------------
(* dlmalloc for every size of the heap and all requests, in three parts.     *)
(* First what the heap is and that dlmalloc gives out a free chunk of it and *)
(* leaves a heap: Heap(m, K, L) is its shape, K the chunks that tile the     *)
(* segment, their tags in agreement, L those in use, dv and the bins exactly *)
(* the others; a step rewrites the words between two chunks, and Reshape     *)
(* says what it must show of them.  Then dlfree and dlrealloc, the callers'  *)
(* data and the theorems of Malloc: a call keeps the words of every block but*)
(* its own (Kept), so what callers wrote stays (Holding), and the properties *)
(* of Malloc follow.  Last the tries of TreeBin: which sizes a bin and a     *)
(* branch hold, that insertions and removals keep every size on its path     *)
(* (Trie), and that the searches then find the best fit.                     *)
EXTENDS Malloc, TreeBin, FiniteSetTheorems, WellFoundedInduction, TLAPS

(* Chunks that tile the segment, their tags, and a step that rewrites some   *)
(* of them.                                                                  *)

(* What words hold: nothing above the heap's end, and the callers' data.     *)
Amounts == -MaxBrk..MaxBrk
Heads == [Units -> [size : Amounts, pinuse : BOOLEAN, cinuse : BOOLEAN]]
Feet == [Units -> Amounts]

End(H, p) == p + H[p].size

(* The chunks K, with the sizes in their heads, cover the units from lo to hi*)
(* without a gap or an overlap.                                              *)
Tiled(H, K, lo, hi) ==
    /\ K \subseteq lo..(hi - 1) /\ lo \in K
    /\ \A p \in K : H[p].size >= 1 /\ End(H, p) \in K \cup {hi}
    /\ \A p, q \in K : p < q => End(H, p) <= q
    /\ \A p \in K \ {lo} : \E q \in K : End(H, q) = p

(* What a chunk that another one follows says of it and it of the chunk.     *)
Tag(H, Ft, p, next) ==
    /\ H[next].pinuse = H[p].cinuse
    /\ ~H[p].cinuse => Ft[next] = H[p].size /\ H[next].cinuse

Tagged(H, Ft, K, lo, hi) ==
    /\ H[lo].pinuse
    /\ \A p \in K : IF End(H, p) = hi THEN ~H[p].cinuse ELSE Tag(H, Ft, p, End(H, p))

(* Only words between a and b are new, and of a chunk at b the pinuse bit.   *)
Within(H, Ft, H2, Ft2, a, b) ==
    /\ \A u \in Units : u < a \/ u > b => H2[u] = H[u]
    /\ \A u \in Units : u <= a \/ u > b => Ft2[u] = Ft[u]
    /\ H2[b].size = H[b].size /\ H2[b].cinuse = H[b].cinuse

(* Where the chunks of a tiling lie, and where they end.                     *)
LEMMA InTiled ==
    ASSUME NEW H \in Heads, NEW lo \in Units, NEW hi \in Units, NEW K, Tiled(H, K, lo, hi)
    PROVE  /\ K \subseteq Units /\ lo \in K
           /\ \A p \in K : /\ p \in Int /\ lo <= p /\ p < hi
                           /\ H[p].size \in Int /\ H[p].size >= 1
                           /\ End(H, p) \in K \cup {hi} /\ End(H, p) \in Int
                           /\ p < End(H, p) /\ End(H, p) <= hi
           /\ \A p, q \in K : p < q => End(H, p) <= q
           /\ \A p, q \in K : End(H, p) = End(H, q) => p = q
<1>1. /\ K \subseteq lo..(hi - 1) /\ K \subseteq Units /\ lo \in Int /\ hi \in Int
      /\ Units \subseteq Int
  BY ChunksAssumption DEF Tiled, Units
<1>2. ASSUME NEW p \in K
      PROVE  /\ p \in Int /\ lo <= p /\ p < hi
             /\ H[p].size \in Int /\ H[p].size >= 1
             /\ End(H, p) \in K \cup {hi} /\ End(H, p) \in Int
             /\ p < End(H, p) /\ End(H, p) <= hi
  <2>1. p \in Units /\ p \in Int /\ lo <= p /\ p < hi
    BY <1>1
  <2>2. H[p].size \in Int
    BY <2>1 DEF Heads, Amounts
  <2>3. H[p].size >= 1 /\ End(H, p) \in K \cup {hi}
    BY DEF Tiled
  <2>4. End(H, p) \in Int /\ p < End(H, p)
    BY <2>1, <2>2, <2>3 DEF End
  <2>5. End(H, p) <= hi
    BY <1>1, <2>3
  <2> QED
    BY <2>1, <2>2, <2>3, <2>4, <2>5
<1>3. \A p, q \in K : p < q => End(H, p) <= q
  BY DEF Tiled
<1>4. ASSUME NEW p \in K, NEW q \in K, End(H, p) = End(H, q) PROVE p = q
  <2>1. p < q => End(H, p) <= q /\ q < End(H, q)
    BY <1>2, <1>3
  <2>2. q < p => End(H, q) <= p /\ p < End(H, p)
    BY <1>2, <1>3
  <2> QED
    BY <1>2, <1>4, <2>1, <2>2
<1> QED
  BY <1>1, <1>2, <1>3, <1>4 DEF Tiled

(* The chunks from a to b replaced by one, a, or by two, a and c.            *)
LEMMA ReplaceTiled ==
    ASSUME NEW H \in Heads, NEW H2 \in Heads,
           NEW lo \in Units, NEW hi \in Units, NEW K, Tiled(H, K, lo, hi),
           NEW a \in K, NEW b \in K \cup {hi}, NEW c \in a..(b - 1),
           \A u \in Units : u < a \/ u > b => H2[u] = H[u],
           H2[b].size = H[b].size,
           H2[c].size = b - c,
           c # a => H2[a].size = c - a
    PROVE  Tiled(H2, (K \ (a..(b - 1))) \cup {a, c}, lo, hi)
<1> DEFINE K2 == (K \ (a..(b - 1))) \cup {a, c}
<1>1. /\ lo \in Int /\ hi \in Int /\ Units \subseteq Int
      /\ K \subseteq lo..(hi - 1) /\ K \subseteq Units
      /\ a \in Int /\ lo <= a /\ b \in Int /\ b <= hi /\ a < b
      /\ c \in Int /\ a <= c /\ c < b
  <2>1. /\ lo \in Int /\ hi \in Int /\ Units \subseteq Int
        /\ K \subseteq lo..(hi - 1) /\ K \subseteq Units
    BY ChunksAssumption DEF Tiled, Units
  <2> QED BY <2>1
<1>2. /\ End(H2, c) = b /\ H2[c].size >= 1
      /\ c # a => End(H2, a) = c /\ H2[a].size >= 1
  BY <1>1 DEF End
<1>3. ASSUME NEW p \in K, p \notin a..(b - 1)
      PROVE  /\ p \in Int /\ End(H2, p) = End(H, p) /\ H2[p].size >= 1
             /\ p < a \/ p >= b
             /\ End(H2, p) \in Int /\ p < End(H2, p)
             /\ p < a => End(H2, p) <= a
             /\ End(H2, p) \in K2 \cup {hi}
  <2>0. p \in Units /\ p \in Int
    BY <1>1
  <2>1. p \in Units /\ p \in Int /\ (p < a \/ p >= b)
    BY <1>1, <1>3, <2>0
  <2>2. H2[p].size = H[p].size
    BY <1>1, <2>1
  <2>3. H[p].size >= 1 /\ End(H, p) \in Int /\ p < End(H, p) /\ (p < a => End(H, p) <= a)
        /\ End(H, p) \in K \cup {hi} /\ H[p].size \in Int
    BY InTiled
  <2>4. End(H2, p) = End(H, p)
    BY <2>2 DEF End
  <2>5. End(H, p) \notin (a + 1)..(b - 1)
    BY <1>1, <2>1, <2>3
  <2> QED
    BY <1>1, <2>1, <2>2, <2>3, <2>4, <2>5
<1>4. K2 \subseteq lo..(hi - 1) /\ lo \in K2
  <2>1. lo \in K
    BY DEF Tiled
  <2>2. lo \in K2
    BY <1>1, <2>1
  <2>3. a \in lo..(hi - 1) /\ c \in lo..(hi - 1)
    BY <1>1
  <2> QED BY <1>1, <2>2, <2>3
<1>5. ASSUME NEW p \in K2 PROVE H2[p].size >= 1 /\ End(H2, p) \in K2 \cup {hi}
  <2>1. b \in K2 \cup {hi}
    BY <1>1
  <2> QED
    BY <1>2, <1>3, <2>1
<1>6. ASSUME NEW p \in K2, NEW q \in K2, p < q PROVE End(H2, p) <= q
  <2>1. CASE p \in {a, c} /\ q \in {a, c}
    BY <1>1, <1>2, <1>6, <2>1
  <2>2. CASE p \in {a, c} /\ q \in K /\ q \notin a..(b - 1)
    BY <1>1, <1>2, <1>3, <1>6, <2>2
  <2>3. CASE p \in K /\ p \notin a..(b - 1) /\ q \in {a, c}
    BY <1>1, <1>2, <1>3, <1>6, <2>3
  <2>4. CASE p \in K /\ p \notin a..(b - 1) /\ q \in K /\ q \notin a..(b - 1)
    BY <1>3, <1>6, <2>4 DEF Tiled
  <2> QED BY <2>1, <2>2, <2>3, <2>4
<1>7. ASSUME NEW p \in K2 \ {lo} PROVE \E q \in K2 : End(H2, q) = p
  <2>1. CASE p = c /\ c # a
    BY <1>2, <2>1
  <2>2. CASE p = b
    BY <1>2, <2>2
  <2>3. CASE p \in K /\ (p <= a \/ p > b)
    <3>1. PICK q \in K : End(H, q) = p
      BY <1>7, <2>3 DEF Tiled
    <3>2. q \in Int /\ q < p
      BY <3>1, InTiled
    <3>3. q \notin a..(b - 1)
      <4>1. p > b => q >= b
        <5>1. q < b /\ b \in K => End(H, q) <= b
          BY DEF Tiled
        <5> QED BY <1>1, <1>7, <1>4, <3>1, <3>2, <5>1
      <4> QED BY <1>1, <2>3, <3>2, <4>1
    <3> QED BY <1>3, <3>1, <3>3
  <2>4. p \in {a, c} \/ (p \in K /\ (p < a \/ p >= b))
    BY <1>1, <1>3
  <2> QED
    BY <1>1, <2>1, <2>2, <2>3, <2>4
<1> QED
  BY <1>4, <1>5, <1>6, <1>7 DEF Tiled

(* The in-use bits and feet agree after such a step too.                     *)
LEMMA ReplaceTagged ==
    ASSUME NEW H \in Heads, NEW H2 \in Heads, NEW Ft \in Feet, NEW Ft2 \in Feet,
           NEW lo \in Units, NEW hi \in Units, NEW K,
           Tiled(H, K, lo, hi), Tagged(H, Ft, K, lo, hi),
           NEW a \in K, NEW b \in K \cup {hi}, NEW c \in a..(b - 1),
           Within(H, Ft, H2, Ft2, a, b),
           H2[c].size = b - c,
           c # a => H2[a].size = c - a /\ Tag(H2, Ft2, a, c),
           H2[a].pinuse = H[a].pinuse, H2[a].cinuse \/ H[a].pinuse,
           IF b = hi THEN ~H2[c].cinuse ELSE Tag(H2, Ft2, c, b)
    PROVE  Tagged(H2, Ft2, (K \ (a..(b - 1))) \cup {a, c}, lo, hi)
<1> DEFINE K2 == (K \ (a..(b - 1))) \cup {a, c}
<1>1. /\ lo \in Int /\ hi \in Int /\ Units \subseteq Int
      /\ K \subseteq lo..(hi - 1) /\ K \subseteq Units
      /\ a \in Int /\ lo <= a /\ b \in Int /\ b <= hi /\ a < b
      /\ c \in Int /\ a <= c /\ c < b /\ a \in Units /\ b \in Units
  <2>1. /\ lo \in Int /\ hi \in Int /\ Units \subseteq Int
        /\ K \subseteq lo..(hi - 1) /\ K \subseteq Units
    BY ChunksAssumption DEF Tiled, Units
  <2> QED BY <2>1
<1>2. End(H2, c) = b /\ (c # a => End(H2, a) = c)
  BY <1>1 DEF End
<1>3. /\ \A u \in Units : u < a \/ u > b => H2[u] = H[u]
      /\ \A u \in Units : u <= a \/ u > b => Ft2[u] = Ft[u]
      /\ H2[b].size = H[b].size /\ H2[b].cinuse = H[b].cinuse
  BY DEF Within
<1>4. H2[lo].pinuse
  <2>1. lo \in Units /\ H[lo].pinuse
    BY DEF Tagged
  <2> QED BY <1>1, <1>3, <2>1
<1>5. ASSUME NEW p \in K2
      PROVE  IF End(H2, p) = hi THEN ~H2[p].cinuse ELSE Tag(H2, Ft2, p, End(H2, p))
  <2>1. CASE p = c
    BY <1>2, <2>1
  <2>2. CASE p = a /\ c # a
    BY <1>1, <1>2, <2>2
  <2>3. CASE p \in K /\ p \notin a..(b - 1)
    <3>0. p \in Units /\ p \in Int
      BY <1>1, <2>3
    <3>1. p < a \/ p >= b
      BY <1>1, <2>3, <3>0
    <3>2. H2[p].size = H[p].size /\ H2[p].cinuse = H[p].cinuse
      BY <1>1, <1>3, <3>0, <3>1
    <3>3. End(H2, p) = End(H, p)
      BY <3>2 DEF End
    <3>4. /\ End(H, p) \in K \cup {hi} /\ End(H, p) \in Int /\ p < End(H, p)
          /\ p < a => End(H, p) <= a
      BY <2>3, InTiled
    <3>5. IF End(H, p) = hi THEN ~H[p].cinuse ELSE Tag(H, Ft, p, End(H, p))
      BY <2>3 DEF Tagged
    <3> DEFINE n == End(H, p)
    <3>6. n \in Units
      BY <1>1, <3>4
    <3>7. CASE n < a \/ n > b
      <4>1. H2[n] = H[n] /\ Ft2[n] = Ft[n]
        BY <1>1, <1>3, <3>4, <3>6, <3>7
      <4> QED BY <3>2, <3>3, <3>5, <4>1 DEF Tag
    <3>8. CASE n = a
      <4>1. Ft2[n] = Ft[n]
        BY <1>1, <1>3, <3>6, <3>8
      <4>2. n # hi
        BY <1>1, <3>8
      <4> HIDE DEF n
      <4>3. Tag(H, Ft, p, n)
        BY <3>5, <4>2 DEF n
      <4>4. Tag(H2, Ft2, p, n)
        BY <3>2, <3>8, <4>1, <4>3 DEF Tag
      <4> QED BY <3>3, <4>2, <4>4 DEF n
    <3> QED
      BY <1>1, <3>1, <3>4, <3>7, <3>8
  <2> QED BY <2>1, <2>2, <2>3
<1> QED
  BY <1>4, <1>5 DEF Tagged
-----------------------------------------------------------------------------
(* The bins.                                                                 *)

NoRepeats(list) == \A i, j \in DOMAIN list : list[i] = list[j] => i = j

(* The bins hold the chunks of G, each once, by the sizes in the heads.      *)
Bins(bins, H, G) ==
    \A s \in Sizes : NoRepeats(bins[s]) /\ Listed(bins[s]) = {p \in G : H[p].size = s}

BinLists == [Sizes -> Seq(Units)]

(* A list without one of its members.                                        *)
LEMMA UnlinkedList ==
    ASSUME NEW S, NEW list \in Seq(S), NEW p, NoRepeats(list)
    PROVE  /\ Unlinked(list, p) \in Seq(S) /\ NoRepeats(Unlinked(list, p))
           /\ Listed(Unlinked(list, p)) = Listed(list) \ {p}
<1>1. CASE p \notin Listed(list)
  BY <1>1 DEF Unlinked
<1>2. CASE p \in Listed(list)
  <2> DEFINE k == CHOOSE i \in DOMAIN list : list[i] = p
             left == [i \in 1..(Len(list) - 1) |-> IF i < k THEN list[i] ELSE list[i + 1]]
  <2>1. k \in DOMAIN list /\ list[k] = p
    BY <1>2 DEF Listed
  <2>2. Unlinked(list, p) = left
    BY <1>2 DEF Unlinked
  <2> HIDE DEF k
  <2>3. DOMAIN list = 1..Len(list) /\ Len(list) \in Nat /\ k \in 1..Len(list)
    BY <2>1
  <2>4. ASSUME NEW i \in 1..(Len(list) - 1)
        PROVE  /\ i < k => i \in DOMAIN list /\ left[i] = list[i]
               /\ i >= k => i + 1 \in DOMAIN list /\ left[i] = list[i + 1]
               /\ left[i] \in S
    BY <2>3
  <2>5. left \in Seq(S) /\ DOMAIN left = 1..(Len(list) - 1)
    <3>1. Len(list) - 1 \in Nat
      BY <2>3
    <3> QED BY <2>4, <3>1
  <2> HIDE DEF left
  <2>6. NoRepeats(left)
    <3> SUFFICES ASSUME NEW i \in 1..(Len(list) - 1), NEW j \in 1..(Len(list) - 1),
                        left[i] = left[j]
                 PROVE  i = j
      BY <2>5 DEF NoRepeats
    <3>1. CASE i < k /\ j < k
      BY <2>3, <2>4, <3>1 DEF NoRepeats
    <3>2. CASE i >= k /\ j >= k
      <4>1. i + 1 = j + 1
        BY <2>3, <2>4, <3>2 DEF NoRepeats
      <4> QED BY <4>1
    <3>3. CASE i < k /\ j >= k
      <4>1. i = j + 1
        BY <2>3, <2>4, <3>3 DEF NoRepeats
      <4> QED BY <2>3, <3>3, <4>1
    <3>4. CASE i >= k /\ j < k
      <4>1. i + 1 = j
        BY <2>3, <2>4, <3>4 DEF NoRepeats
      <4> QED BY <2>3, <3>4, <4>1
    <3> QED BY <2>3, <3>1, <3>2, <3>3, <3>4
  <2>7. ASSUME NEW x \in Listed(list), x # p PROVE x \in Listed(left)
    <3>1. PICK i \in DOMAIN list : list[i] = x
      BY DEF Listed
    <3>2. i # k /\ i \in 1..Len(list)
      BY <2>1, <2>3, <2>7, <3>1
    <3>3. CASE i < k
      <4>1. i \in 1..(Len(list) - 1)
        BY <2>3, <3>2, <3>3
      <4> QED BY <2>4, <2>5, <3>1, <3>3, <4>1 DEF Listed
    <3>4. CASE i > k
      <4>1. i - 1 \in 1..(Len(list) - 1) /\ i - 1 >= k /\ (i - 1) + 1 = i
        BY <2>3, <3>2, <3>4
      <4>2. left[i - 1] = x
        BY <2>4, <3>1, <4>1
      <4> QED BY <2>5, <4>1, <4>2 DEF Listed
    <3> QED BY <2>3, <3>2, <3>3, <3>4
  <2>8. ASSUME NEW x \in Listed(left) PROVE x \in Listed(list) /\ x # p
    <3>1. PICK i \in 1..(Len(list) - 1) : left[i] = x
      BY <2>5 DEF Listed
    <3>2. CASE i < k
      <4>1. i \in DOMAIN list /\ x = list[i] /\ i # k
        BY <2>3, <2>4, <3>1, <3>2
      <4> QED BY <2>1, <4>1 DEF Listed, NoRepeats
    <3>3. CASE i >= k
      <4>1. i + 1 \in DOMAIN list /\ x = list[i + 1] /\ i + 1 # k
        BY <2>3, <2>4, <3>1, <3>3
      <4> QED BY <2>1, <4>1 DEF Listed, NoRepeats
    <3> QED BY <2>3, <3>2, <3>3
  <2> QED BY <2>2, <2>5, <2>6, <2>7, <2>8
<1> QED BY <1>1, <1>2

(* A list with one more member at either end.                                *)
LEMMA LongerList ==
    ASSUME NEW S, NEW list \in Seq(S), NEW p \in S, p \notin Listed(list), NoRepeats(list),
           NEW longer, longer = <<p>> \o list \/ longer = Append(list, p)
    PROVE  /\ longer \in Seq(S) /\ NoRepeats(longer)
           /\ Listed(longer) = Listed(list) \cup {p}
<1> DEFINE n == Len(list)
<1>1. n \in Nat /\ DOMAIN list = 1..n
  OBVIOUS
<1>2. CASE longer = Append(list, p)
  <2>1. longer \in Seq(S) /\ DOMAIN longer = 1..(n + 1) /\ longer[n + 1] = p
    BY <1>2
  <2>2. \A i \in 1..n : longer[i] = list[i]
    BY <1>2
  <2> HIDE DEF n
  <2>3. \A i \in 1..(n + 1) : i = n + 1 \/ i \in 1..n
    BY <1>1
  <2>4. NoRepeats(longer)
    BY <1>1, <2>1, <2>2, <2>3 DEF NoRepeats, Listed
  <2>5. Listed(longer) = Listed(list) \cup {p}
    <3>1. n + 1 \in 1..(n + 1) /\ 1..n \subseteq 1..(n + 1)
      BY <1>1
    <3> QED BY <1>1, <2>1, <2>2, <2>3, <3>1 DEF Listed
  <2> QED BY <2>1, <2>4, <2>5
<1>3. CASE longer = <<p>> \o list
  <2>1. longer \in Seq(S) /\ DOMAIN longer = 1..(n + 1) /\ longer[1] = p
    BY <1>3
  <2>2. \A i \in 1..n : longer[i + 1] = list[i]
    BY <1>3
  <2> HIDE DEF n
  <2>3. \A i \in 1..(n + 1) : i = 1 \/ (i - 1 \in 1..n /\ (i - 1) + 1 = i)
    BY <1>1
  <2>4. \A i \in 1..(n + 1) : i = 1 \/ longer[i] = list[i - 1]
    BY <2>2, <2>3
  <2>5. NoRepeats(longer)
    <3> SUFFICES ASSUME NEW i \in 1..(n + 1), NEW j \in 1..(n + 1), longer[i] = longer[j]
                 PROVE  i = j
      BY <2>1 DEF NoRepeats
    <3>1. CASE i # 1 /\ j # 1
      <4>1. i - 1 = j - 1
        BY <1>1, <2>3, <2>4, <3>1 DEF NoRepeats
      <4> QED BY <4>1
    <3>2. CASE i = 1 /\ j # 1
      BY <1>1, <2>1, <2>3, <2>4, <3>2 DEF Listed
    <3>3. CASE i # 1 /\ j = 1
      BY <1>1, <2>1, <2>3, <2>4, <3>3 DEF Listed
    <3> QED BY <3>1, <3>2, <3>3
  <2>6. Listed(longer) = Listed(list) \cup {p}
    <3>1. 1 \in 1..(n + 1) /\ \A i \in 1..n : i + 1 \in 1..(n + 1)
      BY <1>1
    <3>2. ASSUME NEW x \in Listed(longer) PROVE x \in Listed(list) \cup {p}
      <4>1. PICK i \in 1..(n + 1) : longer[i] = x
        BY <2>1 DEF Listed
      <4>2. i = 1 => x = p
        BY <2>1, <4>1
      <4>3. i # 1 => i - 1 \in DOMAIN list /\ x = list[i - 1]
        BY <1>1, <2>3, <2>4, <4>1
      <4> QED BY <4>2, <4>3 DEF Listed
    <3>3. ASSUME NEW x \in Listed(list) PROVE x \in Listed(longer)
      BY <1>1, <2>1, <2>2, <3>1 DEF Listed
    <3>4. p \in Listed(longer)
      BY <2>1, <3>1 DEF Listed
    <3> QED BY <3>2, <3>3, <3>4
  <2> QED BY <2>1, <2>5, <2>6
<1> QED BY <1>2, <1>3

(* unlink_chunk takes its chunk out of the bins.                             *)
LEMMA UnlinkBins ==
    ASSUME NEW bins \in BinLists, NEW H, NEW G, Bins(bins, H, G),
           NEW p, NEW s \in Sizes, H[p].size = s
    PROVE  /\ [bins EXCEPT ![s] = Unlinked(@, p)] \in BinLists
           /\ Bins([bins EXCEPT ![s] = Unlinked(@, p)], H, G \ {p})
<1> DEFINE new == [bins EXCEPT ![s] = Unlinked(@, p)]
<1>1. /\ bins[s] \in Seq(Units) /\ NoRepeats(bins[s])
      /\ Listed(bins[s]) = {q \in G : H[q].size = s}
  BY DEF Bins, BinLists
<1>2. /\ Unlinked(bins[s], p) \in Seq(Units) /\ NoRepeats(Unlinked(bins[s], p))
      /\ Listed(Unlinked(bins[s], p)) = {q \in G : H[q].size = s} \ {p}
  BY <1>1, UnlinkedList
<1>3. \A t \in Sizes : new[t] = IF t = s THEN Unlinked(bins[s], p) ELSE bins[t]
  BY DEF BinLists
<1>4. new \in BinLists
  BY <1>2 DEF BinLists
<1> HIDE DEF new
<1>5. ASSUME NEW t \in Sizes
      PROVE  NoRepeats(new[t]) /\ Listed(new[t]) = {q \in G \ {p} : H[q].size = t}
  <2>1. CASE t = s
    BY <1>2, <1>3, <2>1
  <2>2. CASE t # s
    <3>1. NoRepeats(new[t]) /\ Listed(new[t]) = {q \in G : H[q].size = t}
      BY <1>3, <2>2 DEF Bins
    <3> QED BY <2>2, <3>1
  <2> QED BY <2>1, <2>2
<1> QED BY <1>4, <1>5 DEF new, Bins

(* insert_chunk puts a chunk in the bin of its size.                         *)
LEMMA InsertBins ==
    ASSUME NEW bins \in BinLists, NEW H, NEW G, Bins(bins, H, G),
           NEW p \in Units, p \notin G, NEW s \in Sizes, H[p].size = s,
           NEW longer, longer = <<p>> \o bins[s] \/ longer = Append(bins[s], p)
    PROVE  /\ [bins EXCEPT ![s] = longer] \in BinLists
           /\ Bins([bins EXCEPT ![s] = longer], H, G \cup {p})
<1> DEFINE new == [bins EXCEPT ![s] = longer]
<1>1. /\ bins[s] \in Seq(Units) /\ NoRepeats(bins[s])
      /\ Listed(bins[s]) = {q \in G : H[q].size = s}
  BY DEF Bins, BinLists
<1>2. /\ longer \in Seq(Units) /\ NoRepeats(longer)
      /\ Listed(longer) = {q \in G : H[q].size = s} \cup {p}
  <2>1. p \notin Listed(bins[s])
    BY <1>1
  <2>2. /\ longer \in Seq(Units) /\ NoRepeats(longer)
        /\ Listed(longer) = Listed(bins[s]) \cup {p}
    <3> DEFINE list == bins[s]
    <3>1. list \in Seq(Units) /\ NoRepeats(list) /\ p \notin Listed(list) /\ p \in Units
      BY <1>1, <2>1
    <3>2. longer = <<p>> \o list \/ longer = Append(list, p)
      OBVIOUS
    <3> HIDE DEF list
    <3>3. /\ longer \in Seq(Units) /\ NoRepeats(longer)
          /\ Listed(longer) = Listed(list) \cup {p}
      BY <3>1, <3>2, LongerList
    <3> QED BY <3>3 DEF list
  <2> QED BY <1>1, <2>2
<1>3. \A t \in Sizes : new[t] = IF t = s THEN longer ELSE bins[t]
  BY DEF BinLists
<1>4. new \in BinLists
  BY <1>2 DEF BinLists
<1> HIDE DEF new
<1>5. ASSUME NEW t \in Sizes
      PROVE  NoRepeats(new[t]) /\ Listed(new[t]) = {q \in G \cup {p} : H[q].size = t}
  <2>1. CASE t = s
    BY <1>2, <1>3, <2>1
  <2>2. CASE t # s
    <3>1. NoRepeats(new[t]) /\ Listed(new[t]) = {q \in G : H[q].size = t}
      BY <1>3, <2>2 DEF Bins
    <3> QED BY <2>2, <3>1
  <2> QED BY <2>1, <2>2
<1> QED BY <1>4, <1>5 DEF new, Bins

(* The bins stay right while the sizes of what they hold do.                 *)
LEMMA SameBins ==
    ASSUME NEW bins, NEW H, NEW H2, NEW G, Bins(bins, H, G), \A p \in G : H2[p].size = H[p].size
    PROVE  Bins(bins, H2, G)
BY DEF Bins
-----------------------------------------------------------------------------
(* What the helpers write.                                                   *)

HeapRecords ==
    [head : Heads, foot : Feet, bins : BinLists, dv : Units, dvsize : Units, top : Units,
     topsize : Units, seg : [base : Units, size : Units], contiguous : BOOLEAN, brk : Units]

SameWords(m, r) == r.head = m.head /\ r.foot = m.foot
SameIndex(m, r) == r.bins = m.bins /\ r.dv = m.dv /\ r.dvsize = m.dvsize
SameEnds(m, r) ==
    r.top = m.top /\ r.topsize = m.topsize /\ r.seg = m.seg /\ r.brk = m.brk

(* A head as it is written.                                                  *)
LEMMA HeadWordType ==
    ASSUME NEW s \in Units, NEW x \in BOOLEAN, NEW y \in BOOLEAN
    PROVE  /\ HeadWord(s, x, y) \in [size : Amounts, pinuse : BOOLEAN, cinuse : BOOLEAN]
           /\ HeadWord(s, x, y).size = s /\ HeadWord(s, x, y).pinuse = x
           /\ HeadWord(s, x, y).cinuse = y
  BY ChunksAssumption DEF HeadWord, Units, Amounts

(* set_head writes one head.                                                 *)
LEMMA SetHead ==
    ASSUME NEW m \in HeapRecords, NEW p \in Units,
           NEW h \in [size : Amounts, pinuse : BOOLEAN, cinuse : BOOLEAN]
    PROVE  LET r == set_head(m, p, h) IN
           /\ r \in HeapRecords /\ SameIndex(m, r) /\ SameEnds(m, r) /\ r.foot = m.foot
           /\ r.head[p] = h /\ \A u \in Units : u # p => r.head[u] = m.head[u]
  BY DEF set_head, HeapRecords, Heads, SameIndex, SameEnds

(* r is m but for the pinuse bit at p.                                       *)
PinuseSet(m, r, p, yes) ==
    /\ r \in HeapRecords /\ SameIndex(m, r) /\ SameEnds(m, r) /\ r.foot = m.foot
    /\ r.head[p].size = m.head[p].size /\ r.head[p].cinuse = m.head[p].cinuse
    /\ r.head[p].pinuse = yes
    /\ \A u \in Units : u # p => r.head[u] = m.head[u]

(* mark_pinuse writes one bit of the head.                                   *)
LEMMA MarkPinuse ==
    ASSUME NEW m \in HeapRecords, NEW p \in Units, NEW yes \in BOOLEAN
    PROVE  PinuseSet(m, mark_pinuse(m, p, yes), p, yes)
  BY DEF PinuseSet, mark_pinuse, HeapRecords, Heads, SameIndex, SameEnds

(* set_foot writes one foot.                                                 *)
LEMMA SetFoot ==
    ASSUME NEW m \in HeapRecords, NEW p \in Units, NEW s \in Units, p + s \in Units
    PROVE  LET r == set_foot(m, p, s) IN
           /\ r \in HeapRecords /\ SameIndex(m, r) /\ SameEnds(m, r) /\ r.head = m.head
           /\ r.foot[p + s] = s /\ \A u \in Units : u # p + s => r.foot[u] = m.foot[u]
<1>1. s \in Amounts
  BY ChunksAssumption DEF Units, Amounts
<1> QED
  BY <1>1 DEF set_foot, HeapRecords, Feet, SameIndex, SameEnds

(* unlink_chunk leaves the words alone.                                      *)
LEMMA Unlink ==
    ASSUME NEW m \in HeapRecords, NEW p \in Units, NEW s \in Sizes, m.head[p].size = s,
           NEW G, Bins(m.bins, m.head, G)
    PROVE  LET r == unlink_chunk(m, p, s) IN
           /\ r \in HeapRecords /\ SameWords(m, r) /\ SameEnds(m, r)
           /\ r.dv = m.dv /\ r.dvsize = m.dvsize
           /\ Bins(r.bins, m.head, G \ {p})
<1> DEFINE r == unlink_chunk(m, p, s)
           new == [m.bins EXCEPT ![s] = Unlinked(@, p)]
<1>1. m.bins \in BinLists
  BY DEF HeapRecords
<1>2. new \in BinLists /\ Bins(new, m.head, G \ {p})
  BY <1>1, UnlinkBins
<1>3. r = [m EXCEPT !.bins = new]
  BY <1>1 DEF unlink_chunk, BinLists, HeapRecords
<1> HIDE DEF new
<1>4. /\ r \in HeapRecords /\ SameWords(m, r) /\ SameEnds(m, r)
      /\ r.dv = m.dv /\ r.dvsize = m.dvsize /\ r.bins = new
  BY <1>2, <1>3 DEF HeapRecords, SameWords, SameEnds
<1> QED BY <1>2, <1>4

(* insert_chunk leaves the words alone.                                      *)
LEMMA Insert ==
    ASSUME NEW m \in HeapRecords, NEW p \in Units, NEW s \in Sizes, m.head[p].size = s,
           NEW G, Bins(m.bins, m.head, G), p \notin G
    PROVE  LET r == insert_chunk(m, p, s) IN
           /\ r \in HeapRecords /\ SameWords(m, r) /\ SameEnds(m, r)
           /\ r.dv = m.dv /\ r.dvsize = m.dvsize
           /\ Bins(r.bins, m.head, G \cup {p})
<1> DEFINE r == insert_chunk(m, p, s)
           longer == IF is_small(s) THEN <<p>> \o m.bins[s] ELSE Append(m.bins[s], p)
           new == [m.bins EXCEPT ![s] = longer]
<1>1. m.bins \in BinLists
  BY DEF HeapRecords
<1>2. longer = <<p>> \o m.bins[s] \/ longer = Append(m.bins[s], p)
  OBVIOUS
<1>3. r = [m EXCEPT !.bins = new]
  BY <1>1 DEF insert_chunk, BinLists, HeapRecords
<1> HIDE DEF longer
<1>4. new \in BinLists /\ Bins(new, m.head, G \cup {p})
  BY <1>1, <1>2, InsertBins
<1> HIDE DEF new
<1>5. /\ r \in HeapRecords /\ SameWords(m, r) /\ SameEnds(m, r)
      /\ r.dv = m.dv /\ r.dvsize = m.dvsize /\ r.bins = new
  BY <1>3, <1>4 DEF HeapRecords, SameWords, SameEnds
<1> QED BY <1>4, <1>5

(* q is where the chunk after one of s units at p begins.                    *)
Follows(q, p, s) == q = p + s

(* r is m with other words between a and b.                                  *)
Rewritten(m, r, a, b) ==
    /\ r \in HeapRecords /\ SameEnds(m, r) /\ SameIndex(m, r)
    /\ Within(m.head, m.foot, r.head, r.foot, a, b)

(* ... in which p has the head h and the chunk at q knows whether p is in use.*)
MadeUsed(m, r, p, h, q) ==
    /\ Rewritten(m, r, p, q) /\ r.foot = m.foot
    /\ r.head[p] = h /\ r.head[q].pinuse = TRUE

(* ... in which p is free and only its own head and its foot have changed.   *)
MadeFree(m, r, p, s, q) ==
    /\ Rewritten(m, r, p, q)
    /\ r.head[p] = HeadWord(s, TRUE, FALSE) /\ r.foot[q] = s
    /\ \A u \in Units : u # p => r.head[u] = m.head[u]
    /\ \A u \in Units : u # q => r.foot[u] = m.foot[u]

(* ... in which p is free and the chunk at q knows.                          *)
MadeKnownFree(m, r, p, s, q) ==
    /\ Rewritten(m, r, p, q)
    /\ r.head[p] = HeadWord(s, TRUE, FALSE) /\ r.foot[q] = s
    /\ r.head[q].pinuse = FALSE

(* ... in which p is in use up to c and the rest free.                       *)
MadeTwo(m, r, p, nb, c, t, q) ==
    /\ Rewritten(m, r, p, q)
    /\ r.head[p] = HeadWord(nb, TRUE, TRUE)
    /\ r.head[c] = HeadWord(t, TRUE, FALSE) /\ r.foot[q] = t
    /\ r.head[q].pinuse = m.head[q].pinuse

(* The words set_inuse writes.                                               *)
LEMMA SetInuse ==
    ASSUME NEW m \in HeapRecords, NEW p \in Units, NEW s \in Sizes,
           NEW q \in Units, Follows(q, p, s)
    PROVE  MadeUsed(m, set_inuse(m, p, s), p, HeadWord(s, m.head[p].pinuse, TRUE), q)
<1> DEFINE h == HeadWord(s, m.head[p].pinuse, TRUE)
           m1 == set_head(m, p, h)
           r == mark_pinuse(m1, q, TRUE)
<1>0. s \in Int /\ s >= 1 /\ s \in Units /\ p \in Int /\ q # p /\ q \in Int /\ p < q
      /\ m.head[p].pinuse \in BOOLEAN
  BY ChunksAssumption DEF Sizes, Units, Follows, HeapRecords, Heads
<1>1. h \in [size : Amounts, pinuse : BOOLEAN, cinuse : BOOLEAN]
  BY <1>0, HeadWordType
<1> HIDE DEF h
<1>2. /\ m1 \in HeapRecords /\ SameIndex(m, m1) /\ SameEnds(m, m1) /\ m1.foot = m.foot
      /\ m1.head[p] = h /\ \A u \in Units : u # p => m1.head[u] = m.head[u]
  BY <1>1, SetHead
<1> HIDE DEF m1
<1>3. /\ r \in HeapRecords /\ SameIndex(m1, r) /\ SameEnds(m1, r) /\ r.foot = m1.foot
      /\ r.head[q].size = m1.head[q].size /\ r.head[q].cinuse = m1.head[q].cinuse
      /\ r.head[q].pinuse = TRUE
      /\ \A u \in Units : u # q => r.head[u] = m1.head[u]
  <2>1. PinuseSet(m1, r, q, TRUE)
    BY <1>2, MarkPinuse
  <2> HIDE DEF r
  <2> QED BY <2>1 DEF PinuseSet
<1> HIDE DEF r
<1>4. Within(m.head, m.foot, r.head, r.foot, p, q)
  BY <1>0, <1>2, <1>3 DEF Within, Units
<1>5. r = set_inuse(m, p, s)
  BY DEF r, m1, h, set_inuse, Follows
<1> QED
  BY <1>0, <1>2, <1>3, <1>4, <1>5 DEF MadeUsed, Rewritten, SameEnds, SameIndex, h

(* The words set_inuse_and_pinuse writes.                                    *)
LEMMA SetInuseAndPinuse ==
    ASSUME NEW m \in HeapRecords, NEW p \in Units, NEW s \in Sizes,
           NEW q \in Units, Follows(q, p, s)
    PROVE  MadeUsed(m, set_inuse_and_pinuse(m, p, s), p, HeadWord(s, TRUE, TRUE), q)
<1> DEFINE h == HeadWord(s, TRUE, TRUE)
           m1 == set_head(m, p, h)
           r == mark_pinuse(m1, q, TRUE)
<1>0. s \in Int /\ s >= 1 /\ s \in Units /\ p \in Int /\ q # p /\ q \in Int /\ p < q
  BY ChunksAssumption DEF Sizes, Units, Follows
<1>1. h \in [size : Amounts, pinuse : BOOLEAN, cinuse : BOOLEAN]
  BY <1>0, HeadWordType
<1> HIDE DEF h
<1>2. /\ m1 \in HeapRecords /\ SameIndex(m, m1) /\ SameEnds(m, m1) /\ m1.foot = m.foot
      /\ m1.head[p] = h /\ \A u \in Units : u # p => m1.head[u] = m.head[u]
  BY <1>1, SetHead
<1> HIDE DEF m1
<1>3. /\ r \in HeapRecords /\ SameIndex(m1, r) /\ SameEnds(m1, r) /\ r.foot = m1.foot
      /\ r.head[q].size = m1.head[q].size /\ r.head[q].cinuse = m1.head[q].cinuse
      /\ r.head[q].pinuse = TRUE
      /\ \A u \in Units : u # q => r.head[u] = m1.head[u]
  <2>1. PinuseSet(m1, r, q, TRUE)
    BY <1>2, MarkPinuse
  <2> HIDE DEF r
  <2> QED BY <2>1 DEF PinuseSet
<1> HIDE DEF r
<1>4. Within(m.head, m.foot, r.head, r.foot, p, q)
  BY <1>0, <1>2, <1>3 DEF Within, Units
<1>5. r = set_inuse_and_pinuse(m, p, s)
  BY DEF r, m1, h, set_inuse_and_pinuse, Follows
<1> QED
  BY <1>0, <1>2, <1>3, <1>4, <1>5 DEF MadeUsed, Rewritten, SameEnds, SameIndex, h

(* The words set_size_and_pinuse_of_free_chunk writes.                       *)
LEMMA SizedFree ==
    ASSUME NEW m \in HeapRecords, NEW p \in Units, NEW s \in Sizes,
           NEW q \in Units, Follows(q, p, s)
    PROVE  MadeFree(m, set_size_and_pinuse_of_free_chunk(m, p, s), p, s, q)
<1> DEFINE h == HeadWord(s, TRUE, FALSE)
           m1 == set_head(m, p, h)
           r == set_foot(m1, p, s)
<1>0. s \in Int /\ s >= 1 /\ s \in Units /\ p \in Int /\ q # p /\ q \in Int /\ p < q
  BY ChunksAssumption DEF Sizes, Units, Follows
<1>1. h \in [size : Amounts, pinuse : BOOLEAN, cinuse : BOOLEAN]
  BY <1>0, HeadWordType
<1> HIDE DEF h
<1>2. /\ m1 \in HeapRecords /\ SameIndex(m, m1) /\ SameEnds(m, m1) /\ m1.foot = m.foot
      /\ m1.head[p] = h /\ \A u \in Units : u # p => m1.head[u] = m.head[u]
  BY <1>1, SetHead
<1> HIDE DEF m1
<1>3. /\ r \in HeapRecords /\ SameIndex(m1, r) /\ SameEnds(m1, r) /\ r.head = m1.head
      /\ r.foot[q] = s /\ \A u \in Units : u # q => r.foot[u] = m1.foot[u]
  BY <1>0, <1>2, SetFoot DEF Follows
<1> HIDE DEF r
<1>4. Within(m.head, m.foot, r.head, r.foot, p, q)
  BY <1>0, <1>2, <1>3 DEF Within, Units
<1>5. r = set_size_and_pinuse_of_free_chunk(m, p, s)
  BY DEF r, m1, h, set_size_and_pinuse_of_free_chunk
<1> QED
  BY <1>0, <1>2, <1>3, <1>4, <1>5 DEF MadeFree, Rewritten, SameEnds, SameIndex, h

(* The words set_free_with_pinuse writes.                                    *)
LEMMA FreeWithPinuse ==
    ASSUME NEW m \in HeapRecords, NEW p \in Units, NEW s \in Sizes,
           NEW q \in Units, Follows(q, p, s)
    PROVE  MadeKnownFree(m, set_free_with_pinuse(m, p, s, q), p, s, q)
<1> DEFINE m1 == mark_pinuse(m, q, FALSE)
           r == set_size_and_pinuse_of_free_chunk(m1, p, s)
<1>0. s \in Int /\ s >= 1 /\ s \in Units /\ p \in Int /\ q # p /\ q \in Int /\ p < q
  BY ChunksAssumption DEF Sizes, Units, Follows
<1>1. /\ m1 \in HeapRecords /\ SameIndex(m, m1) /\ SameEnds(m, m1) /\ m1.foot = m.foot
      /\ m1.head[q].size = m.head[q].size /\ m1.head[q].cinuse = m.head[q].cinuse
      /\ m1.head[q].pinuse = FALSE
      /\ \A u \in Units : u # q => m1.head[u] = m.head[u]
  <2>1. PinuseSet(m, m1, q, FALSE)
    BY MarkPinuse
  <2> HIDE DEF m1
  <2> QED BY <2>1 DEF PinuseSet
<1> HIDE DEF m1
<1>2. MadeFree(m1, r, p, s, q)
  BY <1>1, SizedFree
<1> HIDE DEF r
<1>3. Within(m.head, m.foot, r.head, r.foot, p, q)
  BY <1>0, <1>1, <1>2 DEF Within, Units, MadeFree
<1>4. r = set_free_with_pinuse(m, p, s, q)
  BY DEF r, m1, set_free_with_pinuse
<1>5. r.head[q].pinuse = FALSE
  BY <1>0, <1>1, <1>2 DEF MadeFree
<1> QED
  BY <1>1, <1>2, <1>3, <1>4, <1>5
     DEF MadeKnownFree, MadeFree, Rewritten, SameEnds, SameIndex

(* The words Split writes, of a chunk cut in two.                            *)
LEMMA SplitWords ==
    ASSUME NEW m \in HeapRecords, NEW p \in Units, NEW nb \in Sizes, NEW t \in Sizes,
           NEW c \in Units, Follows(c, p, nb), NEW q \in Units, Follows(q, c, t),
           m.head[p].size = nb + t
    PROVE  MadeTwo(m, Split(m, p, nb), p, nb, c, t, q)
<1> DEFINE m1 == set_size_and_pinuse_of_free_chunk(m, c, t)
           h == HeadWord(nb, TRUE, TRUE)
           r == set_head(m1, p, h)
<1>0. /\ nb \in Int /\ nb >= 1 /\ p \in Int /\ q \in Int /\ c \in Int
      /\ p < c /\ c < q /\ p # q /\ p # c /\ q # c /\ nb \in Units
      /\ t = m.head[p].size - nb /\ c = p + nb
  BY ChunksAssumption DEF Sizes, Units, Follows
<1>2. h \in [size : Amounts, pinuse : BOOLEAN, cinuse : BOOLEAN]
  BY <1>0, HeadWordType
<1> HIDE DEF h
<1>3. MadeFree(m, m1, c, t, q)
  BY SizedFree
<1>7. r = Split(m, p, nb)
  BY <1>0 DEF h, Split, set_size_and_pinuse_of_inuse_chunk
<1> HIDE DEF m1
<1>4. /\ r \in HeapRecords /\ SameIndex(m1, r) /\ SameEnds(m1, r) /\ r.foot = m1.foot
      /\ r.head[p] = h /\ \A u \in Units : u # p => r.head[u] = m1.head[u]
  BY <1>2, <1>3, SetHead DEF Rewritten, MadeFree
<1> HIDE DEF r
<1>6. Within(m.head, m.foot, r.head, r.foot, p, q)
  BY <1>0, <1>3, <1>4 DEF Within, Units, MadeFree
<1>8. /\ r.head[p] = HeadWord(nb, TRUE, TRUE)
      /\ r.head[c] = HeadWord(t, TRUE, FALSE)
      /\ r.head[q].pinuse = m.head[q].pinuse /\ r.foot[q] = t
  BY <1>0, <1>3, <1>4 DEF h, MadeFree
<1>9. Rewritten(m, r, p, q)
  BY <1>3, <1>4, <1>6 DEF MadeFree, Rewritten, SameEnds, SameIndex
<1> QED
  BY <1>7, <1>8, <1>9 DEF MadeTwo
-----------------------------------------------------------------------------
(* The heap, and a step on it.                                               *)

Hi(m) == m.top + m.topsize

(* The heap in memory: K are its chunks, top the last of them.               *)
Geometry(m, K) ==
    /\ m \in HeapRecords
    /\ Tiled(m.head, K, m.seg.base, Hi(m)) /\ Tagged(m.head, m.foot, K, m.seg.base, Hi(m))
    /\ m.top \in K /\ m.head[m.top] = HeadWord(m.topsize, TRUE, FALSE)
    /\ Hi(m) + TopFoot = m.brk /\ m.seg.base + m.seg.size = m.brk /\ Base <= m.seg.base

FreeIn(m, K) == {p \in K : ~m.head[p].cinuse /\ p # m.top}
UsedIn(m, K) == {p \in K : m.head[p].cinuse}

(* dv and the bins hold the free chunks F.                                   *)
Indexed(m, F) ==
    /\ Bins(m.bins, m.head, F \ {m.dv})
    /\ IF m.dvsize = 0 THEN m.dv = NULL ELSE m.dv \in F /\ m.head[m.dv].size = m.dvsize

Heap(m, K, L) == Geometry(m, K) /\ L = UsedIn(m, K) /\ Indexed(m, FreeIn(m, K))

(* The words of a block of s units at q, its chunk's head and foot excepted. *)
SameBlock(m, r, q, s) ==
    \A u \in Units : /\ q < u /\ u < q + s => r.head[u] = m.head[u]
                     /\ q < u /\ u <= q + s => r.foot[u] = m.foot[u]
Kept(m, r, Q) ==
    \A q \in Q : r.head[q].size = m.head[q].size /\ SameBlock(m, r, q, m.head[q].size)

(* What the shape of the heap says of one chunk.                             *)
LEMMA GeometryFacts ==
    ASSUME NEW m, NEW K, Geometry(m, K)
    PROVE  /\ m \in HeapRecords /\ m.head \in Heads /\ m.foot \in Feet
           /\ m.seg.base \in Units /\ m.seg.base \in Int
           /\ Hi(m) \in Units /\ Hi(m) \in Int /\ Hi(m) < MaxBrk /\ MaxBrk \in Int
           /\ m.top \in K /\ m.top \in Int /\ m.topsize \in Int /\ m.topsize >= 1
           /\ End(m.head, m.top) = Hi(m) /\ m.top < Hi(m) /\ m.seg.base <= m.top
           /\ m.head[m.top].size = m.topsize
           /\ m.head[m.top].pinuse = TRUE /\ m.head[m.top].cinuse = FALSE
           /\ NULL \notin K /\ K \subseteq Units
           /\ \A p \in K : /\ p \in Units /\ p \in Int /\ m.seg.base <= p /\ p < Hi(m)
                           /\ m.head[p].size \in Sizes /\ m.head[p].size \in Int
                           /\ m.head[p].size >= 1
                           /\ End(m.head, p) \in K \cup {Hi(m)} /\ End(m.head, p) \in Int
                           /\ p < End(m.head, p) /\ End(m.head, p) <= Hi(m)
                           /\ End(m.head, p) \in Units
<1>1. /\ m \in HeapRecords /\ m.head \in Heads /\ m.foot \in Feet /\ m.top \in K
      /\ m.seg.base \in Units /\ m.brk \in Units /\ m.topsize \in Units /\ m.top \in Units
      /\ Base <= m.seg.base
  BY DEF Geometry, HeapRecords
<1>2. /\ Hi(m) \in Units /\ Hi(m) \in Int /\ Hi(m) < MaxBrk /\ m.seg.base \in Int
      /\ m.top \in Int /\ m.topsize \in Int /\ Units \subseteq Int /\ MaxBrk \in Int
  <2>1. Hi(m) + TopFoot = m.brk
    BY DEF Geometry
  <2> QED BY <1>1, <2>1, ChunksAssumption DEF Units, Hi
<1>3. /\ m.head[m.top].size = m.topsize
      /\ m.head[m.top].pinuse = TRUE /\ m.head[m.top].cinuse = FALSE
  BY DEF Geometry, HeadWord
<1>4. Tiled(m.head, K, m.seg.base, Hi(m))
  BY DEF Geometry
<1>5. /\ K \subseteq Units
      /\ \A p \in K : /\ p \in Int /\ m.seg.base <= p /\ p < Hi(m)
                      /\ m.head[p].size \in Int /\ m.head[p].size >= 1
                      /\ End(m.head, p) \in K \cup {Hi(m)} /\ End(m.head, p) \in Int
                      /\ p < End(m.head, p) /\ End(m.head, p) <= Hi(m)
  BY <1>1, <1>2, <1>4, InTiled
<1>6. \A p \in K : End(m.head, p) \in Units
  BY <1>2, <1>5
<1>7. ASSUME NEW p \in K PROVE m.head[p].size \in Sizes
  <2>1. m.head[p].size <= MaxBrk
    BY <1>1, <1>5, ChunksAssumption DEF Heads, Amounts
  <2> QED BY <1>5, <2>1, ChunksAssumption DEF Sizes
<1>8. NULL \notin K
  BY <1>1, <1>2, <1>5, ChunksAssumption DEF NULL
<1>9. m.topsize >= 1 /\ End(m.head, m.top) = Hi(m) /\ m.top < Hi(m) /\ m.seg.base <= m.top
  BY <1>1, <1>2, <1>3, <1>5 DEF End, Hi
<1> QED BY <1>1, <1>2, <1>3, <1>5, <1>6, <1>7, <1>8, <1>9

(* The chunks between a and b of m have become one in r, at a, or two, at a  *)
(* and c.                                                                    *)
Reshaped(m, r, a, c, b) ==
    /\ r \in HeapRecords /\ Within(m.head, m.foot, r.head, r.foot, a, b)
    /\ r.seg = m.seg /\ r.brk = m.brk
    /\ r.head[c].size = b - c
    /\ c # a => r.head[a].size = c - a /\ Tag(r.head, r.foot, a, c)
    /\ r.head[a].pinuse = m.head[a].pinuse /\ (r.head[a].cinuse \/ m.head[a].pinuse)
    /\ IF b = Hi(m)
       THEN /\ r.top = c /\ r.topsize = b - c
            /\ r.head[c].pinuse = TRUE /\ r.head[c].cinuse = FALSE
       ELSE r.top = m.top /\ r.topsize = m.topsize /\ Tag(r.head, r.foot, c, b)

Chunks2(K, a, c, b) == (K \ (a..(b - 1))) \cup {a, c}

(* A step that writes between a and b changes no block elsewhere.            *)
LEMMA ReshapeKept ==
    ASSUME NEW m, NEW K, Geometry(m, K), NEW r,
           NEW a \in K, NEW b \in K \cup {Hi(m)}, a < b,
           Within(m.head, m.foot, r.head, r.foot, a, b)
    PROVE  Kept(m, r, K \ (a..(b - 1)))
<1>1. /\ m \in HeapRecords /\ Hi(m) \in Units /\ Hi(m) \in Int
      /\ \A p \in K : /\ p \in Units /\ p \in Int /\ m.head[p].size \in Int
                      /\ End(m.head, p) \in Int /\ p < End(m.head, p)
  BY GeometryFacts
<1>2. /\ \A u \in Units : u < a \/ u > b => r.head[u] = m.head[u]
      /\ \A u \in Units : u <= a \/ u > b => r.foot[u] = m.foot[u]
      /\ r.head[b].size = m.head[b].size
  BY DEF Within
<1>3. SUFFICES ASSUME NEW q \in K, q \notin a..(b - 1)
               PROVE  r.head[q].size = m.head[q].size /\ SameBlock(m, r, q, m.head[q].size)
  BY DEF Kept
<1>4. a \in Int /\ b \in Int /\ q \in Int /\ q \in Units
  BY <1>1
<1>5. q < a \/ q >= b
  BY <1>3, <1>4
<1>6. r.head[q].size = m.head[q].size
  BY <1>2, <1>4, <1>5
<1>7. q < a => End(m.head, q) <= a
  BY DEF Geometry, Tiled
<1>8. ASSUME NEW u \in Units, q < u, u <= End(m.head, q)
      PROVE  /\ u < End(m.head, q) => r.head[u] = m.head[u]
             /\ r.foot[u] = m.foot[u]
  <2>1. u \in Int
    BY ChunksAssumption DEF Units
  <2> QED BY <1>1, <1>2, <1>4, <1>5, <1>7, <1>8, <2>1
<1>9. SameBlock(m, r, q, m.head[q].size)
  <2>1. \A u \in Units : u \in Int
    BY ChunksAssumption DEF Units
  <2>2. End(m.head, q) = q + m.head[q].size
    BY DEF End
  <2> QED BY <1>1, <1>8, <2>1, <2>2 DEF SameBlock
<1> QED BY <1>6, <1>9

(* The shape of the heap after its chunks between a and b changed.           *)
LEMMA ReshapeGeometry ==
    ASSUME NEW m, NEW K, Geometry(m, K), NEW r,
           NEW a \in K, NEW b \in K \cup {Hi(m)}, NEW c \in a..(b - 1),
           Reshaped(m, r, a, c, b)
    PROVE  Geometry(r, Chunks2(K, a, c, b))
<1> DEFINE K2 == Chunks2(K, a, c, b)
           lo == m.seg.base
<1>1. /\ m \in HeapRecords /\ m.head \in Heads /\ m.foot \in Feet /\ lo \in Units
      /\ Hi(m) \in Units /\ Hi(m) \in Int /\ m.top \in K /\ m.top \in Int
      /\ End(m.head, m.top) = Hi(m) /\ m.top < Hi(m)
      /\ \A p \in K : p \in Int /\ p < Hi(m) /\ p \in Units
  BY GeometryFacts
<1>2. Tiled(m.head, K, lo, Hi(m)) /\ Tagged(m.head, m.foot, K, lo, Hi(m))
  BY DEF Geometry
<1>3. r \in HeapRecords /\ r.head \in Heads /\ r.foot \in Feet /\ r.seg = m.seg /\ r.brk = m.brk
  BY DEF Reshaped, HeapRecords
<1>4. a \in Int /\ b \in Int /\ c \in Int /\ a <= c /\ c < b
  BY <1>1
<1>5. Hi(r) = Hi(m)
  <2>1. CASE b = Hi(m)
    BY <1>4, <2>1 DEF Reshaped, Hi
  <2>2. CASE b # Hi(m)
    BY <2>2 DEF Reshaped, Hi
  <2> QED BY <2>1, <2>2
<1>6. Tiled(r.head, K2, lo, Hi(m))
  <2>1. /\ \A u \in Units : u < a \/ u > b => r.head[u] = m.head[u]
        /\ r.head[b].size = m.head[b].size
        /\ r.head[c].size = b - c
        /\ c # a => r.head[a].size = c - a
    BY DEF Reshaped, Within
  <2> QED BY <1>1, <1>2, <1>3, <2>1, ReplaceTiled DEF Chunks2
<1>7. Tagged(r.head, r.foot, K2, lo, Hi(m))
  <2>1. /\ Within(m.head, m.foot, r.head, r.foot, a, b)
        /\ r.head[c].size = b - c
        /\ c # a => r.head[a].size = c - a /\ Tag(r.head, r.foot, a, c)
        /\ r.head[a].pinuse = m.head[a].pinuse /\ (r.head[a].cinuse \/ m.head[a].pinuse)
        /\ IF b = Hi(m) THEN ~r.head[c].cinuse ELSE Tag(r.head, r.foot, c, b)
    BY DEF Reshaped
  <2> QED BY <1>1, <1>2, <1>3, <2>1, ReplaceTagged DEF Chunks2
<1>8. r.top \in K2 /\ r.head[r.top] = HeadWord(r.topsize, TRUE, FALSE)
  <2>1. CASE b = Hi(m)
    <3>1. r.top = c /\ r.topsize = b - c /\ c \in Units
          /\ r.head[c].pinuse = TRUE /\ r.head[c].cinuse = FALSE /\ r.head[c].size = b - c
      BY <1>1, <1>4, <2>1, ChunksAssumption DEF Reshaped, Units
    <3>2. r.head[c] \in [size : Amounts, pinuse : BOOLEAN, cinuse : BOOLEAN]
      BY <1>3, <3>1 DEF Heads
    <3> QED BY <3>1, <3>2 DEF HeadWord, Chunks2
  <2>2. CASE b # Hi(m)
    <3>1. r.top = m.top /\ r.topsize = m.topsize
      BY <2>2 DEF Reshaped
    <3>2. b \in K
      BY <2>2
    <3>3. m.top >= b
      BY <1>1, <1>2, <1>4, <3>2 DEF Tiled
    <3>4. m.top \in K2
      BY <1>1, <1>4, <3>3 DEF Chunks2
    <3>5. m.head[m.top] = HeadWord(m.topsize, TRUE, FALSE)
      BY DEF Geometry
    <3>6. CASE m.top > b
      <4>1. r.head[m.top] = m.head[m.top]
        BY <1>1, <3>6 DEF Reshaped, Within
      <4> QED BY <3>1, <3>4, <3>5, <4>1
    <3>7. CASE m.top = b
      <4>1. /\ r.head[b].size = m.topsize /\ r.head[b].cinuse = FALSE
            /\ r.head[b].pinuse = r.head[c].cinuse
            /\ ~r.head[c].cinuse => r.head[b].cinuse
        BY <2>2, <3>5, <3>7 DEF Reshaped, Within, Tag, HeadWord
      <4>2. /\ r.head[b] \in [size : Amounts, pinuse : BOOLEAN, cinuse : BOOLEAN]
            /\ r.head[c] \in [size : Amounts, pinuse : BOOLEAN, cinuse : BOOLEAN]
        BY <1>1, <1>3, <1>4, ChunksAssumption DEF Heads, Units
      <4>3. r.head[b].pinuse = TRUE
        BY <4>1, <4>2
      <4>4. r.head[b] = HeadWord(m.topsize, TRUE, FALSE)
        BY <4>1, <4>2, <4>3 DEF HeadWord
      <4> QED BY <3>1, <3>4, <3>7, <4>4
    <3>8. m.top > b \/ m.top = b
      BY <1>1, <1>4, <3>3
    <3> QED BY <3>6, <3>7, <3>8
  <2> QED BY <2>1, <2>2
<1> QED
  BY <1>3, <1>5, <1>6, <1>7, <1>8 DEF Geometry

FreeAfter(m, r, K, a, c, b) ==
    (FreeIn(m, K) \ (a..(b - 1))) \cup {x \in {a, c} : ~r.head[x].cinuse /\ x # r.top}
UsedAfter(r, L, a, c, b) == (L \ (a..(b - 1))) \cup {x \in {a, c} : r.head[x].cinuse}
SetsAfter(m, r, K, a, c, b) ==
    /\ FreeIn(r, Chunks2(K, a, c, b)) = FreeAfter(m, r, K, a, c, b)
    /\ UsedIn(r, Chunks2(K, a, c, b)) = UsedAfter(r, UsedIn(m, K), a, c, b)

(* The free chunks and those in use after such a step.                       *)
LEMMA ReshapeSets ==
    ASSUME NEW m, NEW K, Geometry(m, K), NEW r,
           NEW a \in K, NEW b \in K \cup {Hi(m)}, NEW c \in a..(b - 1),
           Reshaped(m, r, a, c, b)
    PROVE  SetsAfter(m, r, K, a, c, b)
<1>1. /\ Hi(m) \in Units /\ Hi(m) \in Int /\ m.top \in K /\ m.top \in Int
      /\ End(m.head, m.top) = Hi(m) /\ m.top < Hi(m)
      /\ \A p \in K : p \in Int /\ p < Hi(m) /\ p \in Units
  BY GeometryFacts
<1>2. a \in Int /\ b \in Int /\ c \in Int /\ a <= c /\ c < b
  BY <1>1
<1>3. ASSUME NEW p \in K, p \notin a..(b - 1)
      PROVE  r.head[p].cinuse = m.head[p].cinuse /\ (p = r.top <=> p = m.top)
  <2>1. p \in Int /\ p \in Units /\ (p < a \/ p >= b)
    BY <1>1, <1>2, <1>3
  <2>2. r.head[p].cinuse = m.head[p].cinuse
    BY <1>2, <2>1 DEF Reshaped, Within
  <2>3. CASE b # Hi(m)
    BY <2>2, <2>3 DEF Reshaped
  <2>4. CASE b = Hi(m)
    <3>1. r.top = c
      BY <2>4 DEF Reshaped
    <3>2. p # r.top
      BY <1>2, <1>3, <3>1
    <3>3. p < a
      BY <1>1, <2>1, <2>4
    <3>4. p # m.top
      <4>1. p < a => End(m.head, p) <= a
        BY DEF Geometry, Tiled
      <4> QED BY <1>1, <1>2, <2>4, <3>3, <4>1
    <3> QED BY <2>2, <3>2, <3>4
  <2> QED BY <2>3, <2>4
<1>4. {a, c} \subseteq a..(b - 1)
  BY <1>2
<1> QED BY <1>3, <1>4 DEF SetsAfter, FreeAfter, UsedAfter, Chunks2, FreeIn, UsedIn

HeapAfter(m, r, K, L, a, c, b) ==
    /\ Heap(r, Chunks2(K, a, c, b), UsedAfter(r, L, a, c, b))
    /\ Kept(m, r, L \ (a..(b - 1)))

(* After such a step there is a heap again, if its index is right.           *)
LEMMA Reshape ==
    ASSUME NEW m, NEW K, NEW L, Heap(m, K, L), NEW r,
           NEW a \in K, NEW b \in K \cup {Hi(m)}, NEW c \in a..(b - 1),
           Reshaped(m, r, a, c, b), Indexed(r, FreeAfter(m, r, K, a, c, b))
    PROVE  HeapAfter(m, r, K, L, a, c, b)
<1>1. Geometry(m, K) /\ L = UsedIn(m, K)
  BY DEF Heap
<1>2. Geometry(r, Chunks2(K, a, c, b))
  BY <1>1, ReshapeGeometry
<1>3. SetsAfter(m, r, K, a, c, b)
  BY <1>1, ReshapeSets
<1>4. Kept(m, r, K \ (a..(b - 1)))
  <2>1. Hi(m) \in Int /\ \A p \in K : p \in Int
    BY <1>1, GeometryFacts
  <2>2. a < b
    BY <2>1
  <2> QED BY <1>1, <2>2, ReshapeKept DEF Reshaped
<1>5. L \subseteq K
  BY <1>1 DEF UsedIn
<1>6. Kept(m, r, L \ (a..(b - 1)))
  BY <1>4, <1>5 DEF Kept
<1> QED
  BY <1>1, <1>2, <1>3, <1>6 DEF Heap, HeapAfter, SetsAfter

EndsAt(m, p, q) == q = End(m.head, p)

(* A free chunk of m at p, and the chunk at q that follows it.               *)
FreeAt(m, K, p, q) ==
           /\ p \in K /\ m.head[p].cinuse = FALSE /\ m.head[p].pinuse = TRUE /\ p # m.top
           /\ q \in K /\ q # Hi(m) /\ p < q
           /\ m.head[q].pinuse = FALSE /\ m.head[q].cinuse = TRUE
           /\ m.foot[q] = m.head[p].size
           /\ \A x \in K : x \in p..(q - 1) <=> x = p

(* The chunks around a free one are in use: neighbours are merged.           *)
LEMMA FreeFacts ==
    ASSUME NEW m, NEW K, Geometry(m, K), NEW p \in FreeIn(m, K), NEW q, EndsAt(m, p, q)
    PROVE  FreeAt(m, K, p, q)
<1>0. q = End(m.head, p)
  BY DEF EndsAt
<1>1. /\ p \in K /\ ~m.head[p].cinuse /\ p # m.top
  BY DEF FreeIn
<1>2. /\ \A x \in K : m.head[x].cinuse \in BOOLEAN /\ m.head[x].pinuse \in BOOLEAN
      /\ \A x \in K : x \in Int /\ x < Hi(m) /\ End(m.head, x) \in K \cup {Hi(m)}
                      /\ x < End(m.head, x) /\ End(m.head, x) \in Int
      /\ m.top \in K /\ End(m.head, m.top) = Hi(m) /\ Hi(m) \in Int
      /\ m.head \in Heads /\ m.seg.base \in Units /\ Hi(m) \in Units
  <2>1. \A x \in K : m.head[x] \in [size : Amounts, pinuse : BOOLEAN, cinuse : BOOLEAN]
    BY GeometryFacts DEF Heads
  <2> QED BY <2>1, GeometryFacts
<1>3. Tiled(m.head, K, m.seg.base, Hi(m)) /\ Tagged(m.head, m.foot, K, m.seg.base, Hi(m))
  BY DEF Geometry
<1>4. \A x, y \in K : End(m.head, x) = End(m.head, y) => x = y
  BY <1>2, <1>3, InTiled
<1>5. q # Hi(m) /\ q \in K
  BY <1>0, <1>1, <1>2, <1>4
<1>6. Tag(m.head, m.foot, p, q)
  BY <1>0, <1>1, <1>3, <1>5 DEF Tagged
<1>7. m.head[q].pinuse = FALSE /\ m.head[q].cinuse = TRUE /\ m.foot[q] = m.head[p].size
  BY <1>1, <1>2, <1>5, <1>6 DEF Tag
<1>8. m.head[p].pinuse = TRUE
  <2>1. CASE p = m.seg.base
    BY <1>1, <1>2, <1>3, <2>1 DEF Tagged
  <2>2. CASE p # m.seg.base
    <3>1. PICK o \in K : End(m.head, o) = p
      BY <1>1, <1>3, <2>2 DEF Tiled
    <3>2. p # Hi(m)
      BY <1>1, <1>2
    <3>3. Tag(m.head, m.foot, o, p)
      BY <1>3, <3>1, <3>2 DEF Tagged
    <3> QED BY <1>1, <1>2, <3>3 DEF Tag
  <2> QED BY <2>1, <2>2
<1>9. ASSUME NEW x \in K PROVE x \in p..(q - 1) <=> x = p
  <2>1. x \in Int /\ p \in Int /\ q \in Int /\ p < q
    BY <1>0, <1>1, <1>2
  <2>2. p < x => q <= x
    BY <1>0, <1>1, <1>3 DEF Tiled
  <2> QED BY <2>1, <2>2
<1> QED BY <1>0, <1>1, <1>2, <1>5, <1>7, <1>8, <1>9 DEF FreeAt

WholeUsed(m, r, p, q) ==
    Reshaped(m, r, p, p, q) /\ r.head[p].cinuse = TRUE /\ r.head[p].size = m.head[p].size
SplitUsed(m, r, K, p, nb, c, t, q) ==
    /\ Reshaped(m, r, p, c, q) /\ c \in p..(q - 1) /\ c # p /\ c \in Units
    /\ r.head[p].cinuse = TRUE /\ r.head[p].size = nb
    /\ r.head[c].cinuse = FALSE /\ r.head[c].size = t
    /\ r.top = m.top /\ c \notin K

(* A free chunk taken whole.                                                 *)
LEMMA UseWhole ==
    ASSUME NEW m, NEW K, Geometry(m, K), NEW p \in FreeIn(m, K), NEW q, EndsAt(m, p, q),
           NEW n \in HeapRecords, SameWords(m, n), SameEnds(m, n),
           NEW r, MadeUsed(n, r, p, HeadWord(m.head[p].size, TRUE, TRUE), q)
    PROVE  WholeUsed(m, r, p, q)
<1>0. FreeAt(m, K, p, q)
  BY FreeFacts
<1>1. /\ p \in K /\ m.head[p].pinuse = TRUE /\ q \in K /\ q # Hi(m) /\ p < q
  BY <1>0 DEF FreeAt
<1>2. /\ r.head[p].size = m.head[p].size /\ r.head[p].pinuse = TRUE
      /\ r.head[p].cinuse = TRUE /\ r.head[q].pinuse = TRUE
  BY DEF MadeUsed, HeadWord
<1>3. r.head[p].size = q - p
  <2>1. p \in Int /\ m.head[p].size \in Int
    BY <1>1, GeometryFacts
  <2> QED BY <1>2, <2>1 DEF End, EndsAt
<1>4. /\ r \in HeapRecords /\ Within(m.head, m.foot, r.head, r.foot, p, q)
      /\ r.seg = m.seg /\ r.brk = m.brk /\ r.top = m.top /\ r.topsize = m.topsize
  BY DEF MadeUsed, Rewritten, SameWords, SameEnds
<1>5. Tag(r.head, r.foot, p, q)
  BY <1>2 DEF Tag
<1> QED
  BY <1>1, <1>2, <1>3, <1>4, <1>5 DEF Reshaped, WholeUsed

(* A free chunk of which the first part is taken.                            *)
LEMMA UseSplit ==
    ASSUME NEW m, NEW K, Geometry(m, K), NEW p \in FreeIn(m, K), NEW q, EndsAt(m, p, q),
           NEW n \in HeapRecords, SameWords(m, n), SameEnds(m, n),
           NEW nb \in Sizes, NEW t \in Sizes, NEW c, Follows(c, p, nb), Follows(q, c, t),
           NEW o, MadeTwo(n, o, p, nb, c, t, q),
           NEW r \in HeapRecords, SameWords(o, r), SameEnds(o, r)
    PROVE  SplitUsed(m, r, K, p, nb, c, t, q)
<1>0. FreeAt(m, K, p, q)
  BY FreeFacts
<1>1. /\ p \in K /\ m.head[p].pinuse = TRUE /\ q \in K /\ q # Hi(m) /\ p < q
      /\ m.head[q].pinuse = FALSE /\ m.head[q].cinuse = TRUE
      /\ \A x \in K : x \in p..(q - 1) <=> x = p
  BY <1>0 DEF FreeAt
<1>2. /\ r.head[p].size = nb /\ r.head[p].pinuse = TRUE
      /\ r.head[p].cinuse = TRUE /\ r.head[q].pinuse = m.head[q].pinuse
      /\ r.head[c].size = t /\ r.head[c].pinuse = TRUE /\ r.head[c].cinuse = FALSE
      /\ r.foot[q] = t
  BY DEF MadeTwo, HeadWord, SameWords
<1>3. /\ p \in Int /\ q \in Int /\ nb \in Int /\ t \in Int /\ nb >= 1 /\ t >= 1
      /\ p \in Units /\ q \in Units
  <2>1. p \in Int /\ q \in Int /\ p \in Units /\ q \in Units
    BY <1>1, GeometryFacts
  <2> QED BY <2>1, ChunksAssumption DEF Sizes
<1>4. /\ r \in HeapRecords /\ Within(m.head, m.foot, r.head, r.foot, p, q)
      /\ r.seg = m.seg /\ r.brk = m.brk /\ r.top = m.top /\ r.topsize = m.topsize
  BY DEF MadeTwo, Rewritten, SameWords, SameEnds
<1>5. c \in p..(q - 1) /\ c # p /\ c \in Units /\ t = q - c /\ nb = c - p /\ p # q /\ c # q
  BY <1>3, ChunksAssumption DEF Units, Follows
<1>6. Tag(r.head, r.foot, p, c)
  BY <1>2 DEF Tag
<1>7. Tag(r.head, r.foot, c, q)
  BY <1>1, <1>2, <1>4 DEF Tag, Within
<1>8. c \notin K
  BY <1>1, <1>5
<1> QED
  BY <1>1, <1>2, <1>4, <1>5, <1>6, <1>7, <1>8 DEF Reshaped, SplitUsed
-----------------------------------------------------------------------------
(* A chunk is taken: from a bin, dv or top.                                  *)

(* r is m but for what the bins hold.                                        *)
Rebinned(m, r) == r \in HeapRecords /\ SameWords(m, r) /\ SameEnds(m, r)

(* dv and the bins when a binned chunk is taken.                             *)
LEMMA UnlinkIndexed ==
    ASSUME NEW m \in HeapRecords, NEW F, Indexed(m, F), NEW p \in F, p # m.dv, p \in Units,
           NEW s \in Sizes, m.head[p].size = s
    PROVE  /\ Rebinned(m, unlink_chunk(m, p, s)) /\ Indexed(unlink_chunk(m, p, s), F \ {p})
           /\ unlink_chunk(m, p, s).dv = m.dv /\ unlink_chunk(m, p, s).dvsize = m.dvsize
<1> DEFINE r == unlink_chunk(m, p, s)
           G == F \ {m.dv}
<1>1. Bins(m.bins, m.head, G)
  BY DEF Indexed
<1> HIDE DEF G
<1>2. /\ r \in HeapRecords /\ SameWords(m, r) /\ SameEnds(m, r)
      /\ r.dv = m.dv /\ r.dvsize = m.dvsize
      /\ Bins(r.bins, m.head, G \ {p})
  BY <1>1, Unlink
<1> HIDE DEF r
<1>3. G \ {p} = (F \ {p}) \ {r.dv}
  BY <1>2 DEF G
<1>4. Indexed(r, F \ {p})
  BY <1>2, <1>3 DEF Indexed, SameWords
<1> QED BY <1>2, <1>4 DEF r, Rebinned

(* dv and the bins when a free chunk is binned.                              *)
LEMMA InsertIndexed ==
    ASSUME NEW m \in HeapRecords, NEW F, Indexed(m, F), NEW p \in Units, p \notin F, p # NULL,
           NEW s \in Sizes, m.head[p].size = s
    PROVE  /\ Rebinned(m, insert_chunk(m, p, s)) /\ Indexed(insert_chunk(m, p, s), F \cup {p})
<1> DEFINE r == insert_chunk(m, p, s)
           G == F \ {m.dv}
<1>1. Bins(m.bins, m.head, G) /\ p \notin G /\ p # m.dv
  BY DEF Indexed
<1>0. G \cup {p} = (F \cup {p}) \ {m.dv}
  BY <1>1
<1> HIDE DEF G
<1>2. /\ r \in HeapRecords /\ SameWords(m, r) /\ SameEnds(m, r)
      /\ r.dv = m.dv /\ r.dvsize = m.dvsize
      /\ Bins(r.bins, m.head, G \cup {p})
  BY <1>1, Insert
<1> HIDE DEF r
<1>4. Indexed(r, F \cup {p})
  BY <1>0, <1>2 DEF Indexed, SameWords
<1> QED BY <1>2, <1>4 DEF r, Rebinned

(* dv and the bins when dv is replaced: the old one is binned.               *)
LEMMA ReplaceDvIndexed ==
    ASSUME NEW m \in HeapRecords, NEW F, NULL \notin F, Indexed(m, F),
           NEW p \in Units, p \notin F, p # NULL, NEW s \in Sizes, m.head[p].size = s
    PROVE  Rebinned(m, replace_dv(m, p, s)) /\ Indexed(replace_dv(m, p, s), F \cup {p})
<1> DEFINE o == IF m.dvsize # 0 THEN insert_chunk(m, m.dv, m.dvsize) ELSE m
           r == [o EXCEPT !.dv = p, !.dvsize = s]
<1>1. o \in HeapRecords /\ SameWords(m, o) /\ SameEnds(m, o) /\ Bins(o.bins, m.head, F)
  <2>1. CASE m.dvsize = 0
    <3>1. F \ {m.dv} = F
      BY <2>1 DEF Indexed
    <3> QED BY <2>1, <3>1 DEF Indexed, SameWords, SameEnds
  <2>2. CASE m.dvsize # 0
    <3>1. m.dv \in F /\ m.head[m.dv].size = m.dvsize /\ Bins(m.bins, m.head, F \ {m.dv})
      BY <2>2 DEF Indexed
    <3>2. m.dvsize \in Sizes /\ m.dv \in Units
      BY <2>2, ChunksAssumption DEF HeapRecords, Units, Sizes
    <3> DEFINE d == m.dv
               G == F \ {d}
               n == insert_chunk(m, d, m.dvsize)
    <3>3. d \notin G /\ G \cup {d} = F
      BY <3>1
    <3>5. Bins(m.bins, m.head, G)
      BY <3>1
    <3> HIDE DEF G
    <3>4. n \in HeapRecords /\ SameWords(m, n) /\ SameEnds(m, n) /\ Bins(n.bins, m.head, G \cup {d})
      BY <3>1, <3>2, <3>3, <3>5, Insert
    <3> QED BY <2>2, <3>3, <3>4
  <2> QED BY <2>1, <2>2
<1>2. r = replace_dv(m, p, s)
  BY DEF replace_dv
<1> HIDE DEF o
<1>3. s \in Units /\ s # 0
  BY ChunksAssumption DEF Sizes, Units
<1>4. /\ r \in HeapRecords /\ SameWords(o, r) /\ SameEnds(o, r)
      /\ r.dv = p /\ r.dvsize = s /\ r.bins = o.bins
  BY <1>1, <1>3 DEF HeapRecords, SameWords, SameEnds
<1> HIDE DEF r
<1>5. (F \cup {p}) \ {p} = F
  OBVIOUS
<1>6. Indexed(r, F \cup {p})
  BY <1>1, <1>3, <1>4, <1>5 DEF Indexed, SameWords
<1> QED
  BY <1>1, <1>2, <1>4, <1>6 DEF Rebinned, SameWords, SameEnds

(* dv and the bins when neither changes.                                     *)
LEMMA SameIndexed ==
    ASSUME NEW m, NEW F, Indexed(m, F), NEW r, SameIndex(m, r),
           \A x \in F : r.head[x].size = m.head[x].size
    PROVE  Indexed(r, F)
<1>1. Bins(r.bins, r.head, F \ {r.dv})
  <2>1. Bins(m.bins, m.head, F \ {m.dv}) /\ \A x \in F \ {m.dv} : r.head[x].size = m.head[x].size
    BY DEF Indexed
  <2> QED BY <2>1, SameBins DEF SameIndex
<1> QED BY <1>1 DEF Indexed, SameIndex

(* The other free chunks' sizes when the words of one change.                *)
LEMMA OtherSizes ==
    ASSUME NEW m, NEW K, Geometry(m, K), NEW p \in FreeIn(m, K), NEW q, EndsAt(m, p, q),
           NEW r, Within(m.head, m.foot, r.head, r.foot, p, q)
    PROVE  \A x \in FreeIn(m, K) \ {p} : r.head[x].size = m.head[x].size
<1>1. FreeAt(m, K, p, q)
  BY FreeFacts
<1>2. p \in K /\ q \in K \cup {Hi(m)} /\ p < q /\ \A x \in K : x \in p..(q - 1) <=> x = p
  BY <1>1 DEF FreeAt
<1>3. Kept(m, r, K \ (p..(q - 1)))
  BY <1>2, ReshapeKept
<1> QED BY <1>2, <1>3 DEF Kept, FreeIn

(* The heap r in which p, free in m, is a block of nb units at least.        *)
Got(m, r, L, p, nb) ==
    /\ \E K2 : Heap(r, K2, L \cup {p})
    /\ p \notin L /\ p \in Units /\ p # NULL /\ Kept(m, r, L) /\ r.head[p].size >= nb

(* What a call gave that took a free chunk whole.                            *)
LEMMA WholeGot ==
    ASSUME NEW m, NEW K, NEW L, Heap(m, K, L), NEW p \in FreeIn(m, K), NEW q, EndsAt(m, p, q),
           NEW n \in HeapRecords, SameWords(m, n), SameEnds(m, n),
           NEW o, MadeUsed(n, o, p, HeadWord(m.head[p].size, TRUE, TRUE), q),
           NEW r, Rebinned(o, r), Indexed(r, FreeIn(m, K) \ {p})
    PROVE  Got(m, r, L, p, m.head[p].size)
<1>1. Geometry(m, K) /\ L = UsedIn(m, K)
  BY DEF Heap
<1>2. FreeAt(m, K, p, q)
  BY <1>1, FreeFacts
<1>4. WholeUsed(m, o, p, q)
  BY <1>1, UseWhole
<1>5. Reshaped(m, r, p, p, q) /\ r.head[p].cinuse = TRUE /\ r.head[p].size = m.head[p].size
  BY <1>4 DEF WholeUsed, Rebinned, Reshaped, SameWords, SameEnds
<1>6. p \in K /\ q \in K \cup {Hi(m)} /\ p \in p..(q - 1) /\ \A x \in K : x \in p..(q - 1) <=> x = p
  BY <1>2 DEF FreeAt
<1>7. p \notin L /\ L \subseteq K /\ FreeIn(m, K) \subseteq K
  BY <1>1 DEF UsedIn, FreeIn
<1>8. /\ FreeAfter(m, r, K, p, p, q) = FreeIn(m, K) \ {p}
      /\ UsedAfter(r, L, p, p, q) = L \cup {p}
      /\ L \ (p..(q - 1)) = L
  BY <1>5, <1>6, <1>7 DEF FreeAfter, UsedAfter
<1>3. HeapAfter(m, r, K, L, p, p, q)
  BY <1>5, <1>6, <1>8, Reshape
<1>9. Heap(r, Chunks2(K, p, p, q), L \cup {p}) /\ Kept(m, r, L)
  BY <1>3, <1>8 DEF HeapAfter
<1>10. p \in Units /\ p # NULL /\ m.head[p].size \in Int
  BY <1>1, <1>6, GeometryFacts
<1> QED BY <1>5, <1>7, <1>9, <1>10 DEF Got

(* What a call gave that took a part of one.                                 *)
LEMMA SplitGot ==
    ASSUME NEW m, NEW K, NEW L, Heap(m, K, L), NEW p \in FreeIn(m, K), NEW q, EndsAt(m, p, q),
           NEW n \in HeapRecords, SameWords(m, n), SameEnds(m, n),
           NEW nb \in Sizes, NEW t \in Sizes, NEW c, Follows(c, p, nb), Follows(q, c, t),
           NEW o, MadeTwo(n, o, p, nb, c, t, q),
           NEW r, Rebinned(o, r), Indexed(r, (FreeIn(m, K) \ {p}) \cup {c})
    PROVE  Got(m, r, L, p, nb)
<1>1. Geometry(m, K) /\ L = UsedIn(m, K)
  BY DEF Heap
<1>2. FreeAt(m, K, p, q)
  BY <1>1, FreeFacts
<1>3. r \in HeapRecords /\ SameWords(o, r) /\ SameEnds(o, r)
  BY DEF Rebinned
<1>5. /\ Reshaped(m, r, p, c, q) /\ c \in p..(q - 1) /\ c # p /\ c \in Units
      /\ r.head[p].cinuse = TRUE /\ r.head[p].size = nb
      /\ r.head[c].cinuse = FALSE /\ r.top = m.top /\ c \notin K
  <2>1. SplitUsed(m, r, K, p, nb, c, t, q)
    BY <1>1, <1>3, UseSplit
  <2> QED BY <2>1 DEF SplitUsed
<1>6. p \in K /\ q \in K \cup {Hi(m)} /\ p \in p..(q - 1) /\ \A x \in K : x \in p..(q - 1) <=> x = p
  BY <1>2 DEF FreeAt
<1>7. p \notin L /\ L \subseteq K /\ FreeIn(m, K) \subseteq K /\ m.top \in K
  BY <1>1 DEF UsedIn, FreeIn, Geometry
<1>8. /\ FreeAfter(m, r, K, p, c, q) = (FreeIn(m, K) \ {p}) \cup {c}
      /\ UsedAfter(r, L, p, c, q) = L \cup {p}
      /\ L \ (p..(q - 1)) = L
  BY <1>5, <1>6, <1>7 DEF FreeAfter, UsedAfter
<1>4. HeapAfter(m, r, K, L, p, c, q)
  BY <1>5, <1>6, <1>8, Reshape
<1>9. Heap(r, Chunks2(K, p, c, q), L \cup {p}) /\ Kept(m, r, L)
  BY <1>4, <1>8 DEF HeapAfter
<1>10. p \in Units /\ p # NULL /\ nb \in Int
  <2>1. p \in Units /\ p # NULL
    BY <1>1, <1>6, GeometryFacts
  <2> QED BY <2>1 DEF Sizes
<1>11. r.head[p].size >= nb
  BY <1>5, <1>10
<1> QED BY <1>7, <1>9, <1>10, <1>11 DEF Got

(* A chunk taken from a bin and cut to the request.                          *)
LEMMA CutGot ==
    ASSUME NEW m, NEW K, NEW L, Heap(m, K, L), NEW p \in FreeIn(m, K), p # m.dv,
           NEW nb \in Sizes, nb <= m.head[p].size, NEW dv \in BOOLEAN
    PROVE  Got(m, Cut(unlink_chunk(m, p, m.head[p].size), p, nb, dv), L, p, nb)
<1> DEFINE s == m.head[p].size
           q == End(m.head, p)
           n == unlink_chunk(m, p, s)
           F == FreeIn(m, K)
           t == s - nb
           c == p + nb
<1>1. Geometry(m, K) /\ Indexed(m, F)
  BY DEF Heap
<1>2. /\ m \in HeapRecords /\ p \in K /\ p \in Units /\ s \in Sizes /\ NULL \notin K
      /\ p \in Int /\ s \in Int /\ q \in Units
  BY <1>1, GeometryFacts DEF FreeIn
<1>3. EndsAt(m, p, q) /\ Follows(q, p, s)
  BY DEF EndsAt, End, Follows
<1>0. F \subseteq K /\ NULL \notin F
  BY <1>2 DEF FreeIn
<1>4. nb \in Int /\ nb >= 1 /\ t \in Int
  BY <1>2 DEF Sizes
<1> HIDE DEF s, q, F
<1>5. /\ Rebinned(m, n) /\ Indexed(n, F \ {p}) /\ n.dv = m.dv /\ n.dvsize = m.dvsize
  <2>1. p \in F /\ m.head[p].size = s
    BY DEF F, s
  <2> QED BY <1>1, <1>2, <2>1, UnlinkIndexed
<1> HIDE DEF n
<1>6. n \in HeapRecords /\ SameWords(m, n) /\ SameEnds(m, n) /\ n.head[p].size = s
  BY <1>5 DEF Rebinned, SameWords, s
<1>7. CASE t < MinChunk
  <2> DEFINE r == set_inuse_and_pinuse(n, p, s)
  <2>1. MadeUsed(n, r, p, HeadWord(s, TRUE, TRUE), q)
    BY <1>2, <1>3, <1>6, SetInuseAndPinuse
  <2>2. Cut(n, p, nb, dv) = r
    BY <1>6, <1>7 DEF Cut
  <2> HIDE DEF r
  <2>3. Rebinned(r, r) /\ SameIndex(n, r) /\ Within(m.head, m.foot, r.head, r.foot, p, q)
    BY <1>6, <2>1 DEF MadeUsed, Rewritten, Rebinned, SameWords, SameEnds
  <2>4. \A x \in F \ {p} : r.head[x].size = n.head[x].size
    BY <1>1, <1>3, <1>6, <2>3, OtherSizes DEF F, SameWords
  <2>5. Indexed(r, F \ {p})
    BY <1>5, <2>3, <2>4, SameIndexed
  <2>6. Got(m, r, L, p, s)
    BY <1>3, <1>6, <2>1, <2>3, <2>5, WholeGot DEF F, s
  <2>7. Got(m, r, L, p, nb)
    <3>1. s >= nb
      BY DEF s
    <3>2. r.head[p].size = s
      BY <2>1 DEF MadeUsed, HeadWord
    <3> QED BY <2>6, <3>1, <3>2 DEF Got
  <2> QED BY <2>2, <2>7 DEF s, n
<1>8. CASE t >= MinChunk
  <2>1. t \in Sizes /\ c \in Units /\ s = nb + t /\ q = c + t
    BY <1>2, <1>3, <1>4, <1>8, ChunksAssumption DEF Sizes, Units, MinChunk, Follows
  <2>2. Follows(c, p, nb) /\ Follows(q, c, t)
    BY <2>1 DEF Follows
  <2> DEFINE o == Split(n, p, nb)
  <2>12. ~(s - nb < MinChunk)
    BY <1>4, <1>8 DEF MinChunk
  <2> HIDE DEF t, c
  <2>3. MadeTwo(n, o, p, nb, c, t, q)
    BY <1>2, <1>6, <2>1, <2>2, SplitWords
  <2>4. Cut(n, p, nb, dv) = IF dv THEN replace_dv(o, c, t) ELSE insert_chunk(o, c, t)
    BY <1>6, <2>12 DEF Cut, c, t
  <2> HIDE DEF o
  <2>5. o \in HeapRecords /\ SameIndex(n, o) /\ Within(m.head, m.foot, o.head, o.foot, p, q)
    BY <1>6, <2>3 DEF MadeTwo, Rewritten, SameWords, SameEnds
  <2>6. \A x \in F \ {p} : o.head[x].size = n.head[x].size
    BY <1>1, <1>3, <1>6, <2>5, OtherSizes DEF F, SameWords
  <2>7. Indexed(o, F \ {p})
    BY <1>5, <2>5, <2>6, SameIndexed
  <2>8. o.head[c].size = t
    BY <2>3 DEF MadeTwo, HeadWord
  <2>9. c \notin F /\ c # NULL
    <3>1. SameWords(o, o) /\ SameEnds(o, o)
      BY DEF SameWords, SameEnds
    <3>2. SplitUsed(m, o, K, p, nb, c, t, q)
      BY <1>1, <1>3, <1>6, <2>1, <2>2, <2>3, <2>5, <3>1, UseSplit
    <3>3. c \notin K
      BY <3>2 DEF SplitUsed
    <3>4. c # NULL
      BY <1>2, <1>4, <2>1, <2>2, ChunksAssumption DEF Units, NULL, Follows
    <3> QED BY <1>0, <3>3, <3>4
  <2>10. ASSUME NEW r, Rebinned(o, r), Indexed(r, (F \ {p}) \cup {c}) PROVE Got(m, r, L, p, nb)
    BY <1>3, <1>6, <2>1, <2>2, <2>3, <2>10, SplitGot DEF F
  <2>11. CASE dv
    <3>1. Rebinned(o, replace_dv(o, c, t)) /\ Indexed(replace_dv(o, c, t), (F \ {p}) \cup {c})
      BY <1>0, <2>1, <2>5, <2>7, <2>8, <2>9, ReplaceDvIndexed
    <3> QED BY <2>4, <2>10, <2>11, <3>1 DEF n, s
  <2>13. CASE ~dv
    <3>1. Rebinned(o, insert_chunk(o, c, t)) /\ Indexed(insert_chunk(o, c, t), (F \ {p}) \cup {c})
      BY <1>0, <2>1, <2>5, <2>7, <2>8, <2>9, InsertIndexed
    <3> QED BY <2>4, <2>10, <2>13, <3>1 DEF n, s
  <2> QED BY <2>11, <2>13
<1> QED BY <1>4, <1>7, <1>8 DEF MinChunk

(* A chunk of just the size asked for, taken from its bin.                   *)
LEMMA ExactGot ==
    ASSUME NEW m, NEW K, NEW L, Heap(m, K, L), NEW p \in FreeIn(m, K), p # m.dv,
           NEW nb \in Sizes, nb = m.head[p].size
    PROVE  Got(m, set_inuse_and_pinuse(unlink_chunk(m, p, nb), p, nb), L, p, nb)
<1> DEFINE q == End(m.head, p)
           n == unlink_chunk(m, p, nb)
           F == FreeIn(m, K)
           r == set_inuse_and_pinuse(n, p, nb)
<1>1. Geometry(m, K) /\ Indexed(m, F)
  BY DEF Heap
<1>2. m \in HeapRecords /\ p \in K /\ p \in Units /\ q \in Units
  BY <1>1, GeometryFacts DEF FreeIn
<1>3. EndsAt(m, p, q) /\ Follows(q, p, nb)
  BY DEF EndsAt, End, Follows
<1> HIDE DEF q, F
<1>5. Rebinned(m, n) /\ Indexed(n, F \ {p})
  <2>1. p \in F /\ m.head[p].size = nb
    BY DEF F
  <2> QED BY <1>1, <1>2, <2>1, UnlinkIndexed
<1> HIDE DEF n
<1>6. n \in HeapRecords /\ SameWords(m, n) /\ SameEnds(m, n)
  BY <1>5 DEF Rebinned
<1>7. MadeUsed(n, r, p, HeadWord(nb, TRUE, TRUE), q)
  BY <1>2, <1>3, <1>6, SetInuseAndPinuse
<1> HIDE DEF r
<1>8. Rebinned(r, r) /\ SameIndex(n, r) /\ Within(m.head, m.foot, r.head, r.foot, p, q)
  BY <1>6, <1>7 DEF MadeUsed, Rewritten, Rebinned, SameWords, SameEnds
<1>9. \A x \in F \ {p} : r.head[x].size = n.head[x].size
  BY <1>1, <1>3, <1>6, <1>8, OtherSizes DEF F, SameWords
<1>10. Indexed(r, F \ {p})
  BY <1>5, <1>8, <1>9, SameIndexed
<1>11. Got(m, r, L, p, nb)
  BY <1>3, <1>6, <1>7, <1>8, <1>10, WholeGot DEF F
<1> QED BY <1>11 DEF r, n

(* A chunk taken from dv.                                                    *)
LEMMA FromDvGot ==
    ASSUME NEW m, NEW K, NEW L, Heap(m, K, L), NEW nb \in Sizes, nb <= m.dvsize
    PROVE  Got(m, FromDv(m, nb).m, L, m.dv, nb) /\ FromDv(m, nb).p = m.dv
<1> DEFINE p == m.dv
           s == m.head[p].size
           q == End(m.head, p)
           F == FreeIn(m, K)
           t == s - nb
           c == p + nb
<1>1. Geometry(m, K) /\ Indexed(m, F)
  BY DEF Heap
<1>a. m.dvsize # 0
  BY DEF Sizes
<1>b. p \in F /\ m.dvsize = s /\ Bins(m.bins, m.head, F \ {p})
  BY <1>1, <1>a DEF Indexed
<1>2. /\ m \in HeapRecords /\ p \in K /\ p \in Units /\ s \in Sizes /\ NULL \notin K
      /\ p \in Int /\ s \in Int /\ q \in Units
  BY <1>1, <1>b, GeometryFacts DEF FreeIn
<1>3. EndsAt(m, p, q) /\ Follows(q, p, s) /\ SameWords(m, m) /\ SameEnds(m, m)
  BY DEF EndsAt, End, Follows, SameWords, SameEnds
<1>0. F \subseteq K /\ NULL \notin F
  BY <1>2 DEF FreeIn
<1>4. nb \in Int /\ nb >= 1 /\ t \in Int
  BY <1>2 DEF Sizes
<1>5. FromDv(m, nb).p = p
  BY DEF FromDv, Result
<1>c. p \in FreeIn(m, K) /\ s = m.head[p].size /\ s >= nb
  BY <1>b
<1> HIDE DEF p, s, q, F
<1>7. CASE t < MinChunk
  <2> DEFINE o == set_inuse_and_pinuse(m, p, s)
             r == [o EXCEPT !.dv = NULL, !.dvsize = 0]
  <2>1. MadeUsed(m, o, p, HeadWord(s, TRUE, TRUE), q)
    BY <1>2, <1>3, SetInuseAndPinuse
  <2>2. FromDv(m, nb).m = r
    <3>1. ~(m.dvsize - nb >= MinChunk)
      BY <1>b, <1>4, <1>7 DEF MinChunk
    <3> QED BY <1>b, <3>1 DEF FromDv, Result, p
  <2> HIDE DEF o
  <2>3. o \in HeapRecords /\ SameIndex(m, o) /\ Within(m.head, m.foot, o.head, o.foot, p, q)
    BY <2>1 DEF MadeUsed, Rewritten
  <2>4. /\ Rebinned(o, r) /\ r.bins = m.bins /\ r.head = o.head /\ r.dv = NULL /\ r.dvsize = 0
    <3>1. NULL \in Units /\ 0 \in Units
      BY ChunksAssumption DEF NULL, Units
    <3> QED BY <2>3, <3>1 DEF HeapRecords, Rebinned, SameWords, SameEnds, SameIndex
  <2> HIDE DEF r
  <2>5. \A x \in F \ {p} : r.head[x].size = m.head[x].size
    BY <1>1, <1>3, <1>c, <2>3, <2>4, OtherSizes DEF F
  <2>6. Bins(r.bins, r.head, F \ {p})
    BY <1>b, <2>4, <2>5, SameBins
  <2>7. (F \ {p}) \ {NULL} = F \ {p}
    BY <1>0
  <2>8. Indexed(r, F \ {p})
    BY <2>4, <2>6, <2>7 DEF Indexed
  <2>9. Got(m, r, L, p, s)
    BY <1>2, <1>3, <1>c, <2>1, <2>4, <2>8, WholeGot DEF F
  <2>10. r.head[p].size = s
    BY <2>1, <2>4 DEF MadeUsed, HeadWord
  <2>11. Got(m, r, L, p, nb)
    BY <1>c, <2>9, <2>10 DEF Got
  <2> QED BY <1>5, <2>2, <2>11 DEF p
<1>8. CASE t >= MinChunk
  <2>1. t \in Sizes /\ c \in Units /\ s = nb + t /\ q = c + t
    BY <1>2, <1>3, <1>4, <1>8, ChunksAssumption DEF Sizes, Units, MinChunk, Follows
  <2>2. Follows(c, p, nb) /\ Follows(q, c, t)
    BY <2>1 DEF Follows
  <2> DEFINE o == Split(m, p, nb)
             r == [o EXCEPT !.dv = c, !.dvsize = t]
  <2>12. s - nb >= MinChunk
    BY <1>4, <1>8 DEF MinChunk
  <2>4. FromDv(m, nb).m = r
    BY <1>b, <2>12 DEF FromDv, Result, c, t, p
  <2> HIDE DEF t, c
  <2>3. MadeTwo(m, o, p, nb, c, t, q)
    BY <1>2, <1>c, <2>1, <2>2, SplitWords
  <2> HIDE DEF o
  <2>5. o \in HeapRecords /\ SameIndex(m, o) /\ Within(m.head, m.foot, o.head, o.foot, p, q)
    BY <2>3 DEF MadeTwo, Rewritten
  <2>13. t \in Units /\ t # 0
    BY <2>1, ChunksAssumption DEF Sizes, Units
  <2>6. /\ Rebinned(o, r) /\ r.bins = m.bins /\ r.head = o.head /\ r.dv = c /\ r.dvsize = t
    BY <2>1, <2>5, <2>13 DEF HeapRecords, Rebinned, SameWords, SameEnds, SameIndex
  <2> HIDE DEF r
  <2>7. \A x \in F \ {p} : r.head[x].size = m.head[x].size
    BY <1>1, <1>3, <1>c, <2>5, <2>6, OtherSizes DEF F
  <2>8. r.head[c].size = t
    BY <2>3, <2>6 DEF MadeTwo, HeadWord
  <2>9. c \notin F
    <3>1. SameWords(o, o) /\ SameEnds(o, o)
      BY DEF SameWords, SameEnds
    <3>2. SplitUsed(m, o, K, p, nb, c, t, q)
      BY <1>1, <1>2, <1>3, <1>c, <2>1, <2>2, <2>3, <2>5, <3>1, UseSplit
    <3> QED BY <1>0, <3>2 DEF SplitUsed
  <2>10. Bins(r.bins, r.head, F \ {p})
    BY <1>b, <2>6, <2>7, SameBins
  <2>11. ((F \ {p}) \cup {c}) \ {c} = F \ {p}
    BY <2>9
  <2>14. Indexed(r, (F \ {p}) \cup {c})
    BY <2>6, <2>8, <2>10, <2>11, <2>13 DEF Indexed
  <2>15. Got(m, r, L, p, nb)
    BY <1>2, <1>3, <1>c, <2>1, <2>2, <2>3, <2>6, <2>14, SplitGot DEF F
  <2> QED BY <1>5, <2>4, <2>15 DEF p
<1> QED BY <1>4, <1>7, <1>8 DEF MinChunk

(* A chunk taken from top.                                                   *)
LEMMA FromTopGot ==
    ASSUME NEW m, NEW K, NEW L, Heap(m, K, L), NEW nb \in Sizes, nb < m.topsize
    PROVE  Got(m, FromTop(m, nb).m, L, m.top, nb) /\ FromTop(m, nb).p = m.top
<1> DEFINE p == m.top
           s == m.topsize
           q == Hi(m)
           F == FreeIn(m, K)
           t == s - nb
           c == p + nb
           h == HeadWord(t, TRUE, FALSE)
           h2 == HeadWord(nb, TRUE, TRUE)
           n == set_head(m, c, h)
           o == set_head(n, p, h2)
           r == [o EXCEPT !.top = c, !.topsize = t]
<1>1. Geometry(m, K) /\ Indexed(m, F) /\ L = UsedIn(m, K)
  BY DEF Heap
<1>2. /\ m \in HeapRecords /\ p \in K /\ p \in Units /\ NULL \notin K
      /\ p \in Int /\ s \in Int /\ q \in Units /\ q \in Int /\ s \in Units /\ q = p + s
      /\ m.head[p].pinuse = TRUE /\ m.head[p].cinuse = FALSE /\ p < q
  BY <1>1, GeometryFacts DEF Hi, HeapRecords
<1>4. /\ nb \in Int /\ nb >= 1 /\ t \in Int /\ t >= 1 /\ c \in Int /\ p < c /\ c < q
      /\ q - c = t /\ c - p = nb
  BY <1>2 DEF Sizes
<1>5. c \in Units /\ t \in Units /\ nb \in Units
  BY <1>2, <1>4, ChunksAssumption DEF Units, Sizes
<1>6. FromTop(m, nb).p = p /\ FromTop(m, nb).m = r
  <2>1. FromTop(m, nb).m = [o EXCEPT !.top = @ + nb, !.topsize = @ - nb]
    BY DEF FromTop, Result, set_size_and_pinuse_of_inuse_chunk
  <2>2. o.top = p /\ o.topsize = s
    BY DEF set_head
  <2> QED BY <2>1, <2>2 DEF FromTop, Result
<1> HIDE DEF t, c, s, q, F, p
<1>7. /\ h \in [size : Amounts, pinuse : BOOLEAN, cinuse : BOOLEAN]
      /\ h2 \in [size : Amounts, pinuse : BOOLEAN, cinuse : BOOLEAN]
      /\ h.size = t /\ h.pinuse = TRUE /\ h.cinuse = FALSE
      /\ h2.size = nb /\ h2.pinuse = TRUE /\ h2.cinuse = TRUE
  BY <1>5, HeadWordType
<1> HIDE DEF h, h2
<1>8. /\ n \in HeapRecords /\ SameIndex(m, n) /\ SameEnds(m, n) /\ n.foot = m.foot
      /\ n.head[c] = h /\ \A u \in Units : u # c => n.head[u] = m.head[u]
  BY <1>2, <1>5, <1>7, SetHead
<1> HIDE DEF n
<1>9. /\ o \in HeapRecords /\ SameIndex(n, o) /\ SameEnds(n, o) /\ o.foot = n.foot
      /\ o.head[p] = h2 /\ \A u \in Units : u # p => o.head[u] = n.head[u]
  BY <1>2, <1>7, <1>8, SetHead
<1> HIDE DEF o
<1>10. /\ r \in HeapRecords /\ SameIndex(m, r) /\ r.seg = m.seg /\ r.brk = m.brk
       /\ r.head = o.head /\ r.foot = o.foot /\ r.top = c /\ r.topsize = t
  BY <1>5, <1>8, <1>9 DEF HeapRecords, SameIndex, SameEnds
<1> HIDE DEF r
<1>11. /\ r.head[p] = h2 /\ r.head[c] = h /\ r.foot = m.foot
       /\ \A u \in Units : u # p /\ u # c => r.head[u] = m.head[u]
  BY <1>2, <1>4, <1>5, <1>8, <1>9, <1>10
<1>12. Within(m.head, m.foot, r.head, r.foot, p, q)
  BY <1>2, <1>4, <1>11, ChunksAssumption DEF Within, Units
<1>13. Tag(r.head, r.foot, p, c)
  BY <1>7, <1>11 DEF Tag
<1>14. Reshaped(m, r, p, c, q)
  BY <1>2, <1>4, <1>7, <1>10, <1>11, <1>12, <1>13 DEF Reshaped, q
<1>15. \A x \in K : x \in p..(q - 1) <=> x = p
  <2>1. \A x \in K : x \in Int /\ x < q /\ x <= p
    <3>1. ASSUME NEW x \in K PROVE x <= p
      <4>1. x \in Int /\ x < q
        BY <1>1, GeometryFacts DEF q
      <4>2. p < x => q <= x
        <5>1. End(m.head, p) = q
          BY <1>1, GeometryFacts DEF p, q
        <5> QED BY <1>1, <1>2, <5>1 DEF Geometry, Tiled
      <4> QED BY <1>2, <4>1, <4>2
    <3> QED BY <1>1, <3>1, GeometryFacts DEF q
  <2> QED BY <1>2, <2>1
<1>16. /\ p \notin L /\ L \subseteq K /\ F \subseteq K /\ p \notin F /\ c \notin K
  BY <1>1, <1>2, <1>4, <1>15 DEF UsedIn, FreeIn, F, p
<1>17. FreeAfter(m, r, K, p, c, q) = F
  BY <1>7, <1>10, <1>11, <1>15, <1>16 DEF FreeAfter, F
<1>18. UsedAfter(r, L, p, c, q) = L \cup {p} /\ L \ (p..(q - 1)) = L
  BY <1>7, <1>11, <1>15, <1>16 DEF UsedAfter
<1>19. \A x \in F : r.head[x].size = m.head[x].size
  <2>1. Kept(m, r, K \ (p..(q - 1)))
    BY <1>1, <1>2, <1>12, ReshapeKept DEF q
  <2> QED BY <1>15, <1>16, <2>1 DEF Kept
<1>20. Indexed(r, F)
  BY <1>1, <1>10, <1>19, SameIndexed
<1>21. HeapAfter(m, r, K, L, p, c, q)
  <2>1. c \in p..(q - 1) /\ q \in K \cup {Hi(m)} /\ Indexed(r, FreeAfter(m, r, K, p, c, q))
    BY <1>2, <1>4, <1>17, <1>20 DEF q
  <2> QED BY <1>2, <1>14, <2>1, Reshape
<1>22. Heap(r, Chunks2(K, p, c, q), L \cup {p}) /\ Kept(m, r, L)
  BY <1>18, <1>21 DEF HeapAfter
<1>23. p # NULL /\ r.head[p].size >= nb
  BY <1>2, <1>4, <1>7, <1>11
<1> QED BY <1>2, <1>6, <1>16, <1>22, <1>23 DEF Got, p
-----------------------------------------------------------------------------
(* The segment is made or extended.                                          *)

(* r is m with top, at p, of s units up to q.                                *)
InitTop(m, r, p, s, q) ==
    /\ r \in HeapRecords /\ r.foot = m.foot /\ SameIndex(m, r) /\ r.seg = m.seg /\ r.brk = m.brk
    /\ r.top = p /\ r.topsize = s
    /\ r.head[p] = HeadWord(s, TRUE, FALSE)
    /\ \A u \in Units : u # p /\ u # q => r.head[u] = m.head[u]

(* The words init_top writes.                                                *)
LEMMA InitTopWords ==
    ASSUME NEW m \in HeapRecords, NEW p \in Units, NEW s \in Sizes,
           NEW q \in Units, Follows(q, p, s), TopFoot \in Units
    PROVE  InitTop(m, init_top(m, p, s), p, s, q)
<1> DEFINE h == HeadWord(s, TRUE, FALSE)
           f == HeadWord(TopFoot, FALSE, FALSE)
           new == [[m.head EXCEPT ![p] = h] EXCEPT ![q] = f]
           r == [m EXCEPT !.top = p, !.topsize = s, !.head = new]
<1>0. s \in Int /\ s >= 1 /\ s \in Units /\ p \in Int /\ q # p /\ q \in Int /\ p < q
  BY ChunksAssumption DEF Sizes, Units, Follows
<1>1. h \in [size : Amounts, pinuse : BOOLEAN, cinuse : BOOLEAN]
  BY <1>0, HeadWordType
<1>2. f \in [size : Amounts, pinuse : BOOLEAN, cinuse : BOOLEAN]
  BY HeadWordType
<1>3. init_top(m, p, s) = r
  BY DEF init_top, Follows, HeapRecords
<1> HIDE DEF h, f
<1>4. /\ new \in Heads /\ new[p] = h
      /\ \A u \in Units : u # p /\ u # q => new[u] = m.head[u]
  BY <1>0, <1>1, <1>2 DEF HeapRecords, Heads
<1> HIDE DEF new
<1>5. /\ r \in HeapRecords /\ r.foot = m.foot /\ SameIndex(m, r)
      /\ r.seg = m.seg /\ r.brk = m.brk /\ r.top = p /\ r.topsize = s /\ r.head = new
  BY <1>0, <1>4 DEF HeapRecords, SameIndex
<1> QED
  BY <1>3, <1>4, <1>5 DEF InitTop, h

(* What two steps each keep, both keep.                                      *)
LEMMA KeptTwice ==
    ASSUME NEW m, NEW n, NEW r, NEW Q, Kept(m, n, Q), Kept(n, r, Q)
    PROVE  Kept(m, r, Q)
  BY DEF Kept, SameBlock

(* top grows by what sbrk gives.                                             *)
LEMMA ExtendHeap ==
    ASSUME NEW m, NEW K, NEW L, Heap(m, K, L), NEW x \in Units, x >= 1, m.brk + x <= MaxBrk
    PROVE  LET r == Extended(m, x) IN
           Heap(r, K, L) /\ Kept(m, r, L) /\ r.topsize = m.topsize + x /\ r.top = m.top
<1> DEFINE n == [[m EXCEPT !.brk = @ + x] EXCEPT !.seg.size = @ + x]
           p == m.top
           s == m.topsize + x
           q == p + s
           r == init_top(n, p, s)
           lo == m.seg.base
<1>1. Geometry(m, K) /\ Indexed(m, FreeIn(m, K)) /\ L = UsedIn(m, K)
  BY DEF Heap
<1>2. /\ m \in HeapRecords /\ p \in K /\ p \in Units /\ NULL \notin K
      /\ p \in Int /\ m.topsize \in Int /\ m.topsize >= 1 /\ K \subseteq Units
      /\ Hi(m) \in Units /\ Hi(m) \in Int /\ lo \in Units
      /\ \A u \in K : /\ u \in Int /\ m.head[u].size \in Int /\ u \in Units
                      /\ End(m.head, u) \in K \cup {Hi(m)} /\ End(m.head, u) \in Int
                      /\ u < End(m.head, u) /\ m.head[u].size >= 1 /\ lo <= u /\ u < Hi(m)
      /\ End(m.head, p) = Hi(m)
  BY <1>1, GeometryFacts
<1>3. /\ Hi(m) + TopFoot = m.brk /\ lo + m.seg.size = m.brk /\ Base <= lo
      /\ Tiled(m.head, K, lo, Hi(m)) /\ Tagged(m.head, m.foot, K, lo, Hi(m))
  BY <1>1 DEF Geometry
<1>4. m.brk \in Int /\ m.seg.size \in Int /\ lo \in Int /\ x \in Int /\ lo >= 0 /\ MaxBrk \in Int
      /\ p >= 0 /\ Hi(m) = p + m.topsize /\ m.seg \in [base : Units, size : Units]
      /\ m.brk >= 0 /\ m.seg.size >= 0
  BY <1>2, ChunksAssumption DEF HeapRecords, Units, Hi
<1>5. /\ q \in Units /\ s \in Sizes /\ TopFoot \in Units /\ q = Hi(m) + x /\ q \in Int
      /\ m.brk + x \in Units /\ m.seg.size + x \in Units /\ q > Hi(m)
  BY <1>2, <1>3, <1>4, ChunksAssumption DEF Units, Sizes
<1>6. /\ n \in HeapRecords /\ SameIndex(m, n) /\ SameWords(m, n) /\ n.brk = m.brk + x
      /\ n.seg.base = lo /\ n.seg.size = m.seg.size + x
  BY <1>2, <1>4, <1>5 DEF HeapRecords, SameIndex, SameWords
<1>7. r = Extended(m, x)
  BY <1>2 DEF Extended
<1> HIDE DEF n, s, q
<1>8. InitTop(n, r, p, s, q)
  <2>1. Follows(q, p, s)
    BY DEF q, s, Follows
  <2> QED BY <1>2, <1>5, <1>6, <2>1, InitTopWords
<1> HIDE DEF r
<1>9. /\ r \in HeapRecords /\ r.foot = m.foot /\ SameIndex(m, r) /\ r.brk = m.brk + x
      /\ r.seg.base = lo /\ r.seg.size = m.seg.size + x
      /\ r.top = p /\ r.topsize = s /\ r.head[p] = HeadWord(s, TRUE, FALSE)
      /\ \A u \in Units : u # p /\ u # q => r.head[u] = m.head[u]
      /\ Hi(r) = q
  BY <1>6, <1>8 DEF InitTop, SameIndex, SameWords, Hi, q
<1>10. /\ \A u \in K : u # p => r.head[u] = m.head[u] /\ End(r.head, u) = End(m.head, u)
       /\ End(r.head, p) = q /\ r.head[p].size = s /\ s >= 1
       /\ r.head[p].pinuse = TRUE /\ r.head[p].cinuse = FALSE
       /\ m.head[p].pinuse = TRUE /\ m.head[p].cinuse = FALSE
  BY <1>1, <1>2, <1>5, <1>9, ChunksAssumption DEF End, HeadWord, q, Sizes, Geometry
<1>11. \A u \in K : u # p => End(m.head, u) \in K /\ End(m.head, u) # Hi(m)
  <2>1. \A u, v \in K : End(m.head, u) = End(m.head, v) => u = v
    BY <1>2, <1>3, InTiled DEF HeapRecords
  <2> QED BY <1>2, <2>1
<1>12. Tiled(r.head, K, lo, q)
  <2>1. K \subseteq lo..(q - 1) /\ lo \in K
    BY <1>2, <1>3, <1>4, <1>5 DEF Tiled
  <2>2. \A u \in K : r.head[u].size >= 1 /\ End(r.head, u) \in K \cup {q}
    BY <1>2, <1>10, <1>11
  <2>3. ASSUME NEW u \in K, NEW v \in K, u < v PROVE End(r.head, u) <= v
    <3>1. End(m.head, u) <= v
      BY <1>3, <2>3 DEF Tiled
    <3>2. u # p
      BY <1>2, <2>3, <3>1
    <3> QED BY <1>10, <3>1, <3>2
  <2>4. ASSUME NEW u \in K \ {lo} PROVE \E v \in K : End(r.head, v) = u
    <3>1. PICK v \in K : End(m.head, v) = u
      BY <1>3 DEF Tiled
    <3>2. v # p
      BY <1>2, <3>1
    <3> QED BY <1>10, <3>1, <3>2
  <2> QED BY <2>1, <2>2, <2>3, <2>4 DEF Tiled
<1>13. Tagged(r.head, r.foot, K, lo, q)
  <2>1. r.head[lo].pinuse
    <3>1. lo \in K /\ m.head[lo].pinuse
      BY <1>3 DEF Tagged, Tiled
    <3> QED BY <1>10, <3>1
  <2>2. ASSUME NEW u \in K
        PROVE IF End(r.head, u) = q THEN ~r.head[u].cinuse
              ELSE Tag(r.head, r.foot, u, End(r.head, u))
    <3>1. CASE u = p
      BY <1>10, <3>1
    <3>2. CASE u # p
      <4> DEFINE v == End(m.head, u)
      <4>1. v \in K /\ v # Hi(m) /\ v # q /\ End(r.head, u) = v /\ r.head[u] = m.head[u]
        BY <1>2, <1>5, <1>10, <1>11, <3>2
      <4>2. Tag(m.head, m.foot, u, v)
        BY <1>3, <4>1 DEF Tagged
      <4>3. r.head[v].pinuse = m.head[v].pinuse /\ r.head[v].cinuse = m.head[v].cinuse
        BY <1>10, <4>1
      <4> HIDE DEF v
      <4>4. Tag(r.head, r.foot, u, v)
        BY <1>9, <4>1, <4>2, <4>3 DEF Tag
      <4> QED BY <4>1, <4>4
    <3> QED BY <3>1, <3>2
  <2> QED BY <2>1, <2>2 DEF Tagged
<1>14. Geometry(r, K)
  BY <1>2, <1>3, <1>4, <1>5, <1>9, <1>12, <1>13, ChunksAssumption DEF Geometry
<1>15. FreeIn(r, K) = FreeIn(m, K) /\ UsedIn(r, K) = UsedIn(m, K)
  BY <1>9, <1>10 DEF FreeIn, UsedIn
<1>16. Indexed(r, FreeIn(m, K))
  <2>1. \A u \in FreeIn(m, K) : r.head[u].size = m.head[u].size
    BY <1>10 DEF FreeIn
  <2> QED BY <1>1, <1>9, <2>1, SameIndexed
<1>17. Kept(m, r, L)
  <2> SUFFICES ASSUME NEW u \in L
               PROVE  r.head[u].size = m.head[u].size /\ SameBlock(m, r, u, m.head[u].size)
    BY DEF Kept
  <2>1. u \in K /\ u # p
    BY <1>1, <1>10 DEF UsedIn
  <2>2. End(m.head, u) <= p
    <3>1. u < p
      <4>1. p < u => End(m.head, p) <= u
        BY <1>2, <1>3, <2>1 DEF Tiled
      <4> QED BY <1>2, <2>1, <4>1
    <3> QED BY <1>2, <1>3, <2>1, <3>1 DEF Tiled
  <2>3. \A v \in Units : v \in Int /\ (v < End(m.head, u) => v # p /\ v # q)
    BY <1>2, <1>4, <1>5, <2>1, <2>2, ChunksAssumption DEF Units
  <2>4. SameBlock(m, r, u, m.head[u].size)
    BY <1>9, <2>3 DEF SameBlock, End
  <2> QED BY <1>10, <2>1, <2>4
<1> QED
  BY <1>1, <1>7, <1>9, <1>14, <1>15, <1>16, <1>17 DEF Heap, s

(* Before the first block there is no top, and nothing is held.              *)
Fresh(m) ==
    /\ m \in HeapRecords /\ m.top = NULL /\ m.topsize = 0 /\ m.dv = NULL /\ m.dvsize = 0
    /\ m.brk = Base /\ \A s \in Sizes : m.bins[s] = <<>>

(* The first segment: one free chunk, top.                                   *)
LEMMA FirstHeap ==
    ASSUME NEW m, Fresh(m), NEW x \in Units, x > TopFoot, m.brk + x <= MaxBrk
    PROVE  LET r == Extended(m, x) IN
           (\E K : Heap(r, K, {})) /\ r.topsize = x - TopFoot
<1> DEFINE n == [[m EXCEPT !.brk = @ + x] EXCEPT !.seg = [base |-> m.brk, size |-> x]]
           p == m.brk
           s == x - TopFoot
           q == p + s
           r == init_top(n, p, s)
           K == {p}
<1>1. /\ m \in HeapRecords /\ m.top = NULL /\ m.dv = NULL /\ m.dvsize = 0 /\ p = Base
      /\ \A t \in Sizes : m.bins[t] = <<>>
  BY DEF Fresh
<1>2. /\ p \in Units /\ p \in Int /\ s \in Sizes /\ s \in Int /\ s >= 1 /\ q \in Units /\ q \in Int
      /\ TopFoot \in Units /\ p + x \in Units /\ p # 0 /\ q = p + s /\ p < q /\ x \in Int
  BY <1>1, ChunksAssumption DEF Units, Sizes
<1>3. /\ n \in HeapRecords /\ SameIndex(m, n) /\ SameWords(m, n) /\ n.brk = p + x
      /\ n.seg.base = p /\ n.seg.size = x
  BY <1>1, <1>2 DEF HeapRecords, SameIndex, SameWords
<1>4. r = Extended(m, x)
  BY <1>1 DEF Extended
<1> HIDE DEF n, s, q, p
<1>5. InitTop(n, r, p, s, q)
  <2>1. Follows(q, p, s)
    BY <1>2 DEF Follows
  <2> QED BY <1>2, <1>3, <2>1, InitTopWords
<1> HIDE DEF r
<1>6. /\ r \in HeapRecords /\ SameIndex(m, r) /\ r.brk = p + x
      /\ r.seg.base = p /\ r.seg.size = x
      /\ r.top = p /\ r.topsize = s /\ r.head[p] = HeadWord(s, TRUE, FALSE)
      /\ Hi(r) = q
  BY <1>2, <1>3, <1>5 DEF InitTop, SameIndex, Hi
<1>7. /\ End(r.head, p) = q /\ r.head[p].size = s
      /\ r.head[p].pinuse = TRUE /\ r.head[p].cinuse = FALSE
  BY <1>2, <1>6 DEF End, HeadWord
<1>8. Tiled(r.head, K, p, q) /\ Tagged(r.head, r.foot, K, p, q)
  BY <1>2, <1>7 DEF Tiled, Tagged
<1>9. q + TopFoot = p + x
  BY <1>2, ChunksAssumption DEF s
<1>10. Geometry(r, K)
  BY <1>1, <1>2, <1>6, <1>8, <1>9, ChunksAssumption DEF Geometry
<1>11. FreeIn(r, K) = {} /\ UsedIn(r, K) = {}
  BY <1>6, <1>7 DEF FreeIn, UsedIn
<1>12. Indexed(r, {})
  <2>1. Listed(<<>>) = {} /\ NoRepeats(<<>>)
    BY DEF Listed, NoRepeats
  <2>2. \A t \in Sizes : r.bins[t] = <<>>
    BY <1>1, <1>6 DEF SameIndex
  <2>3. Bins(r.bins, r.head, {})
    BY <2>1, <2>2 DEF Bins
  <2> QED BY <1>1, <1>6, <2>3 DEF Indexed, SameIndex
<1>13. Heap(r, K, {})
  BY <1>10, <1>11, <1>12 DEF Heap
<1> HIDE DEF K
<1> QED BY <1>4, <1>6, <1>13 DEF s
-----------------------------------------------------------------------------
(* dlmalloc.                                                                 *)

HeapOK(m, L) == (Fresh(m) /\ L = {}) \/ \E K : Heap(m, K, L)

(* What a call that asks for a chunk of nb units comes to.                   *)
Answered(m, r, L, nb) ==
    IF r.p = NULL THEN HeapOK(r.m, L) /\ Kept(m, r.m, L) ELSE Got(m, r.m, L, r.p, nb)

Below == {x \in Nat \X Nat : x[1] < x[2]}

(* The order of the numbers is well-founded.                                 *)
LEMMA BelowWF == IsWellFoundedOn(Below, Nat)
  BY NatLessThanWellFounded DEF Below, OpToRel

(* A set of numbers has a least.                                             *)
LEMMA LeastNat ==
    ASSUME NEW S \in SUBSET Nat, S # {}
    PROVE  \E x \in S : \A y \in S : x <= y
<1>1. PICK x \in S : \A y \in S : ~(<<y, x>> \in Below)
  BY BelowWF, WFMin
<1>2. ASSUME NEW y \in S PROVE x <= y
  <2>1. <<y, x>> \notin Below
    BY <1>1
  <2>2. x \in Nat /\ y \in Nat
    OBVIOUS
  <2>3. <<y, x>> \in Nat \X Nat /\ <<y, x>>[1] = y /\ <<y, x>>[2] = x
    BY <2>2
  <2>4. ~ (y < x)
    BY <2>1, <2>3, Zenon DEF Below
  <2> QED BY <2>2, <2>4
<1> QED BY <1>2

(* A set of sizes has a least: what the maps of bits find.                   *)
LEMMA LeastSize ==
    ASSUME NEW S \in SUBSET Sizes, S # {}
    PROVE  Least(S) \in S /\ \A t \in S : Least(S) <= t
<1>1. S \in SUBSET Nat
  BY ChunksAssumption DEF Sizes
<1>2. \E x \in S : \A y \in S : x <= y
  BY <1>1, LeastNat
<1> QED BY <1>2 DEF Least

(* A marked bin holds a free chunk of its size.                              *)
LEMMA MarkedBin ==
    ASSUME NEW m, NEW K, NEW L, Heap(m, K, L), NEW s \in Marked(m)
    PROVE  /\ s \in Sizes /\ OldestOf(m, s) \in FreeIn(m, K) /\ OldestOf(m, s) # m.dv
           /\ m.head[OldestOf(m, s)].size = s
<1>1. s \in Sizes /\ m.bins[s] # <<>>
  BY DEF Marked
<1>2. Listed(m.bins[s]) = {p \in FreeIn(m, K) \ {m.dv} : m.head[p].size = s}
  BY <1>1 DEF Heap, Indexed, Bins
<1>3. m.bins[s] \in Seq(Units)
  BY <1>1 DEF Heap, Geometry, HeapRecords, BinLists
<1>4. 1 \in DOMAIN m.bins[s]
  BY <1>1, <1>3
<1>5. m.bins[s][1] \in Listed(m.bins[s])
  BY <1>4 DEF Listed
<1> QED BY <1>1, <1>2, <1>5 DEF OldestOf

(* granularity_align rounds up.                                              *)
LEMMA AlignUp ==
    ASSUME NEW n \in Int
    PROVE  granularity_align(n) \in Int /\ granularity_align(n) >= n
  BY ChunksAssumption DEF granularity_align

(* Giving up on a contiguous break changes nothing in the heap.              *)
LEMMA OffHeap ==
    ASSUME NEW m, NEW L
    PROVE  LET r == [m EXCEPT !.contiguous = FALSE] IN
           /\ \A K : Heap(m, K, L) => Heap(r, K, L)
           /\ Fresh(m) => Fresh(r)
           /\ m \in HeapRecords => /\ r.head = m.head /\ r.foot = m.foot /\ r.top = m.top
                                   /\ r.topsize = m.topsize /\ r.brk = m.brk
<1> DEFINE r == [m EXCEPT !.contiguous = FALSE]
<1>1. m \in HeapRecords =>
          /\ r \in HeapRecords /\ r.head = m.head /\ r.foot = m.foot /\ SameEnds(m, r)
          /\ SameIndex(m, r)
  BY DEF HeapRecords, SameEnds, SameIndex
<1> HIDE DEF r
<1>2. ASSUME NEW K, Heap(m, K, L) PROVE Heap(r, K, L)
  <2>1. Geometry(m, K) /\ L = UsedIn(m, K) /\ Indexed(m, FreeIn(m, K))
    BY <1>2 DEF Heap
  <2>2. /\ r \in HeapRecords /\ r.head = m.head /\ r.foot = m.foot /\ SameEnds(m, r)
        /\ SameIndex(m, r)
    BY <1>1, <2>1 DEF Geometry
  <2>3. Geometry(r, K)
    BY <2>1, <2>2 DEF Geometry, SameEnds, Hi
  <2>4. FreeIn(r, K) = FreeIn(m, K) /\ UsedIn(r, K) = UsedIn(m, K)
    BY <2>2 DEF FreeIn, UsedIn, SameEnds
  <2>5. Indexed(r, FreeIn(m, K))
    BY <2>1, <2>2 DEF Indexed, SameIndex
  <2> QED BY <2>1, <2>3, <2>4, <2>5 DEF Heap
<1>3. Fresh(m) => Fresh(r)
  BY <1>1 DEF Fresh, SameEnds, SameIndex
<1>4. m \in HeapRecords => /\ r.head = m.head /\ r.foot = m.foot /\ r.top = m.top
                           /\ r.topsize = m.topsize /\ r.brk = m.brk
  BY <1>1 DEF SameEnds
<1> QED BY <1>2, <1>3, <1>4 DEF r

(* Blocks stay when the words do.                                            *)
LEMMA SameWordsKept ==
    ASSUME NEW m, NEW r, r.head = m.head, r.foot = m.foot, NEW Q
    PROVE  Kept(m, r, Q)
  BY DEF Kept, SameBlock

(* What is got of a heap that has grown was got of the heap.                 *)
LEMMA GotTwice ==
    ASSUME NEW m, NEW n, NEW r, NEW L, NEW p, NEW nb, Kept(m, n, L), Got(n, r, L, p, nb)
    PROVE  Got(m, r, L, p, nb)
<1>1. Kept(m, r, L)
  BY KeptTwice DEF Got
<1> QED BY <1>1 DEF Got

(* The break is moved by x, and the chunk cut from top.                      *)
LEMMA GrownGot ==
    ASSUME NEW m, NEW L, HeapOK(m, L), NEW nb \in Int, nb >= 2, NEW x \in Int, sbrk_ok(m, x),
           x >= TopFoot + 1, x >= nb - m.topsize + TopFoot + 1
    PROVE  LET r == FromTop(Extended(m, x), nb) IN
           r.p # NULL /\ Got(m, r.m, L, r.p, nb)
<1> DEFINE n == Extended(m, x)
<1>1. m \in HeapRecords
  BY DEF HeapOK, Fresh, Heap, Geometry
<1>2. x \in Units /\ x >= 1 /\ x > TopFoot /\ m.brk + x <= MaxBrk /\ m.topsize \in Int
      /\ m.topsize >= 0
  BY <1>1, ChunksAssumption DEF sbrk_ok, HeapRecords, Units
<1>3. (\E K : Heap(n, K, L)) /\ Kept(m, n, L) /\ nb < n.topsize
  <2>1. CASE Fresh(m) /\ L = {}
    <3>1. (\E K : Heap(n, K, {})) /\ n.topsize = x - TopFoot
      BY <1>2, <2>1, FirstHeap
    <3>2. m.topsize = 0
      BY <2>1 DEF Fresh
    <3> HIDE DEF n
    <3>3. Kept(m, n, L)
      BY <2>1 DEF Kept
    <3>4. nb < n.topsize
      BY <3>1, <3>2, ChunksAssumption
    <3> QED BY <2>1, <3>1, <3>3, <3>4
  <2>2. CASE \E K : Heap(m, K, L)
    <3>1. PICK K : Heap(m, K, L)
      BY <2>2
    <3>2. Heap(n, K, L) /\ Kept(m, n, L) /\ n.topsize = m.topsize + x
      BY <1>2, <3>1, ExtendHeap
    <3> HIDE DEF n
    <3>3. nb < n.topsize
      BY <1>2, <3>2, ChunksAssumption
    <3> QED BY <3>2, <3>3
  <2> QED BY <2>1, <2>2 DEF HeapOK
<1> HIDE DEF n
<1>4. PICK K : Heap(n, K, L)
  BY <1>3
<1>5. nb \in Sizes
  <2>1. n.topsize \in Units
    BY <1>4 DEF Heap, Geometry, HeapRecords
  <2> QED BY <1>3, <2>1, ChunksAssumption DEF Sizes, Units
<1>6. Got(n, FromTop(n, nb).m, L, n.top, nb) /\ FromTop(n, nb).p = n.top
  BY <1>3, <1>4, <1>5, FromTopGot
<1>7. Got(m, FromTop(n, nb).m, L, n.top, nb)
  BY <1>3, <1>6, GotTwice
<1>8. n.top # NULL
  BY <1>6 DEF Got
<1> QED BY <1>6, <1>7, <1>8 DEF n

(* request2size gives a chunk of MinChunk at least.                          *)
LEMMA ChunkSize ==
    ASSUME NEW bytes \in Nat
    PROVE  request2size(bytes) \in Int /\ request2size(bytes) >= 2
  BY DEF request2size, MinChunk, WordBytes, UnitBytes

(* sys_alloc gives a chunk, or NULL and the same heap.                       *)
LEMMA SysAllocAnswered ==
    ASSUME NEW m, NEW L, HeapOK(m, L), NEW nb \in Int, nb >= 2, nb >= m.topsize
    PROVE  Answered(m, sys_alloc(m, nb), L, nb)
<1> DEFINE off == [m EXCEPT !.contiguous = FALSE]
           x == Missing(m, nb)
           y == granularity_align(nb + TopFoot + 1)
<1>1. m \in HeapRecords
  BY DEF HeapOK, Fresh, Heap, Geometry
<1>2. m.topsize \in Int /\ m.topsize >= 0
  BY <1>1, ChunksAssumption DEF HeapRecords, Units
<1>3. x \in Int /\ x >= nb - m.topsize + TopFoot + 1 /\ x >= TopFoot + 1
  <2>1. CASE m.top = NULL
    <3>1. x \in Int /\ x >= nb + TopFoot + 1
      BY <2>1, ChunksAssumption, AlignUp DEF Missing
    <3> HIDE DEF x
    <3> QED BY <1>2, <3>1, ChunksAssumption
  <2>2. CASE m.top # NULL
    <3>0. nb - m.topsize + TopFoot + 1 \in Int
      BY <1>2, ChunksAssumption
    <3>1. x \in Int /\ x >= nb - m.topsize + TopFoot + 1
      BY <2>2, <3>0, AlignUp DEF Missing
    <3> HIDE DEF x
    <3> QED BY <1>2, <3>1, ChunksAssumption
  <2> QED BY <2>1, <2>2
<1>4. y \in Int /\ y >= nb - m.topsize + TopFoot + 1 /\ y >= TopFoot + 1
  <2>0. nb + TopFoot + 1 \in Int
    BY ChunksAssumption
  <2>1. y \in Int /\ y >= nb + TopFoot + 1
    BY <2>0, AlignUp
  <2> HIDE DEF y
  <2> QED BY <1>2, <2>1, ChunksAssumption
<1>5. /\ HeapOK(off, L) /\ off.head = m.head /\ off.foot = m.foot
      /\ off.topsize = m.topsize /\ off.brk = m.brk
  BY <1>1, OffHeap DEF HeapOK
<1>6. sys_alloc(m, nb) =
        IF m.contiguous /\ sbrk_ok(m, x) THEN FromTop(Extended(m, x), nb)
        ELSE IF sbrk_ok(m, y) THEN FromTop(Extended(off, y), nb)
        ELSE Result(off, NULL)
  BY DEF sys_alloc
<1> HIDE DEF x, y, off
<1>7. CASE m.contiguous /\ sbrk_ok(m, x)
  <2>1. LET r == FromTop(Extended(m, x), nb) IN r.p # NULL /\ Got(m, r.m, L, r.p, nb)
    BY <1>3, <1>7, GrownGot
  <2> QED BY <1>6, <1>7, <2>1 DEF Answered
<1>8. CASE ~(m.contiguous /\ sbrk_ok(m, x)) /\ sbrk_ok(m, y)
  <2>1. sbrk_ok(off, y)
    BY <1>5, <1>8 DEF sbrk_ok
  <2>2. LET r == FromTop(Extended(off, y), nb) IN r.p # NULL /\ Got(off, r.m, L, r.p, nb)
    BY <1>4, <1>5, <2>1, GrownGot
  <2>3. Kept(m, off, L)
    BY <1>5, SameWordsKept
  <2>4. LET r == FromTop(Extended(off, y), nb) IN r.p # NULL /\ Got(m, r.m, L, r.p, nb)
    BY <2>2, <2>3, GotTwice
  <2> QED BY <1>6, <1>8, <2>4 DEF Answered
<1>9. CASE ~(m.contiguous /\ sbrk_ok(m, x)) /\ ~sbrk_ok(m, y)
  <2>1. sys_alloc(m, nb).p = NULL /\ sys_alloc(m, nb).m = off
    BY <1>6, <1>9 DEF Result
  <2>2. Kept(m, off, L)
    BY <1>5, SameWordsKept
  <2> QED BY <1>5, <2>1, <2>2 DEF Answered
<1> QED BY <1>7, <1>8, <1>9

(* A chunk got is an answer.                                                 *)
LEMMA GotAnswered ==
    ASSUME NEW m, NEW r, NEW L, NEW p, NEW nb, Got(m, r, L, p, nb)
    PROVE  Answered(m, Result(r, p), L, nb)
  BY DEF Got, Answered, Result

(* A chunk from a bin large enough is an answer.                             *)
LEMMA FromBinAnswered ==
    ASSUME NEW m, NEW K, NEW L, Heap(m, K, L), NEW s \in Marked(m),
           NEW nb \in Int, nb >= 2, nb <= s, NEW dv \in BOOLEAN
    PROVE  Answered(m, FromBin(m, s, nb, dv), L, nb)
<1> DEFINE p == OldestOf(m, s)
<1>1. s \in Sizes /\ p \in FreeIn(m, K) /\ p # m.dv /\ m.head[p].size = s
  BY MarkedBin
<1>2. nb \in Sizes
  BY <1>1, ChunksAssumption DEF Sizes
<1> HIDE DEF p
<1>3. Got(m, Cut(unlink_chunk(m, p, s), p, nb, dv), L, p, nb)
  BY <1>1, <1>2, CutGot
<1> QED BY <1>3, GotAnswered DEF FromBin, p

(* Before the first segment there is nothing to take.                        *)
LEMMA FreshIndex ==
    ASSUME NEW m, NEW L, HeapOK(m, L)
    PROVE  /\ m \in HeapRecords /\ m.topsize \in Int /\ m.topsize >= 0 /\ m.dvsize \in Int
           /\ m.dvsize >= 0
           /\ Marked(m) # {} \/ m.dvsize # 0 \/ m.topsize # 0 => \E K : Heap(m, K, L)
           /\ Marked(m) \in SUBSET Sizes
<1>1. m \in HeapRecords
  BY DEF HeapOK, Fresh, Heap, Geometry
<1>2. m.topsize \in Int /\ m.topsize >= 0 /\ m.dvsize \in Int /\ m.dvsize >= 0
  BY <1>1, ChunksAssumption DEF HeapRecords, Units
<1>3. Fresh(m) => Marked(m) = {} /\ m.dvsize = 0 /\ m.topsize = 0
  BY DEF Fresh, Marked
<1>4. Marked(m) \in SUBSET Sizes
  BY DEF Marked
<1> QED BY <1>1, <1>2, <1>3, <1>4 DEF HeapOK

(* dlmalloc gives a chunk large enough that nobody holds and keeps every     *)
(* block, or it gives NULL and the heap is as right as before.               *)
LEMMA MallocAnswered ==
    ASSUME NEW m, NEW L, HeapOK(m, L), NEW bytes \in Nat
    PROVE  Answered(m, dlmalloc(m, bytes), L, request2size(bytes))
<1> DEFINE nb == request2size(bytes)
           larger == {s \in Marked(m) : s > nb}
           small == {s \in larger : is_small(s)}
           fit == {s \in Marked(m) : s >= nb}
           r == dlmalloc(m, bytes)
<1>1. nb \in Int /\ nb >= 2
  BY ChunkSize
<1>2. /\ m \in HeapRecords /\ m.topsize \in Int /\ m.topsize >= 0 /\ m.dvsize \in Int
      /\ m.dvsize >= 0 /\ Marked(m) \in SUBSET Sizes
      /\ Marked(m) # {} \/ m.dvsize # 0 \/ m.topsize # 0 => \E K : Heap(m, K, L)
  BY FreshIndex
<1>3. CASE bytes >= Huge
  <2>1. r = Result(m, NULL)
    BY <1>3 DEF dlmalloc
  <2>2. Kept(m, m, L)
    BY SameWordsKept
  <2> QED BY <2>1, <2>2 DEF Answered, Result
<1> DEFINE exact == is_small(nb) /\ m.bins[nb] # <<>>
           small2 == is_small(nb) /\ nb > m.dvsize /\ small # {}
           large2 == is_small(nb) /\ nb > m.dvsize /\ larger # {}
           tree == ~is_small(nb) /\ tmalloc_large(m, nb)
<1>4. CASE ~(bytes >= Huge) /\ exact
  <2>1. r = Result(set_inuse_and_pinuse(unlink_chunk(m, OldestOf(m, nb), nb),
                                        OldestOf(m, nb), nb), OldestOf(m, nb))
    BY <1>4 DEF dlmalloc
  <2>2. nb \in Sizes
    BY <1>1, <1>4, ChunksAssumption DEF is_small, Sizes
  <2>3. nb \in Marked(m)
    BY <1>4, <2>2 DEF Marked
  <2> DEFINE p == OldestOf(m, nb)
  <2>4. PICK K : Heap(m, K, L)
    BY <1>2, <2>3
  <2>5. p \in FreeIn(m, K) /\ p # m.dv /\ m.head[p].size = nb
    BY <2>3, <2>4, MarkedBin
  <2> HIDE DEF nb, p
  <2>6. Got(m, set_inuse_and_pinuse(unlink_chunk(m, p, nb), p, nb), L, p, nb)
    BY <2>2, <2>4, <2>5, ExactGot
  <2> QED BY <2>1, <2>6, GotAnswered DEF p, nb
<1>5. CASE ~(bytes >= Huge) /\ ~exact /\ small2
  <2>1. r = FromBin(m, Least(small), nb, TRUE)
    BY <1>5 DEF dlmalloc
  <2>2. Least(small) \in small
    BY <1>2, <1>5, LeastSize
  <2>3. Least(small) \in Marked(m) /\ Least(small) > nb /\ Least(small) \in Int
    BY <1>2, <2>2 DEF Sizes
  <2>4. PICK K : Heap(m, K, L)
    BY <1>2, <2>3
  <2> DEFINE s == Least(small)
  <2>5. s \in Marked(m) /\ nb <= s
    BY <1>1, <2>3
  <2> HIDE DEF s, nb
  <2>6. Answered(m, FromBin(m, s, nb, TRUE), L, nb)
    BY <1>1, <2>4, <2>5, FromBinAnswered
  <2> QED BY <2>1, <2>6 DEF s, nb
<1>6. CASE ~(bytes >= Huge) /\ ~exact /\ ~small2 /\ large2
  <2>1. r = FromBin(m, Least(larger), nb, TRUE)
    BY <1>6 DEF dlmalloc
  <2>2. Least(larger) \in larger
    BY <1>2, <1>6, LeastSize
  <2>3. Least(larger) \in Marked(m) /\ Least(larger) > nb /\ Least(larger) \in Int
    BY <1>2, <2>2 DEF Sizes
  <2>4. PICK K : Heap(m, K, L)
    BY <1>2, <2>3
  <2> DEFINE s == Least(larger)
  <2>5. s \in Marked(m) /\ nb <= s
    BY <1>1, <2>3
  <2> HIDE DEF s, nb
  <2>6. Answered(m, FromBin(m, s, nb, TRUE), L, nb)
    BY <1>1, <2>4, <2>5, FromBinAnswered
  <2> QED BY <2>1, <2>6 DEF s, nb
<1>7. CASE ~(bytes >= Huge) /\ ~exact /\ ~small2 /\ ~large2 /\ tree
  <2>1. r = FromBin(m, Least(fit), nb, FALSE)
    BY <1>7 DEF dlmalloc
  <2>2. Least(fit) \in fit
    <3>1. fit # {}
      BY <1>7 DEF tmalloc_large
    <3> QED BY <1>2, <3>1, LeastSize
  <2>3. Least(fit) \in Marked(m) /\ nb <= Least(fit)
    BY <1>1, <1>2, <2>2 DEF Sizes
  <2>4. PICK K : Heap(m, K, L)
    BY <1>2, <2>3
  <2> DEFINE s == Least(fit)
  <2>5. s \in Marked(m) /\ nb <= s
    BY <2>3
  <2> HIDE DEF s, nb
  <2>6. Answered(m, FromBin(m, s, nb, FALSE), L, nb)
    BY <1>1, <2>4, <2>5, FromBinAnswered
  <2> QED BY <2>1, <2>6 DEF s, nb
<1>8. CASE ~(bytes >= Huge) /\ ~exact /\ ~small2 /\ ~large2 /\ ~tree /\ nb <= m.dvsize
  <2>1. r = FromDv(m, nb)
    BY <1>8 DEF dlmalloc
  <2>2. nb \in Sizes /\ m.dvsize # 0
    BY <1>1, <1>2, <1>8, ChunksAssumption DEF HeapRecords, Units, Sizes
  <2>3. PICK K : Heap(m, K, L)
    BY <1>2, <2>2
  <2> HIDE DEF nb
  <2>4. Got(m, FromDv(m, nb).m, L, m.dv, nb) /\ FromDv(m, nb).p = m.dv
    BY <1>8, <2>2, <2>3, FromDvGot
  <2> QED BY <2>1, <2>4 DEF Answered, Got, nb
<1>9. CASE /\ ~(bytes >= Huge) /\ ~exact /\ ~small2 /\ ~large2 /\ ~tree
           /\ ~(nb <= m.dvsize) /\ nb < m.topsize
  <2>1. r = FromTop(m, nb)
    BY <1>9 DEF dlmalloc
  <2>2. nb \in Sizes /\ m.topsize # 0
    BY <1>1, <1>2, <1>9, ChunksAssumption DEF HeapRecords, Units, Sizes
  <2>3. PICK K : Heap(m, K, L)
    BY <1>2, <2>2
  <2> HIDE DEF nb
  <2>4. Got(m, FromTop(m, nb).m, L, m.top, nb) /\ FromTop(m, nb).p = m.top
    BY <1>9, <2>2, <2>3, FromTopGot
  <2> QED BY <2>1, <2>4 DEF Answered, Got, nb
<1>10. CASE /\ ~(bytes >= Huge) /\ ~exact /\ ~small2 /\ ~large2 /\ ~tree
            /\ ~(nb <= m.dvsize) /\ ~(nb < m.topsize)
  <2>1. r = sys_alloc(m, nb)
    BY <1>10 DEF dlmalloc
  <2>2. nb >= m.topsize
    BY <1>1, <1>2, <1>10
  <2> HIDE DEF nb
  <2>3. Answered(m, sys_alloc(m, nb), L, nb)
    BY <1>1, <2>2, SysAllocAnswered
  <2> QED BY <2>1, <2>3 DEF nb
<1> QED BY <1>3, <1>4, <1>5, <1>6, <1>7, <1>8, <1>9, <1>10
-----------------------------------------------------------------------------

(* A chunk is freed: a run of chunks, all in use or free, becomes one.       *)

(* From a to b lie whole chunks of m: p, in use, and free ones; G are the    *)
(* free chunks elsewhere.                                                    *)
Run(m, K, L, p, a, b, G) ==
    /\ a \in K /\ b \in K \cup {Hi(m)} /\ a < b /\ m.head[a].pinuse = TRUE
    /\ L \ (a..(b - 1)) = L \ {p} /\ FreeIn(m, K) \ (a..(b - 1)) = G

(* The heap r in which the block p of m is free.                             *)
Freed(m, r, L, p) == (\E K2 : Heap(r, K2, L \ {p})) /\ Kept(m, r, L \ {p})

(* Chunks in a row, in no index, become one free chunk.                      *)
LEMMA MergeRun ==
    ASSUME NEW m, NEW K, NEW L, Heap(m, K, L), NEW p, NEW a, NEW b, NEW G, Run(m, K, L, p, a, b, G),
           NEW r, Reshaped(m, r, a, a, b), r.head[a].cinuse = FALSE,
           Indexed(r, IF b = Hi(m) THEN G ELSE G \cup {a})
    PROVE  Freed(m, r, L, p)
<1>1. Geometry(m, K)
  BY DEF Heap
<1>2. /\ a \in K /\ b \in K \cup {Hi(m)} /\ a < b
      /\ L \ (a..(b - 1)) = L \ {p} /\ FreeIn(m, K) \ (a..(b - 1)) = G
  BY DEF Run
<1>3. a \in Int /\ b \in Int /\ Hi(m) \in Int /\ \A x \in K : x < Hi(m)
  BY <1>1, <1>2, GeometryFacts
<1>4. a \in a..(b - 1)
  BY <1>2, <1>3
<1>5. b = Hi(m) => r.top = a
  BY DEF Reshaped
<1>6. b # Hi(m) => r.top # a
  <2>1. CASE b # Hi(m)
    <3>1. b \in K /\ r.top = m.top
      BY <1>2, <2>1 DEF Reshaped
    <3>2. End(m.head, a) <= b
      BY <1>1, <1>2, <3>1 DEF Geometry, Tiled
    <3>3. End(m.head, m.top) = Hi(m)
      BY <1>1, GeometryFacts
    <3> QED BY <1>3, <3>1, <3>2, <3>3
  <2> QED BY <2>1
<1>7. FreeAfter(m, r, K, a, a, b) = IF b = Hi(m) THEN G ELSE G \cup {a}
  BY <1>2, <1>5, <1>6 DEF FreeAfter
<1>8. UsedAfter(r, L, a, a, b) = L \ {p}
  BY <1>2 DEF UsedAfter
<1>9. HeapAfter(m, r, K, L, a, a, b)
  BY <1>2, <1>4, <1>7, Reshape
<1>10. Heap(r, Chunks2(K, a, a, b), L \ {p}) /\ Kept(m, r, L \ {p})
  BY <1>2, <1>8, <1>9 DEF HeapAfter
<1> QED BY <1>10 DEF Freed

(* The run reaches over the free chunk after it, or over top.                *)
LEMMA RunOn ==
    ASSUME NEW m, NEW K, NEW L, Heap(m, K, L), NEW p, NEW a, NEW b, NEW G, Run(m, K, L, p, a, b, G),
           b \in FreeIn(m, K), NEW q, EndsAt(m, b, q)
    PROVE  Run(m, K, L, p, a, q, G \ {b}) /\ q \in K /\ q # Hi(m) /\ m.head[q].pinuse = FALSE
           /\ m.head[q].cinuse = TRUE /\ b \in G
<1>1. Geometry(m, K) /\ L = UsedIn(m, K)
  BY DEF Heap
<1>2. FreeAt(m, K, b, q)
  BY <1>1, FreeFacts
<1>3. /\ b \in K /\ m.head[b].cinuse = FALSE /\ q \in K /\ q # Hi(m) /\ b < q
      /\ m.head[q].pinuse = FALSE /\ m.head[q].cinuse = TRUE
      /\ \A x \in K : x \in b..(q - 1) <=> x = b
  BY <1>2 DEF FreeAt
<1>4. /\ a \in K /\ a < b /\ m.head[a].pinuse = TRUE
      /\ L \ (a..(b - 1)) = L \ {p} /\ FreeIn(m, K) \ (a..(b - 1)) = G
  BY DEF Run
<1>5. a \in Int /\ b \in Int /\ q \in Int /\ \A x \in K : x \in Int
  BY <1>1, <1>3, <1>4, GeometryFacts
<1>6. \A x \in K : x \in a..(q - 1) <=> x \in a..(b - 1) \/ x = b
  BY <1>3, <1>4, <1>5
<1>7. b \notin a..(b - 1) /\ b \notin L /\ L \subseteq K /\ FreeIn(m, K) \subseteq K
  BY <1>1, <1>3, <1>5 DEF UsedIn, FreeIn
<1>8. L \ (a..(q - 1)) = L \ {p} /\ FreeIn(m, K) \ (a..(q - 1)) = G \ {b} /\ b \in G
  BY <1>4, <1>6, <1>7
<1>9. a < q
  BY <1>3, <1>4, <1>5
<1> QED BY <1>3, <1>4, <1>8, <1>9 DEF Run

(* Where top is, of a run that ends before it.                               *)
LEMMA RunTop ==
    ASSUME NEW m, NEW K, NEW L, Heap(m, K, L), NEW p, NEW a, NEW b, NEW G, Run(m, K, L, p, a, b, G),
           b = m.top
    PROVE  Run(m, K, L, p, a, Hi(m), G) /\ b < Hi(m)
<1>1. Geometry(m, K) /\ L = UsedIn(m, K)
  BY DEF Heap
<1>2. /\ b \in K /\ m.head[b].cinuse = FALSE /\ b < Hi(m) /\ Hi(m) \in Int
      /\ \A x \in K : x \in Int /\ x < Hi(m) /\ (b < x => Hi(m) <= x)
  <2>1. /\ b \in K /\ m.head[b].cinuse = FALSE /\ b < Hi(m) /\ Hi(m) \in Int
        /\ \A x \in K : x \in Int /\ x < Hi(m)
        /\ End(m.head, b) = Hi(m)
    BY <1>1, GeometryFacts
  <2> QED BY <1>1, <2>1 DEF Geometry, Tiled
<1>4. /\ a \in K /\ a < b /\ m.head[a].pinuse = TRUE
      /\ L \ (a..(b - 1)) = L \ {p} /\ FreeIn(m, K) \ (a..(b - 1)) = G
  BY DEF Run
<1>6. \A x \in K : x \in a..(Hi(m) - 1) <=> x \in a..(b - 1) \/ x = b
  BY <1>2, <1>4
<1>7. b \notin FreeIn(m, K) /\ b \notin L /\ L \subseteq K /\ FreeIn(m, K) \subseteq K
  BY <1>1, <1>2 DEF UsedIn, FreeIn
<1>8. L \ (a..(Hi(m) - 1)) = L \ {p} /\ FreeIn(m, K) \ (a..(Hi(m) - 1)) = G
  BY <1>4, <1>6, <1>7
<1>9. a < Hi(m)
  BY <1>2, <1>4
<1> QED BY <1>2, <1>4, <1>8, <1>9 DEF Run

(* A block and what lies before and after it.                                *)
UsedAt(m, K, p, q) ==
    /\ p \in K /\ q \in K /\ q # Hi(m) /\ p < q /\ p # m.top /\ m.head[p].cinuse = TRUE
    /\ m.head[q].pinuse = TRUE /\ m.head[q].cinuse \in BOOLEAN /\ m.head[p].pinuse \in BOOLEAN
    /\ \A x \in K : x \in p..(q - 1) <=> x = p

(* The chunk in use at p, and the one at q after it.                         *)
LEMMA UsedFacts ==
    ASSUME NEW m, NEW K, NEW L, Heap(m, K, L), NEW p \in L, NEW q, EndsAt(m, p, q)
    PROVE  UsedAt(m, K, p, q)
<1>0. q = End(m.head, p) /\ Geometry(m, K) /\ L = UsedIn(m, K)
  BY DEF EndsAt, Heap
<1>1. p \in K /\ m.head[p].cinuse
  BY <1>0 DEF UsedIn
<1>2. /\ \A x \in K : m.head[x].cinuse \in BOOLEAN /\ m.head[x].pinuse \in BOOLEAN
      /\ \A x \in K : x \in Int /\ x < Hi(m) /\ End(m.head, x) \in K \cup {Hi(m)}
                      /\ x < End(m.head, x) /\ End(m.head, x) \in Int
      /\ m.top \in K /\ End(m.head, m.top) = Hi(m) /\ Hi(m) \in Int /\ m.head[m.top].cinuse = FALSE
      /\ m.head \in Heads /\ m.seg.base \in Units /\ Hi(m) \in Units
  <2>1. \A x \in K : m.head[x] \in [size : Amounts, pinuse : BOOLEAN, cinuse : BOOLEAN]
    BY <1>0, GeometryFacts DEF Heads
  <2> QED BY <1>0, <2>1, GeometryFacts
<1>3. Tiled(m.head, K, m.seg.base, Hi(m)) /\ Tagged(m.head, m.foot, K, m.seg.base, Hi(m))
  BY <1>0 DEF Geometry
<1>4. \A x, y \in K : End(m.head, x) = End(m.head, y) => x = y
  BY <1>2, <1>3, InTiled
<1>5. q # Hi(m) /\ q \in K /\ p # m.top
  BY <1>0, <1>1, <1>2, <1>4
<1>6. Tag(m.head, m.foot, p, q)
  BY <1>0, <1>1, <1>3, <1>5 DEF Tagged
<1>7. m.head[q].pinuse = TRUE
  BY <1>1, <1>2, <1>5, <1>6 DEF Tag
<1>9. ASSUME NEW x \in K PROVE x \in p..(q - 1) <=> x = p
  <2>1. x \in Int /\ p \in Int /\ q \in Int /\ p < q
    BY <1>0, <1>1, <1>2
  <2>2. p < x => q <= x
    BY <1>0, <1>1, <1>3 DEF Tiled
  <2> QED BY <2>1, <2>2
<1> QED BY <1>0, <1>1, <1>2, <1>5, <1>7, <1>9 DEF UsedAt

(* The run of one chunk.                                                     *)
LEMMA RunAlone ==
    ASSUME NEW m, NEW K, NEW L, Heap(m, K, L), NEW p \in L, NEW q, EndsAt(m, p, q),
           m.head[p].pinuse = TRUE
    PROVE  Run(m, K, L, p, p, q, FreeIn(m, K))
<1>1. L = UsedIn(m, K)
  BY DEF Heap
<1>2. UsedAt(m, K, p, q)
  BY UsedFacts
<1>3. /\ p \in K /\ q \in K /\ p < q /\ m.head[p].cinuse = TRUE
      /\ \A x \in K : x \in p..(q - 1) <=> x = p
  BY <1>2 DEF UsedAt
<1>4. L \ (p..(q - 1)) = L \ {p} /\ FreeIn(m, K) \ (p..(q - 1)) = FreeIn(m, K)
  BY <1>1, <1>3 DEF UsedIn, FreeIn
<1> QED BY <1>3, <1>4 DEF Run

RunFrom(m, K, L, p, q, a, s) ==
    /\ Run(m, K, L, p, a, q, FreeIn(m, K) \ {a}) /\ a \in FreeIn(m, K)
    /\ m.head[a].size = s /\ Follows(p, a, s)

(* The run of a chunk and the free one before it.                            *)
LEMMA RunBack ==
    ASSUME NEW m, NEW K, NEW L, Heap(m, K, L), NEW p \in L, NEW q, EndsAt(m, p, q),
           m.head[p].pinuse = FALSE
    PROVE  RunFrom(m, K, L, p, q, p - m.foot[p], m.foot[p])
<1>1. L = UsedIn(m, K) /\ Geometry(m, K)
  BY DEF Heap
<1>2. UsedAt(m, K, p, q)
  BY UsedFacts
<1>3. /\ p \in K /\ q \in K /\ p < q /\ m.head[p].cinuse = TRUE
      /\ \A x \in K : x \in p..(q - 1) <=> x = p
  BY <1>2 DEF UsedAt
<1>4. p # m.seg.base
  BY <1>1 DEF Geometry, Tagged
<1>5. PICK a \in K : End(m.head, a) = p
  BY <1>1, <1>3, <1>4 DEF Geometry, Tiled
<1>6. /\ p \in Int /\ a \in Int /\ q \in Int /\ a < p /\ p # Hi(m) /\ m.head[a].size \in Int
      /\ End(m.head, m.top) = Hi(m) /\ \A x \in K : x \in Int /\ m.head[x].cinuse \in BOOLEAN
  <2>1. \A x \in K : m.head[x] \in [size : Amounts, pinuse : BOOLEAN, cinuse : BOOLEAN]
    BY <1>1, GeometryFacts DEF Heads
  <2>2. /\ \A x \in K : x \in Int /\ x < Hi(m) /\ m.head[x].size \in Int /\ x < End(m.head, x)
        /\ End(m.head, m.top) = Hi(m) /\ Hi(m) \in Int
    BY <1>1, GeometryFacts
  <2> QED BY <1>3, <1>5, <2>1, <2>2
<1>7. Tag(m.head, m.foot, a, p)
  BY <1>1, <1>5, <1>6 DEF Geometry, Tagged
<1>8. m.head[a].cinuse = FALSE /\ m.foot[p] = m.head[a].size
  BY <1>6, <1>7 DEF Tag
<1>9. a = p - m.foot[p] /\ Follows(p, a, m.foot[p])
  BY <1>5, <1>6, <1>8 DEF End, Follows
<1>10. a \in FreeIn(m, K)
  BY <1>5, <1>6, <1>8 DEF FreeIn
<1>11. EndsAt(m, a, p)
  BY <1>5 DEF EndsAt
<1>12. FreeAt(m, K, a, p)
  BY <1>1, <1>10, <1>11, FreeFacts
<1>13. m.head[a].pinuse = TRUE /\ \A x \in K : x \in a..(p - 1) <=> x = a
  BY <1>12 DEF FreeAt
<1>14. \A x \in K : x \in a..(q - 1) <=> x \in a..(p - 1) \/ x \in p..(q - 1)
  BY <1>3, <1>6
<1>15. a < q
  BY <1>3, <1>6
<1>16. L \ (a..(q - 1)) = L \ {p} /\ FreeIn(m, K) \ (a..(q - 1)) = FreeIn(m, K) \ {a}
  BY <1>1, <1>3, <1>8, <1>13, <1>14 DEF UsedIn, FreeIn
<1>17. Run(m, K, L, p, a, q, FreeIn(m, K) \ {a})
  BY <1>3, <1>5, <1>13, <1>15, <1>16 DEF Run
<1> HIDE DEF Run
<1> QED BY <1>8, <1>9, <1>10, <1>17 DEF RunFrom

(* The size of a run.                                                        *)
LEMMA RunSizes ==
    ASSUME NEW m, NEW K, NEW L, Heap(m, K, L), NEW p, NEW a, NEW b, NEW G, Run(m, K, L, p, a, b, G),
           NEW r, Within(m.head, m.foot, r.head, r.foot, a, b)
    PROVE  \A x \in G : r.head[x].size = m.head[x].size
<1>1. Geometry(m, K)
  BY DEF Heap
<1>2. a \in K /\ b \in K \cup {Hi(m)} /\ a < b /\ FreeIn(m, K) \ (a..(b - 1)) = G
  BY DEF Run
<1>3. Kept(m, r, K \ (a..(b - 1)))
  BY <1>1, <1>2, ReshapeKept
<1>4. G \subseteq K \ (a..(b - 1))
  BY <1>2 DEF FreeIn
<1> QED BY <1>3, <1>4 DEF Kept

(* The run freed before a chunk in use, and binned.                          *)
LEMMA MergedNext ==
    ASSUME NEW m, NEW K, NEW L, Heap(m, K, L), NEW p, NEW a, NEW b, NEW G, Run(m, K, L, p, a, b, G),
           b # Hi(m), m.head[b].cinuse = TRUE, NEW s \in Sizes, Follows(b, a, s),
           NEW n \in HeapRecords, SameWords(m, n), SameEnds(m, n),
           NEW o, MadeKnownFree(n, o, a, s, b),
           NEW r, Rebinned(o, r), Indexed(r, G \cup {a})
    PROVE  Freed(m, r, L, p)
<1>1. a \in K /\ a \in Int /\ b \in Int /\ s \in Int /\ m.head[a].pinuse = TRUE
  <2>1. a \in K /\ b \in K /\ m.head[a].pinuse = TRUE
    BY DEF Run
  <2>2. a \in Int /\ b \in Int
    BY <2>1, GeometryFacts DEF Heap
  <2> QED BY <2>1, <2>2 DEF Sizes
<1>2. /\ r.head = o.head /\ r.foot = o.foot /\ r \in HeapRecords /\ SameEnds(m, r)
      /\ Within(m.head, m.foot, r.head, r.foot, a, b)
      /\ r.head[a] = HeadWord(s, TRUE, FALSE) /\ r.foot[b] = s /\ r.head[b].pinuse = FALSE
  BY DEF Rebinned, MadeKnownFree, Rewritten, SameWords, SameEnds
<1>3. r.head[a].size = s /\ r.head[a].pinuse = TRUE /\ r.head[a].cinuse = FALSE
  BY <1>2 DEF HeadWord
<1>4. s = b - a
  BY <1>1 DEF Follows
<1>5. Tag(r.head, r.foot, a, b)
  BY <1>2, <1>3 DEF Tag, Within
<1>6. Reshaped(m, r, a, a, b)
  BY <1>1, <1>2, <1>3, <1>4, <1>5 DEF Reshaped, SameEnds
<1> HIDE DEF Run
<1> QED BY <1>3, <1>6, MergeRun

(* The run freed with the free chunk after it, and binned.                   *)
LEMMA MergedBoth ==
    ASSUME NEW m, NEW K, NEW L, Heap(m, K, L), NEW p, NEW a, NEW b, NEW G, Run(m, K, L, p, a, b, G),
           b # Hi(m), m.head[b].cinuse = TRUE, m.head[b].pinuse = FALSE,
           NEW s \in Sizes, Follows(b, a, s),
           NEW n \in HeapRecords, SameWords(m, n), SameEnds(m, n),
           NEW o, MadeFree(n, o, a, s, b),
           NEW r, Rebinned(o, r), Indexed(r, G \cup {a})
    PROVE  Freed(m, r, L, p)
<1>1. a \in K /\ a \in Int /\ b \in Int /\ s \in Int /\ m.head[a].pinuse = TRUE
      /\ a # b /\ b \in Units
  <2>1. a \in K /\ b \in K /\ m.head[a].pinuse = TRUE /\ a < b
    BY DEF Run
  <2>2. a \in Int /\ b \in Int /\ b \in Units
    BY <2>1, GeometryFacts DEF Heap
  <2> QED BY <2>1, <2>2 DEF Sizes
<1>2. /\ r.head = o.head /\ r.foot = o.foot /\ r \in HeapRecords /\ SameEnds(m, r)
      /\ Within(m.head, m.foot, r.head, r.foot, a, b)
      /\ r.head[a] = HeadWord(s, TRUE, FALSE) /\ r.foot[b] = s /\ r.head[b].pinuse = FALSE
  BY <1>1 DEF Rebinned, MadeFree, Rewritten, SameWords, SameEnds
<1>3. r.head[a].size = s /\ r.head[a].pinuse = TRUE /\ r.head[a].cinuse = FALSE
  BY <1>2 DEF HeadWord
<1>4. s = b - a
  BY <1>1 DEF Follows
<1>5. Tag(r.head, r.foot, a, b)
  BY <1>2, <1>3 DEF Tag, Within
<1>6. Reshaped(m, r, a, a, b)
  BY <1>1, <1>2, <1>3, <1>4, <1>5 DEF Reshaped, SameEnds
<1> HIDE DEF Run
<1> QED BY <1>3, <1>6, MergeRun

(* r is m with top from a on, s units before where it was.                   *)
TopGrown(m, r, a, s) ==
    /\ r \in HeapRecords /\ r.seg = m.seg /\ r.brk = m.brk /\ r.foot = m.foot
    /\ r.top = a /\ r.topsize = m.topsize + s
    /\ r.head[a] = HeadWord(m.topsize + s, TRUE, FALSE)
    /\ \A u \in Units : u # a => r.head[u] = m.head[u]

(* The run freed before top becomes part of it.                              *)
LEMMA MergedTop ==
    ASSUME NEW m, NEW K, NEW L, Heap(m, K, L), NEW p, NEW a, NEW b, NEW G, Run(m, K, L, p, a, b, G),
           b = m.top, NEW s \in Sizes, Follows(b, a, s),
           NEW r, TopGrown(m, r, a, s), Indexed(r, G)
    PROVE  Freed(m, r, L, p)
<1> DEFINE q == Hi(m)
<1>1. Run(m, K, L, p, a, q, G) /\ b < q
  BY RunTop
<1>2. Geometry(m, K)
  BY DEF Heap
<1>3. a \in K /\ m.head[a].pinuse = TRUE /\ a < q /\ a < b
  BY <1>1 DEF Run
<1>4. a \in Int /\ b \in Int /\ q \in Int /\ s \in Int /\ m.topsize \in Int /\ q = b + m.topsize
      /\ a \in Units /\ q \in Units
  <2>1. a \in Int /\ b \in Int /\ q \in Int /\ m.topsize \in Int /\ a \in Units /\ q \in Units
    BY <1>2, <1>3, GeometryFacts
  <2> QED BY <2>1 DEF Sizes, Hi
<1> HIDE DEF q
<1>5. m.topsize + s = q - a
  BY <1>4 DEF Follows
<1>6. /\ r.head[a].size = q - a /\ r.head[a].pinuse = TRUE /\ r.head[a].cinuse = FALSE
  BY <1>5 DEF TopGrown, HeadWord
<1>7. Within(m.head, m.foot, r.head, r.foot, a, q)
  <2>1. \A u \in Units : u \in Int
    BY ChunksAssumption DEF Units
  <2> QED BY <1>3, <1>4, <2>1 DEF Within, TopGrown
<1>8. Reshaped(m, r, a, a, q)
  BY <1>3, <1>5, <1>6, <1>7 DEF Reshaped, TopGrown, q
<1>9. q = Hi(m)
  BY DEF q
<1> HIDE DEF Run
<1> QED BY <1>1, <1>6, <1>8, <1>9, MergeRun

(* The run from a to b and the free chunk at b, up to q, of u units together.*)
BothFree(m, K, L, p, a, b, G, q, u) ==
    /\ Run(m, K, L, p, a, q, G \ {b}) /\ q # Hi(m) /\ q \in Units
    /\ m.head[q].cinuse = TRUE /\ m.head[q].pinuse = FALSE
    /\ b \in G /\ u \in Sizes /\ Follows(q, a, u) /\ m.head[b].size \in Sizes
    /\ a \in Units /\ a # NULL /\ a \notin G

(* A chunk and the free one after it, as sizes.                              *)
LEMMA BothSize ==
    ASSUME NEW m, NEW K, NEW L, Heap(m, K, L), NEW p, NEW a, NEW b, NEW G, Run(m, K, L, p, a, b, G),
           NEW s \in Sizes, Follows(b, a, s), b \in FreeIn(m, K),
           NEW u, u = s + m.head[b].size
    PROVE  BothFree(m, K, L, p, a, b, G, End(m.head, b), u)
<1> DEFINE q == End(m.head, b)
           t == m.head[b].size
<1>1. EndsAt(m, b, q) /\ Geometry(m, K) /\ q = b + t
  BY DEF EndsAt, Heap, End
<1>2. Run(m, K, L, p, a, q, G \ {b}) /\ q \in K /\ q # Hi(m) /\ m.head[q].pinuse = FALSE
      /\ m.head[q].cinuse = TRUE /\ b \in G
  BY <1>1, RunOn
<1>3. a \in K /\ a < b /\ b \in K /\ a \notin G
  <2>1. a \in K /\ a < b /\ b \in K /\ FreeIn(m, K) \ (a..(b - 1)) = G
    BY DEF Run, FreeIn
  <2>2. a \in Int /\ b \in Int
    BY <1>1, <2>1, GeometryFacts
  <2> QED BY <2>1, <2>2
<1>4. /\ a \in Int /\ b \in Int /\ q \in Int /\ t \in Int /\ t >= 1 /\ a \in Units /\ q \in Units
      /\ a # NULL /\ s \in Int /\ s >= 1 /\ t \in Sizes
  <2>1. /\ a \in Int /\ b \in Int /\ q \in Int /\ t \in Int /\ t >= 1 /\ a \in Units /\ q \in Units
        /\ a # NULL /\ t \in Sizes
    BY <1>1, <1>2, <1>3, GeometryFacts
  <2> QED BY <2>1 DEF Sizes
<1>5. u \in Sizes /\ Follows(q, a, u)
  <2>1. b = a + s
    BY DEF Follows
  <2> HIDE DEF t, q
  <2>2. u = s + t
    BY DEF t
  <2>3. q = a + u
    BY <1>1, <1>4, <2>1, <2>2
  <2> QED BY <1>4, <2>2, <2>3, ChunksAssumption DEF Sizes, Units, Follows
<1> HIDE DEF q
<1>6. BothFree(m, K, L, p, a, b, G, q, u)
  BY <1>2, <1>3, <1>4, <1>5 DEF BothFree
<1> QED BY <1>6 DEF q

(* a, not dv, is merged with what comes after it.                            *)
LEMMA ForwardFreed ==
    ASSUME NEW m, NEW K, NEW L, Heap(m, K, L), NEW p, NEW a, NEW b, NEW G, Run(m, K, L, p, a, b, G),
           b # Hi(m), NEW s \in Sizes, Follows(b, a, s),
           NEW n \in HeapRecords, SameWords(m, n), SameEnds(m, n), Indexed(n, G)
    PROVE  Freed(m, Forward(n, a, s, b), L, p)
<1> DEFINE t == n.head[b].size
           n2 == unlink_chunk(n, b, t)
           both == set_size_and_pinuse_of_free_chunk(n2, a, s + t)
           q == End(m.head, b)
           u == s + t
<1>0. n.head = m.head /\ n.foot = m.foot /\ n.top = m.top /\ n.topsize = m.topsize
      /\ n.seg = m.seg /\ n.brk = m.brk
  BY DEF SameWords, SameEnds
<1>1. /\ a \in K /\ a < b /\ b \in K /\ FreeIn(m, K) \ (a..(b - 1)) = G /\ Geometry(m, K)
      /\ L = UsedIn(m, K)
  BY DEF Run, Heap
<1>2. /\ a \in Int /\ b \in Int /\ a \in Units /\ b \in Units /\ a # NULL /\ s \in Int /\ s >= 1
      /\ NULL \notin K /\ m \in HeapRecords /\ m.topsize \in Int /\ m.topsize >= 1
      /\ Hi(m) \in Units /\ Hi(m) \in Int
  <2>1. /\ a \in Int /\ b \in Int /\ a \in Units /\ b \in Units /\ a # NULL
        /\ NULL \notin K /\ m \in HeapRecords /\ m.topsize \in Int /\ m.topsize >= 1
        /\ Hi(m) \in Units /\ Hi(m) \in Int
    BY <1>1, GeometryFacts
  <2> QED BY <2>1 DEF Sizes
<1>3. a \notin G /\ G \subseteq K /\ NULL \notin G
  BY <1>1, <1>2 DEF FreeIn
<1>4. a # n.dv
  BY <1>2, <1>3 DEF Indexed
<1>5. CASE m.head[b].cinuse
  <2> DEFINE o == set_free_with_pinuse(n, a, s, b)
             r == insert_chunk(o, a, s)
  <2>1. Forward(n, a, s, b) = r
    BY <1>0, <1>5 DEF Forward
  <2>2. MadeKnownFree(n, o, a, s, b)
    BY <1>2, FreeWithPinuse
  <2> HIDE DEF o
  <2>3. o \in HeapRecords /\ SameIndex(n, o) /\ Within(m.head, m.foot, o.head, o.foot, a, b)
        /\ o.head[a].size = s
    BY <1>0, <2>2 DEF MadeKnownFree, Rewritten, HeadWord
  <2>4. \A x \in G : o.head[x].size = n.head[x].size
    BY <1>0, <2>3, RunSizes
  <2>5. Indexed(o, G)
    BY <2>3, <2>4, SameIndexed
  <2>6. Rebinned(o, r) /\ Indexed(r, G \cup {a})
    BY <1>2, <1>3, <2>3, <2>5, InsertIndexed
  <2>7. m.head[b].cinuse = TRUE
    <3>1. m.head[b] \in [size : Amounts, pinuse : BOOLEAN, cinuse : BOOLEAN]
      BY <1>2 DEF HeapRecords, Heads
    <3> QED BY <1>5, <3>1
  <2> HIDE DEF r
  <2>8. Freed(m, r, L, p)
    BY <2>2, <2>6, <2>7, MergedNext
  <2> QED BY <2>1, <2>8
<1>6. CASE ~m.head[b].cinuse /\ b = m.top
  <2> DEFINE h == HeadWord(n.topsize + s, TRUE, FALSE)
             r == [n EXCEPT !.top = a, !.topsize = @ + s, !.head[a] = h]
  <2>1. Forward(n, a, s, b) = r
    BY <1>0, <1>4, <1>6 DEF Forward
  <2>2. n.topsize + s \in Units
    <3>1. Hi(m) = b + m.topsize /\ b = a + s
      BY <1>6 DEF Hi, Follows
    <3> QED BY <1>0, <1>2, <3>1, ChunksAssumption DEF Units
  <2>3. h \in [size : Amounts, pinuse : BOOLEAN, cinuse : BOOLEAN]
    BY <2>2, HeadWordType
  <2>4. r.head = [n.head EXCEPT ![a] = h] /\ r \in HeapRecords /\ SameIndex(n, r)
        /\ r.seg = n.seg /\ r.brk = n.brk /\ r.foot = n.foot /\ r.top = a
        /\ r.topsize = n.topsize + s
    <3> HIDE DEF h
    <3> QED BY <1>2, <2>2, <2>3 DEF HeapRecords, Heads, SameIndex
  <2> HIDE DEF r
  <2>5. r.head[a] = h /\ \A v \in Units : v # a => r.head[v] = n.head[v]
    BY <1>2, <2>4 DEF HeapRecords, Heads
  <2>6. TopGrown(m, r, a, s)
    BY <1>0, <2>4, <2>5 DEF TopGrown
  <2>7. Indexed(r, G)
    <3>1. \A x \in G : r.head[x].size = n.head[x].size
      <4>1. K \subseteq Units
        BY <1>1, GeometryFacts
      <4> QED BY <1>3, <2>5, <4>1
    <3>2. SameIndex(n, r)
      BY <2>4
    <3> QED BY <3>1, <3>2, SameIndexed
  <2>8. Freed(m, r, L, p)
    BY <1>6, <2>6, <2>7, MergedTop
  <2> QED BY <2>1, <2>8
<1>7. CASE ~m.head[b].cinuse /\ b # m.top
  <2>1. b \in FreeIn(m, K)
    BY <1>1, <1>7 DEF FreeIn
  <2>2. u = s + m.head[b].size /\ t = m.head[b].size
    BY <1>0
  <2> HIDE DEF u, t
  <2>3. BothFree(m, K, L, p, a, b, G, q, u)
    BY <2>1, <2>2, BothSize
  <2> HIDE DEF q
  <2>4. /\ Run(m, K, L, p, a, q, G \ {b}) /\ q # Hi(m) /\ q \in Units
        /\ m.head[q].cinuse = TRUE /\ m.head[q].pinuse = FALSE
        /\ b \in G /\ u \in Sizes /\ Follows(q, a, u) /\ t \in Sizes
    BY <2>2, <2>3 DEF BothFree
  <2>5. ASSUME NEW n3 \in HeapRecords, SameWords(m, n3), SameEnds(m, n3),
               NEW o, MadeFree(n3, o, a, u, q),
               NEW r, Rebinned(o, r), Indexed(r, (G \ {b}) \cup {a})
        PROVE  Freed(m, r, L, p)
    BY <2>4, <2>5, MergedBoth
  <2>6. CASE b = n.dv
    <3> DEFINE o == set_size_and_pinuse_of_free_chunk(n, a, u)
               r == [o EXCEPT !.dv = a, !.dvsize = u]
    <3>1. n.dvsize = t /\ Bins(n.bins, n.head, G \ {b})
      BY <1>0, <1>2, <1>3, <2>2, <2>4, <2>6 DEF Indexed
    <3>2. MadeFree(n, o, a, u, q)
      BY <1>2, <2>4, SizedFree
    <3>3. n.dvsize + s = u
      <4>1. t \in Int
        BY <2>4 DEF Sizes
      <4> QED BY <1>2, <2>2, <3>1, <4>1
    <3>4. Forward(n, a, s, b) = [o EXCEPT !.dv = a, !.dvsize = @ + s]
      BY <1>0, <1>7, <2>6, <3>3 DEF Forward
    <3> HIDE DEF o
    <3>5. o \in HeapRecords /\ SameIndex(n, o) /\ Within(m.head, m.foot, o.head, o.foot, a, q)
          /\ o.head[a].size = u
      BY <1>0, <3>2 DEF MadeFree, Rewritten, HeadWord
    <3>6. Forward(n, a, s, b) = r
      BY <3>3, <3>4, <3>5 DEF HeapRecords, SameIndex
    <3>7. \A x \in G \ {b} : o.head[x].size = n.head[x].size
      BY <1>0, <2>4, <3>5, RunSizes
    <3>8. u \in Units /\ u # 0
      BY <2>4, ChunksAssumption DEF Sizes, Units
    <3>9. Rebinned(o, r) /\ r.dv = a /\ r.dvsize = u /\ r.bins = o.bins /\ r.head = o.head
      BY <1>2, <3>5, <3>8 DEF HeapRecords, Rebinned, SameWords, SameEnds
    <3> HIDE DEF r
    <3>10. Bins(r.bins, r.head, G \ {b})
      <4>1. Bins(n.bins, o.head, G \ {b})
        BY <3>1, <3>7, SameBins
      <4> QED BY <3>5, <3>9, <4>1 DEF SameIndex
    <3>11. ((G \ {b}) \cup {a}) \ {a} = G \ {b}
      BY <1>3
    <3>12. Indexed(r, (G \ {b}) \cup {a})
      BY <3>5, <3>8, <3>9, <3>10, <3>11 DEF Indexed
    <3>13. Freed(m, r, L, p)
      <4>1. SameWords(m, n) /\ SameEnds(m, n)
        OBVIOUS
      <4> QED BY <2>5, <3>2, <3>9, <3>12
    <3> QED BY <3>6, <3>13
  <2>7. CASE b # n.dv
    <3> DEFINE r == insert_chunk(both, a, u)
    <3>1. Forward(n, a, s, b) = r /\ both = set_size_and_pinuse_of_free_chunk(n2, a, u)
      BY <1>0, <1>4, <1>7, <2>7 DEF Forward, u, t
    <3>2. n.head[b].size = t
      BY DEF t
    <3>3. Rebinned(n, n2) /\ Indexed(n2, G \ {b})
      BY <1>2, <2>4, <2>7, <3>2, UnlinkIndexed
    <3> HIDE DEF n2
    <3>4. n2 \in HeapRecords /\ SameWords(m, n2) /\ SameEnds(m, n2)
      BY <1>0, <3>3 DEF Rebinned, SameWords, SameEnds
    <3>5. MadeFree(n2, both, a, u, q)
      BY <1>2, <2>4, <3>1, <3>4, SizedFree
    <3> HIDE DEF both
    <3>6. both \in HeapRecords /\ SameIndex(n2, both)
          /\ Within(m.head, m.foot, both.head, both.foot, a, q) /\ both.head[a].size = u
      BY <3>4, <3>5 DEF MadeFree, Rewritten, HeadWord, SameWords
    <3>7. \A x \in G \ {b} : both.head[x].size = n2.head[x].size
      <4>1. n2.head = m.head
        BY <3>4 DEF SameWords
      <4> QED BY <2>4, <3>6, <4>1, RunSizes
    <3>8. Indexed(both, G \ {b})
      BY <3>3, <3>6, <3>7, SameIndexed
    <3>9. Rebinned(both, r) /\ Indexed(r, (G \ {b}) \cup {a})
      BY <1>2, <1>3, <2>4, <3>6, <3>8, InsertIndexed
    <3> HIDE DEF r
    <3>10. Freed(m, r, L, p)
      BY <2>5, <3>4, <3>5, <3>9
    <3> QED BY <3>1, <3>10
  <2> QED BY <2>6, <2>7
<1> QED BY <1>5, <1>6, <1>7

(* dv is merged with the block after it and with what is free after that.    *)
LEMMA ForwardDvFreed ==
    ASSUME NEW m, NEW K, NEW L, Heap(m, K, L), NEW p, NEW a, NEW b, NEW G, Run(m, K, L, p, a, b, G),
           b # Hi(m), NEW s \in Sizes, Follows(b, a, s),
           a = m.dv, Bins(m.bins, m.head, G), m.head[b].cinuse = FALSE
    PROVE  Freed(m, Forward(m, a, s, b), L, p)
<1> DEFINE t == m.head[b].size
           n2 == unlink_chunk(m, b, t)
           both == set_size_and_pinuse_of_free_chunk(n2, a, s + t)
           q == End(m.head, b)
           u == s + t
<1>1. /\ a \in K /\ a < b /\ b \in K /\ FreeIn(m, K) \ (a..(b - 1)) = G /\ Geometry(m, K)
      /\ L = UsedIn(m, K)
  BY DEF Run, Heap
<1>2. /\ a \in Int /\ b \in Int /\ a \in Units /\ b \in Units /\ a # NULL /\ s \in Int /\ s >= 1
      /\ NULL \notin K /\ m \in HeapRecords /\ m.topsize \in Int /\ m.topsize >= 1
      /\ Hi(m) \in Units /\ Hi(m) \in Int
  <2>1. /\ a \in Int /\ b \in Int /\ a \in Units /\ b \in Units /\ a # NULL
        /\ NULL \notin K /\ m \in HeapRecords /\ m.topsize \in Int /\ m.topsize >= 1
        /\ Hi(m) \in Units /\ Hi(m) \in Int
    BY <1>1, GeometryFacts
  <2> QED BY <2>1 DEF Sizes
<1>3. a \notin G /\ G \subseteq K /\ NULL \notin G /\ b # m.dv
  BY <1>1, <1>2 DEF FreeIn
<1>6. CASE b = m.top
  <2> DEFINE h == HeadWord(m.topsize + s, TRUE, FALSE)
             t1 == [m EXCEPT !.top = a, !.topsize = @ + s, !.head[a] = h]
             r == [t1 EXCEPT !.dv = NULL, !.dvsize = 0]
  <2>1. Forward(m, a, s, b) = r
    BY <1>6 DEF Forward
  <2>2. m.topsize + s \in Units
    <3>1. Hi(m) = b + m.topsize /\ b = a + s
      BY <1>6 DEF Hi, Follows
    <3> QED BY <1>2, <3>1, ChunksAssumption DEF Units
  <2>3. h \in [size : Amounts, pinuse : BOOLEAN, cinuse : BOOLEAN]
    BY <2>2, HeadWordType
  <2>4. r.head = [m.head EXCEPT ![a] = h] /\ r \in HeapRecords /\ r.bins = m.bins
        /\ r.seg = m.seg /\ r.brk = m.brk /\ r.foot = m.foot /\ r.top = a
        /\ r.topsize = m.topsize + s /\ r.dv = NULL /\ r.dvsize = 0
    <3> HIDE DEF h
    <3>1. NULL \in Units /\ 0 \in Units
      BY ChunksAssumption DEF NULL, Units
    <3> QED BY <1>2, <2>2, <2>3, <3>1 DEF HeapRecords, Heads
  <2> HIDE DEF r
  <2>5. r.head[a] = h /\ \A v \in Units : v # a => r.head[v] = m.head[v]
    BY <1>2, <2>4 DEF HeapRecords, Heads
  <2>6. TopGrown(m, r, a, s)
    BY <2>4, <2>5 DEF TopGrown
  <2>7. Indexed(r, G)
    <3>1. \A x \in G : r.head[x].size = m.head[x].size
      <4>1. K \subseteq Units
        BY <1>1, GeometryFacts
      <4> QED BY <1>3, <2>5, <4>1
    <3>2. r.bins = m.bins /\ r.dv = NULL /\ r.dvsize = 0
      BY <2>4
    <3>3. Bins(r.bins, r.head, G)
      BY <3>1, <3>2, SameBins
    <3>4. G \ {NULL} = G
      BY <1>3
    <3> QED BY <3>2, <3>3, <3>4 DEF Indexed
  <2>8. Freed(m, r, L, p)
    BY <1>6, <2>6, <2>7, MergedTop
  <2> QED BY <2>1, <2>8
<1>7. CASE b # m.top
  <2>1. b \in FreeIn(m, K)
    BY <1>1, <1>7 DEF FreeIn
  <2>2. u = s + m.head[b].size
    OBVIOUS
  <2> HIDE DEF u
  <2>3. BothFree(m, K, L, p, a, b, G, q, u)
    BY <2>1, <2>2, BothSize
  <2> HIDE DEF q
  <2>4. /\ Run(m, K, L, p, a, q, G \ {b}) /\ q # Hi(m) /\ q \in Units
        /\ m.head[q].cinuse = TRUE /\ m.head[q].pinuse = FALSE
        /\ b \in G /\ u \in Sizes /\ Follows(q, a, u) /\ t \in Sizes
    BY <2>2, <2>3 DEF BothFree
  <2> DEFINE r == [both EXCEPT !.dvsize = u]
  <2>5. Forward(m, a, s, b) = r
    BY <1>3, <1>7 DEF Forward, u
  <2>6. both = set_size_and_pinuse_of_free_chunk(n2, a, u)
    BY DEF u
  <2> HIDE DEF t
  <2>7. m.head[b].size = t
    BY DEF t
  <2>8. /\ n2 \in HeapRecords /\ SameWords(m, n2) /\ SameEnds(m, n2)
        /\ n2.dv = m.dv /\ Bins(n2.bins, m.head, G \ {b})
    BY <1>2, <2>4, <2>7, Unlink
  <2> HIDE DEF n2
  <2>9. MadeFree(n2, both, a, u, q)
    BY <1>2, <2>4, <2>6, <2>8, SizedFree
  <2> HIDE DEF both
  <2>10. both \in HeapRecords /\ SameIndex(n2, both)
         /\ Within(m.head, m.foot, both.head, both.foot, a, q) /\ both.head[a].size = u
    BY <2>8, <2>9 DEF MadeFree, Rewritten, HeadWord, SameWords
  <2>11. \A x \in G \ {b} : both.head[x].size = m.head[x].size
    BY <2>4, <2>10, RunSizes
  <2>12. u \in Units /\ u # 0
    BY <2>4, ChunksAssumption DEF Sizes, Units
  <2>13. Rebinned(both, r) /\ r.dv = a /\ r.dvsize = u /\ r.bins = n2.bins /\ r.head = both.head
    BY <1>2, <2>8, <2>10, <2>12 DEF HeapRecords, Rebinned, SameWords, SameEnds, SameIndex
  <2> HIDE DEF r
  <2>14. Bins(r.bins, r.head, G \ {b})
    <3>1. Bins(n2.bins, both.head, G \ {b})
      BY <2>8, <2>11, SameBins
    <3> QED BY <2>13, <3>1
  <2>15. ((G \ {b}) \cup {a}) \ {a} = G \ {b}
    BY <1>3
  <2>16. Indexed(r, (G \ {b}) \cup {a})
    BY <2>10, <2>12, <2>13, <2>14, <2>15 DEF Indexed
  <2>17. Freed(m, r, L, p)
    BY <2>4, <2>8, <2>9, <2>13, <2>16, MergedBoth
  <2> QED BY <2>5, <2>17
<1> QED BY <1>6, <1>7

(* dv is merged with the block after it alone.                               *)
LEMMA DvGrown ==
    ASSUME NEW m, NEW K, NEW L, Heap(m, K, L), NEW p, NEW a, NEW b, NEW G, Run(m, K, L, p, a, b, G),
           b # Hi(m), NEW s \in Sizes, Follows(b, a, s),
           a = m.dv, a # NULL, Bins(m.bins, m.head, G), m.head[b].cinuse = TRUE
    PROVE  Freed(m, [set_free_with_pinuse(m, a, s, b) EXCEPT !.dvsize = s], L, p)
<1> DEFINE o == set_free_with_pinuse(m, a, s, b)
           r == [o EXCEPT !.dvsize = s]
<1>1. /\ a \in K /\ b \in K /\ a < b /\ Geometry(m, K) /\ FreeIn(m, K) \ (a..(b - 1)) = G
  BY DEF Run, Heap
<1>2. m \in HeapRecords /\ a \in Units /\ b \in Units /\ a \in Int /\ b \in Int
  BY <1>1, GeometryFacts
<1>3. a \notin G
  BY <1>1, <1>2
<1>4. MadeKnownFree(m, o, a, s, b)
  BY <1>2, FreeWithPinuse
<1> HIDE DEF o
<1>5. o \in HeapRecords /\ SameIndex(m, o) /\ Within(m.head, m.foot, o.head, o.foot, a, b)
      /\ o.head[a].size = s
  BY <1>4 DEF MadeKnownFree, Rewritten, HeadWord
<1>6. \A x \in G : o.head[x].size = m.head[x].size
  BY <1>5, RunSizes
<1>7. s \in Units /\ s # 0
  BY ChunksAssumption DEF Sizes, Units
<1>8. Rebinned(o, r) /\ r.dv = a /\ r.dvsize = s /\ r.bins = m.bins /\ r.head = o.head
  BY <1>5, <1>7 DEF HeapRecords, Rebinned, SameWords, SameEnds, SameIndex
<1> HIDE DEF r
<1>9. Bins(r.bins, r.head, G)
  <2>1. Bins(m.bins, o.head, G)
    BY <1>6, SameBins
  <2> QED BY <1>8, <2>1
<1>10. (G \cup {a}) \ {a} = G
  BY <1>3
<1>11. Indexed(r, G \cup {a})
  BY <1>5, <1>7, <1>8, <1>9, <1>10 DEF Indexed
<1>12. SameWords(m, m) /\ SameEnds(m, m)
  BY DEF SameWords, SameEnds
<1>13. Freed(m, r, L, p)
  BY <1>2, <1>4, <1>8, <1>11, <1>12, MergedNext
<1> QED BY <1>13 DEF r, o

(* dlfree: the chunk is free, merged with its neighbours, and every other    *)
(* block is kept.                                                            *)
LEMMA DisposeFreed ==
    ASSUME NEW m, NEW K, NEW L, Heap(m, K, L), NEW p \in L
    PROVE  Freed(m, dispose_chunk(m, p, m.head[p].size), L, p)
<1> DEFINE s == m.head[p].size
           q == p + s
           r == dispose_chunk(m, p, s)
           F == FreeIn(m, K)
<1>1. Geometry(m, K) /\ L = UsedIn(m, K) /\ Indexed(m, F)
  BY DEF Heap
<1>2. EndsAt(m, p, q) /\ Follows(q, p, s)
  BY DEF EndsAt, End, Follows
<1>3. UsedAt(m, K, p, q)
  BY <1>2, UsedFacts
<1>4. p \in K /\ q \in K /\ q # Hi(m) /\ p < q /\ m.head[q].pinuse = TRUE
      /\ m.head[q].cinuse \in BOOLEAN /\ m.head[p].pinuse \in BOOLEAN
  BY <1>3 DEF UsedAt
<1>5. m \in HeapRecords /\ s \in Sizes /\ p \in Units /\ q \in Units /\ p \in Int /\ q \in Int
      /\ s \in Int /\ NULL \notin K
  BY <1>1, <1>4, GeometryFacts
<1>6. SameWords(m, m) /\ SameEnds(m, m)
  BY DEF SameWords, SameEnds
<1>7. CASE m.head[p].pinuse = TRUE
  <2>1. r = Forward(m, p, s, q)
    BY <1>7 DEF dispose_chunk
  <2>2. Run(m, K, L, p, p, q, F)
    BY <1>2, <1>7, RunAlone
  <2> HIDE DEF q, s, F
  <2>3. Freed(m, Forward(m, p, s, q), L, p)
    BY <1>1, <1>2, <1>4, <1>5, <1>6, <2>2, ForwardFreed
  <2> QED BY <2>1, <2>3 DEF s
<1>8. CASE m.head[p].pinuse = FALSE
  <2> DEFINE ps == m.foot[p]
             a == p - ps
             u == s + ps
  <2>1. r = IF a # m.dv THEN Forward(unlink_chunk(m, a, ps), a, u, q)
            ELSE IF in_use_both(m, q)
            THEN [set_free_with_pinuse(m, a, u, q) EXCEPT !.dvsize = u]
            ELSE Forward(m, a, u, q)
    BY <1>8 DEF dispose_chunk
  <2>2. RunFrom(m, K, L, p, q, a, ps)
    BY <1>2, <1>8, RunBack
  <2> HIDE DEF a, ps
  <2>3. Run(m, K, L, p, a, q, F \ {a}) /\ a \in F /\ m.head[a].size = ps /\ Follows(p, a, ps)
    BY <2>2 DEF RunFrom
  <2>4. a \in K /\ a \in Units /\ a \in Int /\ ps \in Sizes /\ ps \in Int /\ a # NULL
    <3>1. a \in K
      BY <2>3 DEF FreeIn
    <3> QED BY <1>1, <2>3, <3>1, GeometryFacts
  <2>5. u \in Sizes /\ Follows(q, a, u)
    <3>1. ps >= 1 /\ s >= 1
      BY <1>5, <2>4 DEF Sizes
    <3>2. q = a + u
      BY <1>5, <2>3, <2>4 DEF Follows
    <3>3. q <= MaxBrk /\ a >= 0
      BY <1>5, <2>4, ChunksAssumption DEF Units
    <3> HIDE DEF s, q
    <3>4. u \in Int /\ u >= 1 /\ u <= MaxBrk
      BY <1>5, <2>4, <3>1, <3>2, <3>3, ChunksAssumption
    <3> HIDE DEF u
    <3> QED BY <3>2, <3>4, ChunksAssumption DEF Sizes, Follows
  <2> HIDE DEF q, s, F, u
  <2>6. CASE a # m.dv
    <3> DEFINE n == unlink_chunk(m, a, ps)
    <3>1. Rebinned(m, n) /\ Indexed(n, F \ {a})
      BY <1>1, <1>5, <2>3, <2>4, <2>6, UnlinkIndexed
    <3> HIDE DEF n
    <3>2. n \in HeapRecords /\ SameWords(m, n) /\ SameEnds(m, n)
      BY <3>1 DEF Rebinned
    <3>3. Freed(m, Forward(n, a, u, q), L, p)
      BY <1>4, <2>3, <2>5, <3>1, <3>2, ForwardFreed
    <3> QED BY <2>1, <2>6, <3>3 DEF n, s
  <2>7. CASE a = m.dv
    <3>1. Bins(m.bins, m.head, F \ {a})
      BY <1>1, <2>7 DEF Indexed
    <3>2. CASE m.head[q].cinuse = TRUE
      <4>1. in_use_both(m, q)
        BY <1>4, <3>2 DEF in_use_both
      <4>2. Freed(m, [set_free_with_pinuse(m, a, u, q) EXCEPT !.dvsize = u], L, p)
        BY <1>4, <2>3, <2>4, <2>5, <2>7, <3>1, <3>2, DvGrown
      <4> QED BY <2>1, <2>7, <4>1, <4>2 DEF s
    <3>3. CASE m.head[q].cinuse = FALSE
      <4>1. ~in_use_both(m, q)
        BY <3>3 DEF in_use_both
      <4>2. Freed(m, Forward(m, a, u, q), L, p)
        BY <1>4, <2>3, <2>5, <2>7, <3>1, <3>3, ForwardDvFreed
      <4> QED BY <2>1, <2>7, <4>1, <4>2 DEF s
    <3> QED BY <1>4, <3>2, <3>3
  <2> QED BY <2>6, <2>7
<1> QED BY <1>4, <1>7, <1>8
-----------------------------------------------------------------------------
(* A chunk is resized: it and a free one after it become one, or two.        *)

(* From p to b lie the block p and what is free after it; G are the free     *)
(* chunks elsewhere.                                                         *)
Span(m, K, L, p, b, G) ==
    /\ p \in K /\ p \in L /\ b \in K \cup {Hi(m)} /\ p < b /\ End(m.head, p) <= b
    /\ L \ (p..(b - 1)) = L \ {p} /\ FreeIn(m, K) \ (p..(b - 1)) = G

(* The words of the block p of s units that nb units have room for.          *)
BlockKept(m, r, p, s, nb) == \A w \in Sizes : w <= s /\ w <= nb => SameBlock(m, r, p, w)

(* The heap r in which the block p of m has nb units at least.               *)
Resized(m, r, L, p, nb) ==
    /\ \E K2 : Heap(r, K2, L)
    /\ Kept(m, r, L \ {p}) /\ BlockKept(m, r, p, m.head[p].size, nb) /\ r.head[p].size >= nb

SpanIs(m, K, p, b) ==
    /\ p \in Int /\ b \in Int /\ p \in Units /\ b \in Units /\ p # NULL
    /\ m.head[p].size \in Sizes
    /\ p \in p..(b - 1) /\ m.head[p].pinuse \in BOOLEAN

(* The facts of a span in one place.                                         *)
LEMMA SpanFacts ==
    ASSUME NEW m, NEW K, NEW L, Heap(m, K, L), NEW p, NEW b, NEW G, Span(m, K, L, p, b, G)
    PROVE  SpanIs(m, K, p, b)
<1>1. Geometry(m, K) /\ p \in K /\ b \in K \cup {Hi(m)} /\ p < b
  BY DEF Heap, Span
<1>2. /\ p \in Int /\ b \in Int /\ p \in Units /\ b \in Units /\ p # NULL
      /\ m.head[p].size \in Sizes
      /\ m.head \in Heads
  BY <1>1, GeometryFacts
<1>3. p \in p..(b - 1)
  BY <1>1, <1>2
<1>4. m.head[p].pinuse \in BOOLEAN
  BY <1>2 DEF Heads
<1> QED BY <1>2, <1>3, <1>4 DEF SpanIs

(* The span of one chunk in use.                                             *)
LEMMA SpanAlone ==
    ASSUME NEW m, NEW K, NEW L, Heap(m, K, L), NEW p \in L, NEW q, EndsAt(m, p, q)
    PROVE  Span(m, K, L, p, q, FreeIn(m, K)) /\ q \in K /\ q # Hi(m)
<1>1. L = UsedIn(m, K) /\ Geometry(m, K)
  BY DEF Heap
<1>2. UsedAt(m, K, p, q)
  BY UsedFacts
<1>3. /\ p \in K /\ q \in K /\ p < q /\ m.head[p].cinuse = TRUE /\ q # Hi(m)
      /\ \A x \in K : x \in p..(q - 1) <=> x = p
  BY <1>2 DEF UsedAt
<1>4. L \ (p..(q - 1)) = L \ {p} /\ FreeIn(m, K) \ (p..(q - 1)) = FreeIn(m, K)
  BY <1>1, <1>3 DEF UsedIn, FreeIn
<1>5. End(m.head, p) <= q
  <2>1. End(m.head, p) \in Int
    BY <1>1, <1>3, GeometryFacts
  <2> QED BY <2>1 DEF EndsAt
<1> QED BY <1>3, <1>4, <1>5 DEF Span

(* The span of a chunk and the free one after it.                            *)
LEMMA SpanOn ==
    ASSUME NEW m, NEW K, NEW L, Heap(m, K, L), NEW p, NEW b, NEW G, Span(m, K, L, p, b, G),
           b \in FreeIn(m, K), NEW q, EndsAt(m, b, q)
    PROVE  /\ Span(m, K, L, p, q, G \ {b}) /\ q \in K /\ q # Hi(m) /\ m.head[q].cinuse = TRUE
           /\ b \in G
<1>1. Geometry(m, K) /\ L = UsedIn(m, K)
  BY DEF Heap
<1>2. FreeAt(m, K, b, q)
  BY <1>1, FreeFacts
<1>3. /\ b \in K /\ m.head[b].cinuse = FALSE /\ q \in K /\ q # Hi(m) /\ b < q
      /\ m.head[q].cinuse = TRUE
      /\ \A x \in K : x \in b..(q - 1) <=> x = b
  BY <1>2 DEF FreeAt
<1>4. /\ p \in K /\ p \in L /\ p < b /\ End(m.head, p) <= b
      /\ L \ (p..(b - 1)) = L \ {p} /\ FreeIn(m, K) \ (p..(b - 1)) = G
  BY DEF Span
<1>5. p \in Int /\ b \in Int /\ q \in Int /\ End(m.head, p) \in Int /\ \A x \in K : x \in Int
  BY <1>1, <1>3, <1>4, GeometryFacts
<1>6. \A x \in K : x \in p..(q - 1) <=> x \in p..(b - 1) \/ x = b
  BY <1>3, <1>4, <1>5
<1>7. b \notin p..(b - 1) /\ b \notin L /\ L \subseteq K /\ FreeIn(m, K) \subseteq K
  BY <1>1, <1>3, <1>5 DEF UsedIn, FreeIn
<1>8. L \ (p..(q - 1)) = L \ {p} /\ FreeIn(m, K) \ (p..(q - 1)) = G \ {b} /\ b \in G
  BY <1>4, <1>6, <1>7
<1>9. p < q /\ End(m.head, p) <= q
  BY <1>3, <1>4, <1>5
<1> QED BY <1>3, <1>4, <1>8, <1>9 DEF Span

(* Where top is, of a span that ends before it.                              *)
LEMMA SpanTop ==
    ASSUME NEW m, NEW K, NEW L, Heap(m, K, L), NEW p, NEW b, NEW G, Span(m, K, L, p, b, G),
           b = m.top
    PROVE  Span(m, K, L, p, Hi(m), G)
<1>1. Geometry(m, K) /\ L = UsedIn(m, K)
  BY DEF Heap
<1>2. /\ b \in K /\ m.head[b].cinuse = FALSE /\ b < Hi(m) /\ Hi(m) \in Int
      /\ \A x \in K : x \in Int /\ x < Hi(m) /\ (b < x => Hi(m) <= x)
  <2>1. /\ b \in K /\ m.head[b].cinuse = FALSE /\ b < Hi(m) /\ Hi(m) \in Int
        /\ \A x \in K : x \in Int /\ x < Hi(m)
        /\ End(m.head, b) = Hi(m)
    BY <1>1, GeometryFacts
  <2> QED BY <1>1, <2>1 DEF Geometry, Tiled
<1>4. /\ p \in K /\ p \in L /\ p < b /\ End(m.head, p) <= b
      /\ L \ (p..(b - 1)) = L \ {p} /\ FreeIn(m, K) \ (p..(b - 1)) = G
  BY DEF Span
<1>5. End(m.head, p) \in Int
  BY <1>1, <1>4, GeometryFacts
<1>6. \A x \in K : x \in p..(Hi(m) - 1) <=> x \in p..(b - 1) \/ x = b
  BY <1>2, <1>4
<1>7. b \notin FreeIn(m, K) /\ b \notin L /\ L \subseteq K /\ FreeIn(m, K) \subseteq K
  BY <1>1, <1>2 DEF UsedIn, FreeIn
<1>8. L \ (p..(Hi(m) - 1)) = L \ {p} /\ FreeIn(m, K) \ (p..(Hi(m) - 1)) = G
  BY <1>4, <1>6, <1>7
<1>9. p < Hi(m) /\ End(m.head, p) <= Hi(m)
  BY <1>2, <1>4, <1>5
<1> QED BY <1>2, <1>4, <1>8, <1>9 DEF Span

(* The sizes in a span.                                                      *)
LEMMA SpanSizes ==
    ASSUME NEW m, NEW K, NEW L, Heap(m, K, L), NEW p, NEW b, NEW G, Span(m, K, L, p, b, G),
           NEW r, Within(m.head, m.foot, r.head, r.foot, p, b)
    PROVE  \A x \in G : r.head[x].size = m.head[x].size
<1>1. Geometry(m, K)
  BY DEF Heap
<1>2. p \in K /\ b \in K \cup {Hi(m)} /\ p < b /\ FreeIn(m, K) \ (p..(b - 1)) = G
  BY DEF Span
<1>3. Kept(m, r, K \ (p..(b - 1)))
  BY <1>1, <1>2, ReshapeKept
<1>4. G \subseteq K \ (p..(b - 1))
  BY <1>2 DEF FreeIn
<1> QED BY <1>3, <1>4 DEF Kept

(* Words before c, the first of them excepted, are as they were.             *)
InsideKept(m, r, p, c) ==
    \A u \in Units : /\ p < u /\ u < c => r.head[u] = m.head[u]
                     /\ p < u /\ u <= c => r.foot[u] = m.foot[u]

(* What is written within a span and past the part in use keeps the block.   *)
LEMMA InsideBlock ==
    ASSUME NEW m, NEW r, NEW p \in Int, NEW s \in Int, NEW nb \in Int,
           NEW c \in Int, InsideKept(m, r, p, c),
           c >= p + s \/ c >= p + nb
    PROVE  BlockKept(m, r, p, s, nb)
<1>1. ASSUME NEW w \in Sizes, w <= s, w <= nb PROVE SameBlock(m, r, p, w)
  <2>1. w \in Int /\ p + w <= c
    BY <1>1 DEF Sizes
  <2>2. \A u \in Units : u \in Int
    BY ChunksAssumption DEF Units
  <2> QED BY <2>1, <2>2 DEF InsideKept, SameBlock
<1> QED BY <1>1 DEF BlockKept

(* The whole span becomes the chunk in use.                                  *)
LEMMA SpanWhole ==
    ASSUME NEW m, NEW K, NEW L, Heap(m, K, L), NEW p, NEW b, NEW G, Span(m, K, L, p, b, G),
           b # Hi(m), NEW s \in Sizes, Follows(b, p, s),
           NEW n \in HeapRecords, SameWords(m, n), SameEnds(m, n),
           NEW o, MadeUsed(n, o, p, HeadWord(s, m.head[p].pinuse, TRUE), b),
           NEW r, Rebinned(o, r), Indexed(r, G), InsideKept(m, o, p, b)
    PROVE  Resized(m, r, L, p, s)
<1>0. SpanIs(m, K, p, b)
  BY SpanFacts
<1>1. /\ p \in Int /\ b \in Int /\ p \in Units /\ b \in Units /\ m.head[p].size \in Sizes
      /\ p \in p..(b - 1)
  BY <1>0 DEF SpanIs
<1>2. /\ p \in K /\ p \in L /\ b \in K /\ p < b
      /\ L \ (p..(b - 1)) = L \ {p} /\ FreeIn(m, K) \ (p..(b - 1)) = G
  BY DEF Span
<1>3. /\ r.head = o.head /\ r.foot = m.foot /\ r \in HeapRecords /\ SameEnds(m, r)
      /\ Within(m.head, m.foot, r.head, r.foot, p, b)
      /\ r.head[p] = HeadWord(s, m.head[p].pinuse, TRUE) /\ r.head[b].pinuse = TRUE
  BY DEF Rebinned, MadeUsed, Rewritten, SameWords, SameEnds
<1>4. r.head[p].size = s /\ r.head[p].pinuse = m.head[p].pinuse /\ r.head[p].cinuse = TRUE
  BY <1>3 DEF HeadWord
<1>5. s = b - p /\ s \in Int
  BY <1>1 DEF Follows, Sizes
<1>6. Tag(r.head, r.foot, p, b)
  BY <1>3, <1>4 DEF Tag
<1>7. Reshaped(m, r, p, p, b)
  BY <1>3, <1>4, <1>5, <1>6 DEF Reshaped, SameEnds
<1>8. FreeAfter(m, r, K, p, p, b) = G /\ UsedAfter(r, L, p, p, b) = L
  BY <1>2, <1>4 DEF FreeAfter, UsedAfter
<1>9. HeapAfter(m, r, K, L, p, p, b)
  BY <1>1, <1>2, <1>7, <1>8, Reshape
<1>10. Heap(r, Chunks2(K, p, p, b), L) /\ Kept(m, r, L \ {p})
  BY <1>2, <1>8, <1>9 DEF HeapAfter
<1>11. InsideKept(m, r, p, b)
  BY DEF InsideKept, Rebinned, SameWords
<1>12. BlockKept(m, r, p, m.head[p].size, s)
  <2>1. m.head[p].size \in Int /\ b >= p + s
    BY <1>1, <1>5 DEF Sizes
  <2> QED BY <1>1, <1>5, <1>11, <2>1, InsideBlock
<1>13. r.head[p].size >= s
  BY <1>4, <1>5
<1> QED BY <1>10, <1>12, <1>13 DEF Resized

(* Only the heads at p and q are new.                                        *)
HeadsKept(m, r, p, q) == \A u \in Units : u # p /\ u # q => r.head[u] = m.head[u]

(* set_inuse within a span.                                                  *)
LEMMA SetInuseInside ==
    ASSUME NEW m \in HeapRecords, NEW p \in Units, NEW s \in Sizes,
           NEW q \in Units, Follows(q, p, s)
    PROVE  HeadsKept(m, set_inuse(m, p, s), p, q)
<1>1. m.head \in Heads
  BY DEF HeapRecords
<1> DEFINE h == HeadWord(s, m.head[p].pinuse, TRUE)
           n == set_head(m, p, h)
<1>2. /\ n = [m EXCEPT !.head = [m.head EXCEPT ![p] = h]]
      /\ set_inuse(m, p, s) = mark_pinuse(n, q, TRUE)
  BY DEF set_head, set_inuse, Follows
<1> HIDE DEF h
<1>3. n.head = [m.head EXCEPT ![p] = h]
  BY <1>2 DEF HeapRecords
<1> HIDE DEF n
<1>4. set_inuse(m, p, s).head = [n.head EXCEPT ![q].pinuse = TRUE]
  <2>1. "head" \in DOMAIN n
    BY <1>2 DEF HeapRecords
  <2> QED BY <1>2, <2>1 DEF mark_pinuse
<1>5. \A u \in Units : u # p /\ u # q => set_inuse(m, p, s).head[u] = m.head[u]
  BY <1>1, <1>3, <1>4 DEF Heads
<1> QED BY <1>5 DEF HeadsKept

(* The block p keeps nb of its units and c, what is left, is a block too.    *)
Halved(m, r, L, p, nb, c, t) ==
    /\ \E K2 : Heap(r, K2, L \cup {c})
    /\ c \notin L /\ Kept(m, r, L \ {p}) /\ InsideKept(m, r, p, c)
    /\ r.head[p].size = nb /\ r.head[c].size = t

(* The span becomes two chunks in use.                                       *)
LEMMA SpanHalved ==
    ASSUME NEW m, NEW K, NEW L, Heap(m, K, L), NEW p, NEW b, NEW G, Span(m, K, L, p, b, G),
           b # Hi(m), NEW nb \in Sizes, NEW t \in Sizes, NEW c \in Units,
           Follows(c, p, nb), Follows(b, c, t),
           NEW n \in HeapRecords, SameWords(m, n), SameEnds(m, n), Indexed(n, G)
    PROVE  Halved(m, set_inuse(set_inuse(n, p, nb), c, t), L, p, nb, c, t)
<1> DEFINE n1 == set_inuse(n, p, nb)
           r == set_inuse(n1, c, t)
<1>0. SpanIs(m, K, p, b)
  BY SpanFacts
<1>1. /\ p \in Int /\ b \in Int /\ p \in Units /\ b \in Units /\ m.head[p].size \in Sizes
      /\ p \in p..(b - 1) /\ m.head[p].pinuse \in BOOLEAN
  BY <1>0 DEF SpanIs
<1>2. /\ p \in K /\ p \in L /\ b \in K /\ p < b
      /\ L \ (p..(b - 1)) = L \ {p} /\ FreeIn(m, K) \ (p..(b - 1)) = G
  BY DEF Span
<1>3. nb \in Int /\ nb >= 1 /\ t \in Int /\ t >= 1 /\ c \in Int /\ c = p + nb /\ b = c + t
      /\ p < c /\ c < b /\ c \in p..(b - 1) /\ nb = c - p /\ t = b - c
  BY <1>1, ChunksAssumption DEF Follows, Sizes, Units
<1>a. p # c /\ p # b /\ c # b
      /\ \A u \in Units : u \in Int /\ (u < p \/ u > b => u # p /\ u # c /\ u # b)
  BY <1>1, <1>3, ChunksAssumption DEF Units
<1>4. n.head = m.head /\ n.foot = m.foot /\ SameEnds(m, n)
  BY DEF SameWords
<1>5. MadeUsed(n, n1, p, HeadWord(nb, n.head[p].pinuse, TRUE), c)
  BY <1>1, SetInuse
<1>6. \A u \in Units : u # p /\ u # c => n1.head[u] = n.head[u]
  <2>1. HeadsKept(n, n1, p, c)
    BY <1>1, SetInuseInside
  <2> QED BY <2>1 DEF HeadsKept
<1> HIDE DEF n1
<1>7. /\ n1 \in HeapRecords /\ SameEnds(n, n1) /\ SameIndex(n, n1) /\ n1.foot = n.foot
      /\ n1.head[p] = HeadWord(nb, m.head[p].pinuse, TRUE) /\ n1.head[c].pinuse = TRUE
  BY <1>4, <1>5 DEF MadeUsed, Rewritten
<1>8. MadeUsed(n1, r, c, HeadWord(t, n1.head[c].pinuse, TRUE), b)
  BY <1>1, <1>7, SetInuse
<1>9. \A u \in Units : u # c /\ u # b => r.head[u] = n1.head[u]
  <2>1. HeadsKept(n1, r, c, b)
    BY <1>1, <1>7, SetInuseInside
  <2> QED BY <2>1 DEF HeadsKept
<1> HIDE DEF r
<1>10. /\ r \in HeapRecords /\ SameEnds(m, r) /\ SameIndex(n, r) /\ r.foot = m.foot
       /\ r.head[c] = HeadWord(t, TRUE, TRUE) /\ r.head[b].pinuse = TRUE
       /\ r.head[b].size = n1.head[b].size /\ r.head[b].cinuse = n1.head[b].cinuse
  BY <1>4, <1>7, <1>8 DEF MadeUsed, Rewritten, Within, SameEnds, SameIndex
<1>11. /\ r.head[p] = HeadWord(nb, m.head[p].pinuse, TRUE)
       /\ \A u \in Units : u # p /\ u # c /\ u # b => r.head[u] = m.head[u]
       /\ n1.head[b] = m.head[b]
  BY <1>1, <1>a, <1>4, <1>6, <1>7, <1>9
<1>12. Within(m.head, m.foot, r.head, r.foot, p, b)
  BY <1>a, <1>10, <1>11 DEF Within
<1>13. /\ r.head[p].size = nb /\ r.head[p].pinuse = m.head[p].pinuse /\ r.head[p].cinuse = TRUE
       /\ r.head[c].size = t /\ r.head[c].pinuse = TRUE /\ r.head[c].cinuse = TRUE
  BY <1>10, <1>11 DEF HeadWord
<1>14. Tag(r.head, r.foot, p, c) /\ Tag(r.head, r.foot, c, b)
  BY <1>10, <1>13 DEF Tag
<1>15. Reshaped(m, r, p, c, b)
  BY <1>3, <1>10, <1>12, <1>13, <1>14 DEF Reshaped, SameEnds
<1>16. FreeAfter(m, r, K, p, c, b) = G /\ UsedAfter(r, L, p, c, b) = L \cup {c}
  BY <1>2, <1>13 DEF FreeAfter, UsedAfter
<1>17. Indexed(r, G)
  <2>1. \A x \in G : r.head[x].size = n.head[x].size
    BY <1>4, <1>12, SpanSizes
  <2> QED BY <1>10, <2>1, SameIndexed
<1>18. HeapAfter(m, r, K, L, p, c, b)
  BY <1>2, <1>3, <1>15, <1>16, <1>17, Reshape
<1>19. Heap(r, Chunks2(K, p, c, b), L \cup {c}) /\ Kept(m, r, L \ {p})
  BY <1>2, <1>16, <1>18 DEF HeapAfter
<1>20. c \notin L
  BY <1>2, <1>3
<1>21. InsideKept(m, r, p, c)
  <2>1. \A u \in Units : u \in Int
    BY ChunksAssumption DEF Units
  <2> QED BY <1>3, <1>10, <1>11, <2>1 DEF InsideKept
<1>22. Halved(m, r, L, p, nb, c, t)
  BY <1>13, <1>19, <1>20, <1>21 DEF Halved
<1> QED BY <1>22 DEF r, n1

(* The chunk is cut, and what is cut off is freed.                           *)
LEMMA SplitOffResized ==
    ASSUME NEW m, NEW K, NEW L, Heap(m, K, L), NEW p, NEW b, NEW G, Span(m, K, L, p, b, G),
           b # Hi(m), NEW nb \in Sizes, NEW t \in Sizes, NEW c \in Units,
           Follows(c, p, nb), Follows(b, c, t),
           NEW n \in HeapRecords, SameWords(m, n), SameEnds(m, n), Indexed(n, G)
    PROVE  Resized(m, SplitOff(n, p, nb, t), L, p, nb)
<1> DEFINE o == set_inuse(set_inuse(n, p, nb), c, t)
           r == dispose_chunk(o, c, t)
<1>1. SplitOff(n, p, nb, t) = r
  BY DEF SplitOff, Follows
<1>2. Halved(m, o, L, p, nb, c, t)
  BY SpanHalved
<1> HIDE DEF o
<1>3. PICK K2 : Heap(o, K2, L \cup {c})
  BY <1>2 DEF Halved
<1>4. c \notin L /\ Kept(m, o, L \ {p}) /\ InsideKept(m, o, p, c)
      /\ o.head[p].size = nb /\ o.head[c].size = t
  BY <1>2 DEF Halved
<1>5. Freed(o, r, L \cup {c}, c)
  BY <1>3, <1>4, DisposeFreed
<1> HIDE DEF r
<1>6. (L \cup {c}) \ {c} = L
  BY <1>4
<1>7. (\E K3 : Heap(r, K3, L)) /\ Kept(o, r, L)
  BY <1>5, <1>6 DEF Freed
<1>8. p \in L
  BY DEF Span
<1>9. Kept(o, r, L \ {p}) /\ r.head[p].size = nb /\ SameBlock(o, r, p, nb)
  BY <1>4, <1>7, <1>8 DEF Kept
<1>10. Kept(m, r, L \ {p})
  BY <1>4, <1>9, KeptTwice
<1>11. nb \in Int /\ r.head[p].size >= nb /\ c \in Int /\ p \in Int /\ m.head[p].size \in Int
       /\ c = p + nb
  <2>1. SpanIs(m, K, p, b)
    BY SpanFacts
  <2> QED BY <1>9, <2>1, ChunksAssumption DEF Sizes, SpanIs, Follows, Units
<1>12. BlockKept(m, o, p, m.head[p].size, nb)
  <2>1. c >= p + nb
    BY <1>11
  <2> QED BY <1>4, <1>11, <2>1, InsideBlock
<1>13. BlockKept(m, r, p, m.head[p].size, nb)
  <2>1. ASSUME NEW w \in Sizes, w <= m.head[p].size, w <= nb PROVE SameBlock(m, r, p, w)
    <3>1. SameBlock(m, o, p, w)
      BY <1>12, <2>1 DEF BlockKept
    <3>2. ASSUME NEW u \in Units
          PROVE  /\ p < u /\ u < p + w => r.head[u] = o.head[u]
                 /\ p < u /\ u <= p + w => r.foot[u] = o.foot[u]
      <4>1. u \in Int /\ w \in Int
        BY ChunksAssumption DEF Units, Sizes
      <4>2. /\ p < u /\ u < p + nb => r.head[u] = o.head[u]
            /\ p < u /\ u <= p + nb => r.foot[u] = o.foot[u]
        BY <1>9 DEF SameBlock
      <4> QED BY <1>11, <2>1, <4>1, <4>2
    <3> QED BY <3>1, <3>2 DEF SameBlock
  <2> QED BY <2>1 DEF BlockKept
<1>14. Resized(m, r, L, p, nb)
  BY <1>7, <1>10, <1>11, <1>13 DEF Resized
<1> QED BY <1>1, <1>14

(* The chunk grows into top.                                                 *)
LEMMA IntoTopResized ==
    ASSUME NEW m, NEW K, NEW L, Heap(m, K, L), NEW p \in L, EndsAt(m, p, m.top),
           NEW nb \in Sizes, nb >= m.head[p].size, m.head[p].size + m.topsize > nb
    PROVE  Resized(m, IntoTop(m, p, nb), L, p, nb)
<1> DEFINE s == m.head[p].size
           b == Hi(m)
           c == p + nb
           t == s + m.topsize - nb
           F == FreeIn(m, K)
           n == set_inuse(m, p, nb)
           h == HeadWord(t, TRUE, FALSE)
           o == set_head(n, c, h)
           r == [o EXCEPT !.top = c, !.topsize = t]
<1>1. Geometry(m, K) /\ L = UsedIn(m, K) /\ Indexed(m, F)
  BY DEF Heap
<1>2. Span(m, K, L, p, b, F)
  <2>1. Span(m, K, L, p, m.top, FreeIn(m, K))
    BY SpanAlone
  <2> QED BY <2>1, SpanTop DEF F, b
<1>3. SpanIs(m, K, p, b)
  BY <1>2, SpanFacts
<1>4. /\ p \in Int /\ b \in Int /\ p \in Units /\ b \in Units /\ s \in Sizes /\ s \in Int
      /\ p \in p..(b - 1) /\ m.head[p].pinuse \in BOOLEAN /\ m.topsize \in Int /\ m \in HeapRecords
      /\ nb \in Int /\ nb >= 1
  <2>1. m.topsize \in Int /\ m \in HeapRecords
    BY <1>1, GeometryFacts
  <2> QED BY <1>3, <2>1 DEF SpanIs, Sizes
<1>5. /\ p \in K /\ p \in L /\ b \in K \cup {Hi(m)} /\ p < b
      /\ L \ (p..(b - 1)) = L \ {p} /\ F \ (p..(b - 1)) = F
  BY <1>2 DEF Span
<1>6. /\ c \in Int /\ p < c /\ c < b /\ c \in p..(b - 1) /\ nb = c - p /\ t = b - c
      /\ c \in Units /\ t \in Units /\ c >= p + s
  <2>1. p + s = m.top /\ b = m.top + m.topsize
    BY DEF EndsAt, End, Hi
  <2> HIDE DEF s, b
  <2>2. b = p + s + m.topsize
    BY <1>4, <2>1
  <2> QED BY <1>4, <2>2, ChunksAssumption DEF Units, s
<1>7. r = IntoTop(m, p, nb)
  BY DEF IntoTop
<1>8. Follows(c, p, nb)
  BY DEF Follows
<1> HIDE DEF c, t, b, F, s
<1>a. MadeUsed(m, n, p, HeadWord(nb, m.head[p].pinuse, TRUE), c)
  BY <1>4, <1>6, <1>8, SetInuse
<1>9. \A u \in Units : u # p /\ u # c => n.head[u] = m.head[u]
  <2>1. HeadsKept(m, n, p, c)
    BY <1>4, <1>6, <1>8, SetInuseInside
  <2> QED BY <2>1 DEF HeadsKept
<1> HIDE DEF n
<1>10. /\ h \in [size : Amounts, pinuse : BOOLEAN, cinuse : BOOLEAN]
       /\ h.size = t /\ h.pinuse = TRUE /\ h.cinuse = FALSE
  BY <1>6, HeadWordType
<1> HIDE DEF h
<1>11. /\ n \in HeapRecords /\ SameIndex(m, n) /\ SameEnds(m, n) /\ n.foot = m.foot
       /\ n.head[p] = HeadWord(nb, m.head[p].pinuse, TRUE)
  BY <1>a DEF MadeUsed, Rewritten
<1>12. /\ o \in HeapRecords /\ SameIndex(n, o) /\ SameEnds(n, o) /\ o.foot = n.foot
       /\ o.head[c] = h /\ \A u \in Units : u # c => o.head[u] = n.head[u]
  BY <1>6, <1>10, <1>11, SetHead
<1> HIDE DEF o
<1>13. /\ r \in HeapRecords /\ SameIndex(m, r) /\ r.seg = m.seg /\ r.brk = m.brk
       /\ r.head = o.head /\ r.foot = m.foot /\ r.top = c /\ r.topsize = t
  BY <1>6, <1>11, <1>12 DEF HeapRecords, SameIndex, SameEnds
<1> HIDE DEF r
<1>14. p # c /\ b # c /\ b # p
       /\ \A u \in Units :
            u \in Int /\ (u < p \/ u > b \/ u = b \/ (p < u /\ u < c) => u # p /\ u # c)
  BY <1>4, <1>6, ChunksAssumption DEF Units
<1>15. /\ r.head[p] = HeadWord(nb, m.head[p].pinuse, TRUE) /\ r.head[c] = h
       /\ \A u \in Units : u # p /\ u # c => r.head[u] = m.head[u]
  BY <1>4, <1>9, <1>11, <1>12, <1>13, <1>14
<1>16. Within(m.head, m.foot, r.head, r.foot, p, b)
  BY <1>4, <1>13, <1>14, <1>15 DEF Within
<1>17. /\ r.head[p].size = nb /\ r.head[p].pinuse = m.head[p].pinuse /\ r.head[p].cinuse = TRUE
  BY <1>15 DEF HeadWord
<1>18. Tag(r.head, r.foot, p, c)
  BY <1>10, <1>15, <1>17 DEF Tag
<1>19. Reshaped(m, r, p, c, b)
  BY <1>6, <1>10, <1>13, <1>15, <1>16, <1>17, <1>18 DEF Reshaped, b
<1>20. FreeAfter(m, r, K, p, c, b) = F
  BY <1>5, <1>13, <1>17 DEF FreeAfter, F
<1>21. UsedAfter(r, L, p, c, b) = L
  BY <1>5, <1>10, <1>15, <1>17 DEF UsedAfter
<1>22. Indexed(r, F)
  <2>1. \A x \in F : r.head[x].size = m.head[x].size
    BY <1>2, <1>16, SpanSizes
  <2> QED BY <1>1, <1>13, <2>1, SameIndexed
<1>23. HeapAfter(m, r, K, L, p, c, b)
  BY <1>5, <1>6, <1>19, <1>20, <1>22, Reshape
<1>24. Heap(r, Chunks2(K, p, c, b), L) /\ Kept(m, r, L \ {p})
  BY <1>5, <1>21, <1>23 DEF HeapAfter
<1>25. InsideKept(m, r, p, c)
  BY <1>13, <1>14, <1>15 DEF InsideKept
<1>26. BlockKept(m, r, p, s, nb)
  BY <1>4, <1>6, <1>25, InsideBlock
<1>27. r.head[p].size >= nb
  BY <1>4, <1>17
<1>28. Resized(m, r, L, p, nb)
  BY <1>24, <1>26, <1>27 DEF Resized, s
<1> QED BY <1>7, <1>28

(* The block p and the free chunk at b, up to q, of u units together.        *)
SpanNext(m, K, L, p, b, G, q, u) ==
    /\ Span(m, K, L, p, q, G \ {b}) /\ q # Hi(m) /\ b \in G /\ m.head[q].cinuse = TRUE
    /\ q \in Units /\ q \in Int /\ p \in Units /\ p \in Int /\ b \in Units
    /\ u \in Sizes /\ u \in Int /\ Follows(q, p, u) /\ m.head[b].size \in Sizes
    /\ b # NULL /\ m \in HeapRecords

(* The span of a chunk and the free one after it, taken out of its bin.      *)
LEMMA SpanNextIs ==
    ASSUME NEW m, NEW K, NEW L, Heap(m, K, L), NEW p \in L,
           NEW b, EndsAt(m, p, b), b \in FreeIn(m, K),
           NEW u, u = m.head[p].size + m.head[b].size
    PROVE  SpanNext(m, K, L, p, b, FreeIn(m, K), End(m.head, b), u)
<1> DEFINE q == End(m.head, b)
           F == FreeIn(m, K)
           s == m.head[p].size
           t == m.head[b].size
<1>1. Geometry(m, K) /\ EndsAt(m, b, q) /\ b \in K
  BY DEF Heap, EndsAt, FreeIn
<1>2. Span(m, K, L, p, b, F) /\ b \in K
  BY SpanAlone
<1>3. Span(m, K, L, p, q, F \ {b}) /\ q \in K /\ q # Hi(m) /\ m.head[q].cinuse = TRUE /\ b \in F
  BY <1>1, <1>2, SpanOn
<1>4. p \in K
  BY <1>2 DEF Span
<1>5. /\ p \in Int /\ p \in Units /\ q \in Int /\ q \in Units
      /\ b \in Int /\ b \in Units /\ b # NULL
      /\ s \in Sizes /\ s \in Int /\ t \in Sizes /\ t \in Int
      /\ s >= 1 /\ t >= 1 /\ m \in HeapRecords
  BY <1>1, <1>3, <1>4, GeometryFacts
<1>6. q = b + t /\ b = p + s /\ u = s + t
  BY DEF EndsAt, End
<1> HIDE DEF q, s, t, F
<1>7. q = p + u /\ u \in Int
  BY <1>5, <1>6
<1>8. u \in Sizes /\ Follows(q, p, u)
  BY <1>5, <1>6, <1>7, ChunksAssumption DEF Units, Sizes, Follows
<1>9. SpanNext(m, K, L, p, b, F, q, u)
  BY <1>3, <1>5, <1>7, <1>8 DEF SpanNext, t
<1> QED BY <1>9 DEF q, F

(* A resized chunk, after a step that kept its heap.                         *)
LEMMA ResizedMore ==
    ASSUME NEW m, NEW r, NEW L, NEW p, NEW u \in Int, NEW nb \in Int, nb <= u,
           Resized(m, r, L, p, u),
           r.head[p].size \in Int
    PROVE  Resized(m, r, L, p, nb)
<1>1. ASSUME NEW w \in Sizes, w <= m.head[p].size, w <= nb PROVE SameBlock(m, r, p, w)
  <2>1. w <= u
    BY <1>1, ChunksAssumption DEF Sizes
  <2> QED BY <1>1, <2>1 DEF Resized, BlockKept
<1>2. r.head[p].size >= nb
  BY DEF Resized
<1> QED BY <1>1, <1>2 DEF Resized, BlockKept

(* The chunk grows into the free chunk after it.                             *)
LEMMA IntoNextResized ==
    ASSUME NEW m, NEW K, NEW L, Heap(m, K, L), NEW p \in L, NEW b, EndsAt(m, p, b),
           b \in FreeIn(m, K), b # m.dv, NEW nb \in Sizes, nb <= m.head[p].size + m.head[b].size
    PROVE  Resized(m, IntoNext(m, p, nb, b), L, p, nb)
<1> DEFINE u == m.head[p].size + m.head[b].size
           q == End(m.head, b)
           t == m.head[b].size
           n == unlink_chunk(m, b, t)
           F == FreeIn(m, K)
           c == p + nb
           d == u - nb
<1>1. IntoNext(m, p, nb, b) = IF d < MinChunk THEN set_inuse(n, p, u) ELSE SplitOff(n, p, nb, d)
  BY DEF IntoNext
<1>0. nb <= u
  OBVIOUS
<1>2. SpanNext(m, K, L, p, b, F, q, u)
  BY SpanNextIs
<1> HIDE DEF u, q, F
<1>3. /\ Span(m, K, L, p, q, F \ {b}) /\ q # Hi(m) /\ b \in F
      /\ q \in Units /\ p \in Units /\ q \in Int /\ p \in Int /\ b \in Units
      /\ u \in Sizes /\ u \in Int /\ Follows(q, p, u) /\ t \in Sizes /\ m \in HeapRecords
  BY <1>2 DEF SpanNext
<1>4. Indexed(m, F)
  BY DEF Heap, F
<1>5. Rebinned(m, n) /\ Indexed(n, F \ {b})
  BY <1>3, <1>4, UnlinkIndexed
<1> HIDE DEF n, t
<1>6. n \in HeapRecords /\ SameWords(m, n) /\ SameEnds(m, n) /\ n.head = m.head
  BY <1>5 DEF Rebinned, SameWords
<1>7. nb \in Int /\ nb >= 1 /\ d \in Int
  BY <1>3 DEF Sizes
<1>8. CASE d < MinChunk
  <2> DEFINE r == set_inuse(n, p, u)
  <2>1. MadeUsed(n, r, p, HeadWord(u, n.head[p].pinuse, TRUE), q)
    BY <1>3, <1>6, SetInuse
  <2>2. \A x \in Units : x # p /\ x # q => r.head[x] = n.head[x]
    <3>1. HeadsKept(n, r, p, q)
      BY <1>3, <1>6, SetInuseInside
    <3> QED BY <3>1 DEF HeadsKept
  <2>3. InsideKept(m, r, p, q)
    <3>1. \A x \in Units : p < x /\ x < q => r.head[x] = m.head[x]
      BY <1>3, <1>6, <2>2, ChunksAssumption DEF Units
    <3>2. r.foot = m.foot
      BY <1>6, <2>1 DEF MadeUsed, SameWords
    <3> QED BY <3>1, <3>2 DEF InsideKept
  <2>6. IntoNext(m, p, nb, b) = r
    BY <1>1, <1>8
  <2> HIDE DEF r
  <2>4. Rebinned(r, r) /\ SameIndex(n, r) /\ Within(m.head, m.foot, r.head, r.foot, p, q)
        /\ r.head[p].size = u
    BY <1>6, <2>1 DEF MadeUsed, Rewritten, Rebinned, SameWords, SameEnds, HeadWord
  <2>5. Indexed(r, F \ {b})
    <3>1. \A x \in F \ {b} : r.head[x].size = n.head[x].size
      BY <1>3, <1>6, <2>4, SpanSizes
    <3> QED BY <1>5, <2>4, <3>1, SameIndexed
  <2>9. MadeUsed(n, r, p, HeadWord(u, m.head[p].pinuse, TRUE), q)
    BY <1>6, <2>1
  <2>10. Rebinned(r, r)
    BY <2>4
  <2>7. Resized(m, r, L, p, u)
    BY <1>3, <1>6, <2>3, <2>5, <2>9, <2>10, SpanWhole
  <2>8. Resized(m, r, L, p, nb)
    BY <1>0, <1>3, <1>7, <2>4, <2>7, ResizedMore
  <2> QED BY <2>6, <2>8
<1>9. CASE d >= MinChunk
  <2>1. d \in Sizes /\ c \in Units /\ q = c + d
    BY <1>3, <1>7, <1>9, ChunksAssumption DEF Sizes, Units, MinChunk, Follows
  <2>2. Follows(c, p, nb) /\ Follows(q, c, d)
    BY <2>1 DEF Follows
  <2>3. IntoNext(m, p, nb, b) = SplitOff(n, p, nb, d)
    BY <1>1, <1>7, <1>9 DEF MinChunk
  <2> HIDE DEF c, d
  <2>4. Resized(m, SplitOff(n, p, nb, d), L, p, nb)
    BY <1>3, <1>5, <1>6, <2>1, <2>2, SplitOffResized
  <2> QED BY <2>3, <2>4
<1> QED BY <1>7, <1>8, <1>9 DEF MinChunk

(* The chunk grows into dv.                                                  *)
LEMMA IntoDvResized ==
    ASSUME NEW m, NEW K, NEW L, Heap(m, K, L), NEW p \in L, NEW b, EndsAt(m, p, b),
           b \in FreeIn(m, K), b = m.dv, NEW nb \in Sizes, nb <= m.head[p].size + m.head[b].size,
           nb >= m.head[p].size
    PROVE  Resized(m, IntoDv(m, p, nb), L, p, nb)
<1> DEFINE u == m.head[p].size + m.head[b].size
           q == End(m.head, b)
           F == FreeIn(m, K)
           c == p + nb
           d == u - nb
           s == m.head[p].size
<1>0. nb <= u /\ s = m.head[p].size
  OBVIOUS
<1>2. SpanNext(m, K, L, p, b, F, q, u)
  BY SpanNextIs
<1>4. Indexed(m, F)
  BY DEF Heap
<1>a. m.dvsize = m.head[b].size /\ m.dvsize # 0 /\ Bins(m.bins, m.head, F \ {b})
  <2>1. m.dv # NULL
    BY <1>2 DEF SpanNext
  <2> QED BY <1>4, <2>1 DEF Indexed
<1>1. IntoDv(m, p, nb) =
        IF d < MinChunk THEN [set_inuse(m, p, u) EXCEPT !.dv = NULL, !.dvsize = 0]
        ELSE [mark_pinuse(set_size_and_pinuse_of_free_chunk(set_inuse(m, p, nb), c, d),
                          p + u, FALSE)
                 EXCEPT !.dv = c, !.dvsize = d]
  BY <1>a DEF IntoDv
<1> HIDE DEF u, q, F, s
<1>3. /\ Span(m, K, L, p, q, F \ {b}) /\ q # Hi(m) /\ b \in F /\ m.head[q].cinuse = TRUE
      /\ q \in Units /\ p \in Units /\ q \in Int /\ p \in Int /\ b \in Units
      /\ u \in Sizes /\ u \in Int /\ Follows(q, p, u) /\ m \in HeapRecords /\ b # NULL
  BY <1>2 DEF SpanNext
<1>6. SameWords(m, m) /\ SameEnds(m, m)
  BY DEF SameWords, SameEnds
<1>b. SpanIs(m, K, p, q)
  BY <1>3, SpanFacts
<1>7. nb \in Int /\ nb >= 1 /\ d \in Int /\ s \in Int /\ m.head[p].pinuse \in BOOLEAN
  BY <1>3, <1>b DEF Sizes, SpanIs, s
<1>c. F \subseteq K /\ NULL \notin F
  <2>1. NULL \notin K
    BY GeometryFacts DEF Heap
  <2> QED BY <2>1 DEF F, FreeIn
<1>8. CASE d < MinChunk
  <2> DEFINE o == set_inuse(m, p, u)
             r == [o EXCEPT !.dv = NULL, !.dvsize = 0]
  <2>a. p \in Units /\ q \in Units /\ u \in Sizes /\ Follows(q, p, u) /\ m \in HeapRecords
    BY <1>3
  <2>1. MadeUsed(m, o, p, HeadWord(u, m.head[p].pinuse, TRUE), q)
    BY <2>a, SetInuse
  <2>2. \A x \in Units : x # p /\ x # q => o.head[x] = m.head[x]
    <3>1. HeadsKept(m, o, p, q)
      BY <2>a, SetInuseInside
    <3> QED BY <3>1 DEF HeadsKept
  <2>3. InsideKept(m, o, p, q)
    <3>1. \A x \in Units : p < x /\ x < q => o.head[x] = m.head[x]
      BY <1>3, <2>2, ChunksAssumption DEF Units
    <3>2. o.foot = m.foot
      BY <2>1 DEF MadeUsed
    <3> QED BY <3>1, <3>2 DEF InsideKept
  <2>4. IntoDv(m, p, nb) = r
    BY <1>1, <1>8
  <2> HIDE DEF o
  <2>5. /\ o \in HeapRecords /\ o.bins = m.bins /\ Within(m.head, m.foot, o.head, o.foot, p, q)
        /\ o.head[p].size = u
    BY <2>1 DEF MadeUsed, Rewritten, HeadWord, SameIndex
  <2>6. Rebinned(o, r) /\ r.bins = m.bins /\ r.head = o.head /\ r.dv = NULL /\ r.dvsize = 0
    <3>1. NULL \in Units /\ 0 \in Units
      BY ChunksAssumption DEF NULL, Units
    <3> QED BY <2>5, <3>1 DEF HeapRecords, Rebinned, SameWords, SameEnds
  <2> HIDE DEF r
  <2>7. \A x \in F \ {b} : o.head[x].size = m.head[x].size
    BY <1>3, <2>5, SpanSizes
  <2>8. Indexed(r, F \ {b})
    <3>1. Bins(m.bins, o.head, F \ {b})
      BY <1>a, <2>7, SameBins
    <3>2. (F \ {b}) \ {NULL} = F \ {b}
      BY <1>c
    <3> QED BY <2>6, <3>1, <3>2 DEF Indexed
  <2>b. Rebinned(o, r)
    BY <2>6
  <2>9. Resized(m, r, L, p, u)
    BY <1>3, <1>6, <2>1, <2>3, <2>b, <2>8, SpanWhole
  <2>10. Resized(m, r, L, p, nb)
    BY <1>0, <1>3, <1>7, <2>5, <2>6, <2>9, ResizedMore
  <2> QED BY <2>4, <2>10
<1>9. CASE d >= MinChunk
  <2>1. d \in Sizes /\ c \in Units /\ q = c + d /\ c \in Int /\ p < c /\ c < q /\ nb = c - p
        /\ d = q - c /\ c \in p..(q - 1)
    BY <1>3, <1>7, <1>9, ChunksAssumption DEF Sizes, Units, MinChunk, Follows
  <2>2. Follows(c, p, nb) /\ Follows(q, c, d) /\ c >= p + nb
    BY <1>7, <2>1 DEF Follows
  <2> DEFINE n1 == set_inuse(m, p, nb)
             n2 == set_size_and_pinuse_of_free_chunk(n1, c, d)
             n3 == mark_pinuse(n2, q, FALSE)
             r == [n3 EXCEPT !.dv = c, !.dvsize = d]
  <2>3. IntoDv(m, p, nb) = r
    <3>1. ~(d < MinChunk)
      BY <1>7, <1>9 DEF MinChunk
    <3> QED BY <1>1, <1>3, <3>1 DEF Follows
  <2>4. p # c /\ q # c /\ q # p
        /\ \A x \in Units :
            x \in Int /\ (x < p \/ x > q \/ (p < x /\ x < c) => x # p /\ x # c /\ x # q)
    BY <1>3, <2>1, ChunksAssumption DEF Units
  <2> HIDE DEF c, d
  <2>5. MadeUsed(m, n1, p, HeadWord(nb, m.head[p].pinuse, TRUE), c)
    BY <1>3, <2>1, <2>2, SetInuse
  <2>6. \A x \in Units : x # p /\ x # c => n1.head[x] = m.head[x]
    <3>1. HeadsKept(m, n1, p, c)
      BY <1>3, <2>1, <2>2, SetInuseInside
    <3> QED BY <3>1 DEF HeadsKept
  <2> HIDE DEF n1
  <2>7. n1 \in HeapRecords /\ SameIndex(m, n1) /\ SameEnds(m, n1) /\ n1.foot = m.foot
        /\ n1.head[p] = HeadWord(nb, m.head[p].pinuse, TRUE)
    BY <2>5 DEF MadeUsed, Rewritten
  <2>8. MadeFree(n1, n2, c, d, q)
    BY <1>3, <2>1, <2>2, <2>7, SizedFree
  <2> HIDE DEF n2
  <2>9. /\ n2 \in HeapRecords /\ SameIndex(n1, n2) /\ SameEnds(n1, n2)
        /\ n2.head[c] = HeadWord(d, TRUE, FALSE) /\ n2.foot[q] = d
        /\ \A x \in Units : x # c => n2.head[x] = n1.head[x]
        /\ \A x \in Units : x # q => n2.foot[x] = n1.foot[x]
    BY <2>8 DEF MadeFree, Rewritten
  <2>10. /\ n3 \in HeapRecords /\ SameIndex(n2, n3) /\ SameEnds(n2, n3) /\ n3.foot = n2.foot
         /\ n3.head[q].size = n2.head[q].size /\ n3.head[q].cinuse = n2.head[q].cinuse
         /\ n3.head[q].pinuse = FALSE
         /\ \A x \in Units : x # q => n3.head[x] = n2.head[x]
    <3>1. q \in Units /\ n2 \in HeapRecords /\ FALSE \in BOOLEAN
      BY <1>3, <2>9
    <3>2. PinuseSet(n2, n3, q, FALSE)
      BY <3>1, MarkPinuse
    <3> HIDE DEF n3
    <3> QED BY <3>2 DEF PinuseSet
  <2> HIDE DEF n3
  <2>11. d \in Units /\ d # 0
    BY <2>1, ChunksAssumption DEF Sizes, Units
  <2>12. /\ r \in HeapRecords /\ SameEnds(m, r) /\ r.bins = m.bins /\ r.dv = c /\ r.dvsize = d
         /\ r.head = n3.head /\ r.foot = n3.foot
    BY <2>1, <2>7, <2>9, <2>10, <2>11 DEF HeapRecords, SameIndex, SameEnds
  <2> HIDE DEF r
  <2>13. /\ r.head[p] = HeadWord(nb, m.head[p].pinuse, TRUE) /\ r.head[c] = HeadWord(d, TRUE, FALSE)
         /\ r.head[q].size = m.head[q].size /\ r.head[q].cinuse = m.head[q].cinuse
         /\ r.head[q].pinuse = FALSE /\ r.foot[q] = d
         /\ \A x \in Units : x # p /\ x # c /\ x # q => r.head[x] = m.head[x]
         /\ \A x \in Units : x # q => r.foot[x] = m.foot[x]
    <3>1. n1.head[q] = m.head[q] /\ n2.head[q] = m.head[q] /\ n2.head[p] = n1.head[p]
          /\ n3.head[p] = n2.head[p] /\ n3.head[c] = n2.head[c]
      BY <1>3, <2>1, <2>4, <2>6, <2>9, <2>10
    <3>2. \A x \in Units : x # p /\ x # c /\ x # q => n3.head[x] = m.head[x]
      BY <2>6, <2>9, <2>10
    <3>3. n3.foot[q] = d /\ \A x \in Units : x # q => n3.foot[x] = m.foot[x]
      <4>1. n3.foot = n2.foot /\ n2.foot[q] = d /\ n1.foot = m.foot
        BY <2>7, <2>9, <2>10
      <4>2. \A x \in Units : x # q => n2.foot[x] = n1.foot[x]
        BY <2>8 DEF MadeFree
      <4> QED BY <4>1, <4>2
    <3>4. n3.head[p] = HeadWord(nb, m.head[p].pinuse, TRUE) /\ n3.head[c] = HeadWord(d, TRUE, FALSE)
      BY <2>7, <2>9, <3>1
    <3>5. n3.head[q].size = m.head[q].size /\ n3.head[q].cinuse = m.head[q].cinuse
          /\ n3.head[q].pinuse = FALSE
      BY <2>10, <3>1
    <3> QED BY <2>12, <3>2, <3>3, <3>4, <3>5
  <2>14. Within(m.head, m.foot, r.head, r.foot, p, q)
    BY <1>3, <2>1, <2>4, <2>13 DEF Within
  <2>15. /\ r.head[p].size = nb /\ r.head[p].pinuse = m.head[p].pinuse /\ r.head[p].cinuse = TRUE
         /\ r.head[c].size = d /\ r.head[c].pinuse = TRUE /\ r.head[c].cinuse = FALSE
    BY <2>13 DEF HeadWord
  <2>16. Tag(r.head, r.foot, p, c) /\ Tag(r.head, r.foot, c, q)
    BY <1>3, <2>13, <2>15 DEF Tag
  <2>17. Reshaped(m, r, p, c, q)
    BY <1>3, <2>1, <2>12, <2>14, <2>15, <2>16 DEF Reshaped, SameEnds
  <2>18. /\ p \in K /\ q \in K \cup {Hi(m)} /\ p \in L
         /\ L \ (p..(q - 1)) = L \ {p} /\ F \ (p..(q - 1)) = F \ {b}
    BY <1>3 DEF Span, F
  <2>19. c # r.top
    <3>1. m.top >= q \/ m.top < p
      <4>1. Geometry(m, K) /\ q \in K
        BY <1>3, <2>18 DEF Heap
      <4>2. m.top \in K /\ End(m.head, m.top) = Hi(m) /\ m.top \in Int /\ q < Hi(m) /\ Hi(m) \in Int
        BY <4>1, GeometryFacts
      <4>3. m.top < q => End(m.head, m.top) <= q
        BY <4>1, <4>2 DEF Geometry, Tiled
      <4> QED BY <1>3, <4>2, <4>3
    <3>2. m.top \in Int
      BY GeometryFacts DEF Heap
    <3> QED BY <1>3, <2>1, <2>12, <3>1, <3>2 DEF SameEnds
  <2>20. FreeAfter(m, r, K, p, c, q) = (F \ {b}) \cup {c}
    BY <2>15, <2>18, <2>19 DEF FreeAfter, F
  <2>21. UsedAfter(r, L, p, c, q) = L
    BY <2>15, <2>18 DEF UsedAfter
  <2>22. c \notin F \ {b}
    BY <2>1, <2>18
  <2>23. Indexed(r, (F \ {b}) \cup {c})
    <3>1. \A x \in F \ {b} : r.head[x].size = m.head[x].size
      BY <1>3, <2>14, SpanSizes
    <3>2. Bins(m.bins, r.head, F \ {b})
      BY <1>a, <3>1, SameBins
    <3>3. ((F \ {b}) \cup {c}) \ {c} = F \ {b}
      BY <2>22
    <3> QED BY <2>11, <2>12, <2>15, <3>2, <3>3 DEF Indexed
  <2>24. HeapAfter(m, r, K, L, p, c, q)
    BY <2>1, <2>17, <2>18, <2>20, <2>23, Reshape
  <2>25. Heap(r, Chunks2(K, p, c, q), L) /\ Kept(m, r, L \ {p})
    BY <2>18, <2>21, <2>24 DEF HeapAfter
  <2>26. InsideKept(m, r, p, c)
    <3>1. \A x \in Units : p < x /\ x <= c => x # q
      BY <1>3, <2>1, <2>4
    <3> QED BY <2>4, <2>13, <3>1 DEF InsideKept
  <2>27. BlockKept(m, r, p, s, nb)
    BY <1>3, <1>7, <2>1, <2>2, <2>26, InsideBlock
  <2>28. r.head[p].size >= nb
    BY <1>7, <2>15
  <2>29. Resized(m, r, L, p, nb)
    BY <2>25, <2>27, <2>28 DEF Resized, s
  <2> QED BY <2>3, <2>29
<1> QED BY <1>7, <1>8, <1>9 DEF MinChunk

(* What try_realloc_chunk comes to.                                          *)
Tried(m, r, L, p, nb) ==
    (r.p = NULL /\ r.m = m) \/ (r.p = p /\ Resized(m, r.m, L, p, nb))

(* A chunk large enough, left as it is.                                      *)
LEMMA SameResized ==
    ASSUME NEW m, NEW K, NEW L, Heap(m, K, L), NEW p, NEW nb, m.head[p].size >= nb
    PROVE  Resized(m, m, L, p, nb)
<1>1. Kept(m, m, L \ {p})
  BY SameWordsKept
<1>2. BlockKept(m, m, p, m.head[p].size, nb)
  BY DEF BlockKept, SameBlock
<1> QED BY <1>1, <1>2 DEF Resized

(* try_realloc_chunk gives the same chunk, large enough, its data and every  *)
(* other block kept, or NULL.                                                *)
LEMMA TryResized ==
    ASSUME NEW m, NEW K, NEW L, Heap(m, K, L), NEW p \in L, NEW nb \in Int, nb >= 2
    PROVE  Tried(m, try_realloc_chunk(m, p, nb), L, p, nb)
<1> DEFINE s == m.head[p].size
           b == p + s
           r == try_realloc_chunk(m, p, nb)
           F == FreeIn(m, K)
           t == s - nb
           c == p + nb
<1>1. Geometry(m, K) /\ L = UsedIn(m, K) /\ Indexed(m, F)
  BY DEF Heap
<1>2. EndsAt(m, p, b)
  BY DEF EndsAt, End
<1>3. Span(m, K, L, p, b, F) /\ b \in K /\ b # Hi(m)
  BY <1>2, SpanAlone
<1>4. /\ p \in Int /\ b \in Int /\ p \in Units /\ b \in Units /\ s \in Sizes /\ s \in Int /\ s >= 1
      /\ m \in HeapRecords /\ m.topsize \in Int /\ b # NULL /\ m.head[b].size \in Sizes
      /\ m.head[b].size \in Int /\ m.head[b].size >= 1 /\ Hi(m) \in Units /\ Hi(m) \in Int
  <2>1. p \in K
    BY <1>3 DEF Span
  <2> QED BY <1>1, <1>3, <2>1, GeometryFacts
<1>5. SameWords(m, m) /\ SameEnds(m, m)
  BY DEF SameWords, SameEnds
<1>6. CASE s >= nb /\ t >= MinChunk
  <2>1. r = Result(SplitOff(m, p, nb, t), p)
    BY <1>6 DEF try_realloc_chunk
  <2>2. nb \in Sizes /\ t \in Sizes /\ c \in Units /\ b = c + t
    BY <1>4, <1>6, ChunksAssumption DEF Sizes, Units, MinChunk
  <2>3. Follows(c, p, nb) /\ Follows(b, c, t)
    BY <2>2 DEF Follows
  <2> HIDE DEF c, t, b, F
  <2>4. Resized(m, SplitOff(m, p, nb, t), L, p, nb)
    BY <1>1, <1>3, <1>4, <1>5, <2>2, <2>3, SplitOffResized
  <2> QED BY <2>1, <2>4 DEF Tried, Result
<1>7. CASE s >= nb /\ ~(t >= MinChunk)
  <2>1. r = Result(m, p)
    BY <1>7 DEF try_realloc_chunk
  <2>2. Resized(m, m, L, p, nb)
    BY <1>7, SameResized
  <2> QED BY <2>1, <2>2 DEF Tried, Result
<1>8. CASE ~(s >= nb) /\ b = m.top
  <2>1. CASE s + m.topsize > nb
    <3>1. r = Result(IntoTop(m, p, nb), p)
      BY <1>8, <2>1 DEF try_realloc_chunk
    <3>2. nb \in Sizes
      <4>1. Hi(m) = b + m.topsize
        BY <1>8 DEF Hi
      <4> QED BY <1>4, <2>1, <4>1, ChunksAssumption DEF Sizes, Units
    <3>3. nb >= m.head[p].size /\ EndsAt(m, p, m.top)
      BY <1>2, <1>4, <1>8
    <3>4. Resized(m, IntoTop(m, p, nb), L, p, nb)
      BY <2>1, <3>2, <3>3, IntoTopResized
    <3> QED BY <3>1, <3>4 DEF Tried, Result
  <2>2. CASE ~(s + m.topsize > nb)
    BY <1>8, <2>2 DEF try_realloc_chunk, Tried, Result
  <2> QED BY <2>1, <2>2
<1> DEFINE u == s + m.head[b].size
<1>9. ASSUME b \in F, nb <= u PROVE nb \in Sizes
  <2>1. SpanNext(m, K, L, p, b, F, End(m.head, b), u)
    <3> HIDE DEF b
    <3> QED BY <1>2, <1>9, SpanNextIs
  <2>2. u \in Sizes
    BY <2>1 DEF SpanNext
  <2> HIDE DEF u
  <2> QED BY <1>9, <2>2, ChunksAssumption DEF Sizes
<1>10. CASE ~(s >= nb) /\ b # m.top /\ b = m.dv
  <2>1. b \in F /\ m.dvsize = m.head[b].size
    BY <1>1, <1>4, <1>10 DEF Indexed
  <2>2. CASE nb <= u
    <3>1. r = Result(IntoDv(m, p, nb), p)
      <4>1. s + m.dvsize >= nb
        BY <1>4, <2>1, <2>2
      <4> QED BY <1>10, <4>1 DEF try_realloc_chunk
    <3>2. nb \in Sizes
      BY <1>9, <2>1, <2>2
    <3>3. nb >= m.head[p].size
      BY <1>4, <1>10
    <3> HIDE DEF b
    <3>4. Resized(m, IntoDv(m, p, nb), L, p, nb)
      BY <1>2, <1>10, <2>1, <2>2, <3>2, <3>3, IntoDvResized
    <3> QED BY <3>1, <3>4 DEF Tried, Result
  <2>3. CASE ~(nb <= u)
    <3>1. ~(s + m.dvsize >= nb)
      BY <1>4, <2>1, <2>3
    <3>2. r = Result(m, NULL)
      BY <1>10, <3>1 DEF try_realloc_chunk
    <3> QED BY <3>2 DEF Tried, Result
  <2> QED BY <2>2, <2>3
<1>11. CASE ~(s >= nb) /\ b # m.top /\ b # m.dv
  <2>1. CASE ~m.head[b].cinuse /\ u >= nb
    <3>1. r = Result(IntoNext(m, p, nb, b), p)
      BY <1>11, <2>1 DEF try_realloc_chunk
    <3>2. b \in F /\ nb <= u
      BY <1>3, <1>4, <1>11, <2>1 DEF FreeIn
    <3>3. nb \in Sizes
      BY <1>9, <3>2
    <3> HIDE DEF b
    <3>4. Resized(m, IntoNext(m, p, nb, b), L, p, nb)
      BY <1>2, <1>11, <3>2, <3>3, IntoNextResized
    <3> QED BY <3>1, <3>4 DEF Tried, Result
  <2>2. CASE ~(~m.head[b].cinuse /\ u >= nb)
    <3>1. r = Result(m, NULL)
      BY <1>11, <2>2 DEF try_realloc_chunk
    <3> QED BY <3>1 DEF Tried, Result
  <2> QED BY <2>1, <2>2
<1> QED BY <1>6, <1>7, <1>8, <1>10, <1>11
-----------------------------------------------------------------------------
(* The words callers write, and dlrealloc.                                   *)

(* The words of d bytes are within a chunk of s units.                       *)
Fits(s, d) == d \in Nat /\ Words(d) <= 2 * s - 1

(* A block is a number of words.                                             *)
LEMMA WordsNat ==
    ASSUME NEW d \in Nat
    PROVE  Words(d) \in Nat
  BY DEF Words, WordBytes

(* A smaller block is no more words.                                         *)
LEMMA WordsLess ==
    ASSUME NEW d \in Nat, NEW e \in Nat, d <= e
    PROVE  Words(d) <= Words(e)
  BY DEF Words, WordBytes

(* request2size gives room for the block.                                    *)
LEMMA WordsFit ==
    ASSUME NEW d \in Nat
    PROVE  Words(d) <= 2 * request2size(d) - 1
  BY DEF Words, WordBytes, request2size, UnitBytes, MinChunk

(* A chunk's room in bytes, as dlrealloc computes it, and in words.          *)
LEMMA RoomWords ==
    ASSUME NEW s \in Nat, s >= 1
    PROVE  /\ UnitBytes * s - WordBytes \in Nat
           /\ Words(UnitBytes * s - WordBytes) = 2 * s - 1
  BY DEF Words, WordBytes, UnitBytes

(* The words of a block that fits lie after the head and up to the next      *)
(* foot.                                                                     *)
LEMMA UnitsIn ==
    ASSUME NEW p \in Int, NEW w \in Nat, NEW s \in Int, w <= 2 * s - 1
    PROVE  /\ FootUnits(p, w) \subseteq (p + 1)..(p + s)
           /\ HeadUnits(p, w) \subseteq (p + 1)..(p + s - 1)
<1>1. (w + 1) \div 2 <= s /\ w \div 2 <= s - 1 /\ (w + 1) \div 2 \in Int /\ w \div 2 \in Int
  OBVIOUS
<1> QED BY <1>1 DEF FootUnits, HeadUnits

(* The words of a smaller block are among those of a larger.                 *)
LEMMA UnitsLess ==
    ASSUME NEW p \in Int, NEW w \in Nat, NEW v \in Nat, v <= w
    PROVE  /\ FootUnits(p, v) \subseteq FootUnits(p, w)
           /\ HeadUnits(p, v) \subseteq HeadUnits(p, w)
<1>1. /\ (v + 1) \div 2 <= (w + 1) \div 2 /\ v \div 2 <= w \div 2
      /\ (w + 1) \div 2 \in Int /\ w \div 2 \in Int /\ (v + 1) \div 2 \in Int /\ v \div 2 \in Int
  OBVIOUS
<1> QED BY <1>1 DEF FootUnits, HeadUnits

(* What was written in a block is still there when its words are kept.       *)
LEMMA HoldsKept ==
    ASSUME NEW m, NEW r, NEW q \in Units, NEW s \in Int, q + s <= MaxBrk, SameBlock(m, r, q, s),
           NEW o, NEW d, Fits(s, d), Holds(m, q, o, d)
    PROVE  Holds(r, q, o, d)
<1> DEFINE w == Words(d)
<1>1. w \in Nat /\ w <= 2 * s - 1 /\ q \in Int /\ q >= 0
  BY WordsNat, ChunksAssumption DEF Fits, Units
<1> HIDE DEF w
<1>2. FootUnits(q, w) \subseteq (q + 1)..(q + s) /\ HeadUnits(q, w) \subseteq (q + 1)..(q + s - 1)
  BY <1>1, UnitsIn
<1>3. \A u \in (q + 1)..(q + s) : u \in Units /\ q < u /\ u <= q + s
  BY <1>1, ChunksAssumption DEF Units
<1>4. \A u \in (q + 1)..(q + s - 1) : u \in Units /\ q < u /\ u < q + s
  BY <1>1, ChunksAssumption DEF Units
<1>5. /\ \A u \in FootUnits(q, w) : m.foot[u] = -o
      /\ \A u \in HeadUnits(q, w) : m.head[u] = OwnHead(o)
  BY DEF Holds, w
<1>6. /\ \A u \in FootUnits(q, w) : r.foot[u] = m.foot[u]
      /\ \A u \in HeadUnits(q, w) : r.head[u] = m.head[u]
  BY <1>2, <1>3, <1>4 DEF SameBlock
<1> QED BY <1>5, <1>6 DEF Holds, w

(* r is m but for the words of the block at q, up to b.                      *)
Filled(m, r, q, b) ==
    /\ r \in HeapRecords /\ SameIndex(m, r) /\ SameEnds(m, r)
    /\ \A u \in Units : u <= q \/ u >= b => r.head[u] = m.head[u]
    /\ \A u \in Units : u <= q \/ u > b => r.foot[u] = m.foot[u]

(* Writing a block changes nothing of the heap nor of another block.         *)
LEMMA FilledHeap ==
    ASSUME NEW m, NEW K, NEW L, Heap(m, K, L), NEW q \in L, NEW b, EndsAt(m, q, b),
           NEW r, Filled(m, r, q, b)
    PROVE  (\E K2 : Heap(r, K2, L)) /\ Kept(m, r, L \ {q}) /\ r.head[q].size = m.head[q].size
<1>1. Geometry(m, K) /\ L = UsedIn(m, K) /\ Indexed(m, FreeIn(m, K))
  BY DEF Heap
<1>2. UsedAt(m, K, q, b)
  BY UsedFacts
<1>3. /\ q \in K /\ b \in K /\ b # Hi(m) /\ q < b /\ m.head[q].cinuse = TRUE /\ q # m.top
      /\ m.head[b].pinuse = TRUE /\ \A x \in K : x \in q..(b - 1) <=> x = q
  BY <1>2 DEF UsedAt
<1>4. q \in Int /\ b \in Int /\ q \in Units /\ b \in Units /\ m.head[q].size \in Int
  BY <1>1, <1>3, GeometryFacts
<1>5. m.head[q].size = b - q
  BY <1>4 DEF EndsAt, End
<1>6. r.head[q] = m.head[q] /\ r.head[b] = m.head[b]
  BY <1>4 DEF Filled
<1>7. Within(m.head, m.foot, r.head, r.foot, q, b)
  <2>1. \A u \in Units : u \in Int
    BY ChunksAssumption DEF Units
  <2> QED BY <1>4, <1>6, <2>1 DEF Within, Filled
<1>8. Tag(r.head, r.foot, q, b)
  BY <1>3, <1>6 DEF Tag
<1>9. Reshaped(m, r, q, q, b)
  BY <1>3, <1>5, <1>6, <1>7, <1>8 DEF Reshaped, Filled, SameEnds
<1>10. q \in q..(b - 1) /\ q \notin FreeIn(m, K) /\ L \subseteq K /\ FreeIn(m, K) \subseteq K
  BY <1>1, <1>3 DEF FreeIn, UsedIn
<1>11. FreeAfter(m, r, K, q, q, b) = FreeIn(m, K)
  BY <1>3, <1>6, <1>10 DEF FreeAfter
<1>12. UsedAfter(r, L, q, q, b) = L /\ L \ (q..(b - 1)) = L \ {q}
  BY <1>3, <1>6, <1>10 DEF UsedAfter
<1>13. Indexed(r, FreeIn(m, K))
  <2>1. Kept(m, r, K \ (q..(b - 1)))
    BY <1>1, <1>3, <1>7, ReshapeKept
  <2>2. FreeIn(m, K) \subseteq K \ (q..(b - 1))
    BY <1>3, <1>10
  <2>3. \A x \in FreeIn(m, K) : r.head[x].size = m.head[x].size
    BY <2>1, <2>2 DEF Kept
  <2>4. SameIndex(m, r)
    BY DEF Filled
  <2> QED BY <1>1, <2>3, <2>4, SameIndexed
<1>14. HeapAfter(m, r, K, L, q, q, b)
  BY <1>3, <1>9, <1>10, <1>11, <1>13, Reshape
<1>15. Heap(r, Chunks2(K, q, q, b), L) /\ Kept(m, r, L \ {q})
  BY <1>12, <1>14 DEF HeapAfter
<1> QED BY <1>6, <1>15

RoomAt(m, q, s, b) ==
    /\ q \in Units /\ q \in Int /\ b \in Units /\ b \in Int /\ s \in Int /\ s >= 1 /\ b = q + s
    /\ q >= 0 /\ b <= MaxBrk /\ m \in HeapRecords /\ q # NULL

(* A block in the heap, and its room.                                        *)
LEMMA BlockRoom ==
    ASSUME NEW m, NEW K, NEW L, Heap(m, K, L), NEW q \in L, NEW s, s = m.head[q].size,
           NEW b, EndsAt(m, q, b)
    PROVE  RoomAt(m, q, s, b)
<1>1. Geometry(m, K) /\ UsedAt(m, K, q, b)
  BY UsedFacts DEF Heap
<1>2. q \in K /\ b \in K
  BY <1>1 DEF UsedAt
<1>3. /\ q \in Units /\ q \in Int /\ b \in Units /\ b \in Int /\ s \in Int /\ s >= 1
      /\ m \in HeapRecords /\ q # NULL
  BY <1>1, <1>2, GeometryFacts
<1>4. b = q + s /\ q >= 0 /\ b <= MaxBrk
  BY <1>3, ChunksAssumption DEF EndsAt, End, Units
<1> QED BY <1>3, <1>4 DEF RoomAt

(* A caller that writes its block writes nothing else.                       *)
LEMMA WrittenFilled ==
    ASSUME NEW m, NEW q, NEW s, NEW b, RoomAt(m, q, s, b), NEW d, Fits(s, d)
    PROVE  Filled(m, Written(m, q, d), q, b) /\ Holds(Written(m, q, d), q, q, d)
<1> DEFINE w == Words(d)
           r == Written(m, q, d)
<1>1. /\ q \in Units /\ q \in Int /\ b \in Units /\ b \in Int /\ s \in Int /\ s >= 1 /\ b = q + s
      /\ q >= 0 /\ b <= MaxBrk /\ m \in HeapRecords
  BY DEF RoomAt
<1>2. w \in Nat /\ w <= 2 * s - 1
  BY WordsNat DEF Fits
<1> DEFINE FU == FootUnits(q, w)
           HU == HeadUnits(q, w)
<1>3. FU \subseteq (q + 1)..(q + s) /\ HU \subseteq (q + 1)..(q + s - 1)
  BY <1>1, <1>2, UnitsIn
<1>4. r = [m EXCEPT !.foot = [u \in Units |-> IF u \in FU THEN -q ELSE @[u]],
                    !.head = [u \in Units |-> IF u \in HU THEN OwnHead(q) ELSE @[u]]]
  BY DEF Written
<1> HIDE DEF w, FU, HU, r
<1> DEFINE ft == [u \in Units |-> IF u \in FU THEN -q ELSE m.foot[u]]
           hd == [u \in Units |-> IF u \in HU THEN OwnHead(q) ELSE m.head[u]]
<1>5. -q \in Amounts /\ OwnHead(q) \in [size : Amounts, pinuse : BOOLEAN, cinuse : BOOLEAN]
  BY <1>1, ChunksAssumption DEF Amounts, Units, OwnHead, HeadWord
<1>6. ft \in Feet
  BY <1>1, <1>5 DEF Feet, HeapRecords
<1>7. hd \in Heads
  <2>1. m.head \in Heads
    BY <1>1 DEF HeapRecords
  <2> QED BY <1>5, <2>1 DEF Heads
<1>8. r = [m EXCEPT !.foot = ft, !.head = hd]
  BY <1>1, <1>4 DEF HeapRecords
<1>9. \A u \in Units : /\ u \in FU => ft[u] = -q
                       /\ u \notin FU => ft[u] = m.foot[u]
                       /\ u \in HU => hd[u] = OwnHead(q)
                       /\ u \notin HU => hd[u] = m.head[u]
  OBVIOUS
<1> HIDE DEF ft, hd
<1>10. r \in HeapRecords /\ SameIndex(m, r) /\ SameEnds(m, r) /\ r.foot = ft /\ r.head = hd
  BY <1>1, <1>6, <1>7, <1>8 DEF HeapRecords, SameIndex, SameEnds
<1>11. \A u \in Units : /\ u <= q \/ u >= b => u \notin HU
                        /\ u <= q \/ u > b => u \notin FU
  BY <1>1, <1>3
<1>12. Filled(m, r, q, b)
  BY <1>9, <1>10, <1>11 DEF Filled
<1>13. FU \subseteq Units /\ HU \subseteq Units
  BY <1>1, <1>3, ChunksAssumption DEF Units
<1>14. Holds(r, q, q, d)
  BY <1>9, <1>10, <1>13 DEF Holds, FU, HU, w
<1> QED BY <1>12, <1>14 DEF r

(* The memcpy of dlrealloc writes within the new block, all that was to be   *)
(* kept.                                                                     *)
LEMMA CopiedFilled ==
    ASSUME NEW m, NEW q, NEW s, NEW b, RoomAt(m, q, s, b),
           NEW p, NEW s2, NEW b2, RoomAt(m, p, s2, b2),
           NEW w \in Nat, w <= 2 * s - 1, w <= 2 * s2 - 1
    PROVE  /\ Filled(m, Copied(m, p, q, w), q, b)
           /\ \A d \in Nat : Words(d) <= w /\ Holds(m, p, p, d) =>
                                Holds(Copied(m, p, q, w), q, p, d)
<1> DEFINE r == Copied(m, p, q, w)
           FU == FootUnits(q, w)
           HU == HeadUnits(q, w)
<1>1. /\ q \in Units /\ q \in Int /\ b \in Units /\ b \in Int /\ s \in Int /\ s >= 1 /\ b = q + s
      /\ q >= 0 /\ b <= MaxBrk /\ m \in HeapRecords
      /\ p \in Int /\ s2 \in Int /\ b2 = p + s2 /\ p >= 0 /\ b2 <= MaxBrk
  BY DEF RoomAt
<1>2. FU \subseteq (q + 1)..(q + s) /\ HU \subseteq (q + 1)..(q + s - 1)
  BY <1>1, UnitsIn
<1>3. /\ FU \subseteq (q + 1)..(q + s2) /\ HU \subseteq (q + 1)..(q + s2 - 1)
  BY <1>1, UnitsIn
<1>4. r = [m EXCEPT !.foot = [u \in Units |-> IF u \in FU THEN m.foot[u - q + p] ELSE @[u]],
                    !.head = [u \in Units |-> IF u \in HU THEN m.head[u - q + p] ELSE @[u]]]
  BY DEF Copied
<1> HIDE DEF FU, HU, r
<1> DEFINE ft == [u \in Units |-> IF u \in FU THEN m.foot[u - q + p] ELSE m.foot[u]]
           hd == [u \in Units |-> IF u \in HU THEN m.head[u - q + p] ELSE m.head[u]]
<1>5. \A u \in Units : u \in FU \/ u \in HU => u - q + p \in Units
  BY <1>1, <1>3, ChunksAssumption DEF Units
<1>6. ft \in Feet
  BY <1>1, <1>5 DEF Feet, HeapRecords
<1>7. hd \in Heads
  <2>1. m.head \in Heads
    BY <1>1 DEF HeapRecords
  <2> QED BY <1>5, <2>1 DEF Heads
<1>8. r = [m EXCEPT !.foot = ft, !.head = hd]
  BY <1>1, <1>4 DEF HeapRecords
<1>9. \A u \in Units : /\ u \in FU => ft[u] = m.foot[u - q + p]
                       /\ u \notin FU => ft[u] = m.foot[u]
                       /\ u \in HU => hd[u] = m.head[u - q + p]
                       /\ u \notin HU => hd[u] = m.head[u]
  OBVIOUS
<1> HIDE DEF ft, hd
<1>10. r \in HeapRecords /\ SameIndex(m, r) /\ SameEnds(m, r) /\ r.foot = ft /\ r.head = hd
  BY <1>1, <1>6, <1>7, <1>8 DEF HeapRecords, SameIndex, SameEnds
<1>11. \A u \in Units : /\ u <= q \/ u >= b => u \notin HU
                        /\ u <= q \/ u > b => u \notin FU
  BY <1>1, <1>2
<1>12. Filled(m, r, q, b)
  BY <1>9, <1>10, <1>11 DEF Filled
<1>13. FU \subseteq Units /\ HU \subseteq Units
  BY <1>1, <1>2, ChunksAssumption DEF Units
<1>14. ASSUME NEW d \in Nat, Words(d) <= w, Holds(m, p, p, d) PROVE Holds(r, q, p, d)
  <2> DEFINE v == Words(d)
  <2>1. v \in Nat /\ v <= w
    BY <1>14, WordsNat
  <2>2. /\ \A u \in FootUnits(p, v) : m.foot[u] = -p
        /\ \A u \in HeadUnits(p, v) : m.head[u] = OwnHead(p)
    BY <1>14 DEF Holds
  <2> HIDE DEF v
  <2>3. FootUnits(q, v) \subseteq FU /\ HeadUnits(q, v) \subseteq HU
    BY <1>1, <2>1, UnitsLess DEF FU, HU
  <2>4. /\ \A u \in FootUnits(q, v) : u - q + p \in FootUnits(p, v)
        /\ \A u \in HeadUnits(q, v) : u - q + p \in HeadUnits(p, v)
    <3>1. (v + 1) \div 2 \in Int /\ v \div 2 \in Int
      BY <2>1
    <3> QED BY <1>1, <3>1 DEF FootUnits, HeadUnits
  <2>5. /\ \A u \in FootUnits(q, v) : r.foot[u] = -p
        /\ \A u \in HeadUnits(q, v) : r.head[u] = OwnHead(p)
    BY <1>9, <1>10, <1>13, <2>2, <2>3, <2>4
  <2> QED BY <2>5 DEF Holds, v
<1> QED BY <1>12, <1>14 DEF r

Lesser(a, b) == IF a < b THEN a ELSE b

(* A block that holds its data holds the first part of it.                   *)
LEMMA HoldsLess ==
    ASSUME NEW m, NEW q \in Int, NEW o, NEW d \in Nat, NEW e \in Nat, e <= d, Holds(m, q, o, d)
    PROVE  Holds(m, q, o, e)
<1>1. Words(d) \in Nat /\ Words(e) \in Nat /\ Words(e) <= Words(d)
  BY WordsNat, WordsLess
<1>2. /\ FootUnits(q, Words(e)) \subseteq FootUnits(q, Words(d))
      /\ HeadUnits(q, Words(e)) \subseteq HeadUnits(q, Words(d))
  BY <1>1, UnitsLess
<1> QED BY <1>2 DEF Holds

(* What a call of dlrealloc comes to.                                        *)
DataMoved(m, r, p, q, bytes) ==
    \A d \in Nat : Fits(m.head[p].size, d) /\ Holds(m, p, p, d) => Holds(r, q, p, Lesser(bytes, d))
Reallocated(m, r, L, p, bytes) ==
    IF r.p = NULL THEN HeapOK(r.m, L) /\ Kept(m, r.m, L)
    ELSE /\ \E K2 : Heap(r.m, K2, (L \ {p}) \cup {r.p})
         /\ r.p \notin L \ {p} /\ Kept(m, r.m, L \ {p}) /\ Fits(r.m.head[r.p].size, bytes)
         /\ DataMoved(m, r.m, p, r.p, bytes)

(* The data of a chunk resized in place.                                     *)
LEMMA InPlaceMoved ==
    ASSUME NEW m, NEW K, NEW L, Heap(m, K, L), NEW p \in L, NEW bytes \in Nat,
           NEW r, Resized(m, r, L, p, request2size(bytes))
    PROVE  DataMoved(m, r, p, p, bytes) /\ Fits(r.head[p].size, bytes)
<1> DEFINE s == m.head[p].size
           nb == request2size(bytes)
           b == End(m.head, p)
           w == Lesser(s, nb)
<1>1. RoomAt(m, p, s, b)
  BY BlockRoom DEF EndsAt
<1>2. /\ p \in Units /\ p \in Int /\ b \in Int /\ s \in Int /\ s >= 1 /\ b = p + s /\ b <= MaxBrk
      /\ p >= 0
  BY <1>1 DEF RoomAt
<1>3. nb \in Int /\ nb >= 2 /\ Words(bytes) <= 2 * nb - 1 /\ Words(bytes) \in Int
  BY ChunkSize, WordsFit, WordsNat
<1>4. BlockKept(m, r, p, s, nb) /\ r.head[p].size >= nb /\ r.head[p].size \in Int
  <2>1. PICK K2 : Heap(r, K2, L)
    BY DEF Resized
  <2>2. RoomAt(r, p, r.head[p].size, End(r.head, p))
    BY <2>1, BlockRoom DEF EndsAt
  <2> QED BY <2>2 DEF Resized, RoomAt
<1>5. Fits(r.head[p].size, bytes)
  BY <1>3, <1>4 DEF Fits
<1> HIDE DEF s, nb, b
<1>6. w \in Int /\ w <= s /\ w <= nb /\ w \in Sizes /\ p + w <= MaxBrk /\ (w = s \/ w = nb)
  BY <1>2, <1>3, ChunksAssumption DEF Lesser, Sizes
<1> HIDE DEF w
<1>7. SameBlock(m, r, p, w)
  BY <1>4, <1>6 DEF BlockKept
<1>8. ASSUME NEW d \in Nat, Fits(s, d), Holds(m, p, p, d)
      PROVE  Holds(r, p, p, Lesser(bytes, d))
  <2> DEFINE e == Lesser(bytes, d)
  <2>1. e \in Nat /\ e <= d /\ e <= bytes
    BY DEF Lesser
  <2> HIDE DEF e
  <2>2. Words(e) <= Words(d) /\ Words(e) <= Words(bytes) /\ Words(e) \in Int /\ Words(d) \in Int
    BY <2>1, WordsNat, WordsLess
  <2>3. Fits(w, e)
    <3>1. Words(d) <= 2 * s - 1
      BY <1>8 DEF Fits
    <3> QED BY <1>2, <1>3, <1>6, <2>1, <2>2, <3>1 DEF Fits
  <2>4. Holds(m, p, p, e)
    BY <1>2, <1>8, <2>1, HoldsLess
  <2>5. Holds(r, p, p, e)
    BY <1>2, <1>6, <1>7, <2>3, <2>4, HoldsKept
  <2> QED BY <2>5 DEF e
<1>9. DataMoved(m, r, p, p, bytes)
  BY <1>8 DEF DataMoved, s
<1> QED BY <1>5, <1>9

(* The data of a block copied to a new one, the old then freed.              *)
LEMMA CopyReallocated ==
    ASSUME NEW m, NEW K, NEW L, Heap(m, K, L), NEW p \in L, NEW bytes \in Nat,
           NEW o, NEW q, Got(m, o, L, q, request2size(bytes)),
           NEW x \in Nat, x = Lesser(UnitBytes * m.head[p].size - WordBytes, bytes)
    PROVE  Reallocated(m, Result(dlfree(Copied(o, p, q, Words(x)), p), q), L, p, bytes)
<1> DEFINE s == m.head[p].size
           nb == request2size(bytes)
           w == Words(x)
           c == Copied(o, p, q, w)
           r == dlfree(c, p)
           sq == o.head[q].size
           b == End(o.head, q)
<1>1. PICK K2 : Heap(o, K2, L \cup {q})
  BY DEF Got
<1>2. q \notin L /\ Kept(m, o, L) /\ o.head[q].size >= nb /\ q # NULL
  BY DEF Got
<1>3. o.head[p].size = s /\ SameBlock(m, o, p, s)
  BY <1>2 DEF Kept
<1>4. RoomAt(m, p, s, End(m.head, p))
  BY BlockRoom DEF EndsAt
<1>5. RoomAt(o, p, s, End(o.head, p)) /\ RoomAt(o, q, sq, b)
  BY <1>1, <1>3, BlockRoom DEF EndsAt
<1>6. /\ s \in Int /\ s >= 1 /\ p \in Units /\ p \in Int /\ q \in Int
      /\ sq \in Int /\ p + s <= MaxBrk
      /\ q \in Units /\ q + sq <= MaxBrk
  BY <1>4, <1>5 DEF RoomAt
<1>7. nb \in Int /\ nb >= 2 /\ Words(bytes) <= 2 * nb - 1 /\ Words(bytes) \in Int
  BY ChunkSize, WordsFit, WordsNat
<1>8. w \in Nat /\ w <= 2 * s - 1 /\ w <= 2 * sq - 1
      /\ \A e \in Nat : e <= bytes /\ Words(e) <= 2 * s - 1 => Words(e) <= w
  <2> DEFINE oc == UnitBytes * s - WordBytes
  <2>1. oc \in Nat /\ Words(oc) = 2 * s - 1
    BY <1>6, RoomWords
  <2> HIDE DEF oc
  <2>2. x <= oc /\ x <= bytes /\ (x = oc \/ x = bytes)
    BY <2>1 DEF Lesser, oc
  <2>3. w \in Nat /\ w <= Words(oc) /\ w <= Words(bytes)
    BY <2>1, <2>2, WordsNat, WordsLess
  <2>4. ASSUME NEW e \in Nat, e <= bytes, Words(e) <= 2 * s - 1 PROVE Words(e) <= w
    BY <2>1, <2>2, <2>4, WordsLess
  <2> HIDE DEF w, nb, s
  <2> QED BY <1>2, <1>6, <1>7, <2>1, <2>3, <2>4 DEF nb
<1> HIDE DEF w, nb, s, sq, b
<1>9. Filled(o, c, q, b)
  BY <1>5, <1>8, CopiedFilled
<1>10. \A d \in Nat : Words(d) <= w /\ Holds(o, p, p, d) => Holds(c, q, p, d)
  BY <1>5, <1>8, CopiedFilled
<1> HIDE DEF c
<1>11. (\E K3 : Heap(c, K3, L \cup {q})) /\ Kept(o, c, L) /\ c.head[q].size = sq
  <2>1. EndsAt(o, q, b) /\ (L \cup {q}) \ {q} = L /\ q \in L \cup {q}
    BY <1>2 DEF EndsAt, b
  <2>2. (\E K3 : Heap(c, K3, L \cup {q})) /\ Kept(o, c, (L \cup {q}) \ {q})
        /\ c.head[q].size = o.head[q].size
    BY <1>1, <1>9, <2>1, FilledHeap
  <2> QED BY <2>1, <2>2 DEF sq
<1>12. PICK K3 : Heap(c, K3, L \cup {q})
  BY <1>11
<1>13. Freed(c, r, L \cup {q}, p)
  BY <1>12, DisposeFreed DEF dlfree
<1> HIDE DEF r
<1>14. (L \cup {q}) \ {p} = (L \ {p}) \cup {q}
  BY <1>2
<1>15. (\E K4 : Heap(r, K4, (L \ {p}) \cup {q})) /\ Kept(c, r, (L \ {p}) \cup {q})
  BY <1>13, <1>14 DEF Freed
<1>16. Kept(m, r, L \ {p})
  <2>1. Kept(m, o, L \ {p}) /\ Kept(o, c, L \ {p}) /\ Kept(c, r, L \ {p})
    BY <1>2, <1>11, <1>15 DEF Kept
  <2>2. Kept(m, c, L \ {p})
    BY <2>1, KeptTwice
  <2> QED BY <2>1, <2>2, KeptTwice
<1>17. r.head[q].size = sq /\ SameBlock(c, r, q, sq)
  BY <1>11, <1>15 DEF Kept
<1>18. Fits(r.head[q].size, bytes)
  BY <1>2, <1>6, <1>7, <1>17 DEF Fits, sq
<1>19. ASSUME NEW d \in Nat, Fits(s, d), Holds(m, p, p, d)
       PROVE  Holds(r, q, p, Lesser(bytes, d))
  <2> DEFINE e == Lesser(bytes, d)
  <2>1. e \in Nat /\ e <= d /\ e <= bytes
    BY DEF Lesser
  <2> HIDE DEF e
  <2>2. Holds(o, p, p, d)
    BY <1>3, <1>6, <1>19, HoldsKept
  <2>3. Holds(o, p, p, e)
    BY <1>6, <2>1, <2>2, HoldsLess
  <2>4. Words(e) \in Nat /\ Words(e) <= w
    <3>1. Words(e) <= Words(d) /\ Words(d) <= 2 * s - 1 /\ Words(e) \in Nat /\ Words(d) \in Nat
      BY <1>19, <2>1, WordsNat, WordsLess DEF Fits
    <3> QED BY <1>6, <1>8, <2>1, <3>1
  <2>5. Holds(c, q, p, e)
    BY <1>10, <2>1, <2>3, <2>4
  <2>6. Fits(sq, e)
    BY <1>6, <1>8, <2>1, <2>4 DEF Fits
  <2>7. Holds(r, q, p, e)
    BY <1>6, <1>17, <2>5, <2>6, HoldsKept
  <2> QED BY <2>7 DEF e
<1>20. DataMoved(m, r, p, q, bytes)
  BY <1>19 DEF DataMoved, s
<1>21. Reallocated(m, Result(r, q), L, p, bytes)
  BY <1>2, <1>15, <1>16, <1>18, <1>20 DEF Reallocated, Result
<1> QED BY <1>21 DEF r, c, w

(* dlrealloc: the data moves with the block, the others keep theirs.         *)
LEMMA ReallocOK ==
    ASSUME NEW m, NEW K, NEW L, Heap(m, K, L), NEW p \in L, NEW bytes \in Nat
    PROVE  Reallocated(m, dlrealloc(m, p, bytes), L, p, bytes)
<1> DEFINE nb == request2size(bytes)
           inPlace == try_realloc_chunk(m, p, nb)
           other == dlmalloc(m, bytes)
           oc == UnitBytes * m.head[p].size - WordBytes
           x == IF oc < bytes THEN oc ELSE bytes
           r == dlrealloc(m, p, bytes)
<1>1. HeapOK(m, L)
  BY DEF HeapOK
<1>2. r = IF bytes >= Huge THEN Result(m, NULL)
          ELSE IF inPlace.p # NULL THEN inPlace
          ELSE IF other.p = NULL THEN other
          ELSE Result(dlfree(Copied(other.m, p, other.p, Words(x)), p), other.p)
  BY DEF dlrealloc
<1>3. nb \in Int /\ nb >= 2
  BY ChunkSize
<1>4. Tried(m, inPlace, L, p, nb)
  BY <1>3, TryResized
<1>5. Answered(m, other, L, nb)
  BY <1>1, MallocAnswered
<1>6. RoomAt(m, p, m.head[p].size, End(m.head, p))
  BY BlockRoom DEF EndsAt
<1>7. x \in Nat
  <2>1. oc \in Nat
    BY <1>6, RoomWords DEF RoomAt
  <2> QED BY <2>1
<1> HIDE DEF inPlace, other, nb, r
<1>8. CASE bytes >= Huge
  <2>1. Kept(m, m, L)
    BY SameWordsKept
  <2> QED BY <1>1, <1>2, <1>8, <2>1 DEF Reallocated, Result, r
<1>9. CASE ~(bytes >= Huge) /\ inPlace.p # NULL
  <2>1. r = inPlace /\ r.p = p /\ Resized(m, r.m, L, p, nb)
    BY <1>2, <1>4, <1>9 DEF Tried
  <2>2. DataMoved(m, r.m, p, p, bytes) /\ Fits(r.m.head[p].size, bytes)
    BY <2>1, InPlaceMoved DEF nb
  <2>3. (L \ {p}) \cup {p} = L
    OBVIOUS
  <2>4. (\E K2 : Heap(r.m, K2, L)) /\ Kept(m, r.m, L \ {p})
    BY <2>1 DEF Resized
  <2> QED BY <1>9, <2>1, <2>2, <2>3, <2>4 DEF Reallocated, r
<1>10. CASE ~(bytes >= Huge) /\ ~(inPlace.p # NULL) /\ other.p = NULL
  BY <1>2, <1>5, <1>10 DEF Reallocated, Answered, r
<1>11. CASE ~(bytes >= Huge) /\ ~(inPlace.p # NULL) /\ other.p # NULL
  <2>1. Got(m, other.m, L, other.p, request2size(bytes))
    BY <1>5, <1>11 DEF Answered, nb
  <2>2. x = Lesser(UnitBytes * m.head[p].size - WordBytes, bytes)
    BY DEF Lesser
  <2> HIDE DEF x
  <2>3. Reallocated(m, Result(dlfree(Copied(other.m, p, other.p, Words(x)), p), other.p),
                    L, p, bytes)
    BY <1>7, <2>1, <2>2, CopyReallocated
  <2> QED BY <1>2, <1>11, <2>3 DEF r
<1> QED BY <1>8, <1>9, <1>10, <1>11
-----------------------------------------------------------------------------
(* The invariant of the system.                                              *)

(* A block of d bytes is at p, as its holder wrote it.                       *)
Stored(m, p, d) == Fits(m.head[p].size, d) /\ Holds(m, p, p, d)

(* A block that is kept holds what it held.                                  *)
LEMMA StoredKept ==
    ASSUME NEW m, NEW L, HeapOK(m, L), NEW r, NEW Q \in SUBSET L, Kept(m, r, Q),
           NEW p \in Q, NEW d, Stored(m, p, d)
    PROVE  Stored(r, p, d)
<1>1. PICK K : Heap(m, K, L)
  BY DEF HeapOK
<1>2. RoomAt(m, p, m.head[p].size, End(m.head, p))
  BY <1>1, BlockRoom DEF EndsAt
<1>3. /\ r.head[p].size = m.head[p].size /\ SameBlock(m, r, p, m.head[p].size)
      /\ Fits(m.head[p].size, d) /\ Holds(m, p, p, d)
  BY DEF Kept, Stored
<1>4. p \in Units /\ m.head[p].size \in Int /\ p + m.head[p].size <= MaxBrk
  BY <1>2 DEF RoomAt
<1>5. Holds(r, p, p, d)
  BY <1>3, <1>4, HoldsKept
<1> QED BY <1>3, <1>5 DEF Stored

(* The heap m holds the blocks f, its callers' data in them.                 *)
Holding(m, f) ==
    /\ f = [p \in DOMAIN f |-> f[p]] /\ HeapOK(m, DOMAIN f)
    /\ \A p \in DOMAIN f : Stored(m, p, f[p])

(* A new block and its data.                                                 *)
LEMMA WrittenHolding ==
    ASSUME NEW m, NEW K, NEW f, NEW q, NEW d, f = [p \in DOMAIN f |-> f[p]],
           Heap(m, K, DOMAIN f \cup {q}), q \notin DOMAIN f,
           \A p \in DOMAIN f : Stored(m, p, f[p]), Fits(m.head[q].size, d)
    PROVE  Holding(Written(m, q, d), With(f, q, d))
<1> DEFINE L == DOMAIN f \cup {q}
           r == Written(m, q, d)
           g == With(f, q, d)
<1>1. HeapOK(m, L)
  BY DEF HeapOK
<1>2. RoomAt(m, q, m.head[q].size, End(m.head, q))
  BY BlockRoom DEF EndsAt
<1>3. Filled(m, r, q, End(m.head, q)) /\ Holds(r, q, q, d)
  BY <1>2, WrittenFilled
<1>4. (\E K2 : Heap(r, K2, L)) /\ Kept(m, r, L \ {q}) /\ r.head[q].size = m.head[q].size
  BY <1>3, FilledHeap DEF EndsAt
<1>5. Stored(r, q, d)
  BY <1>3, <1>4 DEF Stored
<1>6. L \ {q} = DOMAIN f /\ L \ {q} \in SUBSET L
  OBVIOUS
<1>7. ASSUME NEW p \in DOMAIN f PROVE Stored(r, p, f[p])
  BY <1>1, <1>4, <1>6, StoredKept
<1> HIDE DEF r
<1>8. /\ DOMAIN g = L /\ g = [p \in DOMAIN g |-> g[p]] /\ g[q] = d
      /\ \A p \in DOMAIN f : g[p] = f[p]
  BY DEF With
<1> HIDE DEF g
<1>9. \A p \in DOMAIN g : Stored(r, p, g[p])
  BY <1>5, <1>7, <1>8
<1>10. HeapOK(r, DOMAIN g)
  BY <1>4, <1>8 DEF HeapOK
<1>11. Holding(r, g)
  BY <1>8, <1>9, <1>10 DEF Holding
<1> QED BY <1>11 DEF r, g

(* The heap holds every block after dlmalloc, the new one with them.         *)
LEMMA MallocHolding ==
    ASSUME NEW m, NEW f, Holding(m, f), NEW bytes \in Nat
    PROVE  LET r == dlmalloc(m, bytes) IN
           /\ r.p = NULL => Holding(r.m, f)
           /\ r.p # NULL => /\ r.p \notin DOMAIN f
                            /\ Holding(Written(r.m, r.p, bytes), With(f, r.p, bytes))
<1> DEFINE r == dlmalloc(m, bytes)
           nb == request2size(bytes)
           L == DOMAIN f
<1>1. HeapOK(m, L) /\ f = [p \in L |-> f[p]] /\ \A p \in L : Stored(m, p, f[p])
  BY DEF Holding
<1>2. Answered(m, r, L, nb)
  BY <1>1, MallocAnswered
<1> HIDE DEF r, nb
<1>3. CASE r.p = NULL
  <2>1. HeapOK(r.m, L) /\ Kept(m, r.m, L)
    BY <1>2, <1>3 DEF Answered
  <2>2. \A p \in L : Stored(r.m, p, f[p])
    BY <1>1, <2>1, StoredKept
  <2> QED BY <1>1, <1>3, <2>1, <2>2 DEF Holding, r
<1>4. CASE r.p # NULL
  <2>1. Got(m, r.m, L, r.p, nb)
    BY <1>2, <1>4 DEF Answered
  <2> DEFINE q == r.p
             n == r.m
  <2>2. PICK K : Heap(n, K, L \cup {q})
    BY <2>1 DEF Got
  <2>3. q \notin L /\ Kept(m, n, L) /\ n.head[q].size >= nb
    BY <2>1 DEF Got
  <2> HIDE DEF q, n
  <2>4. \A p \in L : Stored(n, p, f[p])
    BY <1>1, <2>3, StoredKept
  <2>5. Fits(n.head[q].size, bytes)
    <3>1. nb \in Int /\ Words(bytes) <= 2 * nb - 1 /\ Words(bytes) \in Nat
      BY ChunkSize, WordsFit, WordsNat DEF nb
    <3>2. RoomAt(n, q, n.head[q].size, End(n.head, q))
      BY <2>2, BlockRoom DEF EndsAt
    <3>3. n.head[q].size \in Int
      BY <3>2 DEF RoomAt
    <3> QED BY <2>3, <3>1, <3>3 DEF Fits
  <2>6. Holding(Written(n, q, bytes), With(f, q, bytes))
    BY <1>1, <2>2, <2>3, <2>4, <2>5, WrittenHolding
  <2> QED BY <1>4, <2>3, <2>6 DEF q, n, r
<1> QED BY <1>3, <1>4 DEF r

(* The heap holds every other block after dlfree.                            *)
LEMMA FreeHolding ==
    ASSUME NEW m, NEW f, Holding(m, f), NEW p \in DOMAIN f
    PROVE  Holding(dlfree(m, p), Without(f, p))
<1> DEFINE r == dlfree(m, p)
           L == DOMAIN f
           g == Without(f, p)
<1>1. HeapOK(m, L) /\ \A q \in L : Stored(m, q, f[q])
  BY DEF Holding
<1>2. PICK K : Heap(m, K, L)
  BY <1>1 DEF HeapOK
<1>3. Freed(m, r, L, p)
  BY <1>2, DisposeFreed DEF dlfree
<1> HIDE DEF r
<1>4. HeapOK(r, L \ {p}) /\ Kept(m, r, L \ {p}) /\ L \ {p} \in SUBSET L
  BY <1>3 DEF Freed, HeapOK
<1>5. ASSUME NEW q \in L \ {p} PROVE Stored(r, q, f[q])
  BY <1>1, <1>4, StoredKept
<1>6. DOMAIN g = L \ {p} /\ g = [q \in DOMAIN g |-> g[q]] /\ \A q \in L \ {p} : g[q] = f[q]
  BY DEF Without
<1> HIDE DEF g
<1>7. Holding(r, g)
  BY <1>4, <1>5, <1>6 DEF Holding
<1> QED BY <1>7 DEF r, g

(* The heap holds every block after dlrealloc, and the new one what the old  *)
(* one did.                                                                  *)
LEMMA ReallocHolding ==
    ASSUME NEW m, NEW f, Holding(m, f), NEW p \in DOMAIN f, NEW bytes \in Nat
    PROVE  LET r == dlrealloc(m, p, bytes) IN
           /\ r.p = NULL => Holding(r.m, f)
           /\ r.p # NULL => /\ r.p \notin DOMAIN f \ {p}
                            /\ Holding(Written(r.m, r.p, bytes), With(Without(f, p), r.p, bytes))
                            /\ Holds(r.m, r.p, p, IF bytes < f[p] THEN bytes ELSE f[p])
<1> DEFINE r == dlrealloc(m, p, bytes)
           L == DOMAIN f
           g == Without(f, p)
<1>1. HeapOK(m, L) /\ f = [q \in L |-> f[q]] /\ \A q \in L : Stored(m, q, f[q])
  BY DEF Holding
<1>2. PICK K : Heap(m, K, L)
  BY <1>1 DEF HeapOK
<1>3. Reallocated(m, r, L, p, bytes)
  BY <1>2, ReallocOK
<1> HIDE DEF r
<1>4. CASE r.p = NULL
  <2>1. HeapOK(r.m, L) /\ Kept(m, r.m, L)
    BY <1>3, <1>4 DEF Reallocated
  <2>2. \A q \in L : Stored(r.m, q, f[q])
    BY <1>1, <2>1, StoredKept
  <2> QED BY <1>1, <1>4, <2>1, <2>2 DEF Holding, r
<1>5. CASE r.p # NULL
  <2> DEFINE q == r.p
             n == r.m
  <2>1. PICK K2 : Heap(n, K2, (L \ {p}) \cup {q})
    BY <1>3, <1>5 DEF Reallocated
  <2>2. q \notin L \ {p} /\ Kept(m, n, L \ {p}) /\ Fits(n.head[q].size, bytes)
        /\ DataMoved(m, n, p, q, bytes)
    BY <1>3, <1>5 DEF Reallocated
  <2> HIDE DEF q, n
  <2>3. \A x \in L \ {p} : Stored(n, x, f[x])
    <3>1. L \ {p} \in SUBSET L
      OBVIOUS
    <3> QED BY <1>1, <2>2, <3>1, StoredKept
  <2>4. /\ DOMAIN g = L \ {p} /\ g = [x \in DOMAIN g |-> g[x]]
        /\ \A x \in L \ {p} : g[x] = f[x]
    BY DEF Without
  <2> HIDE DEF g
  <2>5. Holding(Written(n, q, bytes), With(g, q, bytes))
    BY <2>1, <2>2, <2>3, <2>4, WrittenHolding
  <2>6. Holds(n, q, p, Lesser(bytes, f[p]))
    <3>1. f[p] \in Nat /\ Fits(m.head[p].size, f[p]) /\ Holds(m, p, p, f[p])
      BY <1>1 DEF Stored, Fits
    <3> QED BY <2>2, <3>1 DEF DataMoved
  <2> QED BY <1>5, <2>2, <2>5, <2>6 DEF q, n, r, g, Lesser
<1> QED BY <1>4, <1>5 DEF r

(* The inductive invariant.                                                  *)
HeapInv == Holding(gm, live) /\ kept = TRUE

(* The invariant holds of the heap before the first call.                    *)
LEMMA InitHeap == Init => HeapInv
<1> SUFFICES ASSUME Init PROVE HeapInv
  OBVIOUS
<1>1. gm = EmptyHeap /\ live = <<>> /\ kept = TRUE
  BY DEF Init
<1>2. DOMAIN live = {} /\ live = [p \in DOMAIN live |-> live[p]]
  BY <1>1
<1>3. Fresh(EmptyHeap)
  <2>1. 0 \in Units /\ Base \in Units /\ 0 \in Amounts
    BY ChunksAssumption DEF Units, Amounts
  <2>2. EmptyHeap.head \in Heads /\ EmptyHeap.foot \in Feet /\ EmptyHeap.bins \in BinLists
    BY <2>1 DEF EmptyHeap, Heads, Feet, BinLists, HeadWord
  <2> QED BY <2>1, <2>2 DEF Fresh, EmptyHeap, HeapRecords, NULL
<1> QED BY <1>1, <1>2, <1>3 DEF HeapInv, Holding, HeapOK

(* Every call preserves the invariant.                                       *)
LEMMA NextHeap == HeapInv /\ [Next]_vars => HeapInv'
<1> SUFFICES ASSUME HeapInv, [Next]_vars PROVE HeapInv'
  OBVIOUS
<1>1. Holding(gm, live) /\ kept = TRUE
  BY DEF HeapInv
<1>2. Requests \cup {Huge} \subseteq Nat
  BY MallocAssumption
<1>3. CASE UNCHANGED vars
  BY <1>1, <1>3 DEF vars, HeapInv
<1>4. ASSUME NEW bytes \in Requests \cup {Huge}, Malloc(bytes) PROVE HeapInv'
  <2> DEFINE r == dlmalloc(gm, bytes)
  <2>1. /\ r.p = NULL => Holding(r.m, live)
        /\ r.p # NULL => Holding(Written(r.m, r.p, bytes), With(live, r.p, bytes))
    BY <1>1, <1>2, MallocHolding
  <2>2. /\ gm' = IF r.p = NULL THEN r.m ELSE Written(r.m, r.p, bytes)
        /\ live' = IF r.p = NULL THEN live ELSE With(live, r.p, bytes)
        /\ kept' = kept
    BY <1>4 DEF Malloc
  <2> HIDE DEF r
  <2>3. Holding(gm', live')
    BY <2>1, <2>2
  <2> QED BY <1>1, <2>2, <2>3 DEF HeapInv
<1>5. ASSUME NEW p \in DOMAIN live, Free(p) PROVE HeapInv'
  <2>1. gm' = dlfree(gm, p) /\ live' = Without(live, p) /\ kept' = kept
    BY <1>5 DEF Free
  <2>2. Holding(dlfree(gm, p), Without(live, p))
    BY <1>1, FreeHolding
  <2> QED BY <1>1, <2>1, <2>2 DEF HeapInv
<1>6. ASSUME NEW p \in DOMAIN live, NEW bytes \in Requests \cup {Huge}, Realloc(p, bytes)
      PROVE  HeapInv'
  <2> DEFINE r == dlrealloc(gm, p, bytes)
             least == IF bytes < live[p] THEN bytes ELSE live[p]
  <2>1. /\ r.p = NULL => Holding(r.m, live)
        /\ r.p # NULL => /\ Holding(Written(r.m, r.p, bytes), With(Without(live, p), r.p, bytes))
                         /\ Holds(r.m, r.p, p, least)
    BY <1>1, <1>2, ReallocHolding
  <2>2. /\ gm' = IF r.p = NULL THEN r.m ELSE Written(r.m, r.p, bytes)
        /\ live' = IF r.p = NULL THEN live ELSE With(Without(live, p), r.p, bytes)
        /\ kept' = (kept /\ (r.p # NULL => Holds(r.m, r.p, p, least)))
    BY <1>6 DEF Realloc
  <2> HIDE DEF r, least
  <2>3. Holding(gm', live') /\ kept' = TRUE
    BY <1>1, <2>1, <2>2
  <2> QED BY <2>3 DEF HeapInv
<1> QED BY <1>3, <1>4, <1>5, <1>6 DEF Next

(* The inductive invariant holds always: at each moment the chunks tile the  *)
(* segment, the tags and the index are right, and each block holds the data  *)
(* of its caller.                                                            *)
THEOREM HeapAlways == Spec => []HeapInv
  BY InitHeap, NextHeap, PTL DEF Spec
-----------------------------------------------------------------------------
(* The walk, and the properties.                                             *)

(* The walk is a function: its equation has a solution, the least set        *)
(* closed under it.                                                          *)
LEMMA WalkExists ==
    ASSUME NEW m, NEW H, m.head = H, m.top \in Units, \A p \in Units : H[p].size \in Int
    PROVE  \E f : f = [p \in Units |->
                          IF p >= m.top \/ m.head[p].size < 1 \/ p + m.head[p].size > m.top
                          THEN {} ELSE {p} \cup f[p + m.head[p].size]]
<1> DEFINE Stop(p) == p >= m.top \/ H[p].size < 1 \/ p + H[p].size > m.top
           Closed(S) == \A r \in S : Stop(r) \/ Stop(r + H[r].size) \/ r + H[r].size \in S
           R(p) == IF Stop(p) THEN {}
                   ELSE {q \in Units : \A S \in SUBSET Units : p \in S /\ Closed(S) => q \in S}
           f == [p \in Units |-> R(p)]
<1>1. ASSUME NEW p \in Units
      PROVE  R(p) = IF Stop(p) THEN {} ELSE {p} \cup f[p + H[p].size]
  <2>1. CASE Stop(p)
    BY <2>1
  <2>2. CASE ~Stop(p)
    <3> DEFINE n == p + H[p].size
    <3>1. n \in Units
      BY <2>2, ChunksAssumption DEF Units
    <3>2. f[n] = R(n)
      BY <3>1
    <3> HIDE DEF n, f
    <3>3. R(n) \subseteq Units /\ Closed(R(n))
      <4>1. CASE Stop(n)
        BY <4>1
      <4>2. CASE ~Stop(n)
        <5>1. R(n) = {q \in Units : \A S \in SUBSET Units : n \in S /\ Closed(S) => q \in S}
          BY <4>2
        <5>2. ASSUME NEW r \in R(n), ~Stop(r), ~Stop(r + H[r].size)
              PROVE  r + H[r].size \in R(n)
          <6>1. r \in Units /\ r + H[r].size \in Units
            BY <5>1, <5>2, ChunksAssumption DEF Units
          <6>2. ASSUME NEW S \in SUBSET Units, n \in S, Closed(S) PROVE r + H[r].size \in S
            BY <5>1, <5>2, <6>2
          <6> QED BY <6>1, <6>2, <5>1
        <5> QED BY <5>1, <5>2
      <4> QED BY <4>1, <4>2
    <3>4. ~Stop(n) => n \in R(n)
      BY <3>1
    <3>5. R(p) = {q \in Units : \A S \in SUBSET Units : p \in S /\ Closed(S) => q \in S}
      BY <2>2
    <3>6. ASSUME NEW q \in R(p) PROVE q \in {p} \cup R(n)
      <4> DEFINE S == {p} \cup R(n)
      <4>1. S \in SUBSET Units /\ p \in S
        BY <3>3
      <4>2. Closed(S)
        BY <3>3, <3>4 DEF n
      <4> QED BY <3>5, <3>6, <4>1, <4>2
    <3>7. p \in R(p)
      BY <3>5
    <3>8. ASSUME NEW q \in R(n) PROVE q \in R(p)
      <4>0. /\ ~Stop(n)
            /\ R(n) = {x \in Units : \A S \in SUBSET Units : n \in S /\ Closed(S) => x \in S}
        BY <3>8
      <4>1. ASSUME NEW S \in SUBSET Units, p \in S, Closed(S) PROVE q \in S
        <5>1. n \in S
          BY <2>2, <4>0, <4>1 DEF n
        <5> QED BY <4>0, <4>1, <5>1, <3>8
      <4> QED BY <3>3, <3>5, <3>8, <4>1
    <3>9. R(p) = {p} \cup R(n)
      BY <3>6, <3>7, <3>8
    <3> QED BY <2>2, <3>2, <3>9 DEF n
  <2> QED BY <2>1, <2>2
<1>2. f = [p \in Units |-> IF Stop(p) THEN {} ELSE {p} \cup f[p + H[p].size]]
  BY <1>1
<1>3. f = [p \in Units |-> IF p >= m.top \/ m.head[p].size < 1 \/ p + m.head[p].size > m.top
                           THEN {} ELSE {p} \cup f[p + m.head[p].size]]
  BY <1>2
<1> HIDE DEF f
<1> QED BY <1>3

(* One step of the walk.                                                     *)
LEMMA WalkStep ==
    ASSUME NEW m, m \in HeapRecords, NEW p \in Units
    PROVE  WalkFrom(m)[p] = IF p >= m.top \/ m.head[p].size < 1 \/ p + m.head[p].size > m.top
                            THEN {} ELSE {p} \cup WalkFrom(m)[p + m.head[p].size]
<1> DEFINE F(f) == [q \in Units |->
                       IF q >= m.top \/ m.head[q].size < 1 \/ q + m.head[q].size > m.top
                       THEN {} ELSE {q} \cup f[q + m.head[q].size]]
<1>1. WalkFrom(m) = CHOOSE f : f = F(f)
  BY DEF WalkFrom
<1>2. \E f : f = F(f)
  <2>1. m.top \in Units /\ \A q \in Units : m.head[q].size \in Int
    BY DEF HeapRecords, Heads, Amounts
  <2> QED BY <2>1, WalkExists
<1> HIDE DEF F
<1>3. WalkFrom(m) = F(WalkFrom(m))
  BY <1>1, <1>2
<1>4. WalkFrom(m)[p] = F(WalkFrom(m))[p]
  BY <1>3
<1> QED BY <1>4 DEF F

(* The walk by the sizes finds exactly the chunks.                           *)
LEMMA WalkIs ==
    ASSUME NEW m, NEW K, Geometry(m, K)
    PROVE  Walk(m) = K \ {m.top}
<1> DEFINE W == WalkFrom(m)
           Rest(p) == {x \in K : p <= x /\ x < m.top}
           Bad == {n \in Nat : \E p \in K : n = MaxBrk - p /\ W[p] # Rest(p)}
<1>1. /\ m \in HeapRecords /\ m.top \in K /\ m.top \in Int /\ Hi(m) \in Int
      /\ End(m.head, m.top) = Hi(m) /\ m.seg.base \in Int
      /\ NULL \notin K
      /\ \A p \in K : /\ p \in Units /\ p \in Int /\ m.seg.base <= p /\ p < Hi(m)
                      /\ m.head[p].size \in Int /\ m.head[p].size >= 1
                      /\ End(m.head, p) \in K \cup {Hi(m)} /\ End(m.head, p) \in Int
                      /\ p < End(m.head, p) /\ p + m.head[p].size = End(m.head, p)
  BY GeometryFacts DEF End
<1>2. /\ m.seg.base \in K
      /\ \A p, q \in K : p < q => End(m.head, p) <= q
  BY DEF Geometry, Tiled
<1>3. \A p \in K : p <= m.top
  BY <1>1, <1>2
<1>4. \A p \in K : W[p] = IF p >= m.top \/ m.head[p].size < 1 \/ p + m.head[p].size > m.top
                          THEN {} ELSE {p} \cup W[p + m.head[p].size]
  BY <1>1, WalkStep
<1> HIDE DEF W
<1>5. ASSUME NEW p \in K, p # m.top, W[End(m.head, p)] = Rest(End(m.head, p))
      PROVE  W[p] = Rest(p)
  <2> DEFINE n == End(m.head, p)
  <2>1. p < m.top /\ n <= m.top /\ n \in Int /\ n = p + m.head[p].size
    BY <1>1, <1>2, <1>3, <1>5
  <2> HIDE DEF n
  <2>2. W[p] = {p} \cup W[p + m.head[p].size]
    <3>1. p \in Int /\ m.top \in Int /\ m.head[p].size \in Int /\ m.head[p].size >= 1
      BY <1>1
    <3>2. ~(p >= m.top \/ m.head[p].size < 1 \/ p + m.head[p].size > m.top)
      BY <2>1, <3>1
    <3> QED BY <1>4, <3>2
  <2>4. W[p] = {p} \cup Rest(n)
    <3>1. W[n] = Rest(n)
      BY <1>5 DEF n
    <3> HIDE DEF Rest
    <3> QED BY <2>1, <2>2, <3>1
  <2>3. \A x \in K : p <= x /\ x < m.top <=> x = p \/ (n <= x /\ x < m.top)
    BY <1>1, <1>2, <2>1 DEF n
  <2> QED BY <2>3, <2>4
<1>6. W[m.top] = Rest(m.top)
  <2>1. W[m.top] = {}
    <3>1. m.top >= m.top
      BY <1>1
    <3> QED BY <1>1, <1>4, <3>1
  <2>2. Rest(m.top) = {}
    BY <1>1
  <2> QED BY <2>1, <2>2
<1>7. Bad = {}
  <2>1. SUFFICES ASSUME Bad # {} PROVE FALSE
    OBVIOUS
  <2>2. PICK x \in Bad : \A y \in Bad : x <= y
    BY <2>1, LeastNat
  <2>3. PICK p \in K : x = MaxBrk - p /\ W[p] # Rest(p)
    BY <2>2
  <2>4. p # m.top /\ W[End(m.head, p)] # Rest(End(m.head, p))
    BY <1>5, <1>6, <2>3
  <2> DEFINE n == End(m.head, p)
  <2>5. n \in K /\ n \in Int /\ p < n /\ n \in Units
    BY <1>1, <1>2, <1>3, <2>4
  <2>6. MaxBrk - n \in Nat
    BY <2>5, ChunksAssumption DEF Units
  <2>7. MaxBrk - n \in Bad
    BY <2>4, <2>5, <2>6
  <2>8. MaxBrk - p <= MaxBrk - n
    BY <2>2, <2>3, <2>7
  <2> HIDE DEF n
  <2> QED BY <1>1, <2>5, <2>8, ChunksAssumption
<1>8. \A p \in K : W[p] = Rest(p)
  <2>1. \A p \in K : MaxBrk - p \in Nat
    BY <1>1, ChunksAssumption DEF Units
  <2> QED BY <1>7, <2>1
<1>9. Walk(m) = Rest(m.seg.base)
  <2>1. m.top # NULL
    BY <1>1
  <2> QED BY <1>2, <1>8, <2>1 DEF Walk, W
<1> QED BY <1>1, <1>3, <1>9

(* The chunks the properties speak of.                                       *)
LEMMA WalkSets ==
    ASSUME NEW m, NEW K, Geometry(m, K)
    PROVE  /\ m.top # NULL /\ Walk(m) \cup {m.top} = K /\ Walk(m) = K \ {m.top}
           /\ FreeChunks(m) = FreeIn(m, K)
           /\ {p \in Walk(m) : m.head[p].cinuse} = UsedIn(m, K)
<1>1. Walk(m) = K \ {m.top}
  BY WalkIs
<1>2. m.top \in K /\ NULL \notin K /\ m.head[m.top].cinuse = FALSE
  BY GeometryFacts
<1> QED BY <1>1, <1>2 DEF FreeChunks, FreeIn, UsedIn

(* Before the first segment there are no chunks.                             *)
LEMMA FreshChunks ==
    ASSUME NEW m, Fresh(m)
    PROVE  Walk(m) = {} /\ FreeChunks(m) = {} /\ m.top = NULL /\ m.dvsize = 0 /\ m.brk = Base
           /\ m \in HeapRecords /\ \A s \in Sizes : m.bins[s] = <<>>
  BY DEF Fresh, Walk, FreeChunks

(* Either there is no segment, and no block, or the chunks are found.        *)
LEMMA HeapCases ==
    ASSUME HeapInv
    PROVE  \/ Fresh(gm) /\ DOMAIN live = {}
           \/ \E K : Heap(gm, K, DOMAIN live)
  BY DEF HeapInv, Holding, HeapOK

(* TypeOK follows from the invariant.                                        *)
LEMMA TypeHolds == ASSUME HeapInv PROVE TypeOK
<1>1. gm \in HeapRecords /\ DOMAIN live \subseteq Units /\ gm.brk >= Base
  <2>1. CASE Fresh(gm) /\ DOMAIN live = {}
    BY <2>1, FreshChunks, ChunksAssumption
  <2>2. ASSUME NEW K, Heap(gm, K, DOMAIN live)
        PROVE  gm \in HeapRecords /\ DOMAIN live \subseteq Units /\ gm.brk >= Base
    <3>1. Geometry(gm, K) /\ DOMAIN live = UsedIn(gm, K)
      BY <2>2 DEF Heap
    <3>2. gm \in HeapRecords /\ K \subseteq Units
      BY <3>1, GeometryFacts
    <3>3. gm.seg.base + gm.seg.size = gm.brk /\ Base <= gm.seg.base
      BY <3>1 DEF Geometry
    <3>4. gm.seg.base \in Units /\ gm.seg.size \in Units
      BY <3>2 DEF HeapRecords
    <3>5. gm.brk >= Base
      BY <3>3, <3>4, ChunksAssumption DEF Units
    <3> QED BY <3>1, <3>2, <3>5 DEF UsedIn
  <2> QED BY <2>1, <2>2, HeapCases
<1>2. gm.brk \in Base..MaxBrk
  BY <1>1, ChunksAssumption DEF HeapRecords, Units
<1>3. kept \in BOOLEAN
  BY DEF HeapInv
<1>4. \A u \in Units : gm.head[u].size \in -MaxBrk..MaxBrk /\ gm.foot[u] \in -MaxBrk..MaxBrk
  BY <1>1 DEF HeapRecords, Heads, Feet, Amounts
<1>5. /\ gm.dv \in Units /\ gm.top \in Units /\ gm.dvsize \in 0..MaxBrk
      /\ gm.topsize \in 0..MaxBrk /\ gm.contiguous \in BOOLEAN
  BY <1>1 DEF HeapRecords, Units
<1> QED BY <1>1, <1>2, <1>3, <1>4, <1>5 DEF TypeOK

(* OwnersData follows from the invariant.                                    *)
LEMMA DataHolds == ASSUME HeapInv PROVE OwnersData
  BY DEF HeapInv, Holding, Stored, OwnersData

(* BoundaryTags follows from the invariant.                                  *)
LEMMA TagsHold == ASSUME HeapInv PROVE BoundaryTags
<1>1. CASE Fresh(gm) /\ DOMAIN live = {}
  BY <1>1, FreshChunks DEF BoundaryTags
<1>2. ASSUME NEW K, Heap(gm, K, DOMAIN live) PROVE BoundaryTags
  <2>1. Geometry(gm, K) /\ DOMAIN live = UsedIn(gm, K)
    BY <1>2 DEF Heap
  <2>2. /\ Walk(gm) \cup {gm.top} = K /\ Walk(gm) = K \ {gm.top}
        /\ {p \in Walk(gm) : gm.head[p].cinuse} = DOMAIN live
    BY <2>1, WalkSets
  <2>3. /\ gm.seg.base + gm.seg.size = gm.brk
        /\ gm.top + gm.topsize + TopFoot = gm.brk
        /\ gm.head[gm.top] = HeadWord(gm.topsize, TRUE, FALSE)
    BY <2>1 DEF Geometry, Hi
  <2>4. ASSUME NEW p \in Walk(gm)
        PROVE  /\ After(gm, p) \in K
               /\ gm.head[After(gm, p)].pinuse = gm.head[p].cinuse
               /\ ~gm.head[p].cinuse => gm.foot[After(gm, p)] = gm.head[p].size
    <3> DEFINE n == End(gm.head, p)
    <3>1. p \in K /\ p # gm.top /\ After(gm, p) = n
      BY <2>2 DEF After, End
    <3>2. Tiled(gm.head, K, gm.seg.base, Hi(gm)) /\ Tagged(gm.head, gm.foot, K, gm.seg.base, Hi(gm))
      BY <2>1 DEF Geometry
    <3>3. /\ gm.head \in Heads /\ gm.seg.base \in Units /\ Hi(gm) \in Units
          /\ gm.top \in K /\ End(gm.head, gm.top) = Hi(gm)
          /\ \A x \in K : End(gm.head, x) \in K \cup {Hi(gm)}
      BY <2>1, GeometryFacts
    <3>4. \A x, y \in K : End(gm.head, x) = End(gm.head, y) => x = y
      BY <3>2, <3>3, InTiled
    <3>5. n # Hi(gm) /\ n \in K
      BY <3>1, <3>3, <3>4
    <3>6. Tag(gm.head, gm.foot, p, n)
      BY <3>1, <3>2, <3>5 DEF Tagged
    <3> HIDE DEF n
    <3> QED BY <3>1, <3>5, <3>6 DEF Tag
  <2> QED BY <2>2, <2>3, <2>4 DEF BoundaryTags
<1> QED BY <1>1, <1>2, HeapCases

(* What the bins hold, each chunk once.                                      *)
Entries(bins) == UNION {{<<s, i>> : i \in DOMAIN bins[s]} : s \in Sizes}
Held(bins) == {bins[e[1]][e[2]] : e \in Entries(bins)}

(* The entries of the bins are the binned chunks, one to one.                *)
LEMMA EntriesAre ==
    ASSUME NEW bins, NEW H \in Heads, NEW G, bins \in BinLists, Bins(bins, H, G), G \subseteq Units,
           \A p \in G : H[p].size \in Sizes, IsFiniteSet(G)
    PROVE  /\ Held(bins) = G /\ Cardinality(Entries(bins)) = Cardinality(G)
           /\ \A e \in Entries(bins) : H[bins[e[1]][e[2]]].size = e[1]
<1> DEFINE E == Entries(bins)
           at(e) == bins[e[1]][e[2]]
<1>1. ASSUME NEW e \in E
      PROVE  e[1] \in Sizes /\ e[2] \in DOMAIN bins[e[1]] /\ e = <<e[1], e[2]>>
    BY DEF Entries
<1>2. \A s \in Sizes : \A i \in DOMAIN bins[s] : <<s, i>> \in E
  BY DEF Entries
<1>3. \A s \in Sizes : /\ \A i, j \in DOMAIN bins[s] : bins[s][i] = bins[s][j] => i = j
                       /\ {bins[s][i] : i \in DOMAIN bins[s]} = {p \in G : H[p].size = s}
  BY DEF Bins, NoRepeats, Listed
<1> HIDE DEF E
<1>4. ASSUME NEW e \in E PROVE at(e) \in G /\ H[at(e)].size = e[1]
  BY <1>1, <1>3
<1>5. ASSUME NEW p \in G PROVE \E e \in E : at(e) = p
  <2>1. PICK i \in DOMAIN bins[H[p].size] : bins[H[p].size][i] = p
    BY <1>3
  <2> DEFINE e == <<H[p].size, i>>
  <2>2. e \in E /\ e[1] = H[p].size /\ e[2] = i
    BY <1>2
  <2> QED BY <2>1, <2>2
<1>6. ASSUME NEW e \in E, NEW d \in E, at(e) = at(d) PROVE e = d
  <2>1. e[1] = d[1]
    BY <1>4, <1>6
  <2>2. e[2] = d[2]
    BY <1>1, <1>3, <1>6, <2>1
  <2> QED BY <1>1, <2>1, <2>2
<1> DEFINE f == [e \in E |-> at(e)]
<1>7. f \in Injection(E, G) /\ f \in Surjection(E, G)
  <2>1. f \in [E -> G]
    BY <1>4
  <2>2. \A e, d \in E : f[e] = f[d] => e = d
    BY <1>6
  <2>3. \A p \in G : \E e \in E : f[e] = p
    BY <1>5
  <2> HIDE DEF f
  <2> QED BY <2>1, <2>2, <2>3 DEF Injection, IsInjective, Surjection
<1> HIDE DEF f
<1>8. Cardinality(E) = Cardinality(G)
  BY <1>7, FS_Injection
<1>9. {at(e) : e \in E} = G
  BY <1>4, <1>5
<1> QED BY <1>4, <1>8, <1>9 DEF Held, E

(* The memory is finite.                                                     *)
LEMMA UnitsFinite == IsFiniteSet(Units)
  BY FS_Interval, ChunksAssumption DEF Units

(* BinsExact follows from the invariant.                                     *)
LEMMA BinsHold == ASSUME HeapInv PROVE BinsExact
<1> DEFINE G == FreeChunks(gm) \ {gm.dv}
           entries == UNION {{<<s, i>> : i \in DOMAIN gm.bins[s]} : s \in Sizes}
<1>1. SUFFICES /\ G = Held(gm.bins) /\ Cardinality(entries) = Cardinality(G)
               /\ \A e \in entries : gm.head[gm.bins[e[1]][e[2]]].size = e[1]
               /\ gm.dvsize # 0 => gm.dv \in FreeChunks(gm) /\ gm.head[gm.dv].size = gm.dvsize
  BY DEF BinsExact, Held, Entries
<1>2. entries = Entries(gm.bins)
  BY DEF Entries
<1>3. CASE Fresh(gm) /\ DOMAIN live = {}
  <2>1. entries = {} /\ G = {} /\ gm.dvsize = 0
    BY <1>3, FreshChunks
  <2>2. Held(gm.bins) = {}
    BY <1>2, <2>1 DEF Held
  <2> QED BY <2>1, <2>2
<1>4. ASSUME NEW K, Heap(gm, K, DOMAIN live)
      PROVE  /\ G = Held(gm.bins) /\ Cardinality(entries) = Cardinality(G)
             /\ \A e \in entries : gm.head[gm.bins[e[1]][e[2]]].size = e[1]
             /\ gm.dvsize # 0 => gm.dv \in FreeChunks(gm) /\ gm.head[gm.dv].size = gm.dvsize
  <2>1. Geometry(gm, K) /\ Indexed(gm, FreeIn(gm, K))
    BY <1>4 DEF Heap
  <2>2. FreeChunks(gm) = FreeIn(gm, K)
    BY <2>1, WalkSets
  <2>3. /\ gm.head \in Heads /\ gm.bins \in BinLists
        /\ \A p \in G : p \in Units /\ gm.head[p].size \in Sizes
    BY <2>1, <2>2, GeometryFacts DEF FreeIn, HeapRecords
  <2>4. Bins(gm.bins, gm.head, G)
    BY <2>1, <2>2 DEF Indexed
  <2>5. G \subseteq Units /\ IsFiniteSet(G)
    BY <2>3, UnitsFinite, FS_Subset
  <2>6. gm.dvsize # 0 => gm.dv \in FreeChunks(gm) /\ gm.head[gm.dv].size = gm.dvsize
    BY <2>1, <2>2 DEF Indexed
  <2> HIDE DEF G, entries
  <2>7. /\ Held(gm.bins) = G /\ Cardinality(Entries(gm.bins)) = Cardinality(G)
        /\ \A e \in Entries(gm.bins) : gm.head[gm.bins[e[1]][e[2]]].size = e[1]
    BY <2>3, <2>4, <2>5, EntriesAre
  <2> QED BY <1>2, <2>6, <2>7
<1> QED BY <1>3, <1>4, HeapCases

(* Merged follows from the invariant.                                        *)
LEMMA MergedHolds == ASSUME HeapInv PROVE Merged
<1>1. CASE Fresh(gm) /\ DOMAIN live = {}
  BY <1>1, FreshChunks DEF Merged
<1>2. ASSUME NEW K, Heap(gm, K, DOMAIN live) PROVE Merged
  <2>1. Geometry(gm, K) /\ DOMAIN live = UsedIn(gm, K)
    BY <1>2 DEF Heap
  <2>2. FreeChunks(gm) = FreeIn(gm, K)
    BY <2>1, WalkSets
  <2>3. gm.head[gm.top].cinuse = FALSE /\ gm.seg.base \in K
    BY <2>1, GeometryFacts DEF Geometry, Tiled
  <2>4. ASSUME NEW p \in FreeIn(gm, K)
        PROVE  After(gm, p) \in K /\ gm.head[After(gm, p)].cinuse = TRUE
    <3> DEFINE q == End(gm.head, p)
    <3>1. FreeAt(gm, K, p, q)
      BY <2>1, FreeFacts DEF EndsAt
    <3> HIDE DEF q
    <3>2. q \in K /\ gm.head[q].cinuse = TRUE
      BY <3>1 DEF FreeAt
    <3> QED BY <3>2 DEF q, After, End
  <2>5. \A p \in FreeChunks(gm) : After(gm, p) \notin FreeChunks(gm) \cup {gm.top}
    BY <2>2, <2>3, <2>4 DEF FreeIn
  <2>6. ASSUME DOMAIN live = {} PROVE gm.top = gm.seg.base
    <3>1. \A q \in K : ~gm.head[q].cinuse
      BY <2>1, <2>6 DEF UsedIn
    <3>2. gm.seg.base # gm.top => gm.seg.base \in FreeIn(gm, K)
      BY <2>3, <3>1 DEF FreeIn
    <3> QED BY <2>4, <3>1, <3>2
  <2> QED BY <2>5, <2>6 DEF Merged
<1> QED BY <1>1, <1>2, HeapCases

(* A free chunk is dv or marks the bin of its size.                          *)
LEMMA FreeIsFound ==
    ASSUME NEW m, NEW K, NEW L, Heap(m, K, L)
    PROVE  /\ \A p \in FreeIn(m, K) : /\ m.head[p].size \in Int
                                      /\ p = m.dv => m.head[p].size = m.dvsize
                                      /\ p # m.dv => m.head[p].size \in Marked(m)
           /\ m.dvsize # 0 => m.dv \in FreeIn(m, K) /\ m.head[m.dv].size = m.dvsize
           /\ NULL \notin FreeIn(m, K)
<1>1. Geometry(m, K) /\ Indexed(m, FreeIn(m, K))
  BY DEF Heap
<1>2. NULL \notin K /\ \A p \in K : m.head[p].size \in Sizes /\ m.head[p].size \in Int
  BY <1>1, GeometryFacts
<1>3. FreeIn(m, K) \subseteq K
  BY DEF FreeIn
<1>4. IF m.dvsize = 0 THEN m.dv = NULL ELSE m.dv \in FreeIn(m, K) /\ m.head[m.dv].size = m.dvsize
  BY <1>1 DEF Indexed
<1>5. ASSUME NEW p \in FreeIn(m, K), p # m.dv PROVE m.head[p].size \in Marked(m)
  <2> DEFINE s == m.head[p].size
  <2>1. s \in Sizes /\ p \in FreeIn(m, K) \ {m.dv}
    BY <1>2, <1>3, <1>5
  <2>2. Listed(m.bins[s]) = {x \in FreeIn(m, K) \ {m.dv} : m.head[x].size = s}
    BY <1>1, <2>1 DEF Indexed, Bins
  <2>3. p \in Listed(m.bins[s])
    BY <2>1, <2>2
  <2>4. m.bins[s] # <<>>
    BY <2>3 DEF Listed
  <2> QED BY <2>1, <2>4 DEF Marked
<1> QED BY <1>2, <1>3, <1>4, <1>5

(* sys_alloc fails only when the break cannot be moved by all that is        *)
(* needed.                                                                   *)
LEMMA SysAllocGives ==
    ASSUME NEW m, NEW L, HeapOK(m, L), NEW nb \in Int, nb >= 2, nb >= m.topsize,
           sys_alloc(m, nb).p = NULL
    PROVE  ~sbrk_ok(m, granularity_align(nb + TopFoot + 1))
<1> DEFINE y == granularity_align(nb + TopFoot + 1)
           off == [m EXCEPT !.contiguous = FALSE]
<1> SUFFICES ASSUME sbrk_ok(m, y) PROVE FALSE
  OBVIOUS
<1>1. m \in HeapRecords /\ m.topsize \in Int /\ m.topsize >= 0
  BY FreshIndex
<1>2. \/ sys_alloc(m, nb) = FromTop(Extended(m, Missing(m, nb)), nb)
      \/ sys_alloc(m, nb) = FromTop(Extended(off, y), nb)
  BY DEF sys_alloc
<1>3. Extended(m, Missing(m, nb)).top = NULL \/ Extended(off, y).top = NULL
  BY <1>2 DEF FromTop, Result
<1>4. ASSUME NEW n \in HeapRecords, NEW x, n.brk = m.brk, n.top = m.top
      PROVE  Extended(n, x).top # NULL
  <2>1. m.top = NULL => n.brk # NULL
    <3>1. Fresh(m) \/ \E K : Heap(m, K, L)
      BY DEF HeapOK
    <3>2. Fresh(m) => m.brk = Base
      BY DEF Fresh
    <3>3. ASSUME NEW K, Heap(m, K, L) PROVE m.top # NULL
      BY <3>3, GeometryFacts DEF Heap
    <3> QED BY <1>4, <3>1, <3>2, <3>3, ChunksAssumption DEF NULL
  <2>2. Extended(n, x).top = IF n.top = NULL THEN n.brk ELSE n.top
    BY <1>4 DEF Extended, init_top, HeapRecords
  <2> QED BY <1>4, <2>1, <2>2
<1>5. off \in HeapRecords /\ off.brk = m.brk /\ off.top = m.top
  BY <1>1 DEF HeapRecords
<1> QED BY <1>1, <1>3, <1>4, <1>5

(* The chunk dlmalloc takes, by the cases of its code.                       *)
Taken(m, nb, p) ==
    \/ is_small(nb) /\ \E s \in Marked(m) : s >= nb /\ p = OldestOf(m, s)
    \/ ~is_small(nb) /\ tmalloc_large(m, nb) /\ p = OldestOf(m, Least({s \in Marked(m) : s >= nb}))
    \/ ~(~is_small(nb) /\ tmalloc_large(m, nb)) /\ nb <= m.dvsize /\ p = m.dv
    \/ /\ nb > m.dvsize /\ {s \in Marked(m) : s >= nb} = {}
       /\ IF nb < m.topsize THEN p = m.top ELSE p = sys_alloc(m, nb).p

(* dlmalloc takes its chunk in one of these ways.                            *)
LEMMA MallocTakes ==
    ASSUME NEW m, NEW L, HeapOK(m, L), NEW bytes \in Nat, bytes < Huge
    PROVE  Taken(m, request2size(bytes), dlmalloc(m, bytes).p)
<1> DEFINE nb == request2size(bytes)
           larger == {s \in Marked(m) : s > nb}
           small == {s \in larger : is_small(s)}
           fit == {s \in Marked(m) : s >= nb}
           q == dlmalloc(m, bytes).p
<1>1. /\ nb \in Int /\ nb >= 2
  BY ChunkSize
<1>2. /\ m.topsize \in Int /\ m.dvsize \in Int /\ Marked(m) \in SUBSET Sizes
      /\ \A s \in Marked(m) : s \in Int
  BY FreshIndex DEF Sizes
<1>3. bytes >= Huge <=> FALSE
  BY MallocAssumption
<1> DEFINE exact == is_small(nb) /\ m.bins[nb] # <<>>
           small2 == is_small(nb) /\ nb > m.dvsize /\ small # {}
           large2 == is_small(nb) /\ nb > m.dvsize /\ larger # {}
           tree == ~is_small(nb) /\ tmalloc_large(m, nb)
<1>4. CASE exact
  <2>1. q = OldestOf(m, nb)
    BY <1>3, <1>4 DEF dlmalloc, Result
  <2>2. nb \in Sizes
    BY <1>1, <1>4, ChunksAssumption DEF is_small, Sizes
  <2>3. nb \in Marked(m)
    BY <1>4, <2>2 DEF Marked
  <2> HIDE DEF nb, q
  <2>4. nb >= nb
    BY <1>1
  <2>5. Taken(m, nb, q)
    BY <1>4, <2>1, <2>3, <2>4 DEF Taken
  <2> QED BY <2>5 DEF nb, q
<1>5. CASE ~exact /\ small2
  <2>1. q = OldestOf(m, Least(small))
    BY <1>3, <1>5 DEF dlmalloc, Result, FromBin
  <2>2. Least(small) \in small
    BY <1>2, <1>5, LeastSize
  <2> DEFINE s == Least(small)
  <2>3. s \in Marked(m) /\ s >= nb
    BY <1>1, <1>2, <2>2
  <2> HIDE DEF nb, q, s
  <2>4. Taken(m, nb, q)
    BY <1>5, <2>1, <2>3 DEF Taken, s
  <2> QED BY <2>4 DEF nb, q
<1>6. CASE ~exact /\ ~small2 /\ large2
  <2>1. q = OldestOf(m, Least(larger))
    BY <1>3, <1>6 DEF dlmalloc, Result, FromBin
  <2>2. Least(larger) \in larger
    BY <1>2, <1>6, LeastSize
  <2> DEFINE s == Least(larger)
  <2>3. s \in Marked(m) /\ s >= nb
    BY <1>1, <1>2, <2>2
  <2> HIDE DEF nb, q, s
  <2>4. Taken(m, nb, q)
    BY <1>6, <2>1, <2>3 DEF Taken, s
  <2> QED BY <2>4 DEF nb, q
<1>7. CASE ~exact /\ ~small2 /\ ~large2 /\ tree
  <2>1. q = OldestOf(m, Least(fit))
    BY <1>3, <1>7 DEF dlmalloc, Result, FromBin
  <2> HIDE DEF nb, q
  <2>2. Taken(m, nb, q)
    BY <1>7, <2>1 DEF Taken
  <2> QED BY <2>2 DEF nb, q
<1>8. CASE ~exact /\ ~small2 /\ ~large2 /\ ~tree /\ nb <= m.dvsize
  <2>1. q = m.dv
    BY <1>3, <1>8 DEF dlmalloc, Result, FromDv
  <2> HIDE DEF nb, q
  <2>2. Taken(m, nb, q)
    BY <1>8, <2>1 DEF Taken
  <2> QED BY <2>2 DEF nb, q
<1>9. CASE ~exact /\ ~small2 /\ ~large2 /\ ~tree /\ ~(nb <= m.dvsize)
  <2>1. q = IF nb < m.topsize THEN m.top ELSE sys_alloc(m, nb).p
    BY <1>3, <1>9 DEF dlmalloc, Result, FromTop
  <2>2. nb > m.dvsize
    BY <1>1, <1>2, <1>9
  <2>3. fit = {}
    <3>1. ASSUME NEW s \in fit, is_small(nb) PROVE FALSE
      <4>1. s = nb => exact
        BY <3>1 DEF Marked
      <4>2. s # nb => s \in larger
        BY <1>1, <1>2
      <4> QED BY <1>9, <2>2, <3>1, <4>1, <4>2
    <3>2. ASSUME NEW s \in fit, ~is_small(nb) PROVE FALSE
      <4>1. tmalloc_large(m, nb)
        BY <1>1, <1>2, <2>2 DEF tmalloc_large
      <4> QED BY <1>9, <3>2, <4>1
    <3> QED BY <3>1, <3>2
  <2> HIDE DEF nb, q
  <2>4. Taken(m, nb, q)
    BY <2>1, <2>2, <2>3 DEF Taken
  <2> QED BY <2>4 DEF nb, q
<1> QED BY <1>4, <1>5, <1>6, <1>7, <1>8, <1>9

(* ServedIfPossible follows from the invariant.                              *)
LEMMA ServedHolds == ASSUME HeapInv PROVE ServedIfPossible
<1> SUFFICES ASSUME NEW bytes \in Requests
             PROVE  LET nb == request2size(bytes)
                        got == dlmalloc(gm, bytes).p
                        fits == {p \in FreeChunks(gm) : gm.head[p].size >= nb}
                    IN /\ got = NULL => /\ fits = {} /\ gm.topsize <= nb
                                        /\ ~sbrk_ok(gm, granularity_align(nb + TopFoot + 1))
                       /\ ~is_small(nb) /\ fits # {} =>
                            got \in fits /\ \A p \in fits : gm.head[got].size <= gm.head[p].size
  BY DEF ServedIfPossible
<1> DEFINE nb == request2size(bytes)
           got == dlmalloc(gm, bytes).p
           fits == {p \in FreeChunks(gm) : gm.head[p].size >= nb}
           fit == {s \in Marked(gm) : s >= nb}
           L == DOMAIN live
<1>1. HeapOK(gm, L) /\ bytes \in Nat /\ bytes < Huge
  BY MallocAssumption DEF HeapInv, Holding
<1>2. nb \in Int /\ nb >= 2
  BY <1>1, ChunkSize
<1>3. /\ gm.topsize \in Int /\ gm.dvsize \in Int /\ Marked(gm) \in SUBSET Sizes
      /\ \A s \in Marked(gm) : s \in Int
      /\ Marked(gm) # {} \/ gm.dvsize # 0 \/ gm.topsize # 0 => \E K : Heap(gm, K, L)
  BY <1>1, FreshIndex DEF Sizes
<1>4. Taken(gm, nb, got)
  BY <1>1, MallocTakes
<1>5. ASSUME NEW K, Heap(gm, K, L)
      PROVE  /\ FreeChunks(gm) = FreeIn(gm, K) /\ gm.top # NULL /\ NULL \notin FreeIn(gm, K)
             /\ \A p \in FreeChunks(gm) : /\ gm.head[p].size \in Int
                                          /\ p = gm.dv => gm.head[p].size = gm.dvsize
                                          /\ p # gm.dv => gm.head[p].size \in Marked(gm)
             /\ gm.dvsize # 0 => gm.dv \in FreeChunks(gm) /\ gm.head[gm.dv].size = gm.dvsize
             /\ \A s \in Marked(gm) : /\ OldestOf(gm, s) \in FreeChunks(gm)
                                      /\ gm.head[OldestOf(gm, s)].size = s
  <2>1. FreeChunks(gm) = FreeIn(gm, K) /\ gm.top # NULL
    BY <1>5, WalkSets DEF Heap
  <2>2. /\ \A p \in FreeIn(gm, K) : /\ gm.head[p].size \in Int
                                    /\ p = gm.dv => gm.head[p].size = gm.dvsize
                                    /\ p # gm.dv => gm.head[p].size \in Marked(gm)
        /\ gm.dvsize # 0 => gm.dv \in FreeIn(gm, K) /\ gm.head[gm.dv].size = gm.dvsize
        /\ NULL \notin FreeIn(gm, K)
    BY <1>5, FreeIsFound
  <2>3. \A s \in Marked(gm) : OldestOf(gm, s) \in FreeIn(gm, K)
                              /\ gm.head[OldestOf(gm, s)].size = s
    BY <1>5, MarkedBin
  <2> QED BY <2>1, <2>2, <2>3
<1>6. Fresh(gm) \/ \E K : Heap(gm, K, L)
  BY <1>1 DEF HeapOK
<1> HIDE DEF nb, got
<1>7. CASE Fresh(gm)
  <2>1. /\ FreeChunks(gm) = {} /\ gm.topsize = 0 /\ gm.dvsize = 0 /\ Marked(gm) = {}
    BY <1>7, FreshChunks DEF Fresh, Marked
  <2>2. got = NULL => got = sys_alloc(gm, nb).p
    BY <1>2, <1>4, <2>1 DEF Taken, tmalloc_large
  <2>3. gm.topsize <= nb /\ nb >= gm.topsize
    BY <1>2, <2>1
  <2>4. got = NULL => ~sbrk_ok(gm, granularity_align(nb + TopFoot + 1))
    BY <1>1, <1>2, <2>2, <2>3, SysAllocGives
  <2> QED BY <2>1, <2>3, <2>4 DEF nb, got
<1>8. ASSUME NEW K, Heap(gm, K, L), got = NULL
      PROVE  /\ fits = {} /\ gm.topsize <= nb
             /\ ~sbrk_ok(gm, granularity_align(nb + TopFoot + 1))
  <2>1. \A s \in Marked(gm) : OldestOf(gm, s) # NULL
    BY <1>5, <1>8
  <2>2. gm.dvsize # 0 => gm.dv # NULL
    BY <1>5, <1>8
  <2>3. ~(nb <= gm.dvsize /\ got = gm.dv)
    BY <1>2, <1>8, <2>2
  <2>4. tmalloc_large(gm, nb) => Least(fit) \in Marked(gm)
    <3>1. tmalloc_large(gm, nb) => fit # {}
      BY DEF tmalloc_large
    <3>2. fit # {} => Least(fit) \in fit
      BY <1>3, LeastSize
    <3> QED BY <3>1, <3>2
  <2>5. /\ nb > gm.dvsize /\ fit = {} /\ ~(nb < gm.topsize) /\ got = sys_alloc(gm, nb).p
    BY <1>4, <1>5, <1>8, <2>1, <2>3, <2>4 DEF Taken
  <2>6. nb >= gm.topsize /\ gm.topsize <= nb
    BY <1>2, <1>3, <2>5
  <2>7. fits = {}
    <3>1. SUFFICES ASSUME NEW p \in fits PROVE FALSE
      OBVIOUS
    <3>2. p = gm.dv => FALSE
      BY <1>2, <1>3, <1>5, <1>8, <2>5
    <3>3. p # gm.dv => gm.head[p].size \in fit
      BY <1>5, <1>8
    <3> QED BY <2>5, <3>2, <3>3
  <2>8. ~sbrk_ok(gm, granularity_align(nb + TopFoot + 1))
    BY <1>1, <1>2, <1>8, <2>5, <2>6, SysAllocGives
  <2> QED BY <2>6, <2>7, <2>8
<1>9. ASSUME NEW K, Heap(gm, K, L), ~is_small(nb), fits # {}
      PROVE  got \in fits /\ \A p \in fits : gm.head[got].size <= gm.head[p].size
  <2>1. \A p \in fits : /\ gm.head[p].size \in Int /\ gm.head[p].size >= nb /\ p \in FreeChunks(gm)
                        /\ p = gm.dv => gm.head[p].size = gm.dvsize
                        /\ p # gm.dv => gm.head[p].size \in fit
    BY <1>5, <1>9
  <2>2. CASE tmalloc_large(gm, nb)
    <3>1. PICK s \in Marked(gm) : s >= nb /\ (gm.dvsize < nb \/ s < gm.dvsize)
      BY <2>2 DEF tmalloc_large
    <3> DEFINE t == Least(fit)
    <3>2. t \in fit /\ \A x \in fit : t <= x
      BY <1>3, <3>1, LeastSize
    <3>3. got = OldestOf(gm, t)
      BY <1>4, <1>9, <2>2, <3>2 DEF Taken
    <3> HIDE DEF t
    <3>4. t \in Int /\ t >= nb /\ t <= s /\ s \in Int
      BY <1>3, <3>1, <3>2
    <3>5. gm.head[got].size = t /\ got \in FreeChunks(gm)
      BY <1>5, <1>9, <3>2, <3>3
    <3>6. got \in fits
      BY <3>4, <3>5
    <3>7. ASSUME NEW p \in fits PROVE t <= gm.head[p].size
      <4>1. p = gm.dv => t <= gm.head[p].size
        BY <1>2, <1>3, <2>1, <3>1, <3>4
      <4>2. p # gm.dv => t <= gm.head[p].size
        BY <2>1, <3>2
      <4> QED BY <4>1, <4>2
    <3> QED BY <3>5, <3>6, <3>7
  <2>3. CASE ~tmalloc_large(gm, nb)
    <3>1. \A s \in fit : gm.dvsize >= nb /\ gm.dvsize <= s
      BY <1>2, <1>3, <2>3 DEF tmalloc_large
    <3>2. \A p \in fits : gm.dvsize >= nb /\ gm.dvsize <= gm.head[p].size
      BY <1>2, <1>3, <2>1, <3>1
    <3>3. nb <= gm.dvsize /\ gm.dvsize # 0
      BY <1>2, <1>3, <1>9, <3>2
    <3>4. got = gm.dv
      BY <1>2, <1>3, <1>4, <1>9, <2>3, <3>3 DEF Taken
    <3>5. gm.dv \in fits /\ gm.head[gm.dv].size = gm.dvsize
      BY <1>2, <1>3, <1>5, <1>9, <3>3
    <3> QED BY <3>2, <3>4, <3>5
  <2> QED BY <2>2, <2>3
<1> QED BY <1>6, <1>7, <1>8, <1>9 DEF nb, got

(* Blocks in a heap share no word.                                           *)
LEMMA ApartAlways ==
    ASSUME NEW m, NEW f, Holding(m, f)
    PROVE  Blocks!Apart(f)
<1> DEFINE L == DOMAIN f
<1>1. HeapOK(m, L) /\ \A p \in L : Fits(m.head[p].size, f[p])
  BY DEF Holding, Stored
<1>2. CASE L = {}
  BY <1>2 DEF Blocks!Apart
<1>3. ASSUME NEW K, Heap(m, K, L) PROVE Blocks!Apart(f)
  <2>1. /\ \A p \in L : /\ p \in Int /\ m.head[p].size \in Int
                        /\ End(m.head, p) = p + m.head[p].size
        /\ \A p, q \in L : p < q => End(m.head, p) <= q
    <3>1. L \subseteq K /\ Geometry(m, K)
      BY <1>3 DEF Heap, UsedIn
    <3>2. \A p, q \in K : p < q => End(m.head, p) <= q
      BY <3>1 DEF Geometry, Tiled
    <3>3. \A p \in K : p \in Int /\ m.head[p].size \in Int
      BY <3>1, GeometryFacts
    <3> QED BY <3>1, <3>2, <3>3 DEF End
  <2>2. ASSUME NEW p \in L, NEW q \in L, p < q
        PROVE  Blocks!Span(p, f[p]) \cap Blocks!Span(q, f[q]) = {}
    <3> DEFINE w == (f[p] + 7) \div 8
               v == (f[q] + 7) \div 8
               s == m.head[p].size
    <3>1. w \in Int /\ w <= 2 * s - 1 /\ v \in Int
      BY <1>1 DEF Fits, Words, WordBytes
    <3>2. p \in Int /\ q \in Int /\ s \in Int /\ p + s <= q
      <4>1. End(m.head, p) <= q /\ End(m.head, p) = p + s
        BY <2>1, <2>2
      <4> QED BY <2>1, <4>1
    <3>3. /\ Blocks!Span(p, f[p]) = (2 * p + 2)..(2 * p + 1 + w)
          /\ Blocks!Span(q, f[q]) = (2 * q + 2)..(2 * q + 1 + v)
      BY DEF Blocks!Span
    <3> HIDE DEF w, v, s
    <3>4. \A x \in Int : ~(x <= 2 * p + 1 + w /\ 2 * q + 2 <= x)
      BY <3>1, <3>2
    <3> QED BY <3>1, <3>2, <3>3, <3>4
  <2>3. ASSUME NEW p \in L, NEW q \in L, p # q
        PROVE  Blocks!Span(p, f[p]) \cap Blocks!Span(q, f[q]) = {}
    <3>1. p < q \/ q < p
      BY <2>1, <2>3
    <3> QED BY <2>2, <3>1
  <2> QED BY <2>3 DEF Blocks!Apart
<1> QED BY <1>1, <1>2, <1>3 DEF HeapOK

(* Every call is a step of the store of blocks, or changes no block.         *)
LEMMA StoreStep == HeapInv /\ HeapInv' /\ [Next]_vars => [Blocks!Next]_live
<1> SUFFICES ASSUME HeapInv, HeapInv', [Next]_vars PROVE [Blocks!Next]_live
  OBVIOUS
<1>1. Holding(gm, live)
  BY DEF HeapInv
<1>2. Blocks!Apart(live') /\ DOMAIN live' \subseteq Units
  <2>1. Holding(gm', live')
    BY DEF HeapInv
  <2>2. Blocks!Apart(live')
    BY <2>1, ApartAlways
  <2>3. HeapOK(gm', DOMAIN live')
    BY <2>1 DEF Holding
  <2>4. ASSUME NEW K, Heap(gm', K, DOMAIN live') PROVE DOMAIN live' \subseteq Units
    BY <2>4, GeometryFacts DEF Heap, UsedIn
  <2> QED BY <2>2, <2>3, <2>4 DEF HeapOK
<1>3. \A p : \A f, x : p \in DOMAIN With(f, p, x) /\ Blocks!With(f, p, x) = With(f, p, x)
                       /\ Blocks!Without(f, p) = Without(f, p)
  BY DEF With, Without, Blocks!With, Blocks!Without
<1>4. \A f, p : DOMAIN Without(f, p) = DOMAIN f \ {p}
  BY DEF Without
<1>5. Requests \subseteq Nat /\ Huge \in Nat
  BY MallocAssumption
<1>6. CASE UNCHANGED vars
  BY <1>6 DEF vars
<1>7. ASSUME NEW bytes \in Requests \cup {Huge}, Malloc(bytes) PROVE [Blocks!Next]_live
  <2> DEFINE r == dlmalloc(gm, bytes)
  <2>1. live' = IF r.p = NULL THEN live ELSE With(live, r.p, bytes)
    BY <1>7 DEF Malloc
  <2>2. r.p # NULL => r.p \notin DOMAIN live
    BY <1>1, <1>5, MallocHolding
  <2>3. bytes \notin Requests => r.p = NULL
    <3>1. bytes \notin Requests => bytes >= Huge
      BY <1>5
    <3> QED BY <3>1 DEF dlmalloc, Result
  <2> DEFINE p == r.p
  <2> HIDE DEF r
  <2>4. CASE p # NULL
    <3>1. live' = Blocks!With(live, p, bytes) /\ p \in DOMAIN live' /\ p \notin DOMAIN live
      BY <1>3, <2>1, <2>2, <2>4
    <3>2. p \in Units /\ bytes \in Requests
      BY <1>2, <2>3, <2>4, <3>1
    <3> HIDE DEF p
    <3>3. Blocks!Get(p, bytes)
      BY <1>2, <3>1 DEF Blocks!Get
    <3> QED BY <3>2, <3>3 DEF Blocks!Next
  <2> QED BY <2>1, <2>4
<1>8. ASSUME NEW p \in DOMAIN live, Free(p) PROVE [Blocks!Next]_live
  <2>1. Blocks!Drop(p)
    BY <1>3, <1>8 DEF Free, Blocks!Drop
  <2> QED BY <2>1 DEF Blocks!Next
<1>9. ASSUME NEW p \in DOMAIN live, NEW bytes \in Requests \cup {Huge}, Realloc(p, bytes)
      PROVE  [Blocks!Next]_live
  <2> DEFINE r == dlrealloc(gm, p, bytes)
  <2>1. live' = IF r.p = NULL THEN live ELSE With(Without(live, p), r.p, bytes)
    BY <1>9 DEF Realloc
  <2>2. r.p # NULL => r.p \notin DOMAIN live \ {p}
    BY <1>1, <1>5, ReallocHolding
  <2>3. bytes \notin Requests => r.p = NULL
    <3>1. bytes \notin Requests => bytes >= Huge
      BY <1>5
    <3> QED BY <3>1 DEF dlrealloc, Result
  <2> DEFINE q == r.p
  <2> HIDE DEF r
  <2>4. CASE q # NULL
    <3>1. /\ live' = Blocks!With(Blocks!Without(live, p), q, bytes) /\ q \in DOMAIN live'
          /\ q \notin DOMAIN live \ {p}
      BY <1>3, <2>1, <2>2, <2>4
    <3>2. q \in Units /\ bytes \in Requests
      BY <1>2, <2>3, <2>4, <3>1
    <3> HIDE DEF q
    <3>3. Blocks!Resize(p, q, bytes)
      BY <1>2, <3>1 DEF Blocks!Resize
    <3> QED BY <3>2, <3>3 DEF Blocks!Next
  <2> QED BY <2>1, <2>4
<1> QED BY <1>6, <1>7, <1>8, <1>9 DEF Next

(* The fields of malloc_state, the heads and feet and the break keep their   *)
(* ranges: the break never passes MAX_BRK.                                   *)
THEOREM TypeCorrect == Spec => []TypeOK
  BY HeapAlways, TypeHolds, PTL

(* What a caller wrote in a block is there until it frees it, and realloc    *)
(* takes it along, whichever of its ways it goes.                            *)
THEOREM OwnersDataSafe == Spec => []OwnersData
  BY HeapAlways, DataHolds, PTL

(* What do_check_malloc_state asserts holds between any two calls: the tags  *)
(* agree, and the bins and dv are the free chunks, each once.                *)
THEOREM MallocStateCorrect == Spec => []MallocStateOK
<1>1. HeapInv => MallocStateOK
  BY TagsHold, BinsHold DEF MallocStateOK
<1> QED BY <1>1, HeapAlways, PTL

(* No two free chunks are neighbours, and a heap without blocks is top.      *)
THEOREM MergedAlways == Spec => []Merged
  BY HeapAlways, MergedHolds, PTL

(* malloc fails only for want of memory, and a large request gets the best   *)
(* fit.                                                                      *)
THEOREM ServedAlways == Spec => []ServedIfPossible
  BY HeapAlways, ServedHolds, PTL

(* malloc, free and realloc as this kernel builds them implement the store   *)
(* of blocks: every step is a get, drop or resize of one block that shares   *)
(* no word with another.                                                     *)
THEOREM BlockStore == Spec => IsBlockStore
<1>1. Init => Blocks!Init
  BY DEF Init, Blocks!Init
<1> QED BY <1>1, StoreStep, HeapAlways, PTL DEF Spec, IsBlockStore, Blocks!Spec

-----------------------------------------------------------------------------
(* The sizes of the tree bins.                                               *)
BinSizes == {s \in Nat : 16 <= s}
HeapSizes == 16..(3 * 2^18 - 1)

(* compute_tree_index finds the highest bit, x that of the size less 4.      *)
Highest(x, k) == k \in 0..15 /\ 2^k <= x /\ x < 2 * 2^k

(* The bin of a size is told by the number of its highest bit and the next   *)
(* one.                                                                      *)
LEMMA ByHighestBit ==
    ASSUME NEW s \in BinSizes, s \div 16 <= 2^16 - 1
    PROVE  \E k \in 0..15 : /\ Highest(s \div 16, k)
                            /\ compute_tree_index(s) = 2 * k + Bit(s, k + 3)
<1> DEFINE x == s \div 16
           n1 == 8 * Bit((x - 2^8) \div 2^16, 3)
           y1 == x * 2^n1
           n2 == 4 * Bit((y1 - 2^12) \div 2^16, 2)
           y2 == y1 * 2^n2
           n3 == 2 * Bit((y2 - 2^14) \div 2^16, 1)
           y3 == y2 * 2^n3
           k == 14 - (n1 + n2 + n3) + y3 \div 2^15
<1>1. x \in Int /\ 1 <= x /\ x <= 65535 /\ s \in Int
  BY DEF BinSizes
<1>2. compute_tree_index(s) = 2 * k + Bit(s, k + 3)
  BY <1>1 DEF compute_tree_index
<1> HIDE DEF x
<1>3a. ((x < 256 /\ n1 = 8) \/ (x >= 256 /\ n1 = 0))
  <2>1. CASE x < 256
    <3>1. (x - 256) \div 65536 = -1
      BY <1>1, <2>1
    <3> QED BY <3>1, <2>1 DEF Bit
  <2>2. CASE x >= 256
    <3>1. (x - 256) \div 65536 = 0
      BY <1>1, <2>2
    <3> QED BY <3>1, <2>2 DEF Bit
  <2> QED BY <1>1, <2>1, <2>2
<1> HIDE DEF n1
<1>3. \/ x < 256 /\ n1 = 8 /\ y1 = 256 * x
      \/ x >= 256 /\ n1 = 0 /\ y1 = x
  <2>1. (2^n1 = 256 /\ n1 = 8) \/ (2^n1 = 1 /\ n1 = 0)
    <3>1. CASE n1 = 8
      BY <3>1
    <3>2. CASE n1 = 0
      BY <3>2
    <3> QED BY <1>3a, <3>1, <3>2
  <2> DEFINE e == 2^n1
  <2> HIDE DEF e
  <2>2. y1 = x * e
    BY DEF e
  <2>3. (e = 256 /\ n1 = 8) \/ (e = 1 /\ n1 = 0)
    BY <2>1 DEF e
  <2> HIDE DEF y1
  <2> QED BY <1>3a, <1>1, <2>2, <2>3
<1>4. y1 \in Int /\ 256 <= y1 /\ y1 <= 65535
  BY <1>1, <1>3
<1> HIDE DEF y1
<1>5a. ((y1 < 4096 /\ n2 = 4) \/ (y1 >= 4096 /\ n2 = 0))
  <2>1. CASE y1 < 4096
    <3>1. (y1 - 4096) \div 65536 = -1
      BY <1>4, <2>1
    <3> QED BY <3>1, <2>1 DEF Bit
  <2>2. CASE y1 >= 4096
    <3>1. (y1 - 4096) \div 65536 = 0
      BY <1>4, <2>2
    <3> QED BY <3>1, <2>2 DEF Bit
  <2> QED BY <1>4, <2>1, <2>2
<1> HIDE DEF n2
<1>5. \/ y1 < 4096 /\ n2 = 4 /\ y2 = 16 * y1
      \/ y1 >= 4096 /\ n2 = 0 /\ y2 = y1
  <2>1. (2^n2 = 16 /\ n2 = 4) \/ (2^n2 = 1 /\ n2 = 0)
    <3>1. CASE n2 = 4
      BY <3>1
    <3>2. CASE n2 = 0
      BY <3>2
    <3> QED BY <1>5a, <3>1, <3>2
  <2> DEFINE e == 2^n2
  <2> HIDE DEF e
  <2>2. y2 = y1 * e
    BY DEF e
  <2>3. (e = 16 /\ n2 = 4) \/ (e = 1 /\ n2 = 0)
    BY <2>1 DEF e
  <2> HIDE DEF y2
  <2> QED BY <1>5a, <1>4, <2>2, <2>3
<1>6. y2 \in Int /\ 4096 <= y2 /\ y2 <= 65535
  BY <1>4, <1>5
<1> HIDE DEF y2
<1>7a. ((y2 < 16384 /\ n3 = 2) \/ (y2 >= 16384 /\ n3 = 0))
  <2>1. CASE y2 < 16384
    <3>1. (y2 - 16384) \div 65536 = -1
      BY <1>6, <2>1
    <3> QED BY <3>1, <2>1 DEF Bit
  <2>2. CASE y2 >= 16384
    <3>1. (y2 - 16384) \div 65536 = 0
      BY <1>6, <2>2
    <3> QED BY <3>1, <2>2 DEF Bit
  <2> QED BY <1>6, <2>1, <2>2
<1> HIDE DEF n3
<1>7. \/ y2 < 16384 /\ n3 = 2 /\ y3 = 4 * y2
      \/ y2 >= 16384 /\ n3 = 0 /\ y3 = y2
  <2>1. (2^n3 = 4 /\ n3 = 2) \/ (2^n3 = 1 /\ n3 = 0)
    <3>1. CASE n3 = 2
      BY <3>1
    <3>2. CASE n3 = 0
      BY <3>2
    <3> QED BY <1>7a, <3>1, <3>2
  <2> DEFINE e == 2^n3
  <2> HIDE DEF e
  <2>2. y3 = y2 * e
    BY DEF e
  <2>3. (e = 4 /\ n3 = 2) \/ (e = 1 /\ n3 = 0)
    BY <2>1 DEF e
  <2> HIDE DEF y3
  <2> QED BY <1>7a, <1>6, <2>2, <2>3
<1>8. y3 \in Int /\ 16384 <= y3 /\ y3 <= 65535
  BY <1>6, <1>7
<1> HIDE DEF y3
<1>9. \/ y3 < 32768 /\ k = 14 - (n1 + n2 + n3)
      \/ y3 >= 32768 /\ k = 15 - (n1 + n2 + n3)
  BY <1>3, <1>5, <1>7, <1>8
<1> HIDE DEF k
<1>10. \/ k = 0 /\ x = 1
       \/ k = 1 /\ 2 <= x /\ x < 4
       \/ k = 2 /\ 4 <= x /\ x < 8
       \/ k = 3 /\ 8 <= x /\ x < 16
       \/ k = 4 /\ 16 <= x /\ x < 32
       \/ k = 5 /\ 32 <= x /\ x < 64
       \/ k = 6 /\ 64 <= x /\ x < 128
       \/ k = 7 /\ 128 <= x /\ x < 256
       \/ k = 8 /\ 256 <= x /\ x < 512
       \/ k = 9 /\ 512 <= x /\ x < 1024
       \/ k = 10 /\ 1024 <= x /\ x < 2048
       \/ k = 11 /\ 2048 <= x /\ x < 4096
       \/ k = 12 /\ 4096 <= x /\ x < 8192
       \/ k = 13 /\ 8192 <= x /\ x < 16384
       \/ k = 14 /\ 16384 <= x /\ x < 32768
       \/ k = 15 /\ 32768 <= x /\ x < 65536
  BY <1>1, <1>3, <1>5, <1>7, <1>8, <1>9
<1>11. Highest(x, k)
  <2>1. CASE k = 0
    BY <1>1, <1>10, <2>1 DEF Highest
  <2>2. CASE k = 1
    BY <1>1, <1>10, <2>2 DEF Highest
  <2>3. CASE k = 2
    BY <1>1, <1>10, <2>3 DEF Highest
  <2>4. CASE k = 3
    BY <1>1, <1>10, <2>4 DEF Highest
  <2>5. CASE k = 4
    BY <1>1, <1>10, <2>5 DEF Highest
  <2>6. CASE k = 5
    BY <1>1, <1>10, <2>6 DEF Highest
  <2>7. CASE k = 6
    BY <1>1, <1>10, <2>7 DEF Highest
  <2>8. CASE k = 7
    BY <1>1, <1>10, <2>8 DEF Highest
  <2>9. CASE k = 8
    BY <1>1, <1>10, <2>9 DEF Highest
  <2>10. CASE k = 9
    BY <1>1, <1>10, <2>10 DEF Highest
  <2>11. CASE k = 10
    BY <1>1, <1>10, <2>11 DEF Highest
  <2>12. CASE k = 11
    BY <1>1, <1>10, <2>12 DEF Highest
  <2>13. CASE k = 12
    BY <1>1, <1>10, <2>13 DEF Highest
  <2>14. CASE k = 13
    BY <1>1, <1>10, <2>14 DEF Highest
  <2>15. CASE k = 14
    BY <1>1, <1>10, <2>15 DEF Highest
  <2>16. CASE k = 15
    BY <1>1, <1>10, <2>16 DEF Highest
  <2> QED BY <1>10, <2>1, <2>2, <2>3, <2>4, <2>5, <2>6, <2>7, <2>8, <2>9, <2>10, <2>11, <2>12, <2>13, <2>14, <2>15, <2>16
<1>12. k \in 0..15
  BY <1>10
<1> QED BY <1>2, <1>11, <1>12 DEF x
(* The bins two to a power of two.                                           *)
InBin(s, k, P, b) ==
    \/ b = 0 /\ 2 * P <= s /\ s < 3 * P
    \/ b = 1 /\ 3 * P <= s /\ s < 4 * P

(* The powers of two that occur.                                             *)
Power(k, P) ==

    \/ k = 0 /\ P = 8
    \/ k = 1 /\ P = 16
    \/ k = 2 /\ P = 32
    \/ k = 3 /\ P = 64
    \/ k = 4 /\ P = 128
    \/ k = 5 /\ P = 256
    \/ k = 6 /\ P = 512
    \/ k = 7 /\ P = 1024
    \/ k = 8 /\ P = 2048
    \/ k = 9 /\ P = 4096
    \/ k = 10 /\ P = 8192
    \/ k = 11 /\ P = 16384
    \/ k = 12 /\ P = 32768
    \/ k = 13 /\ P = 65536
    \/ k = 14 /\ P = 131072
    \/ k = 15 /\ P = 262144

(* The widths of the bins, as numbers.                                       *)
LEMMA PowersOfBins ==
    ASSUME NEW k \in 0..15
    PROVE  Power(k, 2^(k + 3))
<1>1. CASE k = 0
  BY <1>1 DEF Power
<1>2. CASE k = 1
  BY <1>2 DEF Power
<1>3. CASE k = 2
  BY <1>3 DEF Power
<1>4. CASE k = 3
  BY <1>4 DEF Power
<1>5. CASE k = 4
  BY <1>5 DEF Power
<1>6. CASE k = 5
  BY <1>6 DEF Power
<1>7. CASE k = 6
  BY <1>7 DEF Power
<1>8. CASE k = 7
  BY <1>8 DEF Power
<1>9. CASE k = 8
  BY <1>9 DEF Power
<1>10. CASE k = 9
  BY <1>10 DEF Power
<1>11. CASE k = 10
  BY <1>11 DEF Power
<1>12. CASE k = 11
  BY <1>12 DEF Power
<1>13. CASE k = 12
  BY <1>13 DEF Power
<1>14. CASE k = 13
  BY <1>14 DEF Power
<1>15. CASE k = 14
  BY <1>15 DEF Power
<1>16. CASE k = 15
  BY <1>16 DEF Power
<1> QED BY <1>1, <1>2, <1>3, <1>4, <1>5, <1>6, <1>7, <1>8, <1>9, <1>10, <1>11, <1>12, <1>13, <1>14, <1>15, <1>16

(* A bin holds the sizes between two bounds.                                 *)
LEMMA BinOf ==
    ASSUME NEW s \in BinSizes, s \div 16 <= 2^16 - 1
    PROVE  \E k \in 0..15, b \in 0..1 :
              compute_tree_index(s) = 2 * k + b /\ InBin(s, k, 2^(k + 3), b)
<1>1. PICK k \in 0..15 : /\ Highest(s \div 16, k)
                         /\ compute_tree_index(s) = 2 * k + Bit(s, k + 3)
  BY ByHighestBit
<1>2. s \in Nat
  BY DEF BinSizes
<1>3. Bit(s, k + 3) \in 0..1 /\ InBin(s, k, 2^(k + 3), Bit(s, k + 3))
  <2>1. CASE k = 0
    <3>1. 1 <= s \div 16 /\ s \div 16 < 2
      BY <1>1, <2>1 DEF Highest
    <3>2. Bit(s, k + 3) = (s \div 8) % 2 /\ 2^(k + 3) = 8
      BY <2>1 DEF Bit
    <3> DEFINE b == (s \div 8) % 2
    <3>3. \/ b = 0 /\ 16 <= s /\ s < 24
          \/ b = 1 /\ 24 <= s /\ s < 32
      BY <1>2, <3>1
    <3> HIDE DEF b
    <3> QED BY <3>2, <3>3 DEF InBin, b
  <2>2. CASE k = 1
    <3>1. 2 <= s \div 16 /\ s \div 16 < 4
      BY <1>1, <2>2 DEF Highest
    <3>2. Bit(s, k + 3) = (s \div 16) % 2 /\ 2^(k + 3) = 16
      BY <2>2 DEF Bit
    <3> DEFINE b == (s \div 16) % 2
    <3>3. \/ b = 0 /\ 32 <= s /\ s < 48
          \/ b = 1 /\ 48 <= s /\ s < 64
      BY <1>2, <3>1
    <3> HIDE DEF b
    <3> QED BY <3>2, <3>3 DEF InBin, b
  <2>3. CASE k = 2
    <3>1. 4 <= s \div 16 /\ s \div 16 < 8
      BY <1>1, <2>3 DEF Highest
    <3>2. Bit(s, k + 3) = (s \div 32) % 2 /\ 2^(k + 3) = 32
      BY <2>3 DEF Bit
    <3> DEFINE b == (s \div 32) % 2
    <3>3. \/ b = 0 /\ 64 <= s /\ s < 96
          \/ b = 1 /\ 96 <= s /\ s < 128
      BY <1>2, <3>1
    <3> HIDE DEF b
    <3> QED BY <3>2, <3>3 DEF InBin, b
  <2>4. CASE k = 3
    <3>1. 8 <= s \div 16 /\ s \div 16 < 16
      BY <1>1, <2>4 DEF Highest
    <3>2. Bit(s, k + 3) = (s \div 64) % 2 /\ 2^(k + 3) = 64
      BY <2>4 DEF Bit
    <3> DEFINE b == (s \div 64) % 2
    <3>3. \/ b = 0 /\ 128 <= s /\ s < 192
          \/ b = 1 /\ 192 <= s /\ s < 256
      BY <1>2, <3>1
    <3> HIDE DEF b
    <3> QED BY <3>2, <3>3 DEF InBin, b
  <2>5. CASE k = 4
    <3>1. 16 <= s \div 16 /\ s \div 16 < 32
      BY <1>1, <2>5 DEF Highest
    <3>2. Bit(s, k + 3) = (s \div 128) % 2 /\ 2^(k + 3) = 128
      BY <2>5 DEF Bit
    <3> DEFINE b == (s \div 128) % 2
    <3>3. \/ b = 0 /\ 256 <= s /\ s < 384
          \/ b = 1 /\ 384 <= s /\ s < 512
      BY <1>2, <3>1
    <3> HIDE DEF b
    <3> QED BY <3>2, <3>3 DEF InBin, b
  <2>6. CASE k = 5
    <3>1. 32 <= s \div 16 /\ s \div 16 < 64
      BY <1>1, <2>6 DEF Highest
    <3>2. Bit(s, k + 3) = (s \div 256) % 2 /\ 2^(k + 3) = 256
      BY <2>6 DEF Bit
    <3> DEFINE b == (s \div 256) % 2
    <3>3. \/ b = 0 /\ 512 <= s /\ s < 768
          \/ b = 1 /\ 768 <= s /\ s < 1024
      BY <1>2, <3>1
    <3> HIDE DEF b
    <3> QED BY <3>2, <3>3 DEF InBin, b
  <2>7. CASE k = 6
    <3>1. 64 <= s \div 16 /\ s \div 16 < 128
      BY <1>1, <2>7 DEF Highest
    <3>2. Bit(s, k + 3) = (s \div 512) % 2 /\ 2^(k + 3) = 512
      BY <2>7 DEF Bit
    <3> DEFINE b == (s \div 512) % 2
    <3>3. \/ b = 0 /\ 1024 <= s /\ s < 1536
          \/ b = 1 /\ 1536 <= s /\ s < 2048
      BY <1>2, <3>1
    <3> HIDE DEF b
    <3> QED BY <3>2, <3>3 DEF InBin, b
  <2>8. CASE k = 7
    <3>1. 128 <= s \div 16 /\ s \div 16 < 256
      BY <1>1, <2>8 DEF Highest
    <3>2. Bit(s, k + 3) = (s \div 1024) % 2 /\ 2^(k + 3) = 1024
      BY <2>8 DEF Bit
    <3> DEFINE b == (s \div 1024) % 2
    <3>3. \/ b = 0 /\ 2048 <= s /\ s < 3072
          \/ b = 1 /\ 3072 <= s /\ s < 4096
      BY <1>2, <3>1
    <3> HIDE DEF b
    <3> QED BY <3>2, <3>3 DEF InBin, b
  <2>9. CASE k = 8
    <3>1. 256 <= s \div 16 /\ s \div 16 < 512
      BY <1>1, <2>9 DEF Highest
    <3>2. Bit(s, k + 3) = (s \div 2048) % 2 /\ 2^(k + 3) = 2048
      BY <2>9 DEF Bit
    <3> DEFINE b == (s \div 2048) % 2
    <3>3. \/ b = 0 /\ 4096 <= s /\ s < 6144
          \/ b = 1 /\ 6144 <= s /\ s < 8192
      BY <1>2, <3>1
    <3> HIDE DEF b
    <3> QED BY <3>2, <3>3 DEF InBin, b
  <2>10. CASE k = 9
    <3>1. 512 <= s \div 16 /\ s \div 16 < 1024
      BY <1>1, <2>10 DEF Highest
    <3>2. Bit(s, k + 3) = (s \div 4096) % 2 /\ 2^(k + 3) = 4096
      BY <2>10 DEF Bit
    <3> DEFINE b == (s \div 4096) % 2
    <3>3. \/ b = 0 /\ 8192 <= s /\ s < 12288
          \/ b = 1 /\ 12288 <= s /\ s < 16384
      BY <1>2, <3>1
    <3> HIDE DEF b
    <3> QED BY <3>2, <3>3 DEF InBin, b
  <2>11. CASE k = 10
    <3>1. 1024 <= s \div 16 /\ s \div 16 < 2048
      BY <1>1, <2>11 DEF Highest
    <3>2. Bit(s, k + 3) = (s \div 8192) % 2 /\ 2^(k + 3) = 8192
      BY <2>11 DEF Bit
    <3> DEFINE b == (s \div 8192) % 2
    <3>3. \/ b = 0 /\ 16384 <= s /\ s < 24576
          \/ b = 1 /\ 24576 <= s /\ s < 32768
      BY <1>2, <3>1
    <3> HIDE DEF b
    <3> QED BY <3>2, <3>3 DEF InBin, b
  <2>12. CASE k = 11
    <3>1. 2048 <= s \div 16 /\ s \div 16 < 4096
      BY <1>1, <2>12 DEF Highest
    <3>2. Bit(s, k + 3) = (s \div 16384) % 2 /\ 2^(k + 3) = 16384
      BY <2>12 DEF Bit
    <3> DEFINE b == (s \div 16384) % 2
    <3>3. \/ b = 0 /\ 32768 <= s /\ s < 49152
          \/ b = 1 /\ 49152 <= s /\ s < 65536
      BY <1>2, <3>1
    <3> HIDE DEF b
    <3> QED BY <3>2, <3>3 DEF InBin, b
  <2>13. CASE k = 12
    <3>1. 4096 <= s \div 16 /\ s \div 16 < 8192
      BY <1>1, <2>13 DEF Highest
    <3>2. Bit(s, k + 3) = (s \div 32768) % 2 /\ 2^(k + 3) = 32768
      BY <2>13 DEF Bit
    <3> DEFINE b == (s \div 32768) % 2
    <3>3. \/ b = 0 /\ 65536 <= s /\ s < 98304
          \/ b = 1 /\ 98304 <= s /\ s < 131072
      BY <1>2, <3>1
    <3> HIDE DEF b
    <3> QED BY <3>2, <3>3 DEF InBin, b
  <2>14. CASE k = 13
    <3>1. 8192 <= s \div 16 /\ s \div 16 < 16384
      BY <1>1, <2>14 DEF Highest
    <3>2. Bit(s, k + 3) = (s \div 65536) % 2 /\ 2^(k + 3) = 65536
      BY <2>14 DEF Bit
    <3> DEFINE b == (s \div 65536) % 2
    <3>3. \/ b = 0 /\ 131072 <= s /\ s < 196608
          \/ b = 1 /\ 196608 <= s /\ s < 262144
      BY <1>2, <3>1
    <3> HIDE DEF b
    <3> QED BY <3>2, <3>3 DEF InBin, b
  <2>15. CASE k = 14
    <3>1. 16384 <= s \div 16 /\ s \div 16 < 32768
      BY <1>1, <2>15 DEF Highest
    <3>2. Bit(s, k + 3) = (s \div 131072) % 2 /\ 2^(k + 3) = 131072
      BY <2>15 DEF Bit
    <3> DEFINE b == (s \div 131072) % 2
    <3>3. \/ b = 0 /\ 262144 <= s /\ s < 393216
          \/ b = 1 /\ 393216 <= s /\ s < 524288
      BY <1>2, <3>1
    <3> HIDE DEF b
    <3> QED BY <3>2, <3>3 DEF InBin, b
  <2>16. CASE k = 15
    <3>1. 32768 <= s \div 16 /\ s \div 16 < 65536
      BY <1>1, <2>16 DEF Highest
    <3>2. Bit(s, k + 3) = (s \div 262144) % 2 /\ 2^(k + 3) = 262144
      BY <2>16 DEF Bit
    <3> DEFINE b == (s \div 262144) % 2
    <3>3. \/ b = 0 /\ 524288 <= s /\ s < 786432
          \/ b = 1 /\ 786432 <= s /\ s < 1048576
      BY <1>2, <3>1
    <3> HIDE DEF b
    <3> QED BY <3>2, <3>3 DEF InBin, b
  <2> QED BY <2>1, <2>2, <2>3, <2>4, <2>5, <2>6, <2>7, <2>8, <2>9, <2>10, <2>11, <2>12, <2>13, <2>14, <2>15, <2>16
<1> QED BY <1>1, <1>3
(* A size of the last bin.                                                   *)
LEMMA HighSize ==
    ASSUME NEW s \in BinSizes, s \div 16 > 2^16 - 1
    PROVE  compute_tree_index(s) = 31 /\ s >= 2^20
<1>1. s \in Nat /\ s \div 16 \in Nat
  BY DEF BinSizes
<1>2. s \div 16 # 0 /\ s >= 1048576
  BY <1>1
<1>3. 1048576 = 2^20
  OBVIOUS
<1> QED BY <1>2, <1>3 DEF compute_tree_index, LastBin

(* The bins are in the order of the sizes in them.                           *)
LEMMA BinOrder ==
    ASSUME NEW s \in BinSizes, NEW u \in BinSizes,
           compute_tree_index(s) < compute_tree_index(u)
    PROVE  s < u
<1>1. s \in Nat /\ u \in Nat /\ s \div 16 \in Nat /\ u \div 16 \in Nat
  BY DEF BinSizes
<1>2. 2^16 - 1 = 65535
  OBVIOUS
<1>3. CASE s \div 16 > 2^16 - 1
  <2>1. compute_tree_index(u) \in Int /\ compute_tree_index(u) <= 31
    <3>1. CASE u \div 16 > 2^16 - 1
      BY <3>1, HighSize
    <3>2. CASE u \div 16 <= 2^16 - 1
      BY <3>2, BinOf
    <3> QED BY <1>1, <1>2, <3>1, <3>2
  <2>2. compute_tree_index(s) = 31
    BY <1>3, HighSize
  <2> QED BY <2>1, <2>2
<1>4. CASE s \div 16 <= 2^16 - 1
  <2>1. PICK k \in 0..15, b \in 0..1 :
            compute_tree_index(s) = 2 * k + b /\ InBin(s, k, 2^(k + 3), b)
    BY <1>4, BinOf
  <2> DEFINE P == 2^(k + 3)
  <2>2. InBin(s, k, P, b)
    BY <2>1
  <2>3. Power(k, P)
    BY PowersOfBins, Zenon
  <2> HIDE DEF P
  <2>4. CASE u \div 16 > 2^16 - 1
    <3>1. u >= 1048576
      BY <1>1, <1>2, <2>4
    <3> QED BY <1>1, <2>2, <2>3, <3>1 DEF InBin, Power
  <2>5. CASE u \div 16 <= 2^16 - 1
    <3>1. PICK l \in 0..15, c \in 0..1 :
              compute_tree_index(u) = 2 * l + c /\ InBin(u, l, 2^(l + 3), c)
      BY <2>5, BinOf
    <3> DEFINE Q == 2^(l + 3)
    <3>2. InBin(u, l, Q, c)
      BY <3>1
    <3>3. Power(l, Q)
      BY PowersOfBins, Zenon
    <3> HIDE DEF Q
    <3>4. 2 * k + b < 2 * l + c
      BY <2>1, <3>1
    <3>5. (k = l /\ b = 0 /\ c = 1) \/ k < l
      BY <3>4
    <3>6. (k = l /\ P = Q) \/ (k < l /\ 2 * P <= Q)
      BY <2>3, <3>3, <3>5 DEF Power
    <3>7. P \in Nat /\ Q \in Nat
      BY <2>3, <3>3 DEF Power
    <3> QED BY <1>1, <2>2, <3>2, <3>5, <3>6, <3>7 DEF InBin
  <2> QED BY <1>1, <1>2, <2>4, <2>5
<1> QED BY <1>1, <1>2, <1>3, <1>4

(* What fits the heap fits no last bin.                                      *)
LEMMA NotLast ==
    ASSUME NEW s \in BinSizes
    PROVE  /\ s < 3 * 2^18 => compute_tree_index(s) \in 0..30 /\ s \div 16 <= 2^16 - 1
           /\ s >= 3 * 2^18 => compute_tree_index(s) = 31
<1>1. s \in Nat /\ s \div 16 \in Nat
  BY DEF BinSizes
<1>2. 2^16 - 1 = 65535 /\ 3 * 2^18 = 786432
  OBVIOUS
<1>3. CASE s \div 16 > 2^16 - 1
  <2>1. s >= 1048576
    BY <1>1, <1>2, <1>3
  <2> QED BY <1>1, <1>2, <1>3, <2>1, HighSize
<1>4. CASE s \div 16 <= 2^16 - 1
  <2>1. PICK k \in 0..15, b \in 0..1 :
            compute_tree_index(s) = 2 * k + b /\ InBin(s, k, 2^(k + 3), b)
    BY <1>4, BinOf
  <2> DEFINE P == 2^(k + 3)
  <2>2. InBin(s, k, P, b)
    BY <2>1
  <2>3. Power(k, P)
    BY PowersOfBins, Zenon
  <2> HIDE DEF P
  <2>4. s < 786432 => 2 * k + b \in 0..30
    BY <1>1, <2>2, <2>3 DEF InBin, Power
  <2>5. s >= 786432 => 2 * k + b = 31
    BY <1>1, <2>2, <2>3 DEF InBin, Power
  <2> QED BY <1>2, <1>4, <2>1, <2>4, <2>5
<1> QED BY <1>1, <1>2, <1>3, <1>4

(* What the sizes of a bin have in common: their bits above the path.        *)
LEMMA BinBits ==
    ASSUME NEW s \in HeapSizes
    PROVE  /\ compute_tree_index(s) \in 0..30
           /\ Depth(compute_tree_index(s)) \in 1..18
           /\ \A u \in HeapSizes :
                 compute_tree_index(u) = compute_tree_index(s) =>
                     u \div 2^Depth(compute_tree_index(s)) = s \div 2^Depth(compute_tree_index(s))
<1>1. \A u \in HeapSizes : u \in Nat /\ u \in BinSizes /\ u < 3 * 2^18
  BY DEF BinSizes, HeapSizes
<1>2. compute_tree_index(s) \in 0..30 /\ s \div 16 <= 2^16 - 1
  BY <1>1, NotLast
<1> QED
  <2>2. PICK k \in 0..15, b \in 0..1 :
            compute_tree_index(s) = 2 * k + b /\ InBin(s, k, 2^(k + 3), b)
    BY <1>1, <1>2, BinOf
  <2>3. 2 * k + b \in 0..30 /\ (2 * k + b) \div 2 = k /\ 2 * k + b # 31
    BY <1>2, <2>2
  <2>4. Depth(compute_tree_index(s)) = k + 3
    BY <2>2, <2>3 DEF Depth, LastBin
  <2>5. ASSUME NEW u \in HeapSizes, compute_tree_index(u) = compute_tree_index(s)
        PROVE  u \div 2^(k + 3) = s \div 2^(k + 3)
    <3>1. u \div 16 <= 2^16 - 1
      BY <1>1, <2>5, NotLast
    <3>2. PICK l \in 0..15, c \in 0..1 :
              compute_tree_index(u) = 2 * l + c /\ InBin(u, l, 2^(l + 3), c)
      BY <1>1, <3>1, BinOf
    <3>3. l = k /\ c = b
      BY <2>2, <2>5, <3>2
    <3>4. InBin(u, k, 2^(k + 3), b) /\ InBin(s, k, 2^(k + 3), b)
      BY <2>2, <3>2, <3>3
    <3>5. s \in Nat /\ u \in Nat
      BY <1>1
    <3>6. CASE k = 0
      <4>1. 2^(k + 3) = 8
        BY <3>6
      <4>2. InBin(u, k, 8, b) /\ InBin(s, k, 8, b)
        BY <3>4, <4>1
      <4>3. u \div 8 = s \div 8
        BY <3>5, <4>2 DEF InBin
      <4> QED BY <4>1, <4>3
    <3>7. CASE k = 1
      <4>1. 2^(k + 3) = 16
        BY <3>7
      <4>2. InBin(u, k, 16, b) /\ InBin(s, k, 16, b)
        BY <3>4, <4>1
      <4>3. u \div 16 = s \div 16
        BY <3>5, <4>2 DEF InBin
      <4> QED BY <4>1, <4>3
    <3>8. CASE k = 2
      <4>1. 2^(k + 3) = 32
        BY <3>8
      <4>2. InBin(u, k, 32, b) /\ InBin(s, k, 32, b)
        BY <3>4, <4>1
      <4>3. u \div 32 = s \div 32
        BY <3>5, <4>2 DEF InBin
      <4> QED BY <4>1, <4>3
    <3>9. CASE k = 3
      <4>1. 2^(k + 3) = 64
        BY <3>9
      <4>2. InBin(u, k, 64, b) /\ InBin(s, k, 64, b)
        BY <3>4, <4>1
      <4>3. u \div 64 = s \div 64
        BY <3>5, <4>2 DEF InBin
      <4> QED BY <4>1, <4>3
    <3>10. CASE k = 4
      <4>1. 2^(k + 3) = 128
        BY <3>10
      <4>2. InBin(u, k, 128, b) /\ InBin(s, k, 128, b)
        BY <3>4, <4>1
      <4>3. u \div 128 = s \div 128
        BY <3>5, <4>2 DEF InBin
      <4> QED BY <4>1, <4>3
    <3>11. CASE k = 5
      <4>1. 2^(k + 3) = 256
        BY <3>11
      <4>2. InBin(u, k, 256, b) /\ InBin(s, k, 256, b)
        BY <3>4, <4>1
      <4>3. u \div 256 = s \div 256
        BY <3>5, <4>2 DEF InBin
      <4> QED BY <4>1, <4>3
    <3>12. CASE k = 6
      <4>1. 2^(k + 3) = 512
        BY <3>12
      <4>2. InBin(u, k, 512, b) /\ InBin(s, k, 512, b)
        BY <3>4, <4>1
      <4>3. u \div 512 = s \div 512
        BY <3>5, <4>2 DEF InBin
      <4> QED BY <4>1, <4>3
    <3>13. CASE k = 7
      <4>1. 2^(k + 3) = 1024
        BY <3>13
      <4>2. InBin(u, k, 1024, b) /\ InBin(s, k, 1024, b)
        BY <3>4, <4>1
      <4>3. u \div 1024 = s \div 1024
        BY <3>5, <4>2 DEF InBin
      <4> QED BY <4>1, <4>3
    <3>14. CASE k = 8
      <4>1. 2^(k + 3) = 2048
        BY <3>14
      <4>2. InBin(u, k, 2048, b) /\ InBin(s, k, 2048, b)
        BY <3>4, <4>1
      <4>3. u \div 2048 = s \div 2048
        BY <3>5, <4>2 DEF InBin
      <4> QED BY <4>1, <4>3
    <3>15. CASE k = 9
      <4>1. 2^(k + 3) = 4096
        BY <3>15
      <4>2. InBin(u, k, 4096, b) /\ InBin(s, k, 4096, b)
        BY <3>4, <4>1
      <4>3. u \div 4096 = s \div 4096
        BY <3>5, <4>2 DEF InBin
      <4> QED BY <4>1, <4>3
    <3>16. CASE k = 10
      <4>1. 2^(k + 3) = 8192
        BY <3>16
      <4>2. InBin(u, k, 8192, b) /\ InBin(s, k, 8192, b)
        BY <3>4, <4>1
      <4>3. u \div 8192 = s \div 8192
        BY <3>5, <4>2 DEF InBin
      <4> QED BY <4>1, <4>3
    <3>17. CASE k = 11
      <4>1. 2^(k + 3) = 16384
        BY <3>17
      <4>2. InBin(u, k, 16384, b) /\ InBin(s, k, 16384, b)
        BY <3>4, <4>1
      <4>3. u \div 16384 = s \div 16384
        BY <3>5, <4>2 DEF InBin
      <4> QED BY <4>1, <4>3
    <3>18. CASE k = 12
      <4>1. 2^(k + 3) = 32768
        BY <3>18
      <4>2. InBin(u, k, 32768, b) /\ InBin(s, k, 32768, b)
        BY <3>4, <4>1
      <4>3. u \div 32768 = s \div 32768
        BY <3>5, <4>2 DEF InBin
      <4> QED BY <4>1, <4>3
    <3>19. CASE k = 13
      <4>1. 2^(k + 3) = 65536
        BY <3>19
      <4>2. InBin(u, k, 65536, b) /\ InBin(s, k, 65536, b)
        BY <3>4, <4>1
      <4>3. u \div 65536 = s \div 65536
        BY <3>5, <4>2 DEF InBin
      <4> QED BY <4>1, <4>3
    <3>20. CASE k = 14
      <4>1. 2^(k + 3) = 131072
        BY <3>20
      <4>2. InBin(u, k, 131072, b) /\ InBin(s, k, 131072, b)
        BY <3>4, <4>1
      <4>3. u \div 131072 = s \div 131072
        BY <3>5, <4>2 DEF InBin
      <4> QED BY <4>1, <4>3
    <3>21. CASE k = 15
      <4>1. 2^(k + 3) = 262144
        BY <3>21
      <4>2. InBin(u, k, 262144, b) /\ InBin(s, k, 262144, b)
        BY <3>4, <4>1
      <4>3. u \div 262144 = s \div 262144
        BY <3>5, <4>2 DEF InBin
      <4> QED BY <4>1, <4>3
    <3> QED BY <3>6, <3>7, <3>8, <3>9, <3>10, <3>11, <3>12, <3>13, <3>14, <3>15, <3>16, <3>17, <3>18, <3>19, <3>20, <3>21
  <2>6. k + 3 \in 1..18
    OBVIOUS
  <2> QED BY <2>2, <2>3, <2>4, <2>5, <2>6
(* A power of two and the next one.                                          *)
HalfBin(s, u, P, Q) ==
    /\ (s \div P) % 2 \in 0..1
    /\ s \div P = 2 * (s \div Q) + ((s \div P) % 2)
    /\ s \div P < u \div P => s < u
    /\ s \div Q \in Nat

(* Bits from the top down.                                                   *)
LEMMA Halves ==
    ASSUME NEW m \in 0..17, NEW s \in Nat, NEW u \in Nat
    PROVE  /\ Bit(s, m) \in 0..1
           /\ s \div 2^m = 2 * (s \div 2^(m + 1)) + Bit(s, m)
           /\ s \div 2^m < u \div 2^m => s < u
           /\ s \div 2^(m + 1) \in Nat
<1>0. HalfBin(s, u, 2^m, 2^(m + 1))
  <2>1. CASE m = 0
    <3>1. 2^m = 1 /\ 2^(m + 1) = 2
      BY <2>1
    <3>2. HalfBin(s, u, 1, 2)
      BY DEF HalfBin
    <3> QED BY <3>1, <3>2
  <2>2. CASE m = 1
    <3>1. 2^m = 2 /\ 2^(m + 1) = 4
      BY <2>2
    <3>2. HalfBin(s, u, 2, 4)
      BY DEF HalfBin
    <3> QED BY <3>1, <3>2
  <2>3. CASE m = 2
    <3>1. 2^m = 4 /\ 2^(m + 1) = 8
      BY <2>3
    <3>2. HalfBin(s, u, 4, 8)
      BY DEF HalfBin
    <3> QED BY <3>1, <3>2
  <2>4. CASE m = 3
    <3>1. 2^m = 8 /\ 2^(m + 1) = 16
      BY <2>4
    <3>2. HalfBin(s, u, 8, 16)
      BY DEF HalfBin
    <3> QED BY <3>1, <3>2
  <2>5. CASE m = 4
    <3>1. 2^m = 16 /\ 2^(m + 1) = 32
      BY <2>5
    <3>2. HalfBin(s, u, 16, 32)
      BY DEF HalfBin
    <3> QED BY <3>1, <3>2
  <2>6. CASE m = 5
    <3>1. 2^m = 32 /\ 2^(m + 1) = 64
      BY <2>6
    <3>2. HalfBin(s, u, 32, 64)
      BY DEF HalfBin
    <3> QED BY <3>1, <3>2
  <2>7. CASE m = 6
    <3>1. 2^m = 64 /\ 2^(m + 1) = 128
      BY <2>7
    <3>2. HalfBin(s, u, 64, 128)
      BY DEF HalfBin
    <3> QED BY <3>1, <3>2
  <2>8. CASE m = 7
    <3>1. 2^m = 128 /\ 2^(m + 1) = 256
      BY <2>8
    <3>2. HalfBin(s, u, 128, 256)
      BY DEF HalfBin
    <3> QED BY <3>1, <3>2
  <2>9. CASE m = 8
    <3>1. 2^m = 256 /\ 2^(m + 1) = 512
      BY <2>9
    <3>2. HalfBin(s, u, 256, 512)
      BY DEF HalfBin
    <3> QED BY <3>1, <3>2
  <2>10. CASE m = 9
    <3>1. 2^m = 512 /\ 2^(m + 1) = 1024
      BY <2>10
    <3>2. HalfBin(s, u, 512, 1024)
      BY DEF HalfBin
    <3> QED BY <3>1, <3>2
  <2>11. CASE m = 10
    <3>1. 2^m = 1024 /\ 2^(m + 1) = 2048
      BY <2>11
    <3>2. HalfBin(s, u, 1024, 2048)
      BY DEF HalfBin
    <3> QED BY <3>1, <3>2
  <2>12. CASE m = 11
    <3>1. 2^m = 2048 /\ 2^(m + 1) = 4096
      BY <2>12
    <3>2. HalfBin(s, u, 2048, 4096)
      BY DEF HalfBin
    <3> QED BY <3>1, <3>2
  <2>13. CASE m = 12
    <3>1. 2^m = 4096 /\ 2^(m + 1) = 8192
      BY <2>13
    <3>2. HalfBin(s, u, 4096, 8192)
      BY DEF HalfBin
    <3> QED BY <3>1, <3>2
  <2>14. CASE m = 13
    <3>1. 2^m = 8192 /\ 2^(m + 1) = 16384
      BY <2>14
    <3>2. HalfBin(s, u, 8192, 16384)
      BY DEF HalfBin
    <3> QED BY <3>1, <3>2
  <2>15. CASE m = 14
    <3>1. 2^m = 16384 /\ 2^(m + 1) = 32768
      BY <2>15
    <3>2. HalfBin(s, u, 16384, 32768)
      BY DEF HalfBin
    <3> QED BY <3>1, <3>2
  <2>16. CASE m = 15
    <3>1. 2^m = 32768 /\ 2^(m + 1) = 65536
      BY <2>16
    <3>2. HalfBin(s, u, 32768, 65536)
      BY DEF HalfBin
    <3> QED BY <3>1, <3>2
  <2>17. CASE m = 16
    <3>1. 2^m = 65536 /\ 2^(m + 1) = 131072
      BY <2>17
    <3>2. HalfBin(s, u, 65536, 131072)
      BY DEF HalfBin
    <3> QED BY <3>1, <3>2
  <2>18. CASE m = 17
    <3>1. 2^m = 131072 /\ 2^(m + 1) = 262144
      BY <2>18
    <3>2. HalfBin(s, u, 131072, 262144)
      BY DEF HalfBin
    <3> QED BY <3>1, <3>2
  <2> QED BY <2>1, <2>2, <2>3, <2>4, <2>5, <2>6, <2>7, <2>8, <2>9, <2>10, <2>11, <2>12, <2>13, <2>14, <2>15, <2>16, <2>17, <2>18
<1> QED BY <1>0 DEF HalfBin, Bit

(* A path is the bits of a size from the top down.                           *)
Bits == Seq(0..1)

(* A path has as many bits as its bin resolves.                              *)
LEMMA PathIs ==
    ASSUME NEW s \in HeapSizes
    PROVE  /\ Path(s) \in Bits /\ Len(Path(s)) = Depth(compute_tree_index(s))
           /\ \A n \in 1..Len(Path(s)) : Path(s)[n] = Bit(s, Len(Path(s)) - n)
<1> DEFINE d == Depth(compute_tree_index(s))
<1>1. d \in 1..18
  BY BinBits
<1>2. Path(s) = [n \in 1..d |-> Bit(s, d - n)]
  BY DEF Path
<1> HIDE DEF d
<1>3. \A n \in 1..d : Bit(s, d - n) \in 0..1
  <2>1. s \in Nat
    BY DEF HeapSizes
  <2>2. \A n \in 1..d : d - n \in 0..17
    BY <1>1
  <2> QED BY <2>1, <2>2, Halves
<1>4. Path(s) \in Bits /\ Len(Path(s)) = d
  BY <1>1, <1>2, <1>3 DEF Bits
<1> QED BY <1>2, <1>4 DEF d

Agree(p, q, n) == \A j \in 1..n : p[j] = q[j]

(* Sizes whose paths agree are the same above the bits where they may differ.*)
LEMMA SameBits ==
    ASSUME NEW s \in HeapSizes, NEW u \in HeapSizes,
           compute_tree_index(s) = compute_tree_index(u),
           NEW n \in 0..Len(Path(s)), Agree(Path(s), Path(u), n)
    PROVE  s \div 2^(Len(Path(s)) - n) = u \div 2^(Len(Path(s)) - n)
<1> DEFINE d == Len(Path(s))
           S == {m \in 0..n : s \div 2^(d - m) # u \div 2^(d - m)}
<1>1. d \in 1..18 /\ d = Depth(compute_tree_index(s)) /\ Len(Path(u)) = d
  BY BinBits, PathIs
<1>2. s \div 2^d = u \div 2^d
  BY <1>1, BinBits
<1>3. s \in Nat /\ u \in Nat
  BY DEF HeapSizes
<1>4. n \in 0..d
  OBVIOUS
<1>5. \A j \in 1..d : Path(s)[j] = Bit(s, d - j) /\ Path(u)[j] = Bit(u, d - j)
  BY <1>1, PathIs
<1> HIDE DEF d
<1>6. ASSUME n \in S PROVE FALSE
  <2>1. S \in SUBSET Nat /\ S # {}
    BY <1>4, <1>6
  <2>2. PICK m \in S : \A k \in S : m <= k
    BY <2>1, LeastNat
  <2>3. m \in 0..n /\ s \div 2^(d - m) # u \div 2^(d - m)
    BY <2>2
  <2>4. m # 0
    <3>1. ASSUME m = 0 PROVE FALSE
      <4>1. d - m = d
        BY <1>1, <3>1
      <4> QED BY <1>2, <2>3, <4>1
    <3> QED BY <3>1
  <2>5. m - 1 \in 0..n /\ m - 1 \notin S /\ m \in 1..n
    BY <2>2, <2>3, <2>4, <1>4
  <2>6. s \div 2^(d - (m - 1)) = u \div 2^(d - (m - 1))
    BY <2>5
  <2>7. m \in Nat /\ d - (m - 1) = (d - m) + 1 /\ d - m \in 0..17 /\ m \in 1..d
    <3>1. n \in Int /\ n <= d /\ d \in Int /\ d <= 18
      <4>1. d \in 1..18 /\ n \in 0..d
        BY <1>1, <1>4, Zenon
      <4> QED BY <4>1
    <3>2. m \in 1..n
      BY <2>5
    <3> QED BY <3>1, <3>2
  <2>8. Bit(s, d - m) = Bit(u, d - m)
    <3>1. Path(s)[m] = Path(u)[m]
      BY <2>5 DEF Agree
    <3> QED BY <1>5, <2>7, <3>1
  <2>9. /\ s \div 2^(d - m) = 2 * (s \div 2^((d - m) + 1)) + Bit(s, d - m)
        /\ u \div 2^(d - m) = 2 * (u \div 2^((d - m) + 1)) + Bit(u, d - m)
    BY <1>3, <2>7, Halves
  <2> QED BY <2>3, <2>6, <2>7, <2>8, <2>9
<1>7. s \div 2^(d - n) = u \div 2^(d - n)
  BY <1>4, <1>6
<1> QED BY <1>7 DEF d

(* Where paths part, the size of the one that goes right is larger.          *)
LEMMA LessByBit ==
    ASSUME NEW s \in HeapSizes, NEW u \in HeapSizes,
           compute_tree_index(s) = compute_tree_index(u),
           NEW n \in 0..(Len(Path(s)) - 1), Agree(Path(s), Path(u), n),
           Path(s)[n + 1] = 0, Path(u)[n + 1] = 1
    PROVE  s < u
<1> DEFINE d == Len(Path(s))
<1>1. d \in 1..18 /\ Len(Path(u)) = d
  BY BinBits, PathIs
<1>2. n \in 0..d /\ n + 1 \in 1..d
  BY <1>1
<1>3. s \div 2^(d - n) = u \div 2^(d - n)
  BY <1>1, <1>2, SameBits
<1>4. Bit(s, d - (n + 1)) = 0 /\ Bit(u, d - (n + 1)) = 1
  BY <1>1, <1>2, PathIs
<1> HIDE DEF d
<1>5. d - n = (d - (n + 1)) + 1 /\ d - (n + 1) \in 0..17
  BY <1>1, <1>2
<1>6. s \in Nat /\ u \in Nat
  BY DEF HeapSizes
<1> DEFINE m == d - (n + 1)
<1>7. m \in 0..17 /\ Bit(s, m) = 0 /\ Bit(u, m) = 1 /\ s \div 2^(m + 1) = u \div 2^(m + 1)
  BY <1>3, <1>4, <1>5
<1> HIDE DEF m
<1>8. /\ s \div 2^m = 2 * (s \div 2^(m + 1)) + Bit(s, m)
      /\ u \div 2^m = 2 * (u \div 2^(m + 1)) + Bit(u, m)
      /\ s \div 2^m < u \div 2^m => s < u
  BY <1>6, <1>7, Halves
<1>9. s \div 2^(m + 1) \in Nat
  BY <1>6, <1>7, Halves
<1> QED BY <1>6, <1>7, <1>8, <1>9

(* In one bin, a path belongs to one size.                                   *)
LEMMA SamePath ==
    ASSUME NEW s \in HeapSizes, NEW u \in HeapSizes,
           compute_tree_index(s) = compute_tree_index(u),
           Agree(Path(s), Path(u), Len(Path(s)))
    PROVE  s = u
<1>1. Len(Path(s)) \in 1..18
  BY BinBits, PathIs
<1>2. Len(Path(s)) \in 0..Len(Path(s)) /\ Len(Path(s)) - Len(Path(s)) = 0
  BY <1>1
<1>3. s \div 2^0 = u \div 2^0
  BY <1>2, SameBits
<1>4. s \in Nat /\ u \in Nat
  BY DEF HeapSizes
<1> QED BY <1>3, <1>4


(* Paths, as sequences of bits.                                              *)
LEMMA PrefixIs ==
    ASSUME NEW p \in Bits, NEW n \in 0..Len(p)
    PROVE  /\ Prefix(p, n) \in Bits /\ Len(Prefix(p, n)) = n
           /\ Agree(Prefix(p, n), p, n) /\ Agree(p, Prefix(p, n), n)
<1>1. Len(p) \in Nat /\ n \in Nat /\ p \in Seq(0..1)
  BY DEF Bits
<1>2. Prefix(p, n) = [k \in 1..n |-> p[k]]
  BY <1>1 DEF Prefix
<1>3. \A k \in 1..n : p[k] \in 0..1
  BY <1>1
<1> QED BY <1>1, <1>2, <1>3 DEF Agree, Bits

(* A child's path is its parent's and one bit more.                          *)
LEMMA ChildIs ==
    ASSUME NEW p \in Bits, NEW b \in 0..1
    PROVE  /\ Child(p, b) \in Bits /\ Len(Child(p, b)) = Len(p) + 1
           /\ Agree(Child(p, b), p, Len(p)) /\ Agree(p, Child(p, b), Len(p))
           /\ Child(p, b)[Len(p) + 1] = b
  BY DEF Child, Bits, Agree

(* Paths that agree all along are the same.                                  *)
LEMMA BitsEqual ==
    ASSUME NEW p \in Bits, NEW q \in Bits, Len(p) = Len(q), Agree(p, q, Len(p))
    PROVE  p = q
  BY DEF Bits, Agree

(* A path is a node's child on the way to one that goes on.                  *)
LEMMA OnTheWay ==
    ASSUME NEW p \in Bits, NEW n \in 0..(Len(p) - 1)
    PROVE  Child(Prefix(p, n), p[n + 1]) = Prefix(p, n + 1)
<1>1. Len(p) \in Nat /\ n \in 0..Len(p) /\ n + 1 \in 0..Len(p) /\ p[n + 1] \in 0..1 /\ n \in Nat
  BY DEF Bits
<1>2. /\ Prefix(p, n) \in Bits /\ Len(Prefix(p, n)) = n /\ Agree(Prefix(p, n), p, n)
      /\ Prefix(p, n + 1) \in Bits /\ Len(Prefix(p, n + 1)) = n + 1
      /\ Agree(Prefix(p, n + 1), p, n + 1)
  BY <1>1, PrefixIs
<1> DEFINE c == Child(Prefix(p, n), p[n + 1])
<1>3. c \in Bits /\ Len(c) = n + 1 /\ Agree(c, Prefix(p, n), n) /\ c[n + 1] = p[n + 1]
  BY <1>1, <1>2, ChildIs
<1> HIDE DEF c
<1>4. Agree(c, Prefix(p, n + 1), n + 1)
  BY <1>1, <1>2, <1>3 DEF Agree
<1>5. c = Prefix(p, n + 1)
  BY <1>2, <1>3, <1>4, BitsEqual
<1> QED BY <1>5 DEF c
-----------------------------------------------------------------------------
(* The tries.                                                                *)

(* A chain: chunks of one size, the older ones first.                        *)
Chain(c, sz, bf) ==
    /\ c \in Seq(DOMAIN sz) /\ Len(c) >= 1
    /\ \A j \in 1..Len(c) : sz[c[j]] = sz[c[1]]
    /\ \A j, k \in 1..Len(c) : j < k => <<c[j], c[k]>> \in bf

(* A node lies on the path of its size.                                      *)
Placed(p, s, i) ==
    /\ compute_tree_index(s) = i
    /\ Len(p) <= Len(Path(s)) /\ Agree(p, Path(s), Len(p))

Closed(P) == P \subseteq Bits /\ \A p \in P : \A n \in 0..Len(p) : Prefix(p, n) \in P

(* A trie for the chunks of bin i: each way down to a node is in it, no two  *)
(* nodes are of one size, and it holds every chunk of the bin.               *)
Trie(t, i, sz, bf) ==
    /\ t = [q \in DOMAIN t |-> t[q]]
    /\ Closed(DOMAIN t)
    /\ \A p \in DOMAIN t : Chain(t[p], sz, bf) /\ Placed(p, sz[t[p][1]], i)
    /\ \A p, q \in DOMAIN t : sz[t[p][1]] = sz[t[q][1]] => p = q
    /\ \A x \in DOMAIN sz : compute_tree_index(sz[x]) = i =>
           \E p \in DOMAIN t : \E k \in 1..Len(t[p]) : t[p][k] = x

Sound(sz, bf) ==
    /\ sz = [y \in DOMAIN sz |-> sz[y]]
    /\ DOMAIN sz \subseteq Chunks /\ \A x \in DOMAIN sz : sz[x] \in HeapSizes
    /\ bf \subseteq (DOMAIN sz) \X (DOMAIN sz)
    /\ \A x, y \in DOMAIN sz : <<x, y>> \in bf => <<y, x>> \notin bf

BInv ==
    /\ Sound(sized, before)
    /\ trees = [i \in 0..LastBin |-> trees[i]]
    /\ \A i \in 0..LastBin : Trie(trees[i], i, sized, before)

(* What a trie says of one of its nodes.                                     *)
LEMMA NodeIs ==
    ASSUME NEW i, NEW t, NEW sz, NEW bf, Sound(sz, bf), Trie(t, i, sz, bf), NEW p \in DOMAIN t
    PROVE  /\ p \in Bits /\ Chain(t[p], sz, bf) /\ t[p][1] \in DOMAIN sz
           /\ sz[t[p][1]] \in HeapSizes /\ Placed(p, sz[t[p][1]], i)
<1>1. p \in Bits /\ Chain(t[p], sz, bf) /\ Placed(p, sz[t[p][1]], i)
  BY DEF Trie, Closed
<1>2. t[p][1] \in DOMAIN sz
  BY <1>1 DEF Chain
<1> QED BY <1>1, <1>2 DEF Sound

(* Where the ways to two places part, so do their sizes.                     *)
LEMMA LessAlong ==
    ASSUME NEW s \in HeapSizes, NEW u \in HeapSizes, NEW i, NEW p \in Bits, NEW q \in Bits,
           Placed(p, s, i), Placed(q, u, i),
           NEW n \in Nat, n < Len(p), n < Len(q), Agree(p, q, n), p[n + 1] = 0, q[n + 1] = 1
    PROVE  s < u
<1>1. Len(p) \in Nat /\ Len(q) \in Nat /\ Path(s) \in Bits /\ Path(u) \in Bits
  BY PathIs DEF Bits
<1>2. Len(Path(s)) \in Nat
  BY <1>1 DEF Bits
<1>3. n \in 0..(Len(Path(s)) - 1)
  BY <1>1, <1>2 DEF Placed
<1>4. Path(s)[n + 1] = 0 /\ Path(u)[n + 1] = 1
  <2>1. n + 1 \in 1..Len(p) /\ n + 1 \in 1..Len(q)
    BY <1>1
  <2> QED BY <2>1 DEF Placed, Agree
<1>5. Agree(Path(s), Path(u), n)
  <2>1. \A j \in 1..n : j \in 1..Len(p) /\ j \in 1..Len(q)
    BY <1>1
  <2> QED BY <2>1 DEF Placed, Agree
<1>6. compute_tree_index(s) = compute_tree_index(u)
  BY DEF Placed
<1> QED BY <1>3, <1>4, <1>5, <1>6, LessByBit

(* The least size below a place is on the leftmost way down from there.      *)
LEMMA LeastOnWalk ==
    ASSUME NEW i, NEW t, Sound(sized, before), Trie(t, i, sized, before),
           NEW c \in Bits, NEW q \in DOMAIN t, Len(c) <= Len(q), Agree(c, q, Len(c)),
           \A r \in DOMAIN t : Len(c) <= Len(r) /\ Agree(c, r, Len(c)) =>
                                   SizeAt(t, q) <= SizeAt(t, r)
    PROVE  q \in Leftmost(t, c)
<1>1. q \in Bits /\ Len(q) \in Nat /\ Len(c) \in Nat /\ Len(c) \in 0..Len(q)
  BY NodeIs DEF Bits
<1>2. Prefix(q, Len(c)) = c
  <2>1. /\ Prefix(q, Len(c)) \in Bits /\ Len(Prefix(q, Len(c))) = Len(c)
        /\ Agree(Prefix(q, Len(c)), q, Len(c))
    BY <1>1, PrefixIs
  <2>2. Agree(Prefix(q, Len(c)), c, Len(c))
    BY <2>1 DEF Agree
  <2> QED BY <2>1, <2>2, BitsEqual
<1>3. ASSUME NEW n \in Len(c)..(Len(q) - 1), q[n + 1] # 0, Child(Prefix(q, n), 0) \in DOMAIN t
      PROVE  FALSE
  <2>1. n \in Nat /\ n \in 0..Len(q) /\ n < Len(q) /\ Len(c) <= n
    BY <1>1
  <2>2. q[n + 1] = 1
    BY <1>1, <1>3, <2>1 DEF Bits
  <2>3. Prefix(q, n) \in Bits /\ Len(Prefix(q, n)) = n /\ Agree(Prefix(q, n), q, n)
    BY <1>1, <2>1, PrefixIs
  <2>4. PICK r \in DOMAIN t : r = Child(Prefix(q, n), 0)
    BY <1>3
  <2>5. r \in Bits /\ Len(r) = n + 1 /\ Agree(r, Prefix(q, n), n) /\ r[n + 1] = 0
    BY <2>3, <2>4, ChildIs
  <2>6. Agree(r, q, n)
    BY <2>3, <2>5 DEF Agree
  <2>7. /\ sized[t[r][1]] \in HeapSizes /\ Placed(r, sized[t[r][1]], i)
        /\ sized[t[q][1]] \in HeapSizes /\ Placed(q, sized[t[q][1]], i)
    BY NodeIs
  <2>8. n < Len(r)
    BY <2>1, <2>5
  <2>9. SizeAt(t, r) < SizeAt(t, q)
    BY <1>1, <2>1, <2>2, <2>5, <2>6, <2>7, <2>8, LessAlong DEF SizeAt
  <2>10. Len(c) <= Len(r) /\ Agree(c, r, Len(c))
    <3>1. \A j \in 1..Len(c) : j \in 1..n
      BY <1>1, <2>1
    <3> QED BY <1>1, <2>1, <2>5, <2>6, <3>1 DEF Agree
  <2>11. SizeAt(t, q) <= SizeAt(t, r)
    BY <2>10
  <2>12. SizeAt(t, q) \in Nat /\ SizeAt(t, r) \in Nat
    BY <2>7 DEF SizeAt, HeapSizes
  <2> QED BY <2>9, <2>11, <2>12
<1> QED BY <1>1, <1>2, <1>3 DEF Leftmost, Downward

-----------------------------------------------------------------------------
(* The searches.                                                             *)

(* Of some nodes, one has the least size.                                    *)
LEMMA LeastNode ==
    ASSUME NEW i, NEW t, Sound(sized, before), Trie(t, i, sized, before),
           NEW N \in SUBSET DOMAIN t, N # {}
    PROVE  \E q \in N : \A r \in N : SizeAt(t, q) <= SizeAt(t, r)
<1> DEFINE S == {SizeAt(t, q) : q \in N}
<1>1. \A q \in N : SizeAt(t, q) \in Nat
  BY NodeIs DEF SizeAt, HeapSizes
<1>2. S \in SUBSET Nat /\ S # {}
  BY <1>1
<1>3. PICK s \in S : \A u \in S : s <= u
  BY <1>2, LeastNat
<1> QED BY <1>3

(* Of nodes among which there is the one that fits best, its chunk is found. *)
LEMMA BestOfIs ==
    ASSUME NEW i, NEW t, Sound(sized, before), Trie(t, i, sized, before),
           NEW nb \in Nat, NEW nodes \in SUBSET DOMAIN t, NEW q \in nodes, SizeAt(t, q) >= nb,
           \A r \in DOMAIN t : SizeAt(t, r) >= nb => SizeAt(t, q) <= SizeAt(t, r)
    PROVE  BestOf(t, nodes, nb) = {t[q][1]}
<1> DEFINE fit == Fitting(t, nodes, nb)
           best == {r \in fit : \A o \in fit : SizeAt(t, r) <= SizeAt(t, o)}
<1>1. \A r \in DOMAIN t : SizeAt(t, r) \in Nat /\ SizeAt(t, r) = sized[t[r][1]]
  BY NodeIs DEF SizeAt, HeapSizes
<1>2. q \in fit /\ fit \subseteq DOMAIN t /\ \A r \in fit : SizeAt(t, q) <= SizeAt(t, r)
  BY DEF Fitting
<1>3. q \in best
  BY <1>2
<1>4. ASSUME NEW r \in best PROVE r = q
  <2>1. SizeAt(t, r) <= SizeAt(t, q) /\ SizeAt(t, q) <= SizeAt(t, r) /\ r \in DOMAIN t /\ q \in DOMAIN t
    BY <1>2, <1>4
  <2>2. SizeAt(t, r) = SizeAt(t, q)
    BY <1>1, <2>1
  <2>3. sized[t[r][1]] = sized[t[q][1]]
    BY <1>1, <2>1, <2>2
  <2> QED BY <2>1, <2>3, Zenon DEF Trie
<1>5. best = {q} /\ fit # {}
  BY <1>2, <1>3, <1>4
<1>6. BestOf(t, nodes, nb) = {t[r][1] : r \in best}
  BY <1>5, Zenon DEF BestOf
<1> HIDE DEF best
<1> QED BY <1>5, <1>6

(* Where nothing fits, nothing is found.                                     *)
LEMMA BestOfNone ==
    ASSUME NEW t, NEW nb, NEW nodes \in SUBSET DOMAIN t,
           \A r \in DOMAIN t : ~(SizeAt(t, r) >= nb)
    PROVE  BestOf(t, nodes, nb) = {}
<1>1. Fitting(t, nodes, nb) = {}
  BY DEF Fitting
<1> QED BY <1>1, Zenon DEF BestOf

(* The chunk of a node is the best fit when no fitting one is smaller.       *)
LEMMA BestFitIs ==
    ASSUME NEW i, NEW t, Sound(sized, before), Trie(t, i, sized, before),
           NEW nb \in Nat, NEW q \in DOMAIN t, SizeAt(t, q) >= nb,
           \A y \in LargeEnough(nb) : SizeAt(t, q) <= sized[y]
    PROVE  BestFit(nb) = {t[q][1]}
<1> DEFINE x == t[q][1]
<1>1. /\ x \in DOMAIN sized /\ SizeAt(t, q) = sized[x] /\ Chain(t[q], sized, before)
      /\ compute_tree_index(sized[x]) = i
  BY NodeIs DEF SizeAt, Placed
<1>2. \A y \in DOMAIN sized : sized[y] \in Nat
  BY DEF Sound, HeapSizes
<1>3. x \in LargeEnough(nb)
  BY <1>1 DEF LargeEnough
<1>4. ASSUME NEW y \in LargeEnough(nb) \ {x}
      PROVE  sized[x] < sized[y] \/ (sized[x] = sized[y] /\ <<x, y>> \in before)
  <2>1. y \in DOMAIN sized /\ sized[x] <= sized[y] /\ y # x
    BY <1>1, <1>4 DEF LargeEnough
  <2>2. CASE sized[x] = sized[y]
    <3>a. PICK p \in DOMAIN t : \E k \in 1..Len(t[p]) : t[p][k] = y
      BY <1>1, <2>1, <2>2 DEF Trie
    <3>1. PICK k \in 1..Len(t[p]) : t[p][k] = y
      BY <3>a
    <3>2. sized[t[p][1]] = sized[y]
      BY <3>1 DEF Trie, Chain
    <3>3. p = q
      BY <2>2, <3>2 DEF Trie
    <3>4. k \in 1..Len(t[q]) /\ t[q][k] = y /\ Len(t[q]) \in Nat
      BY <1>1, <3>1, <3>3 DEF Chain
    <3>5. k # 1
      BY <2>1, <3>4
    <3>6. 1 \in 1..Len(t[q]) /\ 1 < k
      BY <3>4, <3>5
    <3>7. <<t[q][1], t[q][k]>> \in before
      BY <1>1, <3>4, <3>6 DEF Chain
    <3> QED BY <2>2, <3>4, <3>7
  <2> QED BY <1>1, <1>2, <2>1, <2>2
<1> HIDE DEF x
<1>5. x \in BestFit(nb)
  BY <1>3, <1>4 DEF BestFit
<1>6. ASSUME NEW z \in BestFit(nb), z # x PROVE FALSE
  <2>1. z \in LargeEnough(nb) /\ z \in DOMAIN sized
    BY <1>6 DEF BestFit, LargeEnough
  <2>2. sized[z] < sized[x] \/ (sized[z] = sized[x] /\ <<z, x>> \in before)
    BY <1>3, <1>6 DEF BestFit
  <2>3. sized[x] < sized[z] \/ (sized[x] = sized[z] /\ <<x, z>> \in before)
    BY <1>4, <1>6, <2>1
  <2>4. <<z, x>> \in before /\ <<x, z>> \in before
    BY <1>1, <1>2, <2>1, <2>2, <2>3
  <2> QED BY <1>1, <2>1, <2>4 DEF Sound
<1>7. BestFit(nb) = {x}
  BY <1>5, <1>6
<1> QED BY <1>7 DEF x

(* The nodes on the path of what is asked for.                               *)
Walked(t, nb) == {Prefix(Path(nb), n) : n \in 0..Len(Path(nb))} \intersect DOMAIN t

Passed(t, walked, path) ==
    {n \in 0..(Len(path) - 1) :
        /\ Prefix(path, n) \in walked /\ path[n + 1] = 0
        /\ Child(Prefix(path, n), 1) \in DOMAIN t}

(* Of the right subtrees passed by, one is the last.                         *)
LEMMA LastPassed ==
    ASSUME NEW t, NEW walked, NEW path \in Bits, Passed(t, walked, path) # {}
    PROVE  LET m == CHOOSE n \in Passed(t, walked, path) :
                        \A k \in Passed(t, walked, path) : k <= n
           IN m \in Passed(t, walked, path) /\ \A k \in Passed(t, walked, path) : k <= m
<1> DEFINE D == Passed(t, walked, path)
           S == {Len(path) - n : n \in D}
<1>1. Len(path) \in Nat /\ D \subseteq 0..(Len(path) - 1)
  BY DEF Bits, Passed
<1> HIDE DEF D
<1>2. S \in SUBSET Nat /\ S # {}
  BY <1>1 DEF D
<1>3. PICK s \in S : \A u \in S : s <= u
  BY <1>2, LeastNat
<1>4. PICK n \in D : s = Len(path) - n
  BY <1>3
<1>5. ASSUME NEW k \in D PROVE k <= n
  <2>1. s <= Len(path) - k
    BY <1>3, <1>5
  <2>2. k \in Int /\ n \in Int
    BY <1>1
  <2> QED BY <1>1, <1>4, <2>1, <2>2
<1>6. \E m \in D : \A k \in D : k <= m
  BY <1>5
<1> QED BY <1>6, Zenon DEF D

(* The subtree searched besides the walk is this last one.                   *)
LEMMA UntakenIs ==
    ASSUME NEW t, NEW walked, NEW path, Passed(t, walked, path) # {}
    PROVE  Untaken(t, walked, path) =
               Leftmost(t, Child(Prefix(path, CHOOSE n \in Passed(t, walked, path) :
                                     \A k \in Passed(t, walked, path) : k <= n), 1))
  BY Zenon DEF Untaken, Passed

(* The best fit of the bin is on the path or on the leftmost way down the    *)
(* deepest right subtree passed by.                                          *)
LEMMA HereFound ==
    ASSUME NEW nb \in HeapSizes, NEW i, i = compute_tree_index(nb), NEW t,
           Sound(sized, before), Trie(t, i, sized, before),
           NEW q \in DOMAIN t, SizeAt(t, q) >= nb,
           \A r \in DOMAIN t : SizeAt(t, r) >= nb => SizeAt(t, q) <= SizeAt(t, r)
    PROVE  q \in Walked(t, nb) \union Untaken(t, Walked(t, nb), Path(nb))
<1> DEFINE path == Path(nb)
<1>1. /\ path \in Bits /\ Len(path) \in Nat /\ Len(path) = Depth(i)
      /\ Placed(path, nb, i)
  BY PathIs DEF Bits, Placed, Agree
<1>2. \A r \in DOMAIN t : /\ r \in Bits /\ Len(r) \in Nat /\ Len(r) <= Len(path)
                          /\ SizeAt(t, r) \in HeapSizes /\ SizeAt(t, r) \in Nat
                          /\ Placed(r, SizeAt(t, r), i)
  <2> TAKE r \in DOMAIN t
  <2>1. r \in Bits /\ SizeAt(t, r) \in HeapSizes /\ Placed(r, SizeAt(t, r), i)
    BY NodeIs DEF SizeAt
  <2>2. Len(Path(SizeAt(t, r))) = Depth(i)
    BY <2>1, PathIs DEF Placed
  <2>3. SizeAt(t, r) \in Nat /\ Len(r) \in Nat
    BY <2>1 DEF HeapSizes, Bits
  <2> QED BY <1>1, <2>1, <2>2, <2>3 DEF Placed
<1>3. nb \in Nat /\ nb \in HeapSizes
  BY DEF HeapSizes
<1>4. Walked(t, nb) = {Prefix(path, n) : n \in 0..Len(path)} \intersect DOMAIN t
  BY DEF Walked
<1>5. \A p \in DOMAIN t : \A n \in 0..Len(p) : Prefix(p, n) \in DOMAIN t
  BY DEF Trie, Closed
<1> HIDE DEF path
<1>6. CASE Agree(q, path, Len(q))
  <2>1. Len(q) \in 0..Len(path)
    BY <1>1, <1>2
  <2>2. Prefix(path, Len(q)) \in Bits /\ Len(Prefix(path, Len(q))) = Len(q)
        /\ Agree(path, Prefix(path, Len(q)), Len(q))
    BY <1>1, <2>1, PrefixIs
  <2>3. Agree(q, Prefix(path, Len(q)), Len(q))
    BY <1>6, <2>2 DEF Agree
  <2>4. q = Prefix(path, Len(q))
    BY <1>2, <2>2, <2>3, BitsEqual
  <2> QED BY <1>4, <2>1, <2>4
<1>7. CASE ~Agree(q, path, Len(q))
  <2> DEFINE S == {j \in 1..Len(q) : q[j] # path[j]}
  <2>1. S \in SUBSET Nat /\ S # {}
    BY <1>2, <1>7 DEF Agree
  <2>2. PICK j \in S : \A k \in S : j <= k
    BY <2>1, LeastNat
  <2> DEFINE n == j - 1
  <2>3. n \in Nat /\ n < Len(q) /\ n < Len(path) /\ q[n + 1] # path[n + 1] /\ j = n + 1
    BY <1>1, <1>2, <2>2
  <2>4. Agree(q, path, n)
    <3>1. ASSUME NEW k \in 1..n, q[k] # path[k] PROVE FALSE
      <4>1. k \in 1..Len(q) /\ k < j
        BY <1>2, <2>2, <2>3, <3>1
      <4>2. k \in S
        BY <3>1, <4>1
      <4> QED BY <2>2, <4>1, <4>2
    <3> QED BY <3>1 DEF Agree
  <2> HIDE DEF n
  <2>5. q[n + 1] \in 0..1 /\ path[n + 1] \in 0..1
    <3>1. n + 1 \in 1..Len(q) /\ n + 1 \in 1..Len(path)
      BY <1>1, <1>2, <2>3
    <3> QED BY <1>1, <1>2, <3>1 DEF Bits
  <2>6. q[n + 1] = 1 /\ path[n + 1] = 0
    <3>1. ASSUME q[n + 1] = 0, path[n + 1] = 1 PROVE FALSE
      <4>1. SizeAt(t, q) < nb
        BY <1>1, <1>2, <1>3, <2>3, <2>4, <3>1, LessAlong
      <4> QED BY <1>2, <1>3, <4>1
    <3> QED BY <2>3, <2>5, <3>1
  <2>7. Prefix(path, n) = Prefix(q, n) /\ Prefix(q, n) \in Bits
    <3>1. n \in 0..Len(q) /\ n \in 0..Len(path)
      BY <1>1, <1>2, <2>3
    <3>2. /\ Prefix(q, n) \in Bits /\ Len(Prefix(q, n)) = n /\ Agree(Prefix(q, n), q, n)
          /\ Prefix(path, n) \in Bits /\ Len(Prefix(path, n)) = n /\ Agree(Prefix(path, n), path, n)
      BY <1>1, <1>2, <3>1, PrefixIs
    <3>3. Agree(Prefix(path, n), Prefix(q, n), n)
      BY <2>4, <3>2 DEF Agree
    <3> QED BY <3>2, <3>3, BitsEqual
  <2> DEFINE D == Passed(t, Walked(t, nb), path)
             m == CHOOSE k \in D : \A l \in D : l <= k
  <2>8. n \in D
    <3>1. n \in 0..(Len(q) - 1) /\ n \in 0..Len(q) /\ n + 1 \in 0..Len(q)
          /\ n \in 0..(Len(path) - 1) /\ n \in 0..Len(path)
      BY <1>1, <1>2, <2>3
    <3>2. Prefix(path, n) \in Walked(t, nb)
      BY <1>4, <1>5, <2>7, <3>1
    <3>3. Child(Prefix(path, n), 1) = Prefix(q, n + 1)
      BY <1>2, <2>6, <2>7, <3>1, OnTheWay
    <3>4. Child(Prefix(path, n), 1) \in DOMAIN t
      BY <1>5, <3>1, <3>3
    <3> QED BY <2>6, <3>1, <3>2, <3>4 DEF Passed
  <2>9. m \in D /\ \A k \in D : k <= m
    BY <1>1, <2>8, LastPassed, Zenon
  <2>10. Untaken(t, Walked(t, nb), path) = Leftmost(t, Child(Prefix(path, m), 1))
    BY <2>8, UntakenIs, Zenon
  <2> HIDE DEF m
  <2>11. /\ m \in Nat /\ m < Len(path) /\ path[m + 1] = 0 /\ n <= m
         /\ Child(Prefix(path, m), 1) \in DOMAIN t
    BY <1>1, <2>8, <2>9 DEF Passed
  <2> DEFINE c == Child(Prefix(path, m), 1)
  <2>12. c \in Bits /\ Len(c) = m + 1 /\ Agree(c, path, m) /\ c[m + 1] = 1 /\ c \in DOMAIN t
    <3>1. m \in 0..Len(path)
      BY <1>1, <2>11
    <3>2. Prefix(path, m) \in Bits /\ Len(Prefix(path, m)) = m /\ Agree(Prefix(path, m), path, m)
      BY <1>1, <3>1, PrefixIs
    <3>3. c \in Bits /\ Len(c) = m + 1 /\ Agree(c, Prefix(path, m), m) /\ c[m + 1] = 1
      BY <3>2, ChildIs
    <3> HIDE DEF c
    <3>4. Agree(c, path, m)
      BY <3>2, <3>3 DEF Agree
    <3> QED BY <2>11, <3>3, <3>4 DEF c
  <2> HIDE DEF c
  <2>13. ASSUME NEW r \in DOMAIN t, Len(c) <= Len(r), Agree(c, r, Len(c))
         PROVE  SizeAt(t, q) <= SizeAt(t, r)
    <3>1. m + 1 \in 1..Len(c) /\ m < Len(r)
      BY <1>2, <2>11, <2>12, <2>13
    <3>2. r[m + 1] = 1
      BY <2>12, <2>13, <3>1 DEF Agree
    <3>3. Agree(path, r, m)
      <4>1. \A k \in 1..m : k \in 1..Len(c)
        BY <2>11, <2>12
      <4> QED BY <2>12, <2>13, <4>1 DEF Agree
    <3>4. nb < SizeAt(t, r)
      BY <1>1, <1>2, <1>3, <2>11, <3>1, <3>2, <3>3, LessAlong
    <3>5. SizeAt(t, r) >= nb
      BY <1>2, <1>3, <3>4
    <3> QED BY <3>5
  <2>14. m = n
    <3>1. ASSUME n < m PROVE FALSE
      <4>1. SizeAt(t, q) <= SizeAt(t, c)
        BY <1>2, <2>12, <2>13 DEF Agree
      <4>2. n + 1 \in 1..m
        BY <2>3, <2>11, <3>1
      <4>3. c[n + 1] = 0
        BY <2>6, <2>12, <4>2 DEF Agree
      <4>4. Agree(c, q, n)
        <5>1. \A k \in 1..n : k \in 1..m
          BY <2>3, <2>11, <3>1
        <5> QED BY <2>4, <2>12, <5>1 DEF Agree
      <4>5. n < Len(c)
        BY <2>3, <2>11, <2>12, <3>1
      <4>6. SizeAt(t, c) < SizeAt(t, q)
        BY <1>2, <2>3, <2>6, <2>12, <4>3, <4>4, <4>5, LessAlong
      <4> QED BY <1>2, <2>12, <4>1, <4>6
    <3> QED BY <2>3, <2>11, <3>1
  <2>15. Len(c) <= Len(q) /\ Agree(c, q, Len(c))
    <3>1. Len(c) <= Len(q)
      BY <1>2, <2>3, <2>12, <2>14
    <3>2. ASSUME NEW k \in 1..Len(c) PROVE c[k] = q[k]
      <4>1. k = n + 1 \/ k \in 1..n
        BY <2>3, <2>12, <2>14, <3>2
      <4>2. CASE k = n + 1
        BY <2>6, <2>12, <2>14, <4>2
      <4>3. CASE k \in 1..n
        BY <2>4, <2>12, <2>14, <4>3 DEF Agree
      <4> QED BY <4>1, <4>2, <4>3
    <3> QED BY <3>1, <3>2 DEF Agree
  <2>16. q \in Leftmost(t, c)
    BY <2>12, <2>13, <2>15, LeastOnWalk
  <2> QED BY <2>10, <2>16 DEF c, path
<1> QED BY <1>6, <1>7

(* A search looks at nodes of its trie.                                      *)
LEMMA Looked ==
    ASSUME NEW t, NEW walked \in SUBSET DOMAIN t, NEW path, NEW c, NEW b
    PROVE  Downward(t, c, b) \subseteq DOMAIN t /\ Untaken(t, walked, path) \subseteq DOMAIN t
  BY DEF Untaken, Leftmost, Downward

(* Of some numbers, one is the first.                                        *)
LEMMA FirstIs ==
    ASSUME NEW S \in SUBSET Nat, S # {}
    PROVE  LET m == CHOOSE j \in S : \A k \in S : j <= k
           IN m \in S /\ \A k \in S : m <= k
<1>1. \E j \in S : \A k \in S : j <= k
  BY LeastNat
<1> QED BY <1>1, Zenon

(* Each binned chunk has a node of its size in its bin.                      *)
LEMMA ChunkNode ==
    ASSUME BInv, NEW y \in DOMAIN sized
    PROVE  LET j == compute_tree_index(sized[y])
           IN /\ sized[y] \in HeapSizes /\ sized[y] \in BinSizes /\ sized[y] \in Nat
              /\ j \in 0..30 /\ j \in 0..31
              /\ Trie(trees[j], j, sized, before)
              /\ \E p \in DOMAIN trees[j] : SizeAt(trees[j], p) = sized[y]
<1> DEFINE j == compute_tree_index(sized[y])
<1>1. sized[y] \in HeapSizes
  BY DEF BInv, Sound
<1>2. sized[y] \in BinSizes /\ sized[y] \in Nat
  BY <1>1 DEF HeapSizes, BinSizes
<1>3. j \in 0..30
  BY <1>1, BinBits
<1>4. j \in 0..31
  BY <1>3
<1>5. Trie(trees[j], j, sized, before)
  BY <1>4 DEF BInv, LastBin
<1>6. PICK p \in DOMAIN trees[j] : \E k \in 1..Len(trees[j][p]) : trees[j][p][k] = y
  BY <1>5, Zenon DEF Trie
<1>7. PICK k \in 1..Len(trees[j][p]) : trees[j][p][k] = y
  BY <1>6
<1>8. Chain(trees[j][p], sized, before)
  BY <1>5, Zenon DEF Trie
<1>9. sized[trees[j][p][1]] = sized[y]
  BY <1>7, <1>8, Zenon DEF Chain
<1>10. SizeAt(trees[j], p) = sized[y]
  BY <1>9, Zenon DEF SizeAt
<1> HIDE DEF j
<1>11. \E r \in DOMAIN trees[j] : SizeAt(trees[j], r) = sized[y]
  BY <1>10
<1> QED BY <1>1, <1>2, <1>3, <1>4, <1>5, <1>11 DEF j

(* A bin is marked when its trie has a node.                                 *)
LEMMA NonEmptyIs ==
    ASSUME BInv, NEW i \in 0..31
    PROVE  /\ Trie(trees[i], i, sized, before) /\ NonEmpty \in SUBSET Nat
           /\ i \in NonEmpty <=> DOMAIN trees[i] # {}
<1>1. Trie(trees[i], i, sized, before) /\ i \in 0..LastBin
  BY DEF BInv, LastBin
<1>2. trees[i] = [q \in DOMAIN trees[i] |-> trees[i][q]]
  BY <1>1, Zenon DEF Trie
<1>3. DOMAIN trees[i] = {} => trees[i] = EmptyTrie
  BY <1>2 DEF EmptyTrie
<1>4. trees[i] = EmptyTrie => DOMAIN trees[i] = {}
  BY DEF EmptyTrie
<1>5. NonEmpty \in SUBSET Nat
  BY DEF NonEmpty, LastBin
<1> QED BY <1>1, <1>3, <1>4, <1>5, Zenon DEF NonEmpty

(* The leftmost way down a bin whose sizes all fit finds its least.          *)
LEMMA RootFound ==
    ASSUME BInv, NEW i \in 0..31, i \in NonEmpty, NEW nb \in Nat,
           \A p \in DOMAIN trees[i] : SizeAt(trees[i], p) >= nb
    PROVE  \E q \in DOMAIN trees[i] :
              /\ \A r \in DOMAIN trees[i] : SizeAt(trees[i], q) <= SizeAt(trees[i], r)
              /\ BestOf(trees[i], Root(i), nb) = {trees[i][q][1]}
<1> DEFINE t == trees[i]
<1>1. Trie(t, i, sized, before) /\ Sound(sized, before) /\ DOMAIN t # {}
  BY NonEmptyIs DEF BInv
<1>2. \A p \in DOMAIN t : SizeAt(t, p) >= nb
  OBVIOUS
<1>3. Root(i) = Downward(t, <<>>, 0) /\ Root(i) = Leftmost(t, <<>>)
  BY Zenon DEF Root, Leftmost
<1> HIDE DEF t
<1>4. PICK q \in DOMAIN t : \A r \in DOMAIN t : SizeAt(t, q) <= SizeAt(t, r)
  BY <1>1, LeastNode
<1>5. <<>> \in Bits /\ Len(<<>>) = 0
  BY DEF Bits
<1>6. q \in Bits /\ Len(<<>>) <= Len(q) /\ Agree(<<>>, q, Len(<<>>))
  <2>1. q \in Bits
    BY <1>1, NodeIs
  <2> QED BY <1>5, <2>1 DEF Bits, Agree
<1>7. q \in Leftmost(t, <<>>)
  BY <1>1, <1>4, <1>5, <1>6, LeastOnWalk
<1>8. Root(i) \in SUBSET DOMAIN t /\ q \in Root(i)
  BY <1>3, <1>7 DEF Downward
<1>9. BestOf(t, Root(i), nb) = {t[q][1]}
  BY <1>1, <1>2, <1>4, <1>8, BestOfIs
<1> QED BY <1>4, <1>9 DEF t

Found(found, nb) == found = BestFit(nb) /\ (LargeEnough(nb) # {} => found # {})

(* Nothing found is right when nothing fits.                                 *)
LEMMA NoneFits ==
    ASSUME NEW nb, LargeEnough(nb) = {}
    PROVE  Found({}, nb)
  BY DEF Found, BestFit

(* A node found is right when it fits and nothing that fits is smaller.      *)
LEMMA OneFits ==
    ASSUME NEW i, NEW t, Sound(sized, before), Trie(t, i, sized, before),
           NEW nb \in Nat, NEW q \in DOMAIN t, SizeAt(t, q) >= nb,
           \A y \in LargeEnough(nb) : SizeAt(t, q) <= sized[y]
    PROVE  Found({t[q][1]}, nb)
  BY BestFitIs DEF Found

(* tmalloc_large finds the best fit.                                         *)
LEMMA LargeFound ==
    ASSUME BInv, NEW nb \in Nat, nb >= 16
    PROVE  Found(large_fit(nb), nb)
<1> DEFINE i == compute_tree_index(nb)
           t == trees[i]
           nodes == Walked(t, nb) \union Untaken(t, Walked(t, nb), Path(nb))
           here == BestOf(t, nodes, nb)
           later == {j \in NonEmpty : j > i}
           next == CHOOSE j \in later : \A k \in later : j <= k
<1>1. large_fit(nb) = IF here # {} THEN here
                      ELSE IF later = {} THEN {} ELSE BestOf(trees[next], Root(next), nb)
  BY Zenon DEF large_fit, Walked
<1>2. nb \in BinSizes
  BY DEF BinSizes
<1>3. 3 * 2^18 = 786432
  OBVIOUS
<1>4. i \in 0..31
  BY <1>2, <1>3, NotLast
<1>5. Sound(sized, before) /\ Trie(t, i, sized, before)
  BY <1>4, NonEmptyIs DEF BInv
<1>6. Walked(t, nb) \in SUBSET DOMAIN t
  BY DEF Walked
<1>7. nodes \in SUBSET DOMAIN t
  BY <1>6, Looked
<1>8. /\ later \in SUBSET Nat /\ later \in SUBSET (0..31)
      /\ \A j \in 0..31 : j \in later <=> j \in NonEmpty /\ j > i
  BY DEF NonEmpty, LastBin
<1>9. \A r \in DOMAIN t : SizeAt(t, r) \in HeapSizes /\ SizeAt(t, r) \in Nat /\ SizeAt(t, r) \in BinSizes
                         /\ compute_tree_index(SizeAt(t, r)) = i
  BY <1>5, NodeIs DEF SizeAt, Placed, HeapSizes, BinSizes
<1>10. \A y \in LargeEnough(nb) : y \in DOMAIN sized /\ sized[y] >= nb
  BY DEF LargeEnough
<1>11. \A y \in DOMAIN sized :
          /\ sized[y] \in HeapSizes /\ sized[y] \in BinSizes /\ sized[y] \in Nat
          /\ compute_tree_index(sized[y]) \in 0..31
          /\ \E p \in DOMAIN trees[compute_tree_index(sized[y])] :
                SizeAt(trees[compute_tree_index(sized[y])], p) = sized[y]
  BY ChunkNode
<1>12. \A y \in LargeEnough(nb) : compute_tree_index(sized[y]) >= i
  <2> TAKE y \in LargeEnough(nb)
  <2>1. /\ sized[y] \in BinSizes /\ sized[y] >= nb /\ sized[y] \in Nat
        /\ compute_tree_index(sized[y]) \in 0..31
    BY <1>10, <1>11
  <2>2. compute_tree_index(sized[y]) < i => sized[y] < nb
    BY <1>2, <2>1, BinOrder
  <2> QED BY <1>4, <2>1, <2>2
<1>13. \A y \in DOMAIN sized : compute_tree_index(sized[y]) = i =>
          \E p \in DOMAIN t : SizeAt(t, p) = sized[y]
  BY <1>11
<1>14. \A y \in DOMAIN sized : compute_tree_index(sized[y]) > i => compute_tree_index(sized[y]) \in later
  <2> TAKE y \in DOMAIN sized
  <2>1. compute_tree_index(sized[y]) \in 0..31 /\ DOMAIN trees[compute_tree_index(sized[y])] # {}
    BY <1>11
  <2>2. compute_tree_index(sized[y]) \in NonEmpty
    BY <2>1, NonEmptyIs
  <2> QED BY <1>8, <2>1, <2>2
<1> HIDE DEF i, t, nodes, later, here
<1>15. CASE \E p \in DOMAIN t : SizeAt(t, p) >= nb
  <2> DEFINE N == {p \in DOMAIN t : SizeAt(t, p) >= nb}
  <2>1. N # {} /\ N \in SUBSET DOMAIN t
    BY <1>15
  <2>2. PICK q \in N : \A r \in N : SizeAt(t, q) <= SizeAt(t, r)
    BY <1>5, <2>1, LeastNode
  <2>3. q \in DOMAIN t /\ SizeAt(t, q) >= nb
        /\ \A r \in DOMAIN t : SizeAt(t, r) >= nb => SizeAt(t, q) <= SizeAt(t, r)
    BY <2>2
  <2>4. nb \in HeapSizes /\ i = compute_tree_index(nb)
    <3>1. nb <= SizeAt(t, q) /\ SizeAt(t, q) \in HeapSizes
      BY <1>9, <2>3
    <3> QED BY <3>1 DEF HeapSizes, i
  <2>5. q \in nodes
    BY <1>5, <2>3, <2>4, HereFound DEF nodes
  <2>6. here = {t[q][1]}
    BY <1>5, <1>7, <2>3, <2>5, BestOfIs DEF here
  <2>7. ASSUME NEW y \in LargeEnough(nb) PROVE SizeAt(t, q) <= sized[y]
    <3> DEFINE j == compute_tree_index(sized[y])
    <3>1. /\ y \in DOMAIN sized /\ sized[y] >= nb /\ sized[y] \in BinSizes /\ sized[y] \in Nat
          /\ j \in 0..31 /\ j >= i
      BY <1>10, <1>11, <1>12
    <3>2. CASE j = i
      BY <1>13, <2>3, <3>1, <3>2
    <3>3. CASE j # i
      <4>1. compute_tree_index(SizeAt(t, q)) < compute_tree_index(sized[y])
        BY <1>4, <1>9, <2>3, <3>1, <3>3
      <4>2. SizeAt(t, q) < sized[y]
        BY <1>9, <2>3, <3>1, <4>1, BinOrder
      <4> QED BY <1>9, <2>3, <3>1, <4>2
    <3> QED BY <3>2, <3>3
  <2>8. Found({t[q][1]}, nb)
    BY <1>5, <2>3, <2>7, OneFits
  <2> QED BY <1>1, <2>6, <2>8
<1>16. CASE ~ \E p \in DOMAIN t : SizeAt(t, p) >= nb
  <2>1. here = {}
    BY <1>7, <1>16, BestOfNone DEF here
  <2>2. \A y \in LargeEnough(nb) : compute_tree_index(sized[y]) \in later
    <3> TAKE y \in LargeEnough(nb)
    <3>1. /\ y \in DOMAIN sized /\ sized[y] >= nb /\ compute_tree_index(sized[y]) \in 0..31
          /\ compute_tree_index(sized[y]) >= i
      BY <1>10, <1>11, <1>12
    <3>2. compute_tree_index(sized[y]) # i
      BY <1>13, <1>16, <3>1
    <3> QED BY <1>4, <1>14, <3>1, <3>2
  <2>3. CASE later = {}
    <3>1. LargeEnough(nb) = {}
      BY <2>2, <2>3
    <3> QED BY <1>1, <2>1, <2>3, <3>1, NoneFits
  <2>4. CASE later # {}
    <3>1. next \in later /\ \A k \in later : next <= k
      BY <1>8, <2>4, FirstIs, Zenon
    <3> HIDE DEF next
    <3>2. next \in 0..31 /\ next \in NonEmpty /\ next > i
      BY <1>8, <3>1
    <3>3. Trie(trees[next], next, sized, before)
      BY <3>2, NonEmptyIs
    <3>4. \A r \in DOMAIN trees[next] :
              /\ SizeAt(trees[next], r) \in BinSizes /\ SizeAt(trees[next], r) \in Nat
              /\ compute_tree_index(SizeAt(trees[next], r)) = next
      BY <1>5, <3>3, NodeIs DEF SizeAt, Placed, HeapSizes, BinSizes
    <3>5. ASSUME NEW r \in DOMAIN trees[next] PROVE SizeAt(trees[next], r) >= nb
      <4>1. compute_tree_index(nb) < compute_tree_index(SizeAt(trees[next], r))
        BY <1>4, <3>2, <3>4 DEF i
      <4>2. nb < SizeAt(trees[next], r)
        BY <1>2, <3>4, <4>1, BinOrder
      <4> QED BY <3>4, <4>2
    <3>6. PICK q \in DOMAIN trees[next] :
              /\ \A r \in DOMAIN trees[next] : SizeAt(trees[next], q) <= SizeAt(trees[next], r)
              /\ BestOf(trees[next], Root(next), nb) = {trees[next][q][1]}
      BY <3>2, <3>5, RootFound
    <3>7. ASSUME NEW y \in LargeEnough(nb) PROVE SizeAt(trees[next], q) <= sized[y]
      <4> DEFINE j == compute_tree_index(sized[y])
      <4>1. /\ y \in DOMAIN sized /\ sized[y] \in BinSizes /\ sized[y] \in Nat
            /\ j \in 0..31 /\ j \in later
        BY <1>10, <1>11, <2>2
      <4>2. next <= j
        BY <3>1, <4>1
      <4>3. CASE j = next
        <5>1. PICK p \in DOMAIN trees[next] : SizeAt(trees[next], p) = sized[y]
          BY <1>11, <4>1, <4>3
        <5> QED BY <3>6, <5>1
      <4>4. CASE j # next
        <5>1. compute_tree_index(SizeAt(trees[next], q)) < compute_tree_index(sized[y])
          BY <3>2, <3>4, <4>1, <4>2, <4>4
        <5>2. SizeAt(trees[next], q) < sized[y]
          BY <3>4, <4>1, <5>1, BinOrder
        <5> QED BY <3>4, <4>1, <5>2
      <4> QED BY <4>3, <4>4
    <3>8. Found({trees[next][q][1]}, nb)
      BY <1>5, <3>3, <3>5, <3>7, OneFits
    <3> QED BY <1>1, <2>1, <2>4, <3>6, <3>8
  <2> QED BY <2>3, <2>4
<1> QED BY <1>15, <1>16

(* And tmalloc_small does.                                                   *)
LEMMA SmallFound ==
    ASSUME BInv, NEW nb \in Nat, nb <= 15
    PROVE  Found(small_fit(nb), nb)
<1> DEFINE first == CHOOSE j \in NonEmpty : \A k \in NonEmpty : j <= k
<1>1. small_fit(nb) = IF NonEmpty = {} THEN {} ELSE BestOf(trees[first], Root(first), nb)
  BY Zenon DEF small_fit
<1>2. NonEmpty \in SUBSET Nat /\ NonEmpty \in SUBSET (0..31)
  BY DEF NonEmpty, LastBin
<1>3. \A y \in DOMAIN sized :
          /\ sized[y] \in BinSizes /\ sized[y] \in Nat
          /\ compute_tree_index(sized[y]) \in 0..31
          /\ \E p \in DOMAIN trees[compute_tree_index(sized[y])] :
                SizeAt(trees[compute_tree_index(sized[y])], p) = sized[y]
  BY ChunkNode
<1>4. \A y \in DOMAIN sized : compute_tree_index(sized[y]) \in NonEmpty
  BY <1>3, NonEmptyIs
<1>5. LargeEnough(nb) \subseteq DOMAIN sized
  BY DEF LargeEnough
<1>6. CASE NonEmpty = {}
  <2>1. LargeEnough(nb) = {}
    BY <1>4, <1>5, <1>6
  <2> QED BY <1>1, <1>6, <2>1, NoneFits
<1>7. CASE NonEmpty # {}
  <2>1. first \in NonEmpty /\ \A k \in NonEmpty : first <= k
    BY <1>2, <1>7, FirstIs, Zenon
  <2> HIDE DEF first
  <2>2. first \in 0..31
    BY <1>2, <2>1
  <2>3. Sound(sized, before) /\ Trie(trees[first], first, sized, before)
    BY <2>2, NonEmptyIs DEF BInv
  <2>4. \A r \in DOMAIN trees[first] :
            /\ SizeAt(trees[first], r) \in BinSizes /\ SizeAt(trees[first], r) \in Nat
            /\ compute_tree_index(SizeAt(trees[first], r)) = first
    BY <2>3, NodeIs DEF SizeAt, Placed, HeapSizes, BinSizes
  <2>5. \A r \in DOMAIN trees[first] : SizeAt(trees[first], r) >= nb
    BY <2>4 DEF BinSizes
  <2>6. PICK q \in DOMAIN trees[first] :
            /\ \A r \in DOMAIN trees[first] : SizeAt(trees[first], q) <= SizeAt(trees[first], r)
            /\ BestOf(trees[first], Root(first), nb) = {trees[first][q][1]}
    BY <2>1, <2>2, <2>5, RootFound
  <2>7. ASSUME NEW y \in LargeEnough(nb) PROVE SizeAt(trees[first], q) <= sized[y]
    <3> DEFINE j == compute_tree_index(sized[y])
    <3>1. /\ y \in DOMAIN sized /\ sized[y] \in BinSizes /\ sized[y] \in Nat
          /\ j \in 0..31 /\ first <= j
      BY <1>3, <1>4, <1>5, <2>1
    <3>2. CASE j = first
      <4>1. PICK p \in DOMAIN trees[first] : SizeAt(trees[first], p) = sized[y]
        BY <1>3, <3>1, <3>2
      <4> QED BY <2>6, <4>1
    <3>3. CASE j # first
      <4>1. compute_tree_index(SizeAt(trees[first], q)) < compute_tree_index(sized[y])
        BY <2>2, <2>4, <3>1, <3>3
      <4>2. SizeAt(trees[first], q) < sized[y]
        BY <2>4, <3>1, <4>1, BinOrder
      <4> QED BY <2>4, <3>1, <4>2
    <3> QED BY <3>2, <3>3
  <2>8. Found({trees[first][q][1]}, nb)
    BY <2>3, <2>5, <2>7, OneFits
  <2> QED BY <1>1, <1>7, <2>6, <2>8
<1> QED BY <1>6, <1>7

(* The invariant is all that the searches rest on.                           *)
LEMMA InvFinds == BInv => BestFitFound
<1> SUFFICES ASSUME BInv PROVE BestFitFound
  OBVIOUS
<1>1. \A nb \in LargeAsked : Found(large_fit(nb), nb)
  <2>1. \A nb \in LargeAsked : nb \in Nat /\ nb >= 16
    <3>1. LargeAsked \subseteq Nat \ 0..15
      BY TreeBinAssumption, Zenon
    <3> QED BY <3>1
  <2> QED BY <2>1, LargeFound
<1>2. \A nb \in SmallAsked : Found(small_fit(nb), nb)
  <2>1. \A nb \in SmallAsked : nb \in Nat /\ nb <= 15
    <3>1. SmallAsked \subseteq 1..15
      BY TreeBinAssumption, Zenon
    <3> QED BY <3>1
  <2> QED BY <2>1, SmallFound
<1> QED BY <1>1, <1>2 DEF BestFitFound, Found

-----------------------------------------------------------------------------
(* Insertion.                                                                *)

Having(sz, x, s) == [y \in DOMAIN sz \union {x} |-> IF y = x THEN s ELSE sz[y]]
Last(sz, bf, x) == bf \union {<<y, x>> : y \in DOMAIN sz}

(* The chunk that comes is the youngest of all.                              *)
LEMMA SoundInsert ==
    ASSUME NEW sz, NEW bf, Sound(sz, bf), NEW x \in Chunks \ DOMAIN sz, NEW s \in HeapSizes
    PROVE  Sound(Having(sz, x, s), Last(sz, bf, x))
<1> DEFINE sz2 == Having(sz, x, s)
           bf2 == Last(sz, bf, x)
<1>1. DOMAIN sz2 = DOMAIN sz \union {x} /\ sz2 = [y \in DOMAIN sz2 |-> sz2[y]]
      /\ \A y \in DOMAIN sz2 : sz2[y] \in HeapSizes
  BY DEF Having, Sound
<1>2. bf2 \subseteq (DOMAIN sz2) \X (DOMAIN sz2)
  BY <1>1 DEF Last, Sound
<1>3. ASSUME NEW y, NEW z, <<y, z>> \in bf2, <<z, y>> \in bf2 PROVE FALSE
  <2>1. \A u, v : <<u, v>> \in bf => u \in DOMAIN sz /\ v \in DOMAIN sz
    BY DEF Sound
  <2>2. \A u, v : <<u, v>> \in bf2 => <<u, v>> \in bf \/ (v = x /\ u \in DOMAIN sz)
    BY DEF Last
  <2>3. <<y, z>> \in bf /\ <<z, y>> \in bf
    BY <1>3, <2>1, <2>2
  <2> QED BY <2>1, <2>3 DEF Sound
<1> HIDE DEF sz2, bf2
<1>4. Sound(sz2, bf2)
  BY <1>1, <1>2, <1>3 DEF Sound
<1> QED BY <1>4 DEF sz2, bf2

(* A chain stays one when a chunk comes elsewhere.                           *)
LEMMA ChainStays ==
    ASSUME NEW sz, NEW bf, NEW x, x \notin DOMAIN sz, NEW s, NEW c, Chain(c, sz, bf)
    PROVE  /\ Chain(c, Having(sz, x, s), Last(sz, bf, x))
           /\ \A j \in 1..Len(c) : Having(sz, x, s)[c[j]] = sz[c[j]]
<1>1. c \in Seq(DOMAIN sz) /\ Len(c) \in Nat /\ \A j \in 1..Len(c) : c[j] \in DOMAIN sz
  BY DEF Chain
<1>2. \A j \in 1..Len(c) : Having(sz, x, s)[c[j]] = sz[c[j]]
  BY <1>1 DEF Having
<1>3. c \in Seq(DOMAIN Having(sz, x, s))
  BY <1>1 DEF Having
<1>4. 1 \in 1..Len(c)
  BY <1>1 DEF Chain
<1> QED BY <1>2, <1>3, <1>4 DEF Chain, Last

(* The tries of other bins stay as they are.                                 *)
LEMMA OtherInsert ==
    ASSUME NEW sz, NEW bf, Sound(sz, bf), NEW x \in Chunks \ DOMAIN sz, NEW s,
           NEW i, compute_tree_index(s) # i, NEW t, Trie(t, i, sz, bf)
    PROVE  Trie(t, i, Having(sz, x, s), Last(sz, bf, x))
<1> DEFINE sz2 == Having(sz, x, s)
           bf2 == Last(sz, bf, x)
<1>1. ASSUME NEW p \in DOMAIN t
      PROVE  Chain(t[p], sz2, bf2) /\ sz2[t[p][1]] = sz[t[p][1]]
  <2>1. Chain(t[p], sz, bf)
    BY DEF Trie
  <2>2. 1 \in 1..Len(t[p])
    BY <2>1 DEF Chain
  <2> QED BY <2>1, <2>2, ChainStays
<1>2. \A y \in DOMAIN sz2 : compute_tree_index(sz2[y]) = i => y \in DOMAIN sz /\ sz2[y] = sz[y]
  BY DEF Having
<1> HIDE DEF sz2, bf2
<1>3. Trie(t, i, sz2, bf2)
  BY <1>1, <1>2, Zenon DEF Trie
<1> QED BY <1>3 DEF sz2, bf2

(* Where the chunk goes: the first place on the path of its size that is free*)
(* or has this size.                                                         *)
LEMMA InsertAtIs ==
    ASSUME NEW i, NEW t, Sound(sized, before), Trie(t, i, sized, before),
           NEW s \in HeapSizes, compute_tree_index(s) = i
    PROVE  \E n \in 0..Len(Path(s)) :
              /\ InsertAt(t, s) = Prefix(Path(s), n)
              /\ Prefix(Path(s), n) \notin DOMAIN t \/ SizeAt(t, Prefix(Path(s), n)) = s
              /\ \A k \in 0..(n - 1) : /\ Prefix(Path(s), k) \in DOMAIN t
                                       /\ SizeAt(t, Prefix(Path(s), k)) # s
<1> DEFINE path == Path(s)
           S == Stops(t, s)
           n == CHOOSE j \in S : \A k \in S : j <= k
<1>1. path \in Bits /\ Len(path) \in Nat /\ Len(path) = Depth(i)
  BY PathIs DEF Bits
<1>2. S \in SUBSET Nat
  BY <1>1 DEF Stops
<1>3. Len(path) \in S
  <2>1. Len(path) \in 0..Len(path)
    BY <1>1
  <2>2. /\ Prefix(path, Len(path)) \in Bits /\ Len(Prefix(path, Len(path))) = Len(path)
        /\ Agree(Prefix(path, Len(path)), path, Len(path))
    BY <1>1, <2>1, PrefixIs
  <2>3. ASSUME Prefix(path, Len(path)) \in DOMAIN t PROVE SizeAt(t, Prefix(path, Len(path))) = s
    <3>1. PICK p \in DOMAIN t : p = Prefix(path, Len(path))
      BY <2>3
    <3>2. sized[t[p][1]] \in HeapSizes /\ Placed(p, sized[t[p][1]], i)
      BY NodeIs
    <3> DEFINE u == sized[t[p][1]]
    <3>3. compute_tree_index(u) = i /\ Len(p) = Len(path) /\ Agree(p, Path(u), Len(p))
      BY <2>2, <3>1, <3>2 DEF Placed
    <3> HIDE DEF u
    <3>4. Agree(path, Path(u), Len(path))
      BY <2>2, <3>1, <3>3 DEF Agree
    <3>5. u \in HeapSizes
      BY <3>2 DEF u
    <3>6. s = u
      BY <3>3, <3>4, <3>5, SamePath
    <3> QED BY <3>1, <3>6 DEF SizeAt, u
  <2> QED BY <2>1, <2>3 DEF Stops
<1>4. n \in S /\ \A k \in S : n <= k
  BY <1>2, <1>3, FirstIs, Zenon
<1>5. InsertAt(t, s) = Prefix(path, n)
  BY Zenon DEF InsertAt
<1> HIDE DEF n
<1>6. /\ n \in 0..Len(path)
      /\ Prefix(path, n) \notin DOMAIN t \/ SizeAt(t, Prefix(path, n)) = s
  BY <1>4 DEF Stops
<1>7. ASSUME NEW k \in 0..(n - 1)
      PROVE  Prefix(path, k) \in DOMAIN t /\ SizeAt(t, Prefix(path, k)) # s
  <2>1. k \in 0..Len(path) /\ k < n /\ n \in Nat /\ k \in Nat
    BY <1>1, <1>6
  <2>2. k \notin S
    BY <1>4, <2>1
  <2> QED BY <2>1, <2>2 DEF Stops
<1> QED BY <1>5, <1>6, <1>7

(* insert_large_chunk gives a trie that holds the chunk, too.                *)
LEMMA InsertTrie ==
    ASSUME NEW i, NEW t, Sound(sized, before), Trie(t, i, sized, before),
           NEW s \in HeapSizes, compute_tree_index(s) = i, NEW x \in Chunks \ DOMAIN sized
    PROVE  Trie(insert_large_chunk(t, x, s), i, Having(sized, x, s), Last(sized, before, x))
<1> DEFINE sz2 == Having(sized, x, s)
           bf2 == Last(sized, before, x)
           path == Path(s)
           p == InsertAt(t, s)
           chain == IF p \in DOMAIN t THEN Append(t[p], x) ELSE <<x>>
           t2 == insert_large_chunk(t, x, s)
<1>1. PICK n \in 0..Len(path) :
          /\ p = Prefix(path, n)
          /\ p \notin DOMAIN t \/ SizeAt(t, p) = s
          /\ \A k \in 0..(n - 1) : Prefix(path, k) \in DOMAIN t /\ SizeAt(t, Prefix(path, k)) # s
  BY InsertAtIs
<1>2. t2 = [q \in DOMAIN t \union {p} |-> IF q = p THEN chain ELSE t[q]]
  BY Zenon DEF insert_large_chunk, At
<1>3. path \in Bits /\ Len(path) \in Nat
  BY PathIs DEF Bits
<1>4. p \in Bits /\ Len(p) = n /\ Agree(p, path, n)
  BY <1>1, <1>3, PrefixIs
<1>5. /\ DOMAIN sz2 = DOMAIN sized \union {x} /\ sz2[x] = s
      /\ \A y \in DOMAIN sized : sz2[y] = sized[y]
  BY DEF Having
<1>6. ASSUME NEW q \in DOMAIN t
      PROVE  /\ Chain(t[q], sized, before) /\ Chain(t[q], sz2, bf2)
             /\ sz2[t[q][1]] = sized[t[q][1]] /\ Placed(q, sz2[t[q][1]], i)
  <2>1. Chain(t[q], sized, before) /\ Placed(q, sized[t[q][1]], i)
    BY DEF Trie
  <2>2. 1 \in 1..Len(t[q])
    BY <2>1 DEF Chain
  <2> QED BY <2>1, <2>2, ChainStays
<1>7. \A y \in DOMAIN sized : <<y, x>> \in bf2
  BY DEF Last
<1> HIDE DEF sz2, bf2
<1>8. Chain(chain, sz2, bf2) /\ chain[1] \in DOMAIN sz2 /\ sz2[chain[1]] = s
      /\ \E k \in 1..Len(chain) : chain[k] = x
  <2>1. CASE p \in DOMAIN t
    <3> DEFINE c == t[p]
               m == Len(c)
    <3>1. chain = Append(c, x) /\ Chain(c, sized, before) /\ Chain(c, sz2, bf2)
          /\ sized[c[1]] = s /\ sz2[c[1]] = s
      BY <1>1, <1>6, <2>1 DEF SizeAt
    <3> HIDE DEF c, chain
    <3>2. c \in Seq(DOMAIN sized) /\ m \in Nat /\ m >= 1
      BY <3>1 DEF Chain
    <3>3. /\ chain \in Seq(DOMAIN sz2) /\ Len(chain) = m + 1 /\ chain[m + 1] = x
          /\ \A j \in 1..m : chain[j] = c[j] /\ c[j] \in DOMAIN sized
      BY <1>5, <3>1, <3>2
    <3>4. \A j \in 1..(m + 1) : j \in 1..m \/ j = m + 1
      BY <3>2
    <3>5. chain[1] = c[1]
      BY <3>2, <3>3
    <3>6. \A j \in 1..Len(chain) : sz2[chain[j]] = sz2[chain[1]]
      <4> TAKE j \in 1..Len(chain)
      <4>1. CASE j = m + 1
        BY <1>5, <3>1, <3>3, <3>5, <4>1
      <4>2. CASE j \in 1..m
        BY <3>1, <3>3, <3>5, <4>2 DEF Chain
      <4> QED BY <3>3, <3>4, <4>1, <4>2
    <3>7. ASSUME NEW j \in 1..Len(chain), NEW k \in 1..Len(chain), j < k
          PROVE  <<chain[j], chain[k]>> \in bf2
      <4>1. j \in 1..m
        BY <3>2, <3>3, <3>7
      <4>2. CASE k = m + 1
        BY <1>7, <3>3, <4>1, <4>2
      <4>3. CASE k \in 1..m
        BY <3>1, <3>3, <3>7, <4>1, <4>3 DEF Chain
      <4> QED BY <3>3, <3>4, <4>2, <4>3
    <3>8. Len(chain) >= 1 /\ m + 1 \in 1..Len(chain)
      BY <3>2, <3>3
    <3>9. Chain(chain, sz2, bf2)
      BY <3>3, <3>6, <3>7, <3>8 DEF Chain
    <3>10. sz2[chain[1]] = s /\ chain[1] \in DOMAIN sz2
      BY <1>5, <3>1, <3>2, <3>3, <3>5
    <3> QED BY <3>3, <3>8, <3>9, <3>10
  <2>2. CASE p \notin DOMAIN t
    <3>1. chain = <<x>>
      BY <2>2
    <3> HIDE DEF chain
    <3>2. chain \in Seq(DOMAIN sz2) /\ Len(chain) = 1 /\ chain[1] = x
      BY <1>5, <3>1
    <3>3. Chain(chain, sz2, bf2)
      BY <3>2 DEF Chain
    <3> QED BY <1>5, <3>2, <3>3
  <2> QED BY <2>1, <2>2
<1>9. p \in DOMAIN t => \A k \in 1..Len(t[p]) : \E j \in 1..Len(chain) : chain[j] = t[p][k]
  <2> SUFFICES ASSUME p \in DOMAIN t, NEW k \in 1..Len(t[p])
               PROVE  \E j \in 1..Len(chain) : chain[j] = t[p][k]
    OBVIOUS
  <2>1. t[p] \in Seq(DOMAIN sized) /\ chain = Append(t[p], x)
    BY <1>6 DEF Chain
  <2>2. k \in 1..Len(chain) /\ chain[k] = t[p][k]
    BY <2>1
  <2> QED BY <2>2
<1>10. Placed(p, s, i)
  BY <1>1, <1>3, <1>4 DEF Placed
<1> HIDE DEF chain, t2, p
<1>11. DOMAIN t2 = DOMAIN t \union {p} /\ t2[p] = chain /\ \A q \in DOMAIN t \ {p} : t2[q] = t[q]
  BY <1>2
<1>12. t2 = [q \in DOMAIN t2 |-> t2[q]]
  BY <1>2
<1>13. Closed(DOMAIN t2)
  <2>1. DOMAIN t2 \subseteq Bits
    BY <1>4, <1>11 DEF Trie, Closed
  <2>2. ASSUME NEW q \in DOMAIN t2, NEW k \in 0..Len(q) PROVE Prefix(q, k) \in DOMAIN t2
    <3>1. CASE q \in DOMAIN t
      BY <1>11, <2>2, <3>1 DEF Trie, Closed
    <3>2. CASE q = p
      <4>1. k \in 0..n /\ k \in 0..Len(path) /\ k \in Nat
        BY <1>3, <1>4, <2>2, <3>2
      <4>2. /\ Prefix(p, k) \in Bits /\ Len(Prefix(p, k)) = k /\ Agree(Prefix(p, k), p, k)
            /\ Prefix(path, k) \in Bits /\ Len(Prefix(path, k)) = k
            /\ Agree(Prefix(path, k), path, k)
        BY <1>3, <1>4, <4>1, PrefixIs
      <4>3. \A j \in 1..k : j \in 1..n
        BY <4>1
      <4>4. Agree(Prefix(p, k), Prefix(path, k), k)
        BY <1>4, <4>2, <4>3 DEF Agree
      <4>5. Prefix(p, k) = Prefix(path, k)
        BY <4>2, <4>4, BitsEqual
      <4>6. k = n \/ k \in 0..(n - 1)
        BY <4>1
      <4> QED BY <1>1, <1>11, <3>2, <4>5, <4>6
    <3> QED BY <1>11, <3>1, <3>2
  <2> QED BY <2>1, <2>2 DEF Closed
<1>14. ASSUME NEW q \in DOMAIN t2
       PROVE  Chain(t2[q], sz2, bf2) /\ Placed(q, sz2[t2[q][1]], i)
  <2>1. CASE q = p
    BY <1>8, <1>10, <1>11, <2>1
  <2>2. CASE q # p
    BY <1>6, <1>11, <2>2
  <2> QED BY <2>1, <2>2
<1>15. ASSUME NEW q \in DOMAIN t, sized[t[q][1]] = s PROVE q = p
  <2>1. q \in Bits /\ Placed(q, s, i) /\ Len(q) \in Nat
    BY <1>15, NodeIs DEF Bits
  <2>2. Len(q) \in 0..Len(path) /\ Agree(q, path, Len(q))
    BY <1>3, <2>1 DEF Placed
  <2>3. q = Prefix(path, Len(q))
    <3>1. /\ Prefix(path, Len(q)) \in Bits /\ Len(Prefix(path, Len(q))) = Len(q)
          /\ Agree(path, Prefix(path, Len(q)), Len(q))
      BY <1>3, <2>2, PrefixIs
    <3>2. Agree(q, Prefix(path, Len(q)), Len(q))
      BY <2>2, <3>1 DEF Agree
    <3> QED BY <2>1, <3>1, <3>2, BitsEqual
  <2>4. ~ (Len(q) < n)
    <3>1. ASSUME Len(q) < n PROVE FALSE
      <4>1. Len(q) \in 0..(n - 1)
        BY <2>1, <3>1
      <4>2. SizeAt(t, q) # s
        BY <1>1, <2>3, <4>1
      <4> QED BY <1>15, <4>2 DEF SizeAt
    <3> QED BY <3>1
  <2>5. n \in 0..Len(q)
    BY <2>1, <2>4
  <2>6. Prefix(q, n) \in DOMAIN t
    BY <2>5 DEF Trie, Closed
  <2>7. Prefix(q, n) = p
    <3>1. Prefix(q, n) \in Bits /\ Len(Prefix(q, n)) = n /\ Agree(Prefix(q, n), q, n)
      BY <2>1, <2>5, PrefixIs
    <3>2. \A j \in 1..n : j \in 1..Len(q)
      BY <2>1, <2>5
    <3>3. Agree(Prefix(q, n), p, n)
      BY <1>4, <2>2, <3>1, <3>2 DEF Agree
    <3> QED BY <1>4, <3>1, <3>3, BitsEqual
  <2>8. p \in DOMAIN t /\ sized[t[p][1]] = s
    BY <1>1, <2>6, <2>7 DEF SizeAt
  <2> QED BY <1>15, <2>8 DEF Trie
<1>16. ASSUME NEW q \in DOMAIN t2, NEW r \in DOMAIN t2, sz2[t2[q][1]] = sz2[t2[r][1]]
       PROVE  q = r
  <2>1. CASE q = p
    <3>1. sz2[t2[r][1]] = s
      BY <1>8, <1>11, <1>16, <2>1
    <3>2. CASE r # p
      BY <1>6, <1>11, <1>15, <3>1, <3>2
    <3> QED BY <2>1, <3>2
  <2>2. CASE r = p
    <3>1. sz2[t2[q][1]] = s
      BY <1>8, <1>11, <1>16, <2>2
    <3>2. CASE q # p
      BY <1>6, <1>11, <1>15, <3>1, <3>2
    <3> QED BY <2>2, <3>2
  <2>3. CASE q # p /\ r # p
    <3>1. q \in DOMAIN t /\ r \in DOMAIN t /\ sized[t[q][1]] = sized[t[r][1]]
      BY <1>6, <1>11, <1>16, <2>3
    <3> QED BY <3>1 DEF Trie
  <2> QED BY <2>1, <2>2, <2>3
<1>17. ASSUME NEW y \in DOMAIN sz2, compute_tree_index(sz2[y]) = i
       PROVE  \E q \in DOMAIN t2 : \E k \in 1..Len(t2[q]) : t2[q][k] = y
  <2>1. CASE y = x
    BY <1>8, <1>11, <2>1
  <2>2. CASE y # x
    <3>1. y \in DOMAIN sized /\ compute_tree_index(sized[y]) = i
      BY <1>5, <1>17, <2>2
    <3>2. PICK q \in DOMAIN t : \E k \in 1..Len(t[q]) : t[q][k] = y
      BY <3>1, Zenon DEF Trie
    <3>3. CASE q = p
      BY <1>9, <1>11, <3>2, <3>3
    <3>4. CASE q # p
      BY <1>11, <3>2, <3>4
    <3> QED BY <3>3, <3>4
  <2> QED BY <2>1, <2>2
<1>18. Trie(t2, i, sz2, bf2)
  BY <1>12, <1>13, <1>14, <1>16, <1>17, Zenon DEF Trie
<1> QED BY <1>18 DEF t2, sz2, bf2

-----------------------------------------------------------------------------
(* Removal.                                                                  *)

Sans(sz, x) == [y \in DOMAIN sz \ {x} |-> sz[y]]
Apart(bf, x) == {e \in bf : x \notin {e[1], e[2]}}

(* The order of the others stays when a chunk goes.                          *)
LEMMA SoundUnlink ==
    ASSUME NEW sz, NEW bf, Sound(sz, bf), NEW x
    PROVE  Sound(Sans(sz, x), Apart(bf, x))
<1> DEFINE sz2 == Sans(sz, x)
           bf2 == Apart(bf, x)
<1>1. DOMAIN sz2 = DOMAIN sz \ {x} /\ sz2 = [y \in DOMAIN sz2 |-> sz2[y]]
      /\ \A y \in DOMAIN sz2 : sz2[y] \in HeapSizes
  BY DEF Sans, Sound
<1>2. bf2 \subseteq (DOMAIN sz2) \X (DOMAIN sz2)
  BY <1>1 DEF Apart, Sound
<1>3. bf2 \subseteq bf
  BY DEF Apart
<1> HIDE DEF sz2, bf2
<1>4. Sound(sz2, bf2)
  BY <1>1, <1>2, <1>3 DEF Sound
<1> QED BY <1>4 DEF sz2, bf2

(* A chain without x is one still.                                           *)
Lacks(c, x) == \A j \in 1..Len(c) : c[j] # x

(* So does a chain it was not in.                                            *)
LEMMA ChainKept ==
    ASSUME NEW sz, NEW bf, NEW x, NEW c, Chain(c, sz, bf), Lacks(c, x)
    PROVE  /\ Chain(c, Sans(sz, x), Apart(bf, x))
           /\ Sans(sz, x)[c[1]] = sz[c[1]]
<1>1. c \in Seq(DOMAIN sz) /\ Len(c) \in Nat /\ \A j \in 1..Len(c) : c[j] \in DOMAIN sz \ {x}
  BY DEF Chain, Lacks
<1>2. \A j \in 1..Len(c) : Sans(sz, x)[c[j]] = sz[c[j]]
  BY <1>1 DEF Sans
<1>3. c \in Seq(DOMAIN Sans(sz, x))
  BY <1>1 DEF Sans
<1>4. 1 \in 1..Len(c)
  BY <1>1 DEF Chain
<1>5. \A j, k \in 1..Len(c) : j < k => <<c[j], c[k]>> \in Apart(bf, x)
  BY <1>1 DEF Chain, Apart
<1> QED BY <1>2, <1>3, <1>4, <1>5 DEF Chain

(* And one that x leaves, if another chunk is on it.                         *)
LEMMA ChainLeft ==
    ASSUME NEW sz, NEW bf, Sound(sz, bf), NEW c, Chain(c, sz, bf), Len(c) > 1,
           NEW k \in 1..Len(c)
    PROVE  /\ Chain(Unchained(c, c[k]), Sans(sz, c[k]), Apart(bf, c[k]))
           /\ Sans(sz, c[k])[Unchained(c, c[k])[1]] = sz[c[1]]
           /\ \A j \in 1..Len(c) : c[j] # c[k] =>
                 \E l \in 1..Len(Unchained(c, c[k])) : Unchained(c, c[k])[l] = c[j]
<1> DEFINE x == c[k]
           h == CHOOSE j \in DOMAIN c : c[j] = x
           u == Unchained(c, x)
           m == Len(c)
<1>1. c \in Seq(DOMAIN sz) /\ m \in Nat /\ m > 1 /\ DOMAIN c = 1..m
  BY DEF Chain
<1>2. \A j, l \in 1..m : c[j] = c[l] => j = l
  <2>1. \A y, z \in DOMAIN sz : <<y, z>> \in bf => <<z, y>> \notin bf
    BY DEF Sound
  <2>2. ASSUME NEW j \in 1..m, NEW l \in 1..m, j < l, c[j] = c[l] PROVE FALSE
    <3>1. <<c[j], c[l]>> \in bf /\ c[j] \in DOMAIN sz
      BY <1>1, <2>2 DEF Chain
    <3>2. <<c[j], c[j]>> \in bf
      BY <2>2, <3>1
    <3> QED BY <2>1, <3>1, <3>2
  <2> QED BY <1>1, <2>2
<1>3. h \in 1..m /\ c[h] = x
  BY <1>1
<1>4. h = k
  BY <1>2, <1>3
<1>5. u = [j \in 1..(m - 1) |-> IF j < h THEN c[j] ELSE c[j + 1]]
  BY Zenon DEF Unchained
<1> HIDE DEF h
<1>6. u = [j \in 1..(m - 1) |-> IF j < k THEN c[j] ELSE c[j + 1]]
  BY <1>4, <1>5
<1> HIDE DEF u
<1>7. \A j \in 1..(m - 1) : /\ j < k => u[j] = c[j] /\ j \in 1..m
                            /\ ~(j < k) => u[j] = c[j + 1] /\ j + 1 \in 1..m
  BY <1>1, <1>6
<1>8. \A j \in 1..(m - 1) : u[j] \in DOMAIN sz /\ u[j] # x /\ sz[u[j]] = sz[c[1]]
  <2> TAKE j \in 1..(m - 1)
  <2>1. CASE j < k
    BY <1>1, <1>2, <1>7, <2>1 DEF Chain
  <2>2. CASE ~(j < k)
    BY <1>1, <1>2, <1>7, <2>2 DEF Chain
  <2> QED BY <2>1, <2>2
<1>9. u \in Seq(DOMAIN sz \ {x}) /\ Len(u) = m - 1 /\ m - 1 \in Nat /\ m - 1 >= 1
  BY <1>1, <1>6, <1>8
<1>10. \A j, l \in 1..(m - 1) : j < l => <<u[j], u[l]>> \in bf
  <2> SUFFICES ASSUME NEW j \in 1..(m - 1), NEW l \in 1..(m - 1), j < l
               PROVE  <<u[j], u[l]>> \in bf
    OBVIOUS
  <2>1. PICK a \in 1..m : u[j] = c[a] /\ ((j < k /\ a = j) \/ (~(j < k) /\ a = j + 1))
    BY <1>7
  <2>2. PICK b \in 1..m : u[l] = c[b] /\ ((l < k /\ b = l) \/ (~(l < k) /\ b = l + 1))
    BY <1>7
  <2>3. a < b
    BY <1>1, <2>1, <2>2
  <2> QED BY <2>1, <2>2, <2>3 DEF Chain
<1>11. Sans(sz, x) = [y \in DOMAIN sz \ {x} |-> sz[y]]
  BY DEF Sans
<1> HIDE DEF x
<1>12. Chain(u, Sans(sz, x), Apart(bf, x))
  <2>1. u \in Seq(DOMAIN Sans(sz, x))
    BY <1>9, <1>11
  <2>2. \A j \in 1..Len(u) : Sans(sz, x)[u[j]] = sz[c[1]]
    BY <1>8, <1>9, <1>11
  <2>3. 1 \in 1..Len(u)
    BY <1>9
  <2>4. \A j, l \in 1..Len(u) : j < l => <<u[j], u[l]>> \in Apart(bf, x)
    BY <1>8, <1>9, <1>10 DEF Apart
  <2> QED BY <1>9, <2>1, <2>2, <2>3, <2>4 DEF Chain
<1>13. Sans(sz, x)[u[1]] = sz[c[1]]
  BY <1>8, <1>9, <1>11
<1>14. ASSUME NEW j \in 1..m, c[j] # x PROVE \E l \in 1..Len(u) : u[l] = c[j]
  <2>1. j # k
    BY <1>14 DEF x
  <2>2. CASE j < k
    <3>1. j \in 1..(m - 1)
      BY <1>1, <2>2
    <3> QED BY <1>7, <1>9, <2>2, <3>1
  <2>3. CASE k < j
    <3>1. j - 1 \in 1..(m - 1) /\ ~(j - 1 < k) /\ (j - 1) + 1 = j
      BY <1>1, <2>3
    <3> QED BY <1>7, <1>9, <3>1
  <2> QED BY <1>1, <2>1, <2>2, <2>3
<1> QED BY <1>12, <1>13, <1>14 DEF u, x

(* The rightmost leaf is below the node and has no children.                 *)
LEMMA LeafIs ==
    ASSUME NEW i, NEW t, Sound(sized, before), Trie(t, i, sized, before), NEW p \in DOMAIN t
    PROVE  /\ Leaf(t, p) \in DOMAIN t /\ Len(p) <= Len(Leaf(t, p))
           /\ Agree(p, Leaf(t, p), Len(p))
           /\ \A b \in 0..1 : Child(Leaf(t, p), b) \notin DOMAIN t
<1> DEFINE W == Downward(t, p, 1)
           l == CHOOSE q \in W : \A r \in W : Len(r) <= Len(q)
           S == {18 - Len(q) : q \in W}
<1>1. p \in Bits /\ Len(p) \in Nat
  BY NodeIs DEF Bits
<1>2. W \subseteq DOMAIN t
  BY DEF Downward
<1>3. ASSUME NEW q \in DOMAIN t PROVE q \in Bits /\ Len(q) \in 0..18
  <2>1. q \in Bits /\ sized[t[q][1]] \in HeapSizes /\ Placed(q, sized[t[q][1]], i)
    BY NodeIs
  <2>2. Len(q) \in Nat
    BY <2>1 DEF Bits
  <2>3. Len(Path(sized[t[q][1]])) \in 1..18
    BY <2>1, BinBits, PathIs
  <2>4. Len(q) <= Len(Path(sized[t[q][1]]))
    BY <2>1, Zenon DEF Placed
  <2> DEFINE a == Len(q)
             e == Len(Path(sized[t[q][1]]))
  <2>5. a \in Nat /\ e \in 1..18 /\ a <= e
    BY <2>2, <2>3, <2>4
  <2> HIDE DEF a, e
  <2>6. a \in 0..18
    BY <2>5
  <2> QED BY <2>1, <2>6 DEF a
<1>4. p \in W
  <2>1. Len(p) \in 0..Len(p)
    BY <1>1
  <2>2. Prefix(p, Len(p)) \in Bits /\ Len(Prefix(p, Len(p))) = Len(p)
        /\ Agree(Prefix(p, Len(p)), p, Len(p))
    BY <1>1, <2>1, PrefixIs
  <2>3. Prefix(p, Len(p)) = p
    BY <1>1, <2>2, BitsEqual
  <2>4. Len(p)..(Len(p) - 1) = {}
    BY <1>1
  <2> QED BY <1>1, <2>3, <2>4 DEF Downward
<1>5. S \in SUBSET Nat /\ S # {}
  <2>1. \A q \in W : Len(q) \in 0..18
    BY <1>2, <1>3
  <2>a. \A n \in 0..18 : 18 - n \in Nat
    OBVIOUS
  <2>2. \A q \in W : 18 - Len(q) \in Nat
    BY <2>1, <2>a
  <2> HIDE DEF W
  <2> QED BY <1>4, <2>2
<1>6. PICK s \in S : \A u \in S : s <= u
  BY <1>5, LeastNat
<1>7. PICK g \in W : s = 18 - Len(g)
  BY <1>6
<1>8. \A r \in W : Len(r) <= Len(g)
  <2> TAKE r \in W
  <2>1. s <= 18 - Len(r)
    BY <1>6
  <2>2. Len(r) \in Int /\ Len(g) \in Int
    BY <1>2, <1>3
  <2> QED BY <1>7, <2>1, <2>2
<1>9. l \in W /\ \A r \in W : Len(r) <= Len(l)
  BY <1>8, Zenon
<1>10. Leaf(t, p) = l
  BY Zenon DEF Leaf
<1> HIDE DEF l
<1>11. /\ l \in DOMAIN t /\ l \in Bits /\ Len(l) \in Nat /\ Len(p) <= Len(l)
       /\ Prefix(l, Len(p)) = p
       /\ \A n \in Len(p)..(Len(l) - 1) : l[n + 1] # 1 => Child(Prefix(l, n), 1) \notin DOMAIN t
  BY <1>3, <1>9 DEF Downward
<1>12. Agree(p, l, Len(p))
  <2>1. Len(p) \in 0..Len(l)
    BY <1>1, <1>11
  <2>2. Agree(Prefix(l, Len(p)), l, Len(p))
    BY <1>11, <2>1, PrefixIs
  <2> QED BY <1>11, <2>2
<1>13. ASSUME NEW b \in 0..1, Child(l, b) \in DOMAIN t, b # 1 => Child(l, 1) \notin DOMAIN t
       PROVE  FALSE
  <2> DEFINE r == Child(l, b)
  <2>1. r \in Bits /\ Len(r) = Len(l) + 1 /\ Agree(r, l, Len(l)) /\ r[Len(l) + 1] = b
    BY <1>11, ChildIs
  <2>2. r \in DOMAIN t
    BY <1>13
  <2> HIDE DEF r
  <2>3. \A n \in 0..Len(l) : Prefix(r, n) = Prefix(l, n)
    <3> TAKE n \in 0..Len(l)
    <3>1. n \in 0..Len(r)
      BY <1>11, <2>1
    <3>2. /\ Prefix(r, n) \in Bits /\ Len(Prefix(r, n)) = n /\ Agree(Prefix(r, n), r, n)
          /\ Prefix(l, n) \in Bits /\ Len(Prefix(l, n)) = n /\ Agree(Prefix(l, n), l, n)
      BY <1>11, <2>1, <3>1, PrefixIs
    <3>3. \A j \in 1..n : j \in 1..Len(l)
      BY <1>11
    <3>4. Agree(Prefix(r, n), Prefix(l, n), n)
      BY <2>1, <3>2, <3>3 DEF Agree
    <3> QED BY <3>2, <3>4, BitsEqual
  <2>4. Len(p) <= Len(r) /\ Prefix(r, Len(p)) = p
    <3>1. Len(p) \in 0..Len(l)
      BY <1>1, <1>11
    <3> QED BY <1>1, <1>11, <2>1, <2>3, <3>1
  <2>5. ASSUME NEW n \in Len(p)..(Len(r) - 1), r[n + 1] # 1 PROVE Child(Prefix(r, n), 1) \notin DOMAIN t
    <3>1. n \in 0..Len(l) /\ (n = Len(l) \/ n \in Len(p)..(Len(l) - 1))
      BY <1>1, <1>11, <2>1
    <3>2. CASE n = Len(l)
      <4>1. Len(l) \in 0..Len(l)
        BY <1>11
      <4>2. /\ Prefix(l, Len(l)) \in Bits /\ Len(Prefix(l, Len(l))) = Len(l)
            /\ Agree(Prefix(l, Len(l)), l, Len(l))
        BY <1>11, <4>1, PrefixIs
      <4>3. Prefix(l, Len(l)) = l
        BY <1>11, <4>2, BitsEqual
      <4>4. b # 1
        BY <2>1, <2>5, <3>2
      <4> QED BY <1>13, <2>3, <3>1, <3>2, <4>3, <4>4
    <3>3. CASE n \in Len(p)..(Len(l) - 1)
      <4>1. n + 1 \in 1..Len(l)
        BY <1>1, <1>11, <3>3
      <4>2. l[n + 1] # 1
        BY <2>1, <2>5, <4>1 DEF Agree
      <4> QED BY <1>11, <2>3, <3>1, <3>3, <4>2
    <3> QED BY <3>1, <3>2, <3>3
  <2>6. r \in W
    BY <2>2, <2>4, <2>5 DEF Downward
  <2> QED BY <1>9, <1>11, <2>1, <2>6
<1>14. Child(l, 1) \notin DOMAIN t
  <2>1. 1 \in 0..1
    OBVIOUS
  <2> QED BY <1>13, <2>1
<1>15. \A b \in 0..1 : Child(l, b) \notin DOMAIN t
  BY <1>13, <1>14
<1> QED BY <1>10, <1>11, <1>12, <1>15

(* And so do the tries of other bins.                                        *)
LEMMA OtherUnlink ==
    ASSUME NEW sz, NEW bf, NEW x \in DOMAIN sz, NEW i, compute_tree_index(sz[x]) # i,
           NEW t, Trie(t, i, sz, bf)
    PROVE  Trie(t, i, Sans(sz, x), Apart(bf, x))
<1> DEFINE sz2 == Sans(sz, x)
           bf2 == Apart(bf, x)
<1>1. ASSUME NEW p \in DOMAIN t
      PROVE  Chain(t[p], sz2, bf2) /\ sz2[t[p][1]] = sz[t[p][1]]
  <2>1. Chain(t[p], sz, bf) /\ compute_tree_index(sz[t[p][1]]) = i
    BY DEF Trie, Placed
  <2>3. \A j \in 1..Len(t[p]) : t[p][j] # x
    BY <2>1 DEF Chain
  <2>4. Lacks(t[p], x)
    BY <2>3, Zenon DEF Lacks
  <2> QED BY <2>1, <2>4, ChainKept
<1>2. \A y \in DOMAIN sz2 : compute_tree_index(sz2[y]) = i => y \in DOMAIN sz /\ sz2[y] = sz[y]
  BY DEF Sans
<1> HIDE DEF sz2, bf2
<1>3. Trie(t, i, sz2, bf2)
  BY <1>1, <1>2, Zenon DEF Trie
<1> QED BY <1>3 DEF sz2, bf2

(* unlink_large_chunk gives a trie without the chunk: the leaf that moves up *)
(* keeps on the path of its size.                                            *)
LEMMA UnlinkTrie ==
    ASSUME NEW i, NEW t, Sound(sized, before), Trie(t, i, sized, before),
           NEW x \in DOMAIN sized, compute_tree_index(sized[x]) = i
    PROVE  Trie(unlink_large_chunk(t, x), i, Sans(sized, x), Apart(before, x))
<1> DEFINE p == CHOOSE q \in DOMAIN t : \E k \in DOMAIN t[q] : t[q][k] = x
           l == Leaf(t, p)
           t2 == unlink_large_chunk(t, x)
           sz2 == Sans(sized, x)
           bf2 == Apart(before, x)
<1>1. t2 = IF Len(t[p]) > 1 THEN At(t, p, Unchained(t[p], x))
           ELSE IF l = p THEN Less(t, p) ELSE Less(At(t, p, t[l]), l)
  BY Zenon DEF unlink_large_chunk
<1>2. p \in DOMAIN t /\ \E k \in DOMAIN t[p] : t[p][k] = x
  <2>1. PICK q \in DOMAIN t : \E k \in 1..Len(t[q]) : t[q][k] = x
    BY Zenon DEF Trie
  <2>2. DOMAIN t[q] = 1..Len(t[q])
    BY DEF Trie, Chain
  <2>3. \E r \in DOMAIN t : \E k \in DOMAIN t[r] : t[r][k] = x
    BY <2>1, <2>2
  <2> QED BY <2>3, Zenon
<1> HIDE DEF p, t2
<1>3. Chain(t[p], sized, before) /\ p \in Bits /\ Len(t[p]) \in Nat /\ Len(p) \in Nat
  BY <1>2, NodeIs DEF Chain, Bits
<1>4. PICK k \in 1..Len(t[p]) : t[p][k] = x
  BY <1>2, <1>3 DEF Chain
<1>5. sized[t[p][1]] = sized[x]
  BY <1>3, <1>4 DEF Chain
<1>6. \A q \in DOMAIN t : Chain(t[q], sized, before) /\ Placed(q, sized[t[q][1]], i)
  BY Zenon DEF Trie
<1>7. \A q, r \in DOMAIN t : sized[t[q][1]] = sized[t[r][1]] => q = r
  BY Zenon DEF Trie
<1>8. DOMAIN sz2 = DOMAIN sized \ {x} /\ \A y \in DOMAIN sz2 : sz2[y] = sized[y]
  BY DEF Sans
<1> HIDE DEF sz2, bf2
<1>9. ASSUME NEW q \in DOMAIN t, q # p
      PROVE  Chain(t[q], sz2, bf2) /\ sz2[t[q][1]] = sized[t[q][1]]
  <2>1. Chain(t[q], sized, before)
    BY <1>6
  <2>2. ASSUME NEW j \in 1..Len(t[q]), t[q][j] = x PROVE FALSE
    <3>1. sized[t[q][1]] = sized[x]
      BY <2>1, <2>2 DEF Chain
    <3> QED BY <1>2, <1>5, <1>7, <1>9, <3>1
  <2>4. Lacks(t[q], x)
    BY <2>2, Zenon DEF Lacks
  <2> QED BY <2>1, <2>4, ChainKept DEF sz2, bf2
<1>10. \A y \in DOMAIN sz2 : compute_tree_index(sz2[y]) = i =>
           y # x /\ \E q \in DOMAIN t : \E j \in 1..Len(t[q]) : t[q][j] = y
  <2> SUFFICES ASSUME NEW y \in DOMAIN sz2, compute_tree_index(sz2[y]) = i
               PROVE  y # x /\ \E q \in DOMAIN t : \E j \in 1..Len(t[q]) : t[q][j] = y
    OBVIOUS
  <2>1. y \in DOMAIN sized /\ y # x /\ compute_tree_index(sized[y]) = i
    BY <1>8
  <2> QED BY <2>1, Zenon DEF Trie
<1>11. Closed(DOMAIN t)
  BY Zenon DEF Trie
<1>12. CASE Len(t[p]) > 1
  <2> DEFINE u == Unchained(t[p], x)
  <2>1. t2 = [q \in DOMAIN t |-> IF q = p THEN u ELSE t[q]]
    <3>1. t2 = [q \in DOMAIN t \union {p} |-> IF q = p THEN u ELSE t[q]]
      BY <1>1, <1>12, Zenon DEF At
    <3>2. DOMAIN t \union {p} = DOMAIN t
      BY <1>2
    <3> QED BY <3>1, <3>2
  <2>2. /\ Chain(u, sz2, bf2) /\ sz2[u[1]] = sized[t[p][1]]
        /\ \A j \in 1..Len(t[p]) : t[p][j] # x => \E m \in 1..Len(u) : u[m] = t[p][j]
    BY <1>3, <1>4, <1>12, ChainLeft DEF sz2, bf2
  <2> HIDE DEF u
  <2>3. DOMAIN t2 = DOMAIN t /\ t2[p] = u /\ \A q \in DOMAIN t \ {p} : t2[q] = t[q]
    BY <1>2, <2>1
  <2>4. t2 = [q \in DOMAIN t2 |-> t2[q]]
    BY <2>1
  <2>5. ASSUME NEW q \in DOMAIN t
        PROVE  Chain(t2[q], sz2, bf2) /\ sz2[t2[q][1]] = sized[t[q][1]]
    BY <1>9, <2>2, <2>3
  <2>6. \A q \in DOMAIN t2 : Chain(t2[q], sz2, bf2) /\ Placed(q, sz2[t2[q][1]], i)
    BY <1>6, <2>3, <2>5
  <2>7. \A q, r \in DOMAIN t2 : sz2[t2[q][1]] = sz2[t2[r][1]] => q = r
    BY <1>7, <2>3, <2>5
  <2>8. ASSUME NEW y \in DOMAIN sz2, compute_tree_index(sz2[y]) = i
        PROVE  \E q \in DOMAIN t2 : \E j \in 1..Len(t2[q]) : t2[q][j] = y
    <3>1. PICK q \in DOMAIN t : \E j \in 1..Len(t[q]) : t[q][j] = y
      BY <1>10, <2>8
    <3>2. y # x
      BY <1>10, <2>8
    <3>3. CASE q = p
      BY <2>2, <2>3, <3>1, <3>2, <3>3
    <3>4. CASE q # p
      BY <2>3, <3>1, <3>4
    <3> QED BY <3>3, <3>4
  <2> QED BY <1>11, <2>3, <2>4, <2>6, <2>7, <2>8, Zenon DEF Trie, t2, sz2, bf2
<1>13. CASE ~(Len(t[p]) > 1)
  <2>1. /\ l \in DOMAIN t /\ Len(p) <= Len(l) /\ Agree(p, l, Len(p))
        /\ \A b \in 0..1 : Child(l, b) \notin DOMAIN t
    BY <1>2, LeafIs
  <2> HIDE DEF l
  <2>2. Len(t[p]) = 1 /\ k = 1
    <3>1. Len(t[p]) >= 1
      BY <1>3 DEF Chain
    <3> DEFINE a == Len(t[p])
    <3>2. a \in Nat /\ a >= 1 /\ ~(a > 1) /\ k \in 1..a
      BY <1>3, <1>13, <3>1
    <3> HIDE DEF a
    <3>3. a = 1 /\ k = 1
      BY <3>2
    <3> QED BY <3>3 DEF a
  <2>3. t2 = [q \in DOMAIN t \ {l} |-> IF q = p THEN t[l] ELSE t[q]]
    <3>1. CASE l = p
      <4>1. t2 = [q \in DOMAIN t \ {p} |-> t[q]]
        BY <1>1, <1>13, <3>1, Zenon DEF Less
      <4> QED BY <3>1, <4>1
    <3>2. CASE l # p
      <4> DEFINE a == At(t, p, t[l])
      <4>1. t2 = [q \in DOMAIN a \ {l} |-> a[q]]
        BY <1>1, <1>13, <3>2, Zenon DEF Less
      <4>2. a = [q \in DOMAIN t \union {p} |-> IF q = p THEN t[l] ELSE t[q]]
        BY DEF At
      <4> HIDE DEF a
      <4>3. DOMAIN a = DOMAIN t /\ \A q \in DOMAIN t : a[q] = IF q = p THEN t[l] ELSE t[q]
        BY <1>2, <4>2
      <4> QED BY <4>1, <4>3
    <3> QED BY <3>1, <3>2
  <2>4. DOMAIN t2 = DOMAIN t \ {l} /\ t2 = [q \in DOMAIN t2 |-> t2[q]]
    BY <2>3
  <2>5. ASSUME NEW q \in DOMAIN t2
        PROVE  \E g \in DOMAIN t \ {p} :
                  /\ t2[q] = t[g] /\ Len(q) <= Len(g) /\ Agree(q, g, Len(q))
                  /\ (q = p /\ g = l) \/ (q # p /\ g = q)
    <3>1. CASE q = p
      BY <2>1, <2>3, <2>4, <3>1
    <3>2. CASE q # p
      <4>1. q \in DOMAIN t /\ t2[q] = t[q] /\ Len(q) \in Nat
        BY <1>11, <2>3, <2>4, <3>2 DEF Closed, Bits
      <4> QED BY <3>2, <4>1 DEF Agree
    <3> QED BY <3>1, <3>2
  <2>6. ASSUME NEW q \in DOMAIN t2
        PROVE  Chain(t2[q], sz2, bf2) /\ Placed(q, sz2[t2[q][1]], i)
    <3>1. PICK g \in DOMAIN t \ {p} : t2[q] = t[g] /\ Len(q) <= Len(g) /\ Agree(q, g, Len(q))
      BY <2>5
    <3>2. Chain(t2[q], sz2, bf2) /\ sz2[t2[q][1]] = sized[t[g][1]]
      BY <1>9, <3>1
    <3> DEFINE s == sized[t[g][1]]
    <3>3. Placed(g, s, i) /\ g \in Bits /\ q \in Bits /\ s \in HeapSizes
      BY <1>6, <1>11, <2>4, NodeIs DEF Closed
    <3>4. Len(Path(s)) \in Nat /\ Len(q) \in Nat /\ Len(g) \in Nat
      BY <3>3, PathIs DEF Bits
    <3> HIDE DEF s
    <3>5. \A j \in 1..Len(q) : j \in 1..Len(g)
      BY <3>1, <3>4
    <3>6. Agree(q, Path(s), Len(q))
      BY <3>1, <3>3, <3>5 DEF Placed, Agree
    <3>7. Len(q) <= Len(Path(s))
      BY <3>1, <3>3, <3>4 DEF Placed
    <3>8. Placed(q, s, i)
      BY <3>3, <3>6, <3>7 DEF Placed
    <3> QED BY <3>2, <3>8 DEF s
  <2>7. ASSUME NEW q \in DOMAIN t2, NEW r \in DOMAIN t2, sz2[t2[q][1]] = sz2[t2[r][1]]
        PROVE  q = r
    <3>1. PICK g \in DOMAIN t \ {p} : t2[q] = t[g] /\ ((q = p /\ g = l) \/ (q # p /\ g = q))
      BY <2>5
    <3>2. PICK h \in DOMAIN t \ {p} : t2[r] = t[h] /\ ((r = p /\ h = l) \/ (r # p /\ h = r))
      BY <2>5
    <3>3. sized[t[g][1]] = sized[t[h][1]]
      BY <1>9, <2>7, <3>1, <3>2
    <3>4. g = h
      BY <1>7, <3>3
    <3>5. q # l /\ r # l
      BY <2>4
    <3> QED BY <3>1, <3>2, <3>4, <3>5
  <2>8. ASSUME NEW y \in DOMAIN sz2, compute_tree_index(sz2[y]) = i
        PROVE  \E q \in DOMAIN t2 : \E j \in 1..Len(t2[q]) : t2[q][j] = y
    <3>1. PICK g \in DOMAIN t : \E j \in 1..Len(t[g]) : t[g][j] = y
      BY <1>10, <2>8
    <3>2. PICK j \in 1..Len(t[g]) : t[g][j] = y
      BY <3>1
    <3>3. y # x
      BY <1>10, <2>8
    <3>4. g # p
      <4>1. ASSUME g = p PROVE FALSE
        <5>a. j \in 1..1
          BY <2>2, <4>1
        <5>1. j = 1
          BY <5>a
        <5> QED BY <1>4, <2>2, <3>2, <3>3, <4>1, <5>1
      <4> QED BY <4>1
    <3>5. CASE g = l
      <4>1. p \in DOMAIN t2 /\ t2[p] = t[g]
        BY <1>2, <2>3, <2>4, <3>4, <3>5
      <4> QED BY <3>2, <4>1
    <3>6. CASE g # l
      <4>1. g \in DOMAIN t2 /\ t2[g] = t[g]
        BY <2>3, <2>4, <3>4, <3>6
      <4> QED BY <3>2, <4>1
    <3> QED BY <3>5, <3>6
  <2>9. Closed(DOMAIN t2)
    <3>1. DOMAIN t2 \subseteq Bits
      BY <1>11, <2>4 DEF Closed
    <3>2. ASSUME NEW q \in DOMAIN t2, NEW n \in 0..Len(q) PROVE Prefix(q, n) \in DOMAIN t2
      <4>1. q \in DOMAIN t /\ q # l /\ q \in Bits /\ Len(q) \in Nat
        BY <1>11, <2>4 DEF Closed, Bits
      <4>2. Prefix(q, n) \in DOMAIN t
        BY <1>11, <3>2, <4>1 DEF Closed
      <4>3. ASSUME Prefix(q, n) = l PROVE FALSE
        <5>1. CASE n = Len(q)
          <6>1. Prefix(q, n) \in Bits /\ Len(Prefix(q, n)) = n /\ Agree(Prefix(q, n), q, n)
            BY <3>2, <4>1, PrefixIs
          <6>2. Prefix(q, n) = q
            BY <4>1, <5>1, <6>1, BitsEqual
          <6> QED BY <4>1, <4>3, <6>2
        <5>2. CASE n # Len(q)
          <6>1. n \in 0..(Len(q) - 1) /\ n + 1 \in 0..Len(q) /\ n + 1 \in 1..Len(q)
            BY <3>2, <4>1, <5>2
          <6>2. Child(Prefix(q, n), q[n + 1]) = Prefix(q, n + 1)
            BY <4>1, <6>1, OnTheWay
          <6>3. Prefix(q, n + 1) \in DOMAIN t
            BY <1>11, <4>1, <6>1 DEF Closed
          <6>4. q[n + 1] \in 0..1
            BY <4>1, <6>1 DEF Bits
          <6> QED BY <2>1, <4>3, <6>2, <6>3, <6>4
        <5> QED BY <5>1, <5>2
      <4> QED BY <2>4, <4>2, <4>3
    <3> QED BY <3>1, <3>2 DEF Closed
  <2> QED BY <2>4, <2>6, <2>7, <2>8, <2>9, Zenon DEF Trie, t2, sz2, bf2
<1> QED BY <1>12, <1>13
-----------------------------------------------------------------------------
(* The tries are empty at first.                                             *)
LEMMA BInvInit == BinInit => BInv
<1> SUFFICES ASSUME BinInit PROVE BInv
  OBVIOUS
<1>1. trees = [i \in 0..LastBin |-> <<>>] /\ sized = <<>> /\ before = {}
  BY DEF BinInit, EmptyTrie
<1>2. DOMAIN sized = {} /\ sized = [y \in DOMAIN sized |-> sized[y]]
  BY <1>1
<1>3. Sound(sized, before)
  BY <1>1, <1>2 DEF Sound
<1>4. ASSUME NEW i \in 0..LastBin PROVE Trie(trees[i], i, sized, before)
  <2> DEFINE t == trees[i]
  <2>1. t = <<>>
    BY <1>1
  <2> HIDE DEF t
  <2>2. DOMAIN t = {} /\ t = [q \in DOMAIN t |-> t[q]]
    BY <2>1
  <2>3. Trie(t, i, sized, before)
    BY <1>2, <2>2 DEF Trie, Closed
  <2> QED BY <2>3 DEF t
<1>5. trees = [i \in 0..LastBin |-> trees[i]]
  BY <1>1
<1> QED BY <1>3, <1>4, <1>5 DEF BInv

(* Both actions keep the invariant.                                          *)
LEMMA BInvInsert ==
    ASSUME BInv, NEW s \in ChunkSizes, NEW x \in Chunks, InsertLarge(x, s)
    PROVE  BInv'
<1> DEFINE j == compute_tree_index(s)
<1>1. x \in Chunks \ DOMAIN sized /\ sized' = Having(sized, x, s) /\ before' = Last(sized, before, x)
      /\ trees' = [trees EXCEPT ![j] = insert_large_chunk(trees[j], x, s)]
  BY DEF InsertLarge, Having, Last
<1>2. s \in HeapSizes
  <2>1. ChunkSizes \subseteq 16..(3 * 2^18 - 1)
    BY TreeBinAssumption, Zenon
  <2> QED BY <2>1 DEF HeapSizes
<1>3. j \in 0..LastBin
  BY <1>2, BinBits DEF LastBin
<1>4. Sound(sized, before) /\ trees = [i \in 0..LastBin |-> trees[i]]
      /\ \A i \in 0..LastBin : Trie(trees[i], i, sized, before)
  BY DEF BInv
<1>5. Sound(sized', before')
  BY <1>1, <1>2, <1>4, SoundInsert
<1>6. trees' = [i \in 0..LastBin |-> trees'[i]]
  BY <1>1, <1>4
<1>7. ASSUME NEW i \in 0..LastBin PROVE Trie(trees'[i], i, sized', before')
  <2>1. CASE i = j
    <3>1. Trie(trees[j], j, sized, before)
      BY <1>3, <1>4
    <3>2. Trie(insert_large_chunk(trees[j], x, s), j, Having(sized, x, s), Last(sized, before, x))
      BY <1>1, <1>2, <1>4, <3>1, InsertTrie
    <3>3. trees'[j] = insert_large_chunk(trees[j], x, s)
      BY <1>1, <1>3, <1>4
    <3> QED BY <1>1, <2>1, <3>2, <3>3
  <2>2. CASE i # j
    <3>1. Trie(trees[i], i, sized, before) /\ trees'[i] = trees[i]
      BY <1>1, <1>4, <2>2
    <3> QED BY <1>1, <1>4, <2>2, <3>1, OtherInsert
  <2> QED BY <2>1, <2>2
<1> QED BY <1>5, <1>6, <1>7 DEF BInv

(* Removal keeps it in its own bin and in the others.                        *)
LEMMA BInvUnlink ==
    ASSUME BInv, NEW x \in DOMAIN sized, UnlinkLarge(x)
    PROVE  BInv'
<1> DEFINE j == compute_tree_index(sized[x])
<1>1. sized' = Sans(sized, x) /\ before' = Apart(before, x)
      /\ trees' = [trees EXCEPT ![j] = unlink_large_chunk(trees[j], x)]
  BY DEF UnlinkLarge, Sans, Apart
<1>2. j \in 0..LastBin
  BY ChunkNode DEF LastBin
<1>3. Sound(sized, before) /\ trees = [i \in 0..LastBin |-> trees[i]]
      /\ \A i \in 0..LastBin : Trie(trees[i], i, sized, before)
  BY DEF BInv
<1>4. Sound(sized', before')
  BY <1>1, <1>3, SoundUnlink
<1>5. trees' = [i \in 0..LastBin |-> trees'[i]]
  BY <1>1, <1>3
<1>6. ASSUME NEW i \in 0..LastBin PROVE Trie(trees'[i], i, sized', before')
  <2>1. CASE i = j
    <3>1. Trie(trees[j], j, sized, before)
      BY <1>2, <1>3
    <3>2. Trie(unlink_large_chunk(trees[j], x), j, Sans(sized, x), Apart(before, x))
      BY <1>3, <3>1, UnlinkTrie
    <3>3. trees'[j] = unlink_large_chunk(trees[j], x)
      BY <1>1, <1>2, <1>3
    <3> QED BY <1>1, <2>1, <3>2, <3>3
  <2>2. CASE i # j
    <3>1. Trie(trees[i], i, sized, before) /\ trees'[i] = trees[i]
      BY <1>1, <1>3, <2>2
    <3> QED BY <1>1, <1>3, <2>2, <3>1, OtherUnlink
  <2> QED BY <2>1, <2>2
<1> QED BY <1>4, <1>5, <1>6 DEF BInv

(* And so does every step.                                                   *)
LEMMA BInvNext == BInv /\ [BinNext]_tries => BInv'
<1> SUFFICES ASSUME BInv, [BinNext]_tries PROVE BInv'
  OBVIOUS
<1>1. CASE BinNext
  BY <1>1, BInvInsert, BInvUnlink DEF BinNext
<1>2. CASE UNCHANGED tries
  BY <1>2 DEF tries, BInv
<1> QED BY <1>1, <1>2

(* The best fit is found after whatever insertions and removals: by          *)
(* tmalloc_large, along the bits of the size and down the right subtree that *)
(* it passed by last, and by tmalloc_small.                                  *)
THEOREM BestFitIsFound == BinSpec => []BestFitFound
<1>1. BinInit => BInv
  BY BInvInit
<1>2. BInv /\ [BinNext]_tries => BInv'
  BY BInvNext
<1>3. BInv => BestFitFound
  BY InvFinds
<1> QED BY <1>1, <1>2, <1>3, PTL DEF BinSpec
==============================================================================
