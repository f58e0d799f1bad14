----------------------------- MODULE ExFatProofs -----------------------------
(* The walk over a volume's directories and the stream of a file keep their  *)
(* types, and the walk does not leave the directories.  What the walks show of*)
(* a formatted volume is what is on it: ls answers with the directory it was *)
(* asked for, and tree prints the whole volume, or in order what it could read.*)
EXTENDS ExFat, FiniteSetTheorems, SequenceTheorems, WellFoundedInduction, TLAPS

(* Numbers: quotients and remainders, least and greatest elements.           *)

LEMMA DivUnique ==
    ASSUME NEW a \in Int, NEW b \in Nat \ {0}, NEW q \in Int, NEW r \in 0..(b - 1), a = b * q + r
    PROVE  a \div b = q /\ a % b = r
  OBVIOUS

LEMMA DivRange ==
    ASSUME NEW a \in Int, NEW b \in Nat \ {0}
    PROVE  a \div b \in Int /\ a % b \in 0..(b - 1) /\ a = b * (a \div b) + (a % b)
  OBVIOUS

(* A quotient of a number that is not negative is not negative.              *)
LEMMA DivNat ==
    ASSUME NEW a \in Nat, NEW b \in Nat \ {0}
    PROVE  a \div b \in Nat
  OBVIOUS

LEMMA ProductNat ==
    ASSUME NEW a \in Nat, NEW b \in Nat
    PROVE  a * b \in Nat
  OBVIOUS

LessThan == {x \in Nat \X Nat : x[1] < x[2]}

(* The order of the numbers is well-founded.                                 *)
LEMMA BelowWF == IsWellFoundedOn(LessThan, Nat)
  BY NatLessThanWellFounded DEF LessThan, OpToRel

(* A set of numbers has a least.                                             *)
LEMMA LeastNat ==
    ASSUME NEW S \in SUBSET Nat, S # {}
    PROVE  \E x \in S : \A y \in S : x <= y
<1>1. PICK x \in S : \A y \in S : ~(<<y, x>> \in LessThan)
  BY BelowWF, WFMin
<1>2. ASSUME NEW y \in S PROVE x <= y
  <2>1. <<y, x>> \notin LessThan
    BY <1>1
  <2>2. x \in Nat /\ y \in Nat
    OBVIOUS
  <2>3. <<y, x>> \in Nat \X Nat /\ <<y, x>>[1] = y /\ <<y, x>>[2] = x
    BY <2>2
  <2>4. ~ (y < x)
    BY <2>1, <2>3, Zenon DEF LessThan
  <2> QED BY <2>2, <2>4
<1> QED BY <1>2

(* A set of positions has a greatest.                                        *)
LEMMA GreatestPlace ==
    ASSUME NEW n \in Nat, NEW S \in SUBSET (1..n), S # {}
    PROVE  \E x \in S : \A y \in S : y <= x
<1> DEFINE T == {n - x : x \in S}
<1>1. T \in SUBSET Nat /\ T # {}
  <2>1. PICK x \in S : TRUE
    OBVIOUS
  <2>2. n - x \in T
    OBVIOUS
  <2> QED BY <2>2
<1>2. PICK t \in T : \A u \in T : t <= u
  <2> HIDE DEF T
  <2> QED BY <1>1, LeastNat
<1>3. PICK x \in S : t = n - x
  BY <1>2
<1>4. ASSUME NEW y \in S PROVE y <= x
  <2>1. n - y \in T
    OBVIOUS
  <2>2. t <= n - y
    BY <1>2, <2>1
  <2> QED BY <1>3, <2>2
<1> QED BY <1>4

(* The first of the places in a list.                                        *)
LEMMA FirstOfPlaces ==
    ASSUME NEW n \in Nat, NEW S \in SUBSET (1..n), S # {}
    PROVE  First(S) \in S /\ \A y \in S : First(S) <= y
<1>1. S \in SUBSET Nat
  OBVIOUS
<1>2. \E x \in S : \A y \in S : x <= y
  BY <1>1, LeastNat
<1> QED BY <1>2 DEF First
-----------------------------------------------------------------------------
(* Blocks and the entries in them.                                           *)

LEMMA BlockFacts ==
    /\ BlockSize \in Nat \ {0} /\ EntriesPerBlock \in Nat \ {0}
    /\ BlockSize = EntrySize * EntriesPerBlock /\ NumBlocks \in Nat
<1>1. BlockSize \in Nat /\ BlockSize >= 32 /\ BlockSize % 32 = 0 /\ NumBlocks \in Nat
  BY VolumeAssumption
<1> QED BY <1>1 DEF EntriesPerBlock, EntrySize

LEMMA ClusterFacts ==
    ASSUME NEW v \in Volumes
    PROVE  /\ v.clustersize \in Nat \ {0} /\ v.clusterheap_offset \in Nat
           /\ v.rootdir_start \in Nat /\ PerCluster(v) \in Nat \ {0}
           /\ \A c \in DOMAIN v.dirs : c \in Nat /\ c >= 2
<1>1. VolumeOK(v)
  BY VolumesAssumption
<1>2. /\ v.clustersize \in Nat \ {0} /\ v.clusterheap_offset \in Nat
      /\ v.rootdir_start \in Nat /\ DOMAIN v.dirs \subseteq Nat \ {0, 1}
  BY <1>1 DEF VolumeOK
<1>3. PerCluster(v) \in Nat \ {0}
  BY <1>2, BlockFacts DEF PerCluster
<1> QED BY <1>2, <1>3

(* A block within a cluster of the heap.                                     *)
LEMMA BlockPlace ==
    ASSUME NEW v \in Volumes, NEW c \in Nat, c >= 2, NEW q \in 0..(v.clustersize - 1)
    PROVE  /\ ClusterOf(v, cluster_to_block(v, c) + q) = c
           /\ BlockInCluster(v, cluster_to_block(v, c) + q) = q
           /\ cluster_to_block(v, c) + q >= v.clusterheap_offset
<1> DEFINE a == (c - 2) * v.clustersize + q
<1>1. v.clustersize \in Nat \ {0} /\ v.clusterheap_offset \in Nat /\ q \in Nat
  BY ClusterFacts
<1>2. (c - 2) * v.clustersize \in Nat
  BY <1>1, ProductNat
<1>3. cluster_to_block(v, c) + q = a + v.clusterheap_offset /\ a \in Nat
  BY <1>1, <1>2 DEF cluster_to_block
<1>4. a = v.clustersize * (c - 2) + q
  BY <1>1
<1>5. a \div v.clustersize = c - 2 /\ a % v.clustersize = q
  <2> DEFINE cs == v.clustersize
             k == c - 2
  <2>1. a \in Int /\ cs \in Nat \ {0} /\ k \in Int /\ q \in 0..(cs - 1) /\ a = cs * k + q
    BY <1>1, <1>3, <1>4
  <2>2. a \div cs = k /\ a % cs = q
    <3> HIDE DEF a, cs, k
    <3> QED BY <2>1, DivUnique
  <2> QED BY <2>2
<1>6. (cluster_to_block(v, c) + q) - v.clusterheap_offset = a
  BY <1>1, <1>3
<1>7. (c - 2) + 2 = c
  OBVIOUS
<1>8. a + v.clusterheap_offset >= v.clusterheap_offset
  BY <1>1, <1>3
<1> HIDE DEF a
<1> QED BY <1>3, <1>5, <1>6, <1>7, <1>8 DEF ClusterOf, BlockInCluster

(* Where in a directory's first cluster an entry is.                         *)
LEMMA EntryPlace ==
    ASSUME NEW v \in Volumes, NEW c \in DOMAIN v.dirs, NEW j \in 0..(PerCluster(v) - 1)
    PROVE  /\ ClusterOf(v, EntryBlock(v, c, j)) = c
           /\ EntryOf(v, c, j) = SlotOf(v, c, j)
<1> DEFINE cs == v.clustersize
           E == EntriesPerBlock
           q == j \div E
           r == j % E
           b == cluster_to_block(v, c)
<1>1. /\ cs \in Nat \ {0} /\ E \in Nat \ {0} /\ BlockSize = 32 * E /\ BlockSize \in Nat \ {0}
      /\ c \in Nat /\ c >= 2 /\ j \in Nat /\ j < cs * E /\ v.clusterheap_offset \in Nat
  BY ClusterFacts, BlockFacts DEF PerCluster, EntrySize
<1>2. b \in Nat
  <2>1. (c - 2) * cs \in Nat
    BY <1>1, ProductNat
  <2> QED BY <1>1, <2>1 DEF cluster_to_block
<1>3. r \in 0..(E - 1) /\ q \in Int /\ j = E * q + r
  <2>1. j \in Int
    BY <1>1
  <2> HIDE DEF E
  <2> QED BY <1>1, <2>1, DivRange
<1>4. q \in 0..(cs - 1)
  <2>1. q \in Nat
    BY <1>1, DivNat
  <2>2. ~(q >= cs)
    <3> SUFFICES ASSUME q >= cs PROVE FALSE
      OBVIOUS
    <3> HIDE DEF cs, E, q, r
    <3>1. E * q >= E * cs
      BY <1>1, <2>1
    <3> QED BY <1>1, <1>3, <2>1, <3>1
  <2> QED BY <1>1, <2>1, <2>2
<1>5. b * BlockSize + 32 * j = BlockSize * (b + q) + 32 * r /\ 32 * r \in 0..(BlockSize - 1)
  <2> HIDE DEF cs, E, q, r, b
  <2>1. 32 * j = (32 * E) * q + 32 * r
    BY <1>1, <1>3, <1>4
  <2>2. BlockSize * (b + q) = b * BlockSize + BlockSize * q
    BY <1>1, <1>2, <1>4
  <2>3. 32 * r \in 0..(BlockSize - 1)
    BY <1>1, <1>3
  <2> QED BY <1>1, <1>2, <1>3, <1>4, <2>1, <2>2, <2>3
<1>6. EntryBlock(v, c, j) = b + q /\ (b * BlockSize + 32 * j) % BlockSize = 32 * r
  <2>1. b * BlockSize + 32 * j \in Int /\ b + q \in Int
    <3> HIDE DEF cs, E, q, r, b
    <3>1. b * BlockSize \in Nat
      BY <1>1, <1>2, ProductNat
    <3> QED BY <1>1, <1>2, <1>4, <3>1
  <2> HIDE DEF cs, E, q, r, b
  <2>2. (b * BlockSize + 32 * j) \div BlockSize = b + q
        /\ (b * BlockSize + 32 * j) % BlockSize = 32 * r
    BY <1>1, <1>5, <2>1, DivUnique
  <2> USE DEF b
  <2> QED BY <2>2 DEF EntryBlock, EntrySize
<1>7. EntrySlot(v, c, j) = r
  <2>1. (32 * r) \div 32 = r
    BY <1>1, <1>3, DivUnique
  <2> HIDE DEF r
  <2> QED BY <1>6, <2>1 DEF EntrySlot, EntrySize
<1>8. /\ ClusterOf(v, b + q) = c /\ BlockInCluster(v, b + q) = q
      /\ b + q >= v.clusterheap_offset
  <2> HIDE DEF q
  <2> QED BY <1>1, <1>4, BlockPlace
<1>9. q * E + r + 1 = j + 1
  <2> HIDE DEF q, r, E
  <2> QED BY <1>1, <1>3, <1>4
<1>10. EntryAt(v, b + q, r) = SlotOf(v, c, j)
  <2>1. ~(b + q < v.clusterheap_offset)
    BY <1>1, <1>2, <1>4, <1>8
  <2> QED BY <1>8, <1>9, <2>1 DEF EntryAt, SlotOf
<1> QED BY <1>6, <1>7, <1>8, <1>10 DEF EntryOf, EntrySeen

(* An entry counted from a cluster is the one counted from a later cluster.  *)
LEMMA EntryShift ==
    ASSUME NEW v \in Volumes, NEW s \in Nat, s >= 2, NEW k \in Nat, NEW x \in Int
    PROVE  /\ EntryBlock(v, s, k * PerCluster(v) + x) = EntryBlock(v, s + k, x)
           /\ EntryOf(v, s, k * PerCluster(v) + x) = EntryOf(v, s + k, x)
<1> DEFINE cs == v.clustersize
           E == EntriesPerBlock
<1>1. /\ cs \in Nat \ {0} /\ E \in Nat \ {0} /\ BlockSize = 32 * E /\ v.clusterheap_offset \in Nat
  BY ClusterFacts, BlockFacts DEF EntrySize
<1>2. cluster_to_block(v, s + k) = cluster_to_block(v, s) + k * cs /\ cluster_to_block(v, s) \in Int
  <2>1. ((s + k) - 2) * cs = (s - 2) * cs + k * cs
    <3> HIDE DEF cs
    <3> QED BY <1>1
  <2>2. (s - 2) * cs \in Int /\ k * cs \in Int
    <3> HIDE DEF cs
    <3> QED BY <1>1
  <2> QED BY <1>1, <2>1, <2>2 DEF cluster_to_block
<1>3. cluster_to_block(v, s) * BlockSize + 32 * (k * (cs * E) + x)
        = cluster_to_block(v, s + k) * BlockSize + 32 * x
  <2> DEFINE b == cluster_to_block(v, s)
  <2> HIDE DEF cs, E, b
  <2>1. (b + k * cs) * (32 * E) = b * (32 * E) + 32 * (k * (cs * E))
    BY <1>1, <1>2 DEF b
  <2>2. k * (cs * E) \in Int /\ b * (32 * E) \in Int
    BY <1>1, <1>2 DEF b
  <2>3. 32 * (k * (cs * E) + x) = 32 * (k * (cs * E)) + 32 * x
    BY <2>2
  <2> QED BY <1>1, <1>2, <2>1, <2>2, <2>3 DEF b
<1>4. /\ EntryBlock(v, s, k * PerCluster(v) + x) = EntryBlock(v, s + k, x)
      /\ EntrySlot(v, s, k * PerCluster(v) + x) = EntrySlot(v, s + k, x)
  BY <1>3 DEF EntryBlock, EntrySlot, EntrySize, PerCluster
<1> QED BY <1>4 DEF EntryOf, EntrySeen
-----------------------------------------------------------------------------
(* Places within a directory whose clusters follow each other.               *)

(* Entry i, counted from cluster s, is in a cluster of a directory.          *)
Inside(v, s, i) ==
    \E k \in Nat, j \in 0..(PerCluster(v) - 1) :
        i = k * PerCluster(v) + j /\ s + k \in DOMAIN v.dirs

LEMMA InsideEntry ==
    ASSUME NEW v \in Volumes, NEW s \in DOMAIN v.dirs, NEW k \in Nat,
           NEW j \in 0..(PerCluster(v) - 1), s + k \in DOMAIN v.dirs
    PROVE  /\ ClusterOf(v, EntryBlock(v, s, k * PerCluster(v) + j)) = s + k
           /\ EntryOf(v, s, k * PerCluster(v) + j) = SlotOf(v, s + k, j)
<1>1. s \in Nat /\ s >= 2 /\ j \in Int
  BY ClusterFacts
<1>2. /\ EntryBlock(v, s, k * PerCluster(v) + j) = EntryBlock(v, s + k, j)
      /\ EntryOf(v, s, k * PerCluster(v) + j) = EntryOf(v, s + k, j)
  BY <1>1, EntryShift
<1>3. ClusterOf(v, EntryBlock(v, s + k, j)) = s + k /\ EntryOf(v, s + k, j) = SlotOf(v, s + k, j)
  BY EntryPlace
<1> QED BY <1>2, <1>3

LEMMA InsideBlock ==
    ASSUME NEW v \in Volumes, NEW s \in DOMAIN v.dirs, NEW i \in Nat, Inside(v, s, i)
    PROVE  ClusterOf(v, EntryBlock(v, s, i)) \in DOMAIN v.dirs
  BY InsideEntry DEF Inside

(* An entry that is not the end is followed by another one.                  *)
LEMMA Advance ==
    ASSUME NEW v \in Volumes, Contiguous(v), ChainsWhole(v), NEW s \in DOMAIN v.dirs,
           NEW i \in Nat, Inside(v, s, i), EntryType(EntryOf(v, s, i)) # "end"
    PROVE  Inside(v, s, i + 1)
<1> DEFINE n == PerCluster(v)
<1>1. PICK k \in Nat, j \in 0..(n - 1) : i = k * n + j /\ s + k \in DOMAIN v.dirs
  BY DEF Inside
<1>2. n \in Nat \ {0} /\ s \in Nat /\ \A c \in DOMAIN v.dirs : c \in Nat /\ c >= 2
  BY ClusterFacts
<1>3. EntryOf(v, s, i) = SlotOf(v, s + k, j)
  BY <1>1, InsideEntry
<1>4. CASE j + 1 < n
  <2>1. j + 1 \in 0..(n - 1) /\ i + 1 = k * n + (j + 1)
    <3> HIDE DEF n
    <3> QED BY <1>1, <1>2, <1>4
  <2> QED BY <1>1, <2>1 DEF Inside
<1>5. CASE j + 1 = n
  <2>1. v.next[s + k] # LastCluster
    <3> SUFFICES ASSUME v.next[s + k] = LastCluster PROVE FALSE
      OBVIOUS
    <3>1. Len(v.dirs[s + k]) < n
      BY <1>1 DEF Contiguous, PerCluster
    <3>2. SlotOf(v, s + k, j) = Blank
      <4> HIDE DEF n
      <4> QED BY <1>5, <3>1 DEF SlotOf
    <3> QED BY <1>3, <3>2 DEF Blank, EntryType
  <2>2. v.next[s + k] = s + k + 1
    BY <1>1, <2>1 DEF Contiguous
  <2>3. s + k + 1 \in DOMAIN v.dirs
    BY <1>1, <2>1, <2>2 DEF ChainsWhole
  <2>4. i + 1 = (k + 1) * n + 0 /\ k + 1 \in Nat /\ 0 \in 0..(n - 1) /\ s + (k + 1) = s + k + 1
    <3> HIDE DEF n
    <3> QED BY <1>1, <1>2, <1>5
  <2> QED BY <2>3, <2>4 DEF Inside
<1> QED BY <1>1, <1>2, <1>4, <1>5

(* A file set lies in its directory to its last entry, and another follows.  *)
LEMMA SetInside ==
    ASSUME NEW v \in Volumes, Contiguous(v), ChainsWhole(v), SetsWhole(v),
           NEW s \in DOMAIN v.dirs, NEW i \in Nat, Inside(v, s, i),
           EntryOf(v, s, i).code = "file"
    PROVE  LET e == EntryOf(v, s, i)
               second == EntryOf(v, s, i + 1)
           IN /\ \A m \in 0..(e.secondary + 1) : Inside(v, s, i + m)
              /\ e.directory /\ second.code = "stream" => second.first \in DOMAIN v.dirs
<1> DEFINE n == PerCluster(v)
           e == EntryOf(v, s, i)
<1>1. PICK k \in Nat, j \in 0..(n - 1) : i = k * n + j /\ s + k \in DOMAIN v.dirs
  BY DEF Inside
<1>2. n \in Nat \ {0} /\ s \in Nat /\ s >= 2 /\ j \in Nat
  BY <1>1, ClusterFacts
<1>3. VolumeOK(v)
  BY VolumesAssumption
<1> DEFINE c == s + k
<1>4. e = SlotOf(v, c, j)
  BY <1>1, InsideEntry
<1>5. j + 1 \in DOMAIN v.dirs[c] /\ e = v.dirs[c][j + 1]
  <2>1. e # Blank
    BY DEF Blank
  <2>2. ~(j + 1 > Len(v.dirs[c])) /\ e = v.dirs[c][j + 1]
    BY <1>4, <2>1 DEF SlotOf
  <2>3. DOMAIN v.dirs[c] = 1..Len(v.dirs[c]) /\ Len(v.dirs[c]) \in Nat
    BY <1>1, <1>3 DEF VolumeOK
  <2> QED BY <1>2, <2>2, <2>3
<1>6. e.secondary \in Nat \ {0}
  BY <1>1, <1>3, <1>5 DEF VolumeOK
<1>7. /\ \A m \in 1..e.secondary : EntryType(EntryOf(v, c, (j + 1) - 1 + m)) # "end"
      /\ e.directory /\ EntryOf(v, c, j + 1).code = "stream"
            => EntryOf(v, c, j + 1).first \in DOMAIN v.dirs
  BY <1>1, <1>5 DEF SetsWhole
<1>8. ASSUME NEW m \in Nat PROVE EntryOf(v, s, i + m) = EntryOf(v, c, j + m)
  <2>1. k * n + (j + m) = i + m /\ j + m \in Int
    <3> HIDE DEF n
    <3> QED BY <1>1, <1>2
  <2>2. EntryOf(v, s, k * n + (j + m)) = EntryOf(v, c, j + m)
    BY <1>2, <2>1, EntryShift
  <2> QED BY <2>1, <2>2
<1>9. \A m \in 0..e.secondary : EntryType(EntryOf(v, s, i + m)) # "end"
  <2> SUFFICES ASSUME NEW m \in 0..e.secondary
               PROVE  EntryType(EntryOf(v, s, i + m)) # "end"
    OBVIOUS
  <2>1. CASE m = 0
    <3>1. i + m = i
      BY <2>1
    <3> QED BY <3>1 DEF EntryType
  <2>2. CASE m # 0
    <3>1. m \in 1..e.secondary /\ m \in Nat /\ (j + 1) - 1 + m = j + m
      BY <1>2, <1>6, <2>2
    <3>2. EntryType(EntryOf(v, c, j + m)) # "end"
      BY <1>7, <3>1
    <3> QED BY <1>8, <3>1, <3>2
  <2> QED BY <2>1, <2>2
<1>10. \A m \in 0..(e.secondary + 1) : Inside(v, s, i + m)
  <2> DEFINE bad == {m \in 0..(e.secondary + 1) : ~Inside(v, s, i + m)}
  <2> SUFFICES ASSUME bad # {} PROVE FALSE
    OBVIOUS
  <2>1. bad \in SUBSET Nat
    BY <1>6
  <2>2. PICK l \in bad : \A m \in bad : l <= m
    <3> HIDE DEF bad
    <3> QED BY <2>1, LeastNat
  <2>3. l \in 0..(e.secondary + 1) /\ ~Inside(v, s, i + l) /\ l \in Nat
    BY <1>6
  <2>4. l # 0
    <3>1. l = 0 => i + l = i
      OBVIOUS
    <3> QED BY <2>3, <3>1
  <2>5. l - 1 \in 0..e.secondary /\ l - 1 \in Nat /\ l - 1 \in 0..(e.secondary + 1)
        /\ (i + (l - 1)) + 1 = i + l /\ i + (l - 1) \in Nat /\ ~(l <= l - 1)
    BY <1>6, <2>3, <2>4
  <2>6. Inside(v, s, i + (l - 1))
    <3>1. l - 1 \notin bad
      BY <2>2, <2>5
    <3> QED BY <2>5, <3>1
  <2>7. EntryType(EntryOf(v, s, i + (l - 1))) # "end"
    BY <1>9, <2>5
  <2>8. Inside(v, s, (i + (l - 1)) + 1)
    BY <2>5, <2>6, <2>7, Advance
  <2> QED BY <2>3, <2>5, <2>8
<1>11. EntryOf(v, s, i + 1) = EntryOf(v, c, j + 1)
  BY <1>8
<1> QED BY <1>7, <1>10, <1>11
-----------------------------------------------------------------------------
(* What entries there are.                                                   *)

(* What the entries of a volume carry of names.                              *)
Parts(v) ==
    (UNION {{v.dirs[c][i].part : i \in DOMAIN v.dirs[c]} : c \in DOMAIN v.dirs}) \cup {Garbled}

LEMMA GarbledPart ==
    ASSUME NEW v
    PROVE  Garbled \in Parts(v)
<1>1. Garbled \in {Garbled}
  OBVIOUS
<1> QED BY <1>1, Zenon DEF Parts

EntryOK(v, e) ==
    /\ e.code = "file" => e.secondary \in Nat \ {0} /\ e.directory \in BOOLEAN
    /\ e.code = "stream" => e.first \in Nat /\ e.length \in Nat
    /\ e.code = "name" => e.part \in Parts(v)

(* The fields of a superblock on the stack are numbers.                      *)
LEMMA LeftoverFacts ==
    ASSUME NEW u \in Leftovers
    PROVE  u.clustersize \in Nat /\ u.clusterheap_offset \in Nat /\ u.rootdir_start \in Nat
<1>1. CASE u \in Garbage
  BY <1>1, GarbageAssumption
<1>2. CASE \E v \in Volumes : u = Superblock(v)
  BY <1>2, ClusterFacts DEF Superblock
<1> QED BY <1>1, <1>2 DEF Leftovers

(* With a volume's own superblock its own entries are seen.                  *)
LEMMA SeenOwn ==
    ASSUME NEW v, NEW s, NEW i
    PROVE  /\ EntrySeen(v, Superblock(v), s, i) = EntryOf(v, s, i)
           /\ EntryBlock(Superblock(v), s, i) = EntryBlock(v, s, i)
<1>1. cluster_to_block(Superblock(v), s) = cluster_to_block(v, s)
  BY DEF Superblock, cluster_to_block
<1> QED BY <1>1 DEF EntrySeen, EntryOf, EntryBlock, EntrySlot

LEMMA EntriesOK ==
    ASSUME NEW v \in Volumes, NEW u \in Leftovers, NEW s \in Nat, NEW i \in Nat
    PROVE  EntryOK(v, EntrySeen(v, u, s, i))
<1> DEFINE b == EntryBlock(u, s, i)
           t == EntrySlot(u, s, i)
           c == ClusterOf(v, b)
           slot == BlockInCluster(v, b) * EntriesPerBlock + t + 1
<1>1. /\ v.clustersize \in Nat \ {0} /\ v.clusterheap_offset \in Nat
      /\ BlockSize \in Nat \ {0} /\ EntriesPerBlock \in Nat \ {0} /\ NumBlocks \in Nat
      /\ u.clustersize \in Nat /\ u.clusterheap_offset \in Nat
  BY ClusterFacts, BlockFacts, LeftoverFacts
<1>2. cluster_to_block(u, s) \in Int
  BY <1>1 DEF cluster_to_block
<1>3. b \in Int /\ t \in Nat
  <2> DEFINE a == cluster_to_block(u, s) * BlockSize + EntrySize * i
  <2>1. a \in Int
    <3>1. cluster_to_block(u, s) * BlockSize \in Int
      BY <1>1, <1>2
    <3> QED BY <3>1 DEF EntrySize
  <2>2. a \div BlockSize \in Int /\ a % BlockSize \in 0..(BlockSize - 1)
    <3> HIDE DEF a
    <3> QED BY <1>1, <2>1, DivRange
  <2>3. a % BlockSize \in Nat
    BY <1>1, <2>2
  <2>4. (a % BlockSize) \div 32 \in Nat
    <3> DEFINE m == a % BlockSize
    <3>1. m \in Nat
      BY <2>3
    <3> HIDE DEF m
    <3>2. m \div 32 \in Nat
      BY <3>1, DivNat
    <3> USE DEF m
    <3> QED BY <3>2
  <2> QED BY <2>2, <2>4 DEF EntryBlock, EntrySlot, EntrySize
<1>4. slot \in Nat \ {0}
  <2> DEFINE q == BlockInCluster(v, b)
  <2>1. q \in Nat
    <3> DEFINE a == b - v.clusterheap_offset
               cs == v.clustersize
    <3>1. a \in Int /\ cs \in Nat \ {0}
      BY <1>1, <1>3
    <3>2. a % cs \in 0..(cs - 1)
      <4> HIDE DEF a, cs
      <4> QED BY <3>1, DivRange
    <3>3. a % cs \in Nat
      <4> DEFINE m == a % cs
      <4> HIDE DEF a, cs, m
      <4>1. m \in 0..(cs - 1)
        BY <3>2 DEF m
      <4>2. m \in Nat
        BY <3>1, <4>1
      <4> QED BY <4>2 DEF m
    <3> QED BY <3>3 DEF BlockInCluster
  <2> HIDE DEF q, t
  <2>2. q * EntriesPerBlock \in Nat
    BY <1>1, <2>1, ProductNat
  <2>3. q * EntriesPerBlock + t + 1 \in Nat \ {0}
    BY <1>3, <2>2
  <2> QED BY <2>3 DEF q
<1>5. EntrySeen(v, u, s, i) = EntryAt(v, b, t)
  BY DEF EntrySeen
<1> HIDE DEF b, t, slot
<1>6. CASE c \in DOMAIN v.dirs /\ ~(slot > Len(v.dirs[c])) /\ EntrySeen(v, u, s, i) = v.dirs[c][slot]
  <2>1. VolumeOK(v)
    BY VolumesAssumption
  <2>2. DOMAIN v.dirs[c] = 1..Len(v.dirs[c]) /\ Len(v.dirs[c]) \in Nat
    BY <1>6, <2>1 DEF VolumeOK
  <2>3. slot \in DOMAIN v.dirs[c]
    BY <1>4, <1>6, <2>2
  <2>4. v.dirs[c][slot].part \in Parts(v)
    <3>1. v.dirs[c][slot].part \in {v.dirs[c][k].part : k \in DOMAIN v.dirs[c]}
      BY <2>3
    <3>2. \A S : S \in {{v.dirs[x][k].part : k \in DOMAIN v.dirs[x]} : x \in DOMAIN v.dirs}
              => S \subseteq Parts(v)
      BY DEF Parts
    <3> QED BY <1>6, <3>1, <3>2
  <2> DEFINE e == v.dirs[c][slot]
  <2>5. /\ e.code = "file" => e.secondary \in Nat \ {0} /\ e.directory \in BOOLEAN
        /\ e.code = "stream" => e.first \in Nat /\ e.length \in Nat
    BY <1>6, <2>1, <2>3 DEF VolumeOK
  <2> QED BY <1>6, <2>4, <2>5 DEF EntryOK
<1>7. CASE EntrySeen(v, u, s, i) = Foreign \/ EntrySeen(v, u, s, i) = Blank
  BY <1>7 DEF EntryOK, Foreign, Blank
<1> QED BY <1>5, <1>6, <1>7 DEF EntryAt, slot
-----------------------------------------------------------------------------
(* The reader of a directory.                                                *)

Dirents(v) == [name : Seq(Parts(v)), is_dir : BOOLEAN, byte_size : Nat, start_cluster : Nat]

(* A volume whose directories the reader can follow.                         *)
Sound(v) == Contiguous(v) /\ ChainsWhole(v) /\ SetsWhole(v)

(* The reader can follow it with the superblock it has.                      *)
Right(v, u) == u = Superblock(v) /\ Sound(v)

(* What a list may hold: a directory leads to one.                           *)
Listable(v, u) ==
    {d \in Dirents(v) : Right(v, u) /\ d.is_dir => d.start_cluster \in DOMAIN v.dirs}

Readers(v, u) ==
    [phase : {"off", "boot", "entry", "stream", "name", "done"}, start : Nat, idx : Nat,
     list : Seq(Listable(v, u)), cur : Dirents(v), left : Nat, count : Nat,
     part : Parts(v)]

(* The entries of a set are counted down from its file entry.                *)
CountOK(v, u, r) ==
    /\ r.phase \in {"stream", "name"} => r.count >= 1
    /\ r.phase = "name" => r.left >= 1 /\ r.left < r.count /\ r.cur \in Listable(v, u)

(* The reader stands at an entry of a directory, and within a set at that    *)
(* set's file entry.                                                         *)
AtEntry(v, r) == r.start \in DOMAIN v.dirs /\ Inside(v, r.start, r.idx)
AtSet(v, r) ==
    LET e == EntryOf(v, r.start, r.idx)
    IN AtEntry(v, r) /\ e.code = "file" /\ e.secondary = r.count /\ e.directory = r.cur.is_dir
PlaceOK(v, u, r) ==
    Right(v, u) =>
        /\ r.phase = "entry" => AtEntry(v, r)
        /\ r.phase \in {"stream", "name"} => AtSet(v, r)

ReaderOK(v, u, r) == r \in Readers(v, u) /\ CountOK(v, u, r) /\ PlaceOK(v, u, r)

(* A list is empty or of such entries; nothing and a new reader are all right*)
LEMMA NewReader ==
    ASSUME NEW v \in Volumes, NEW u \in Leftovers
    PROVE  /\ NoDirent \in Dirents(v)
           /\ ReaderOK(v, u, NoReader) /\ ReaderOK(v, u, [NoReader EXCEPT !.phase = "boot"])
           /\ \A c \in Nat : (Right(v, u) => c \in DOMAIN v.dirs) => ReaderOK(v, u, Reader(c))
<1>1. NoDirent \in Dirents(v)
  BY DEF NoDirent, Dirents
<1>2. NoReader \in Readers(v, u) /\ [NoReader EXCEPT !.phase = "boot"] \in Readers(v, u)
      /\ \A c \in Nat : Reader(c) \in Readers(v, u)
  <2> DEFINE L == Listable(v, u)
             D == Dirents(v)
  <2>1. <<>> \in Seq(L) /\ 0 \in Nat /\ Garbled \in Parts(v)
    BY GarbledPart
  <2> HIDE DEF L, D
  <2>2. NoReader \in Readers(v, u)
    BY <1>1, <2>1 DEF NoReader, Readers, L, D
  <2>3. /\ [NoReader EXCEPT !.phase = "boot"] \in Readers(v, u)
        /\ \A c \in Nat : Reader(c) \in Readers(v, u)
    BY <2>2 DEF Reader, Readers
  <2> QED BY <2>2, <2>3
<1>3. /\ NoReader.phase = "off" /\ [NoReader EXCEPT !.phase = "boot"].phase = "boot"
      /\ \A c \in Nat : Reader(c).phase = "entry" /\ Reader(c).start = c /\ Reader(c).idx = 0
  BY DEF NoReader, Reader
<1>4. ASSUME NEW c \in DOMAIN v.dirs PROVE Inside(v, c, 0)
  <2>1. PerCluster(v) \in Nat \ {0} /\ c \in Nat
    BY ClusterFacts
  <2>2. 0 = 0 * PerCluster(v) + 0 /\ 0 \in 0..(PerCluster(v) - 1) /\ c + 0 = c
    BY <2>1
  <2> QED BY <2>2 DEF Inside
<1>5. ASSUME NEW c \in Nat, Right(v, u) => c \in DOMAIN v.dirs PROVE ReaderOK(v, u, Reader(c))
  <2>1. Right(v, u) => AtEntry(v, Reader(c))
    BY <1>3, <1>4, <1>5 DEF AtEntry
  <2> QED BY <1>2, <1>3, <2>1 DEF ReaderOK, CountOK, PlaceOK
<1>6. ReaderOK(v, u, NoReader) /\ ReaderOK(v, u, [NoReader EXCEPT !.phase = "boot"])
  BY <1>2, <1>3 DEF ReaderOK, CountOK, PlaceOK
<1> QED BY <1>1, <1>5, <1>6

(* The reader gives up, or reaches the end.                                  *)
LEMMA ReaderStops ==
    ASSUME NEW v \in Volumes, NEW u \in Leftovers, NEW r, ReaderOK(v, u, r)
    PROVE  /\ ReaderOK(v, u, [r EXCEPT !.phase = "done", !.list = <<>>])
           /\ ReaderOK(v, u, [r EXCEPT !.phase = "done"])
<1>1. r \in Readers(v, u)
  BY DEF ReaderOK
<1> DEFINE a == [r EXCEPT !.phase = "done", !.list = <<>>]
           b == [r EXCEPT !.phase = "done"]
<1>2. a \in Readers(v, u) /\ b \in Readers(v, u) /\ a.phase = "done" /\ b.phase = "done"
  <2> DEFINE L == Listable(v, u)
  <2>1. <<>> \in Seq(L)
    OBVIOUS
  <2>2. b \in Readers(v, u) /\ b.phase = "done" /\ a.phase = "done"
    BY <1>1 DEF Readers
  <2>3. a \in Readers(v, u)
    <3> HIDE DEF L
    <3> QED BY <1>1, <2>1 DEF Readers, L
  <2> QED BY <2>2, <2>3
<1> HIDE DEF a, b
<1>3. ReaderOK(v, u, a) /\ ReaderOK(v, u, b)
  BY <1>2 DEF ReaderOK, CountOK, PlaceOK
<1> QED BY <1>3 DEF a, b

(* The entries the reader looks at are typed, and in a directory.            *)
LEMMA EntryTypes ==
    ASSUME NEW v, NEW e, EntryOK(v, e)
    PROVE  /\ EntryType(e) = "file" => /\ e.code = "file" /\ e.secondary \in Nat \ {0}
                                       /\ e.directory \in BOOLEAN
           /\ EntryType(e) = "stream" => e.code = "stream" /\ e.first \in Nat /\ e.length \in Nat
           /\ EntryType(e) = "name" => e.part \in Parts(v)
<1>1. /\ EntryType(e) = "file" => e.code = "file"
      /\ EntryType(e) = "stream" => e.code = "stream"
      /\ EntryType(e) = "name" => e.code = "name"
  BY DEF EntryType
<1> QED BY <1>1 DEF EntryOK

LEMMA ReaderEntry ==
    ASSUME NEW v \in Volumes, NEW u \in Leftovers, NEW r, ReaderOK(v, u, r), r.phase = "entry"
    PROVE  LET e == EntrySeen(v, u, r.start, r.idx) IN
           /\ EntryType(e) = "file" =>
                 ReaderOK(v, u, [r EXCEPT !.phase = "stream", !.count = e.secondary,
                                       !.cur = [NoDirent EXCEPT !.is_dir = e.directory]])
           /\ EntryType(e) # "end" => ReaderOK(v, u, [r EXCEPT !.idx = @ + 1])
<1> DEFINE e == EntrySeen(v, u, r.start, r.idx)
           d == [NoDirent EXCEPT !.is_dir = e.directory]
           a == [r EXCEPT !.phase = "stream", !.count = e.secondary, !.cur = d]
           b == [r EXCEPT !.idx = @ + 1]
<1>1. r \in Readers(v, u) /\ PlaceOK(v, u, r)
  BY DEF ReaderOK
<1>2. r.start \in Nat /\ r.idx \in Nat
  BY <1>1 DEF Readers
<1>3. EntryOK(v, e)
  BY <1>2, EntriesOK
<1>4. ASSUME EntryType(e) = "file" PROVE ReaderOK(v, u, a)
  <2>1. e.code = "file" /\ e.secondary \in Nat \ {0} /\ e.directory \in BOOLEAN
    BY <1>3, <1>4, EntryTypes
  <2>2. d \in Dirents(v) /\ d.is_dir = e.directory
    BY <2>1, NewReader DEF NoDirent, Dirents
  <2>3. /\ a \in Readers(v, u) /\ a.phase = "stream" /\ a.count = e.secondary /\ a.cur = d
        /\ a.start = r.start /\ a.idx = r.idx
    <3> HIDE DEF d, e
    <3> QED BY <1>1, <2>1, <2>2 DEF Readers
  <2>4. Right(v, u) => AtSet(v, a)
    <3>1. Right(v, u) => e = EntryOf(v, r.start, r.idx)
      BY SeenOwn DEF Right
    <3> HIDE DEF a, d, e
    <3> QED BY <1>1, <2>1, <2>2, <2>3, <3>1 DEF PlaceOK, AtSet, AtEntry
  <2> HIDE DEF a, d, e
  <2>5. CountOK(v, u, a)
    BY <2>1, <2>3 DEF CountOK
  <2> QED BY <2>3, <2>4, <2>5 DEF ReaderOK, PlaceOK
<1>5. ASSUME EntryType(e) # "end" PROVE ReaderOK(v, u, b)
  <2>1. /\ b \in Readers(v, u) /\ b.phase = "entry" /\ b.start = r.start /\ b.idx = r.idx + 1
    BY <1>1, <1>2 DEF Readers
  <2>2. Right(v, u) => AtEntry(v, b)
    <3> SUFFICES ASSUME Right(v, u) PROVE AtEntry(v, b)
      OBVIOUS
    <3>1. r.start \in DOMAIN v.dirs /\ Inside(v, r.start, r.idx)
      BY <1>1 DEF PlaceOK, AtEntry
    <3>2. EntryType(EntryOf(v, r.start, r.idx)) # "end"
      BY <1>5, SeenOwn DEF Right
    <3>3. Inside(v, r.start, r.idx + 1)
      BY <1>2, <3>1, <3>2, Advance DEF Right, Sound
    <3> HIDE DEF b
    <3> QED BY <2>1, <3>1, <3>3 DEF AtEntry
  <2> HIDE DEF b
  <2> QED BY <2>1, <2>2 DEF ReaderOK, PlaceOK, CountOK
<1> QED BY <1>4, <1>5

(* The set is complete: the reader goes on behind it.                        *)
LEMMA ReaderLinks ==
    ASSUME NEW v \in Volumes, NEW u \in Leftovers, NEW r, ReaderOK(v, u, r), r.phase \in {"stream", "name"},
           NEW d \in Listable(v, u)
    PROVE  ReaderOK(v, u, Linked(r, d))
<1> DEFINE a == Linked(r, d)
<1>1. r \in Readers(v, u) /\ PlaceOK(v, u, r) /\ r.start \in Nat /\ r.idx \in Nat /\ r.count \in Nat
  BY DEF ReaderOK, Readers
<1>2. NoDirent \in Dirents(v) /\ Append(r.list, d) \in Seq(Listable(v, u))
  BY <1>1, NewReader DEF Readers
<1>3. /\ a \in Readers(v, u) /\ a.phase = "entry" /\ a.start = r.start
      /\ a.idx = r.idx + (r.count + 1)
  <2>1. r.idx + r.count + 1 \in Nat /\ r.idx + r.count + 1 = r.idx + (r.count + 1)
    BY <1>1
  <2>2. Garbled \in Parts(v)
    BY GarbledPart
  <2> QED BY <1>1, <1>2, <2>1, <2>2 DEF Linked, Readers
<1>4. Right(v, u) => AtEntry(v, a)
  <2> SUFFICES ASSUME Right(v, u) PROVE AtEntry(v, a)
    OBVIOUS
  <2>1. AtSet(v, r)
    BY <1>1 DEF PlaceOK
  <2>2. /\ r.start \in DOMAIN v.dirs /\ Inside(v, r.start, r.idx)
        /\ EntryOf(v, r.start, r.idx).code = "file"
        /\ EntryOf(v, r.start, r.idx).secondary = r.count
    BY <2>1 DEF AtSet, AtEntry
  <2>3. \A m \in 0..(r.count + 1) : Inside(v, r.start, r.idx + m)
    BY <1>1, <2>2, SetInside DEF Right, Sound
  <2>4. r.count + 1 \in 0..(r.count + 1)
    BY <1>1
  <2>5. Inside(v, r.start, r.idx + (r.count + 1))
    BY <2>3, <2>4
  <2> HIDE DEF a
  <2> QED BY <1>3, <2>2, <2>5 DEF AtEntry
<1> HIDE DEF a
<1>5. ReaderOK(v, u, a)
  BY <1>3, <1>4 DEF ReaderOK, CountOK, PlaceOK
<1> QED BY <1>5 DEF a

(* The stream extension completes the set, or parts of a name follow.        *)
LEMMA ReaderStream ==
    ASSUME NEW v \in Volumes, NEW u \in Leftovers, NEW r, ReaderOK(v, u, r), r.phase = "stream",
           EntryType(EntrySeen(v, u, r.start, r.idx + 1)) = "stream"
    PROVE  LET e == EntrySeen(v, u, r.start, r.idx + 1)
               cur == [r.cur EXCEPT !.byte_size = e.length, !.start_cluster = e.first]
           IN ReaderOK(v, u, IF r.count = 1 THEN Linked(r, [cur EXCEPT !.name = <<Garbled>>])
                             ELSE [r EXCEPT !.phase = "name", !.cur = cur,
                                            !.left = r.count - 1, !.part = Garbled])
<1> DEFINE e == EntrySeen(v, u, r.start, r.idx + 1)
           cur == [r.cur EXCEPT !.byte_size = e.length, !.start_cluster = e.first]
           nameless == [cur EXCEPT !.name = <<Garbled>>]
           a == [r EXCEPT !.phase = "name", !.cur = cur, !.left = r.count - 1, !.part = Garbled]
<1>1. /\ r \in Readers(v, u) /\ PlaceOK(v, u, r) /\ r.start \in Nat /\ r.idx + 1 \in Nat
      /\ r.idx \in Nat /\ r.count \in Nat /\ r.count >= 1 /\ r.cur \in Dirents(v)
  BY DEF ReaderOK, Readers, CountOK
<1>2. e.code = "stream" /\ e.first \in Nat /\ e.length \in Nat
  BY <1>1, EntriesOK, EntryTypes
<1>3. cur \in Dirents(v) /\ cur.is_dir = r.cur.is_dir /\ cur.start_cluster = e.first
  <2> HIDE DEF e
  <2> QED BY <1>1, <1>2 DEF Dirents
<1>4. cur \in Listable(v, u)
  <2>1. ASSUME Right(v, u), r.cur.is_dir PROVE e.first \in DOMAIN v.dirs
    <3>1. AtSet(v, r)
      BY <1>1, <2>1 DEF PlaceOK
    <3>2. /\ r.start \in DOMAIN v.dirs /\ Inside(v, r.start, r.idx)
          /\ EntryOf(v, r.start, r.idx).code = "file"
          /\ EntryOf(v, r.start, r.idx).directory
      BY <2>1, <3>1 DEF AtSet, AtEntry
    <3>3. e = EntryOf(v, r.start, r.idx + 1)
      BY <2>1, SeenOwn DEF Right
    <3> HIDE DEF e
    <3> QED BY <1>1, <1>2, <2>1, <3>2, <3>3, SetInside DEF Right, Sound
  <2> HIDE DEF cur
  <2> QED BY <1>3, <2>1 DEF Listable
<1> HIDE DEF cur
<1>g. Garbled \in Parts(v) /\ <<Garbled>> \in Seq(Parts(v))
  BY GarbledPart
<1>5. ReaderOK(v, u, Linked(r, nameless))
  <2>1. /\ nameless \in Dirents(v) /\ nameless.is_dir = cur.is_dir
        /\ nameless.start_cluster = cur.start_cluster
    BY <1>3, <1>g DEF Dirents
  <2> HIDE DEF nameless
  <2>2. nameless \in Listable(v, u)
    BY <1>4, <2>1 DEF Listable
  <2> QED BY <2>2, ReaderLinks
<1>6. CASE r.count # 1
  <2>1. /\ a \in Readers(v, u) /\ a.phase = "name" /\ a.cur = cur /\ a.left = r.count - 1
        /\ a.start = r.start /\ a.idx = r.idx /\ a.count = r.count
    <3> DEFINE n == r.count - 1
    <3>1. n \in Nat
      BY <1>1, <1>6
    <3> HIDE DEF n
    <3>2. [r EXCEPT !.phase = "name", !.cur = cur, !.left = n, !.part = Garbled] \in Readers(v, u)
      BY <1>1, <1>3, <1>g, <3>1 DEF Readers
    <3> QED BY <1>1, <3>2 DEF n, Readers
  <2>2. Right(v, u) => AtSet(v, a)
    <3> HIDE DEF a
    <3> QED BY <1>1, <1>3, <2>1 DEF PlaceOK, AtSet, AtEntry
  <2> HIDE DEF a
  <2>3. CountOK(v, u, a)
    BY <1>1, <1>4, <1>6, <2>1 DEF CountOK
  <2>4. ReaderOK(v, u, a)
    BY <2>1, <2>2, <2>3 DEF ReaderOK, PlaceOK
  <2> QED BY <1>6, <2>4 DEF a, cur
<1> QED BY <1>5, <1>6 DEF cur

(* A part of a name, or an entry taken for one.                              *)
LEMMA ReaderName ==
    ASSUME NEW v \in Volumes, NEW u \in Leftovers, NEW r, ReaderOK(v, u, r), r.phase = "name",
           NEW part \in Parts(v)
    PROVE  LET cur == [r.cur EXCEPT !.name = Append(@, part)]
               shown == [cur EXCEPT !.name = ShownName(@, cur.start_cluster)]
           IN ReaderOK(v, u, IF r.left = 1 THEN Linked(r, shown)
                          ELSE [r EXCEPT !.cur = cur, !.left = @ - 1, !.part = part])
<1> DEFINE cur == [r.cur EXCEPT !.name = Append(@, part)]
           shown == [cur EXCEPT !.name = ShownName(@, cur.start_cluster)]
           a == [r EXCEPT !.cur = cur, !.left = @ - 1, !.part = part]
<1>1. /\ r \in Readers(v, u) /\ PlaceOK(v, u, r) /\ r.left \in Nat /\ r.left >= 1
      /\ r.count \in Nat /\ r.left < r.count /\ r.count >= 1
      /\ r.cur \in Dirents(v) /\ r.cur \in Listable(v, u)
  BY DEF ReaderOK, Readers, CountOK
<1>2. /\ cur \in Dirents(v) /\ cur.is_dir = r.cur.is_dir
      /\ cur.start_cluster = r.cur.start_cluster
  <2>1. Append(r.cur.name, part) \in Seq(Parts(v))
    BY <1>1 DEF Dirents
  <2> QED BY <1>1, <2>1 DEF Dirents
<1>3. cur \in Listable(v, u)
  <2> HIDE DEF cur
  <2> QED BY <1>1, <1>2 DEF Listable
<1>4. shown \in Listable(v, u)
  <2> DEFINE n == cur.name
             c == cur.start_cluster
  <2>1. ShownName(n, c) \in Seq(Parts(v))
    <3>1. n \in Seq(Parts(v))
      <4> HIDE DEF cur
      <4> QED BY <1>2 DEF Dirents
    <3> HIDE DEF n, c
    <3>2. CASE c % 256 # 0 /\ Len(n) > 1
      <4>1. n[1] \in Parts(v)
        BY <3>1, <3>2
      <4>2. <<n[1]>> \in Seq(Parts(v))
        BY <4>1
      <4> QED BY <3>2, <4>2 DEF ShownName
    <3>3. CASE ~(c % 256 # 0 /\ Len(n) > 1)
      BY <3>1, <3>3 DEF ShownName
    <3> QED BY <3>2, <3>3
  <2>2. /\ shown \in Dirents(v) /\ shown.is_dir = cur.is_dir
        /\ shown.start_cluster = cur.start_cluster
    <3> HIDE DEF cur
    <3> QED BY <1>2, <2>1 DEF Dirents
  <2> HIDE DEF cur, shown
  <2> QED BY <1>3, <2>2 DEF Listable
<1> HIDE DEF cur, shown
<1>5. ReaderOK(v, u, Linked(r, shown))
  BY <1>4, ReaderLinks
<1>6. CASE r.left # 1
  <2>1. /\ a \in Readers(v, u) /\ a.phase = "name" /\ a.cur = cur /\ a.left = r.left - 1
        /\ a.start = r.start /\ a.idx = r.idx /\ a.count = r.count
    <3> DEFINE n == r.left - 1
    <3>1. n \in Nat
      BY <1>1, <1>6
    <3>2. a = [r EXCEPT !.cur = cur, !.left = n, !.part = part]
      OBVIOUS
    <3> HIDE DEF n, a
    <3>3. a \in Readers(v, u)
      BY <1>1, <1>2, <3>1, <3>2 DEF Readers
    <3>4. /\ a.phase = r.phase /\ a.cur = cur /\ a.left = n
          /\ a.start = r.start /\ a.idx = r.idx /\ a.count = r.count
      BY <1>1, <3>2 DEF Readers
    <3> QED BY <3>3, <3>4 DEF n
  <2>2. Right(v, u) => AtSet(v, a)
    <3> HIDE DEF a
    <3> QED BY <1>1, <1>2, <2>1 DEF PlaceOK, AtSet, AtEntry
  <2> HIDE DEF a
  <2>3. CountOK(v, u, a)
    BY <1>1, <1>3, <1>6, <2>1 DEF CountOK
  <2>4. ReaderOK(v, u, a)
    BY <2>1, <2>2, <2>3 DEF ReaderOK, PlaceOK
  <2> QED BY <1>6, <2>4 DEF a, cur
<1> QED BY <1>5, <1>6 DEF cur, shown
-----------------------------------------------------------------------------
(* The walk.                                                                 *)

CmdOK(c) ==
    /\ c = [op |-> c.op, asked |-> c.asked, path |-> c.path]
    /\ c.op \in {"none", "ls", "tree", "cat"}
ListsOK(v, u, list, stack) == list \in Seq(Listable(v, u)) /\ stack \in Seq(Seq(Listable(v, u)))
BlocksOK(v, u, bs) == Right(v, u) => \A b \in bs \ {0} : ClusterOf(v, b) \in DOMAIN v.dirs

(* Before the boot block is read there is no list.                           *)
BootOK(r, list, stack) == r.phase = "boot" => list = <<>> /\ stack = <<>>

(* What the walk keeps: its types, a reader at an entry of a directory, lists*)
(* whose directories lead to one, and the blocks of directories only.        *)
WalkInv ==
    /\ vol \in Volumes /\ super \in Leftovers /\ ret \in {0, -1}
    /\ CmdOK(cmd) /\ ReaderOK(vol, super, rd)
    /\ ListsOK(vol, super, it, chain) /\ BlocksOK(vol, super, blocks)
    /\ BootOK(rd, it, chain)

(* An empty list and an empty stack.                                         *)
LEMMA NoLists ==
    ASSUME NEW v, NEW u
    PROVE  ListsOK(v, u, <<>>, <<>>)
<1> DEFINE L == Listable(v, u)
<1>1. <<>> \in Seq(L) /\ <<>> \in Seq(Seq(L))
  OBVIOUS
<1> QED BY <1>1 DEF ListsOK

LEMMA IdleOK == CmdOK(Idle)
  BY DEF CmdOK, Idle

(* The block the reader looks at is a directory's.                           *)
LEMMA ReaderInside ==
    ASSUME NEW v \in Volumes, NEW u \in Leftovers, NEW r, ReaderOK(v, u, r), NEW m \in Nat,
           \/ r.phase = "entry" /\ m = 0
           \/ r.phase \in {"stream", "name"} /\ m <= r.count + 1,
           NEW bs, BlocksOK(v, u, bs)
    PROVE  BlocksOK(v, u, bs \union {EntryBlock(u, r.start, r.idx + m)})
<1>1. r.idx \in Nat /\ r.count \in Nat /\ PlaceOK(v, u, r)
  BY DEF ReaderOK, Readers
<1>2. ASSUME Right(v, u)
      PROVE  r.start \in DOMAIN v.dirs /\ Inside(v, r.start, r.idx + m)
  <2>1. CASE r.phase = "entry" /\ m = 0
    <3>1. AtEntry(v, r) /\ r.idx + m = r.idx
      BY <1>1, <1>2, <2>1 DEF PlaceOK
    <3> QED BY <3>1 DEF AtEntry
  <2>2. CASE r.phase \in {"stream", "name"} /\ m <= r.count + 1
    <3>1. AtSet(v, r)
      BY <1>1, <1>2, <2>2 DEF PlaceOK
    <3>2. /\ r.start \in DOMAIN v.dirs /\ Inside(v, r.start, r.idx)
          /\ EntryOf(v, r.start, r.idx).code = "file"
          /\ EntryOf(v, r.start, r.idx).secondary = r.count
      BY <3>1 DEF AtSet, AtEntry
    <3>3. \A n \in 0..(r.count + 1) : Inside(v, r.start, r.idx + n)
      BY <1>1, <1>2, <3>2, SetInside DEF Right, Sound
    <3>4. m \in 0..(r.count + 1)
      BY <1>1, <2>2
    <3> QED BY <3>2, <3>3, <3>4
  <2> QED BY <2>1, <2>2
<1>3. r.idx + m \in Nat
  BY <1>1
<1>4. Right(v, u) => ClusterOf(v, EntryBlock(u, r.start, r.idx + m)) \in DOMAIN v.dirs
  BY <1>2, <1>3, InsideBlock, SeenOwn DEF Right
<1> DEFINE b == EntryBlock(u, r.start, r.idx + m)
<1> HIDE DEF b
<1>5. BlocksOK(v, u, bs \union {b})
  BY <1>4 DEF BlocksOK, b
<1> QED BY <1>5 DEF b

(* A new list goes on where the nearest directory of the stack has left off. *)
LEMMA ResumeOK ==
    ASSUME NEW v, NEW u, NEW list, NEW stack, ListsOK(v, u, list, stack), Resume(list, stack)
    PROVE  ListsOK(v, u, it', chain')
<1> DEFINE L == Listable(v, u)
           left == {k \in DOMAIN stack : stack[k] # <<>>}
           k == CHOOSE n \in left : \A m \in left : m <= n
<1>1. list \in Seq(L) /\ stack \in Seq(Seq(L))
  BY DEF ListsOK
<1>2. CASE list # <<>>
  BY <1>2 DEF Resume
<1>3. CASE list = <<>> /\ left = {}
  BY <1>3, NoLists DEF Resume
<1>4. CASE list = <<>> /\ left # {}
  <2>1. it' = stack[k] /\ chain' = SubSeq(stack, 1, k - 1)
    BY <1>4 DEF Resume
  <2>2. Len(stack) \in Nat /\ left \in SUBSET (1..Len(stack))
    <3> HIDE DEF L
    <3> QED BY <1>1
  <2>3. k \in left
    <3>1. \E n \in left : \A m \in left : m <= n
      <4> HIDE DEF left
      <4> QED BY <1>4, <2>2, GreatestPlace
    <3> HIDE DEF left
    <3> QED BY <3>1
  <2>4. k \in 1..Len(stack)
    <3> HIDE DEF left, k
    <3> QED BY <2>2, <2>3
  <2> HIDE DEF L, k
  <2>5. stack[k] \in Seq(L)
    BY <1>1, <2>4
  <2>6. SubSeq(stack, 1, k - 1) \in Seq(Seq(L))
    BY <1>1, <2>2, <2>4
  <2> QED BY <2>1, <2>5, <2>6 DEF ListsOK, L
<1> QED BY <1>2, <1>3, <1>4

(* The entry a name leads to is in the list.                                 *)
LEMMA FoundListed ==
    ASSUME NEW v, NEW u, NEW list \in Seq(Listable(v, u)), NEW name, Matches(list, name) # {}
    PROVE  LET d == list[First(Matches(list, name))]
           IN d \in Listable(v, u) /\ d \in Dirents(v)
<1> DEFINE L == Listable(v, u)
           S == Matches(list, name)
<1>1. Len(list) \in Nat /\ S \in SUBSET (1..Len(list))
  <2> HIDE DEF L
  <2> QED BY DEF L, Matches
<1>2. First(S) \in 1..Len(list)
  <2> HIDE DEF S
  <2> QED BY <1>1, FirstOfPlaces DEF S
<1>3. list[First(S)] \in L
  <2> HIDE DEF L, S
  <2> QED BY <1>2 DEF L
<1> QED BY <1>3 DEF Listable

(* A listed directory is one the reader can start at.                        *)
LEMMA StartsRight ==
    ASSUME NEW v \in Volumes, NEW u \in Leftovers, NEW d \in Listable(v, u), d.is_dir
    PROVE  ReaderOK(v, u, Reader(d.start_cluster))
<1>1. d.start_cluster \in Nat /\ (Right(v, u) => d.start_cluster \in DOMAIN v.dirs)
  BY DEF Listable, Dirents
<1> QED BY <1>1, NewReader
-----------------------------------------------------------------------------
(* The walk's steps keep its invariant.                                      *)

LEMMA InitWalk == DirectoryInit => WalkInv
<1> SUFFICES ASSUME DirectoryInit PROVE WalkInv
  OBVIOUS
<1>1. vol \in Volumes /\ super \in Leftovers /\ ret = 0 /\ cmd = Idle /\ rd = NoReader
      /\ it = <<>> /\ chain = <<>> /\ blocks = {}
  BY DEF DirectoryInit
<1>2. ReaderOK(vol, super, rd) /\ ListsOK(vol, super, it, chain) /\ CmdOK(cmd)
  BY <1>1, NewReader, NoLists, IdleOK
<1>3. BootOK(rd, it, chain)
  BY <1>1 DEF BootOK
<1> QED BY <1>1, <1>2, <1>3 DEF WalkInv, BlocksOK

LEMMA BeginKeeps ==
    ASSUME WalkInv, NEW op \in {"ls", "tree", "cat"}, NEW path, Begin(op, path)
    PROVE  WalkInv'
<1>1. /\ vol' = vol /\ super' = super /\ ret' = 0 /\ rd' = [NoReader EXCEPT !.phase = "boot"]
      /\ cmd' = [op |-> op, asked |-> path, path |-> path]
      /\ it' = <<>> /\ chain' = <<>> /\ blocks' = {}
  BY DEF Begin
<1>2. vol \in Volumes /\ super \in Leftovers
  BY DEF WalkInv
<1>3. ReaderOK(vol, super, rd') /\ ListsOK(vol, super, it', chain') /\ CmdOK(cmd') /\ BlocksOK(vol, super, blocks')
  BY <1>1, <1>2, NewReader, NoLists DEF CmdOK, BlocksOK
<1>4. BootOK(rd', it', chain')
  BY <1>1 DEF BootOK
<1> QED BY <1>1, <1>2, <1>3, <1>4 DEF WalkInv

LEMMA FinishKeeps ==
    ASSUME WalkInv, NEW value \in {0, -1}, Finish(value)
    PROVE  WalkInv'
<1>1. /\ vol' = vol /\ super' = super /\ ret' = value /\ rd' = NoReader /\ cmd' = Idle
      /\ it' = <<>> /\ chain' = <<>> /\ blocks' = blocks
  BY DEF Finish
<1>2. vol \in Volumes /\ super \in Leftovers /\ BlocksOK(vol, super, blocks)
  BY DEF WalkInv
<1>3. ReaderOK(vol, super, rd') /\ ListsOK(vol, super, it', chain') /\ CmdOK(cmd')
  BY <1>1, <1>2, NewReader, NoLists, IdleOK
<1>4. BootOK(rd', it', chain')
  BY <1>1 DEF BootOK
<1> QED BY <1>1, <1>2, <1>3, <1>4 DEF WalkInv

(* A step of the reader: its next state, and the blocks it has looked at.    *)
LEMMA ReaderSteps ==
    ASSUME WalkInv, ReaderOK(vol, super, rd'), BlocksOK(vol, super, blocks'), rd'.phase # "boot",
           UNCHANGED <<vol, cmd, super, it, chain, out, ret>>
    PROVE  WalkInv'
  BY DEF WalkInv, BootOK

LEMMA ReadBootKeeps ==
    ASSUME WalkInv, NEW ok \in BOOLEAN, ReadBoot(ok)
    PROVE  WalkInv'
<1>1. /\ vol' = vol /\ cmd' = cmd /\ it' = it /\ chain' = chain /\ ret' = ret
      /\ super' = Superblock(vol) \/ super' \in Leftovers
      /\ rd.phase = "boot" /\ rd' = Reader(super'.rootdir_start) /\ blocks' = {0}
  BY DEF ReadBoot
<1>2. vol \in Volumes /\ it = <<>> /\ chain = <<>>
  BY <1>1 DEF WalkInv, BootOK
<1>3. super' \in Leftovers
  BY <1>1, <1>2 DEF Leftovers
<1>4. super'.rootdir_start \in Nat
  BY <1>3, LeftoverFacts
<1>5. Right(vol, super') => super'.rootdir_start \in DOMAIN vol.dirs
  BY DEF Right, Sound, ChainsWhole, Superblock
<1>6. ReaderOK(vol, super', rd') /\ BlocksOK(vol, super', blocks') /\ ListsOK(vol, super', it', chain')
  BY <1>1, <1>2, <1>3, <1>4, <1>5, NewReader, NoLists DEF BlocksOK
<1>7. BootOK(rd', it', chain')
  BY <1>1, <1>2 DEF BootOK
<1>8. CmdOK(cmd') /\ ret' \in {0, -1}
  BY <1>1 DEF WalkInv
<1> QED BY <1>1, <1>2, <1>3, <1>6, <1>7, <1>8 DEF WalkInv

LEMMA ReadEntryKeeps ==
    ASSUME WalkInv, NEW ok \in BOOLEAN, ReadEntry(ok)
    PROVE  WalkInv'
<1>1. /\ vol \in Volumes /\ super \in Leftovers /\ rd.phase = "entry"
      /\ ReaderOK(vol, super, rd) /\ BlocksOK(vol, super, blocks)
  BY DEF WalkInv, ReadEntry
<1> DEFINE e == EntrySeen(vol, super, rd.start, rd.idx)
           set == [rd EXCEPT !.phase = "stream", !.count = e.secondary,
                             !.cur = [NoDirent EXCEPT !.is_dir = e.directory]]
           ended == [rd EXCEPT !.phase = "done"]
           lost_list == [rd EXCEPT !.phase = "done", !.list = <<>>]
           further == [rd EXCEPT !.idx = @ + 1]
<1>2. /\ \/ rd' = lost_list
         \/ EntryType(e) = "file" /\ rd' = set
         \/ rd' = ended
         \/ EntryType(e) # "end" /\ rd' = further
      /\ blocks' = blocks \union {EntryBlock(super, rd.start, rd.idx)}
      /\ UNCHANGED <<vol, cmd, super, it, chain, out, ret>>
  <2>1. blocks' = blocks \union {EntryBlock(super, rd.start, rd.idx)}
    BY DEF ReadEntry, Reads, Block
  <2>2. /\ IF ~Got(rd.idx, ok) THEN rd' = lost_list
           ELSE IF EntryType(e) = "file" THEN rd' = set
           ELSE IF EntryType(e) = "end" THEN rd' = ended
           ELSE rd' = further
        /\ UNCHANGED <<vol, cmd, super, it, chain, out, ret>>
    BY DEF ReadEntry, GiveUp, Entry
  <2> HIDE DEF e, set, ended, lost_list, further
  <2> QED BY <2>1, <2>2
<1>3. ReaderOK(vol, super, lost_list) /\ ReaderOK(vol, super, ended)
  BY <1>1, ReaderStops
<1>4. /\ EntryType(e) = "file" => ReaderOK(vol, super, set)
      /\ EntryType(e) # "end" => ReaderOK(vol, super, further)
  BY <1>1, ReaderEntry
<1>5. ReaderOK(vol, super, rd')
  <2> HIDE DEF e, set, ended, lost_list, further
  <2> QED BY <1>2, <1>3, <1>4
<1>6. BlocksOK(vol, super, blocks')
  <2>1. rd.idx \in Nat /\ rd.idx + 0 = rd.idx
    BY <1>1 DEF ReaderOK, Readers
  <2>2. BlocksOK(vol, super, blocks \union {EntryBlock(super, rd.start, rd.idx + 0)})
    BY <1>1, ReaderInside
  <2> HIDE DEF e, set, ended, lost_list, further
  <2> QED BY <1>2, <2>1, <2>2
<1>7. rd'.phase # "boot"
  <2>1. set.phase = "stream" /\ ended.phase = "done" /\ lost_list.phase = "done"
        /\ further.phase = "entry"
    BY <1>1 DEF ReaderOK, Readers
  <2> HIDE DEF e, set, ended, lost_list, further
  <2> QED BY <1>2, <2>1
<1> HIDE DEF e, set, ended, lost_list, further
<1> QED BY <1>2, <1>5, <1>6, <1>7, ReaderSteps

LEMMA ReadStreamKeeps ==
    ASSUME WalkInv, NEW ok \in BOOLEAN, ReadStream(ok)
    PROVE  WalkInv'
<1>1. /\ vol \in Volumes /\ super \in Leftovers /\ rd.phase = "stream"
      /\ ReaderOK(vol, super, rd) /\ BlocksOK(vol, super, blocks)
  BY DEF WalkInv, ReadStream
<1> DEFINE e == EntrySeen(vol, super, rd.start, rd.idx + 1)
           cur == [rd.cur EXCEPT !.byte_size = e.length, !.start_cluster = e.first]
           next == IF rd.count = 1 THEN Linked(rd, [cur EXCEPT !.name = <<Garbled>>])
                   ELSE [rd EXCEPT !.phase = "name", !.cur = cur,
                                   !.left = rd.count - 1, !.part = Garbled]
           lost_list == [rd EXCEPT !.phase = "done", !.list = <<>>]
<1>2. /\ rd' = lost_list \/ (EntryType(e) = "stream" /\ rd' = next)
      /\ blocks' = blocks \union {EntryBlock(super, rd.start, rd.idx + 1)}
      /\ UNCHANGED <<vol, cmd, super, it, chain, out, ret>>
  <2>1. blocks' = blocks \union {EntryBlock(super, rd.start, rd.idx + 1)}
    BY DEF ReadStream, Reads, Block
  <2>2. /\ IF ~Got(rd.idx + 1, ok) \/ EntryType(e) # "stream" THEN rd' = lost_list
           ELSE rd' = next
        /\ UNCHANGED <<vol, cmd, super, it, chain, out, ret>>
    BY DEF ReadStream, GiveUp, Entry
  <2> HIDE DEF e, next, lost_list
  <2> QED BY <2>1, <2>2
<1>3. ReaderOK(vol, super, lost_list)
  BY <1>1, ReaderStops
<1>4. EntryType(e) = "stream" => ReaderOK(vol, super, next)
  BY <1>1, ReaderStream
<1>5. BlocksOK(vol, super, blocks')
  <2>1. 1 <= rd.count + 1 /\ 1 \in Nat
    BY <1>1 DEF ReaderOK, Readers
  <2>2. BlocksOK(vol, super, blocks \union {EntryBlock(super, rd.start, rd.idx + 1)})
    BY <1>1, <2>1, ReaderInside
  <2> QED BY <1>2, <2>2
<1>p. lost_list.phase = "done" /\ next.phase \in {"entry", "name"}
  BY <1>1 DEF ReaderOK, Readers, Linked
<1> HIDE DEF e, next, lost_list
<1>6. ReaderOK(vol, super, rd')
  BY <1>2, <1>3, <1>4
<1>7. rd'.phase # "boot"
  BY <1>2, <1>p
<1> QED BY <1>2, <1>5, <1>6, <1>7, ReaderSteps

LEMMA ReadNameKeeps ==
    ASSUME WalkInv, NEW ok \in BOOLEAN, ReadName(ok)
    PROVE  WalkInv'
<1>1. /\ vol \in Volumes /\ super \in Leftovers /\ rd.phase = "name"
      /\ ReaderOK(vol, super, rd) /\ BlocksOK(vol, super, blocks)
  BY DEF WalkInv, ReadName
<1>2. /\ rd.idx \in Nat /\ rd.start \in Nat /\ rd.count \in Nat /\ rd.left \in Nat
      /\ rd.left >= 1 /\ rd.left < rd.count
  BY <1>1 DEF ReaderOK, Readers, CountOK
<1> DEFINE i == rd.idx + 1 + (rd.count - rd.left)
           e == EntrySeen(vol, super, rd.start, i)
           part == PartAfter(e, rd.part)
           cur == [rd.cur EXCEPT !.name = Append(@, part)]
           shown == [cur EXCEPT !.name = ShownName(@, cur.start_cluster)]
           next == IF rd.left = 1 THEN Linked(rd, shown)
                   ELSE [rd EXCEPT !.cur = cur, !.left = @ - 1, !.part = part]
           lost_list == [rd EXCEPT !.phase = "done", !.list = <<>>]
<1>3. /\ rd' = lost_list \/ rd' = next
      /\ blocks' = blocks \union {EntryBlock(super, rd.start, i)}
      /\ UNCHANGED <<vol, cmd, super, it, chain, out, ret>>
  <2>1. blocks' = blocks \union {EntryBlock(super, rd.start, i)}
    BY DEF ReadName, Reads, Block
  <2>2. /\ IF ~Got(i, ok) THEN rd' = lost_list ELSE rd' = next
        /\ UNCHANGED <<vol, cmd, super, it, chain, out, ret>>
    BY DEF ReadName, GiveUp, Entry
  <2> HIDE DEF i, next, lost_list
  <2> QED BY <2>1, <2>2
<1>4. ReaderOK(vol, super, lost_list)
  BY <1>1, ReaderStops
<1>5. part \in Parts(vol)
  <2>1. i \in Nat
    BY <1>2
  <2>2. EntryOK(vol, e)
    <3> HIDE DEF i
    <3> QED BY <1>1, <1>2, <2>1, EntriesOK
  <2>3. EntryType(e) = "name" => e.part \in Parts(vol)
    <3> HIDE DEF e
    <3> QED BY <2>2, EntryTypes
  <2>4. rd.part \in Parts(vol)
    BY <1>1 DEF ReaderOK, Readers
  <2> HIDE DEF e
  <2> QED BY <2>3, <2>4, GarbledPart DEF PartAfter
<1>6. ReaderOK(vol, super, next)
  <2> HIDE DEF part
  <2> QED BY <1>1, <1>5, ReaderName
<1>7. BlocksOK(vol, super, blocks')
  <2> DEFINE m == 1 + (rd.count - rd.left)
  <2>1. m \in Nat /\ m <= rd.count + 1 /\ rd.idx + m = i
    BY <1>2
  <2> HIDE DEF m, i, next, lost_list
  <2>2. BlocksOK(vol, super, blocks \union {EntryBlock(super, rd.start, rd.idx + m)})
    BY <1>1, <2>1, ReaderInside
  <2> QED BY <1>3, <2>1, <2>2
<1>p. lost_list.phase = "done" /\ next.phase \in {"entry", "name"}
  <2> HIDE DEF part, cur, shown
  <2> QED BY <1>1 DEF ReaderOK, Readers, Linked
<1> HIDE DEF next, lost_list
<1>8. ReaderOK(vol, super, rd')
  BY <1>3, <1>4, <1>6
<1>9. rd'.phase # "boot"
  BY <1>3, <1>p
<1> QED BY <1>3, <1>7, <1>8, <1>9, ReaderSteps

LEMMA LsKeeps ==
    ASSUME WalkInv, LsStep
    PROVE  WalkInv'
<1> DEFINE found == Matches(rd.list, Head(cmd.path))
           d == rd.list[First(found)]
<1>1. \/ Finish(0)
      \/ Finish(-1)
      \/ /\ found # {} /\ d.is_dir /\ rd' = Reader(d.start_cluster)
         /\ cmd' = [cmd EXCEPT !.path = Tail(@)]
         /\ UNCHANGED <<vol, super, it, chain, out, ret, failed, blocks>>
  BY DEF LsStep
<1>2. CASE Finish(0) \/ Finish(-1)
  BY <1>2, FinishKeeps
<1>3. CASE /\ found # {} /\ d.is_dir /\ rd' = Reader(d.start_cluster)
           /\ cmd' = [cmd EXCEPT !.path = Tail(@)]
           /\ UNCHANGED <<vol, super, it, chain, out, ret, failed, blocks>>
  <2>1. /\ vol \in Volumes /\ super \in Leftovers /\ CmdOK(cmd)
        /\ rd.list \in Seq(Listable(vol, super))
    BY DEF WalkInv, ReaderOK, Readers
  <2>2. d \in Listable(vol, super)
    BY <1>3, <2>1, FoundListed
  <2>3. ReaderOK(vol, super, rd')
    <3> HIDE DEF d
    <3> QED BY <1>3, <2>1, <2>2, StartsRight
  <2>4. CmdOK(cmd')
    BY <1>3, <2>1 DEF CmdOK
  <2>5. rd'.phase # "boot"
    BY <1>3 DEF Reader, NoReader
  <2> HIDE DEF found, d
  <2> QED BY <1>3, <2>3, <2>4, <2>5 DEF WalkInv, BootOK
<1> QED BY <1>1, <1>2, <1>3

LEMMA TreeEnterKeeps ==
    ASSUME WalkInv, TreeEnter
    PROVE  WalkInv'
<1>1. /\ vol \in Volumes /\ super \in Leftovers /\ rd.list \in Seq(Listable(vol, super)) /\ ListsOK(vol, super, it, chain)
      /\ Resume(rd.list, chain) /\ rd' = NoReader
      /\ UNCHANGED <<vol, cmd, super, out, ret, failed, blocks>>
  BY DEF WalkInv, ReaderOK, Readers, TreeEnter
<1>2. ListsOK(vol, super, it', chain')
  <2>1. ListsOK(vol, super, rd.list, chain)
    BY <1>1 DEF ListsOK
  <2> QED BY <1>1, <2>1, ResumeOK
<1>3. ReaderOK(vol, super, rd') /\ BootOK(rd', it', chain')
  BY <1>1, NewReader DEF BootOK, NoReader
<1> QED BY <1>1, <1>2, <1>3 DEF WalkInv

LEMMA TreePrintKeeps ==
    ASSUME WalkInv, TreePrint
    PROVE  WalkInv'
<1>1. /\ vol \in Volumes /\ super \in Leftovers /\ rd.phase = "off" /\ it # <<>> /\ ListsOK(vol, super, it, chain) /\ ReaderOK(vol, super, rd)
      /\ UNCHANGED <<vol, cmd, super, ret, failed, blocks>>
  BY DEF WalkInv, TreePrint
<1>2. /\ Head(it) \in Listable(vol, super) /\ ListsOK(vol, super, Tail(it), chain)
      /\ ListsOK(vol, super, it, Append(chain, Tail(it)))
  <2> DEFINE L == Listable(vol, super)
  <2>1. it \in Seq(L) /\ chain \in Seq(Seq(L))
    BY <1>1 DEF ListsOK
  <2> HIDE DEF L
  <2>2. Head(it) \in L /\ Tail(it) \in Seq(L)
    BY <1>1, <2>1
  <2>3. Append(chain, Tail(it)) \in Seq(Seq(L))
    BY <2>1, <2>2
  <2> QED BY <2>1, <2>2, <2>3 DEF ListsOK, L
<1>3. ListsOK(vol, super, it', chain') /\ ReaderOK(vol, super, rd') /\ rd'.phase # "boot"
  <2>1. CASE Head(it).is_dir
    <3>1. /\ chain' = Append(chain, Tail(it)) /\ it' = it
          /\ rd' = Reader(Head(it).start_cluster)
      BY <2>1 DEF TreePrint
    <3>2. rd'.phase # "boot"
      BY <3>1 DEF Reader, NoReader
    <3> QED BY <1>1, <1>2, <2>1, <3>1, <3>2, StartsRight
  <2>2. CASE ~Head(it).is_dir
    <3>1. Resume(Tail(it), chain) /\ rd' = rd
      BY <2>2 DEF TreePrint
    <3> QED BY <1>1, <1>2, <3>1, ResumeOK
  <2> QED BY <2>1, <2>2
<1> QED BY <1>1, <1>3 DEF WalkInv, BootOK

LEMMA TreeEndKeeps ==
    ASSUME WalkInv, TreeEnd
    PROVE  WalkInv'
  BY FinishKeeps DEF TreeEnd

(* A step of the directory walks.                                            *)
LEMMA DirectoryKeeps ==
    ASSUME WalkInv, DirectoryStep
    PROVE  WalkInv'
  BY ReadBootKeeps, ReadEntryKeeps, ReadStreamKeeps, ReadNameKeeps, LsKeeps,
     TreeEnterKeeps, TreePrintKeeps, TreeEndKeeps DEF DirectoryStep
-----------------------------------------------------------------------------
(* The stream of an open file.                                               *)

(* A file that is open stands at a byte of a block, and with the superblock  *)
(* of the volume in a block of a cluster.                                    *)
FileOpen(v, u, p) ==
    /\ p = [open |-> p.open, pos |-> p.pos, len |-> p.len, first_cluster |-> p.first_cluster,
            current_cluster |-> p.current_cluster,
            block_cluster_offset |-> p.block_cluster_offset,
            pos_block_offset |-> p.pos_block_offset]
    /\ p.open = TRUE /\ p.pos \in 0..(SizeMod - 1) /\ p.len \in Nat
    /\ p.block_cluster_offset \in Int
    /\ u = Superblock(v) => p.block_cluster_offset \in 0..(v.clustersize - 1)
    /\ p.pos_block_offset \in 0..(BlockSize - 1)

(* What a read has counted so far, at each of its steps.                     *)
ReadOK(v, u, r) ==
    /\ r = [step |-> r.step, asked |-> r.asked, byte_size |-> r.byte_size,
            bytes_read |-> r.bytes_read, loose |-> r.loose, clusters |-> r.clusters,
            pos |-> r.pos, looked |-> r.looked]
    /\ r.step \in Steps /\ r.byte_size \in Int /\ r.bytes_read \in 0..(SizeMod - 1)
    /\ r.step = "clusters" => /\ r.loose \in Nat
                              /\ u = Superblock(v) => r.loose < v.clustersize * BlockSize
    /\ r.step = "tail" => r.loose \in 0..(BlockSize - 1)

StreamOK(v, u, p, r) ==
    /\ p = NoFile \/ FileOpen(v, u, p)
    /\ r.step # "off" => FileOpen(v, u, p)
    /\ ReadOK(v, u, r)

StreamInv == vol \in Volumes /\ super \in Leftovers /\ StreamOK(vol, super, fp, fr)

LEMMA WrapRange ==
    ASSUME NEW n \in Int, SizeMod \in Nat \ {0}
    PROVE  Wrap(n) \in 0..(SizeMod - 1) /\ Wrap(n) \in Int
<1>1. n % SizeMod \in 0..(SizeMod - 1)
  BY DivRange
<1>2. \A x \in 0..(SizeMod - 1) : x \in Int
  OBVIOUS
<1> QED BY <1>1, <1>2 DEF Wrap

LEMMA SizeFacts ==
    ASSUME NEW v \in Volumes, NEW u \in Leftovers
    PROVE  /\ BlockSize \in Nat \ {0} /\ SizeMod \in Nat \ {0} /\ BlockSize < SizeMod
           /\ v.clustersize \in Nat \ {0} /\ u.clustersize \in Nat
           /\ ClusterBytes(u) \in Nat
           /\ u = Superblock(v) => /\ u.clustersize = v.clustersize
                                  /\ ClusterBytes(u) = v.clustersize * BlockSize
                                  /\ ClusterBytes(u) > 0
<1>1. /\ BlockSize \in Nat \ {0} /\ v.clustersize \in Nat \ {0} /\ u.clustersize \in Nat
  BY BlockFacts, ClusterFacts, LeftoverFacts
<1>2. SizeMod \in Nat \ {0} /\ BlockSize < SizeMod
  BY FileAssumption, <1>1
<1>3. ClusterBytes(u) \in Nat
  <2>1. u.clustersize * BlockSize \in Int
    BY <1>1
  <2>2. Wrap(u.clustersize * BlockSize) \in 0..(SizeMod - 1)
    BY <1>2, <2>1, WrapRange
  <2> QED BY <1>2, <2>2 DEF ClusterBytes
<1>4. ASSUME u = Superblock(v)
      PROVE  /\ u.clustersize = v.clustersize /\ ClusterBytes(u) = v.clustersize * BlockSize
             /\ ClusterBytes(u) > 0
  <2> DEFINE n == v.clustersize * BlockSize
  <2>1. u.clustersize = v.clustersize
    BY <1>4 DEF Superblock
  <2>2. n \in Nat /\ n > 0 /\ n < SizeMod
    BY <1>1, ExFatAssumption
  <2>3. n % SizeMod = n
    <3> HIDE DEF n
    <3>1. n = SizeMod * 0 + n /\ n \in 0..(SizeMod - 1) /\ n \in Int
      BY <1>2, <2>2
    <3> QED BY <1>2, <3>1, DivUnique
  <2> QED BY <2>1, <2>2, <2>3 DEF ClusterBytes, Wrap
<1> QED BY <1>1, <1>2, <1>3, <1>4

(* The blocks of a number of bytes, fewer than a cluster has or any number.  *)
LEMMA Blocks ==
    ASSUME NEW v \in Volumes, NEW n \in Nat
    PROVE  LET whole == (n \div BlockSize) * BlockSize
           IN /\ whole \in Int /\ n - whole \in 0..(BlockSize - 1)
              /\ whole \div BlockSize \in Int
              /\ n < v.clustersize * BlockSize => whole \div BlockSize \in 0..(v.clustersize - 1)
<1> DEFINE q == n \div BlockSize
           r == n % BlockSize
           B == BlockSize
           cs == v.clustersize
<1>1. B \in Nat \ {0} /\ cs \in Nat \ {0} /\ n \in Nat
  BY BlockFacts, ClusterFacts
<1>2. q \in Nat /\ r \in 0..(B - 1) /\ n = B * q + r
  <2>1. n \in Int
    BY <1>1
  <2>2. q \in Nat
    BY <1>1, DivNat
  <2> QED BY <1>1, <2>1, <2>2, DivRange
<1>3. n < cs * B => q < cs
  <2> SUFFICES ASSUME n < cs * B, q >= cs PROVE FALSE
    BY <1>1, <1>2
  <2> HIDE DEF q, r, B, cs
  <2>1. B * q >= B * cs
    BY <1>1, <1>2
  <2> QED BY <1>1, <1>2, <2>1
<1>4. q * B \in Int /\ n - q * B = r /\ (q * B) \div B = q
  <2> HIDE DEF q, r, B, cs
  <2>1. q * B \in Int /\ q * B = B * q + 0 /\ 0 \in 0..(B - 1)
    BY <1>1, <1>2
  <2>2. (q * B) \div B = q
    BY <1>1, <1>2, <2>1, DivUnique
  <2> QED BY <1>1, <1>2, <2>1, <2>2
<1>5. q \in Int /\ (n < cs * B => q \in 0..(cs - 1))
  <2> HIDE DEF q, r, B, cs
  <2> QED BY <1>1, <1>2, <1>3
<1> QED BY <1>2, <1>4, <1>5

LEMMA InitStream == DirectoryInit /\ FileInit => StreamInv
<1> SUFFICES ASSUME DirectoryInit, FileInit PROVE StreamInv
  OBVIOUS
<1>1. vol \in Volumes /\ super \in Leftovers /\ fp = NoFile /\ fr = NoRead
  BY DEF DirectoryInit, FileInit
<1>2. ReadOK(vol, super, NoRead)
  <2>1. 0 \in 0..(SizeMod - 1)
    BY <1>1, SizeFacts
  <2> QED BY <2>1 DEF NoRead, ReadOK, Steps
<1> QED BY <1>1, <1>2 DEF StreamInv, StreamOK, NoRead

(* A file without a read in progress.                                        *)
LEMMA OpenOK ==
    ASSUME NEW v, NEW u, NEW p, p = NoFile \/ FileOpen(v, u, p), NEW r,
           r.step = "off", NEW q, StreamOK(v, u, q, r)
    PROVE  StreamOK(v, u, p, r)
  BY DEF StreamOK, ReadOK

LEMMA FOpenKeeps ==
    ASSUME StreamInv, NEW d \in Dirents(vol), NEW mode, FOpen(d, mode), vol' = vol, super' = super
    PROVE  StreamInv'
<1>1. /\ vol \in Volumes /\ super \in Leftovers
      /\ StreamOK(vol, super, fp, fr) /\ ~fp.open /\ fr' = fr
      /\ d.byte_size \in Nat
  BY DEF StreamInv, FOpen, Dirents
<1>2. fr.step = "off"
  <2>1. ~FileOpen(vol, super, fp)
    BY <1>1 DEF FileOpen
  <2> QED BY <1>1, <2>1 DEF StreamOK
<1>3. fp' = NoFile \/ FileOpen(vol, super, fp')
  <2>1. /\ 0 \in 0..(SizeMod - 1) /\ 0 \in 0..(vol.clustersize - 1)
        /\ 0 \in 0..(BlockSize - 1) /\ 0 \in Int
    BY <1>1, SizeFacts
  <2> QED BY <1>1, <2>1 DEF FOpen, FileOpen
<1>4. StreamOK(vol, super, fp', fr)
  BY <1>1, <1>2, <1>3, OpenOK
<1> QED BY <1>1, <1>4 DEF StreamInv

LEMMA FCloseKeeps ==
    ASSUME StreamInv, FClose, vol' = vol, super' = super
    PROVE  StreamInv'
<1>1. vol \in Volumes /\ super \in Leftovers /\ fp' = NoFile /\ fr' = NoRead
  BY DEF StreamInv, FClose
<1>2. 0 \in 0..(SizeMod - 1)
  BY <1>1, SizeFacts
<1>3. StreamOK(vol, super, NoFile, NoRead)
  BY <1>2 DEF StreamOK, ReadOK, NoRead, Steps
<1> QED BY <1>1, <1>3 DEF StreamInv

LEMMA FReadKeeps ==
    ASSUME StreamInv, NEW n \in Nat, FRead(n), vol' = vol, super' = super
    PROVE  StreamInv'
<1> DEFINE size == IF Wrap(fp.pos + n) >= fp.len THEN Wrap(fp.len - fp.pos) ELSE n
<1>1. /\ vol \in Volumes /\ super \in Leftovers
      /\ StreamOK(vol, super, fp, fr) /\ fp.open /\ fp' = fp
      /\ fr' = [NoRead EXCEPT !.step = "head", !.asked = n, !.pos = fp.pos, !.byte_size = size]
  BY DEF StreamInv, FRead
<1>2. FileOpen(vol, super, fp)
  BY <1>1 DEF StreamOK, NoFile
<1>3. size \in Int
  <2>1. fp.len - fp.pos \in Int
    BY <1>2 DEF FileOpen
  <2>2. SizeMod \in Nat \ {0}
    BY <1>1, SizeFacts
  <2> QED BY <2>1, <2>2, WrapRange
<1> HIDE DEF size
<1>4. ReadOK(vol, super, fr')
  <2>1. 0 \in 0..(SizeMod - 1)
    BY <1>1, SizeFacts
  <2> QED BY <1>1, <1>3, <2>1 DEF ReadOK, NoRead, Steps
<1> QED BY <1>1, <1>2, <1>4 DEF StreamInv, StreamOK
-----------------------------------------------------------------------------
(* The steps of a read keep what they count.                                 *)

(* A read that is in progress has an open file.                              *)
LEMMA Reading ==
    ASSUME StreamInv, fr.step # "off"
    PROVE  /\ vol \in Volumes /\ super \in Leftovers
           /\ FileOpen(vol, super, fp) /\ ReadOK(vol, super, fr)
           /\ fr.bytes_read \in Nat /\ fr.byte_size \in Int
<1>1. /\ vol \in Volumes /\ super \in Leftovers
      /\ FileOpen(vol, super, fp) /\ ReadOK(vol, super, fr)
  BY DEF StreamInv, StreamOK
<1> QED BY <1>1, SizeFacts DEF ReadOK

LEMMA ReadHeadKeeps ==
    ASSUME StreamInv, NEW ok, ReadHead(super, ok), vol' = vol, super' = super
    PROVE  StreamInv'
<1> DEFINE n == BlockSize - fp.pos_block_offset
           next == fp.block_cluster_offset + 1
           atEnd == next = super.clustersize
           place == IF atEnd THEN 0 ELSE next
           step == IF atEnd THEN "next" ELSE "rest"
<1>1. /\ vol \in Volumes /\ super \in Leftovers
      /\ FileOpen(vol, super, fp) /\ ReadOK(vol, super, fr)
  BY Reading DEF ReadHead
<1>2. /\ fr' = [fr EXCEPT !.bytes_read = n, !.step = step]
      /\ fp' = [fp EXCEPT !.pos_block_offset = 0, !.block_cluster_offset = place]
  BY DEF ReadHead
<1>3. /\ BlockSize \in Nat \ {0} /\ SizeMod \in Nat \ {0} /\ BlockSize < SizeMod
      /\ vol.clustersize \in Nat \ {0}
      /\ fp.pos_block_offset \in 0..(BlockSize - 1) /\ fp.block_cluster_offset \in Int
      /\ super = Superblock(vol) => /\ super.clustersize = vol.clustersize
                                   /\ fp.block_cluster_offset \in 0..(vol.clustersize - 1)
  BY <1>1, SizeFacts DEF FileOpen
<1>4. n \in 0..(SizeMod - 1) /\ n <= BlockSize /\ 0 \in 0..(BlockSize - 1)
  BY <1>3
<1>5. place \in Int /\ (super = Superblock(vol) => place \in 0..(vol.clustersize - 1))
      /\ step \in {"next", "rest"}
  BY <1>3
<1> HIDE DEF n, place, step
<1>6. FileOpen(vol, super, fp')
  BY <1>1, <1>2, <1>4, <1>5 DEF FileOpen
<1>7. ReadOK(vol, super, fr')
  BY <1>1, <1>2, <1>4, <1>5, <1>6 DEF ReadOK, Steps
<1> QED BY <1>1, <1>6, <1>7 DEF StreamInv, StreamOK

LEMMA ReadRestKeeps ==
    ASSUME StreamInv, NEW ok, ReadRest(super, ok), vol' = vol, super' = super
    PROVE  StreamInv'
<1> DEFINE n == Wrap(BlockSize * (super.clustersize - fp.block_cluster_offset))
           total == Wrap(fr.bytes_read + n)
<1>1. /\ vol \in Volumes /\ super \in Leftovers /\ fr.bytes_read \in Nat
      /\ FileOpen(vol, super, fp) /\ ReadOK(vol, super, fr)
  BY Reading DEF ReadRest
<1>2. /\ fr' = [fr EXCEPT !.bytes_read = total, !.step = "next"]
      /\ fp' = [fp EXCEPT !.pos_block_offset = 0, !.block_cluster_offset = 0]
  BY DEF ReadRest
<1>3. /\ BlockSize \in Nat \ {0} /\ SizeMod \in Nat \ {0} /\ vol.clustersize \in Nat \ {0}
      /\ super.clustersize \in Nat /\ fp.block_cluster_offset \in Int
  BY <1>1, SizeFacts DEF FileOpen
<1>4. total \in 0..(SizeMod - 1)
  <2>1. BlockSize * (super.clustersize - fp.block_cluster_offset) \in Int
    BY <1>3
  <2>2. n \in Int
    BY <1>3, <2>1, WrapRange
  <2> HIDE DEF n
  <2>3. fr.bytes_read + n \in Int
    BY <1>1, <2>2
  <2> QED BY <1>3, <2>3, WrapRange
<1>5. 0 \in 0..(vol.clustersize - 1) /\ 0 \in 0..(BlockSize - 1) /\ 0 \in Int
  BY <1>3
<1> HIDE DEF n, total
<1>6. FileOpen(vol, super, fp')
  BY <1>1, <1>2, <1>5 DEF FileOpen
<1>7. ReadOK(vol, super, fr')
  BY <1>1, <1>2, <1>4 DEF ReadOK, Steps
<1> QED BY <1>1, <1>6, <1>7 DEF StreamInv, StreamOK

(* A look-up moves the stream to another cluster and leaves the rest.        *)
LEMMA LookUpKeeps ==
    ASSUME NEW ok, LookUp(vol, super, ok), FileOpen(vol, super, fp)
    PROVE  FileOpen(vol, super, fp')
<1>1. PICK word : fp' = [fp EXCEPT !.current_cluster = word]
  BY DEF LookUp
<1> QED BY <1>1 DEF FileOpen

LEMMA NextClusterKeeps ==
    ASSUME StreamInv, NEW ok, NextCluster(vol, super, ok), vol' = vol, super' = super
    PROVE  StreamInv'
<1> DEFINE left == Wrap(fr.byte_size - fr.bytes_read)
           loose == Rem(left, ClusterBytes(super))
           whole == Quot(left - loose, super.clustersize) \div BlockSize
<1>1. /\ vol \in Volumes /\ super \in Leftovers /\ fr.bytes_read \in Nat
      /\ FileOpen(vol, super, fp) /\ ReadOK(vol, super, fr)
      /\ fr.byte_size \in Int /\ LookUp(vol, super, ok)
  BY Reading DEF NextCluster
<1>2. fr' = [fr EXCEPT !.loose = loose, !.step = "clusters", !.clusters = whole, !.looked = 1]
  BY DEF NextCluster
<1>3. loose \in Nat /\ (super = Superblock(vol) => loose < vol.clustersize * BlockSize)
  <2> DEFINE d == ClusterBytes(super)
  <2>1. /\ SizeMod \in Nat \ {0} /\ d \in Nat
        /\ super = Superblock(vol) => d = vol.clustersize * BlockSize /\ d > 0
    BY <1>1, SizeFacts
  <2>2. fr.byte_size - fr.bytes_read \in Int
    BY <1>1
  <2>3. left \in Nat
    <3>1. left \in 0..(SizeMod - 1)
      BY <2>1, <2>2, WrapRange
    <3> HIDE DEF left
    <3> QED BY <2>1, <3>1
  <2>4. CASE d = 0
    <3> HIDE DEF left
    <3> QED BY <2>1, <2>3, <2>4 DEF Rem
  <2>5. CASE d # 0
    <3>1. loose = left % d
      BY <2>5 DEF Rem
    <3> HIDE DEF left, d, loose
    <3>2. left % d \in 0..(d - 1)
      BY <2>1, <2>3, <2>5, DivRange
    <3> QED BY <2>1, <2>5, <3>1, <3>2
  <2> QED BY <2>4, <2>5
<1> HIDE DEF loose, whole
<1>4. FileOpen(vol, super, fp')
  BY <1>1, LookUpKeeps
<1>5. ReadOK(vol, super, fr')
  BY <1>1, <1>2, <1>3 DEF ReadOK, Steps
<1> QED BY <1>1, <1>4, <1>5 DEF StreamInv, StreamOK

LEMMA ReadClusterKeeps ==
    ASSUME StreamInv, NEW ok, ReadCluster(vol, super, ok), vol' = vol, super' = super
    PROVE  StreamInv'
<1> DEFINE total == Wrap(fr.bytes_read + ClusterBytes(super))
           left == fr.clusters - 1
           looked == fr.looked + 1
<1>1. /\ vol \in Volumes /\ super \in Leftovers /\ fr.bytes_read \in Nat
      /\ FileOpen(vol, super, fp) /\ ReadOK(vol, super, fr)
      /\ LookUp(vol, super, ok)
  BY Reading DEF ReadCluster
<1>2. /\ fr' = [fr EXCEPT !.bytes_read = total, !.clusters = left, !.looked = looked]
      /\ fr.step = "clusters"
  BY DEF ReadCluster
<1>3. total \in 0..(SizeMod - 1)
  <2>1. SizeMod \in Nat \ {0} /\ ClusterBytes(super) \in Nat
    BY <1>1, SizeFacts
  <2>2. fr.bytes_read + ClusterBytes(super) \in Int
    BY <1>1, <2>1
  <2> QED BY <2>1, <2>2, WrapRange
<1> HIDE DEF total, left, looked
<1>4. FileOpen(vol, super, fp')
  BY <1>1, LookUpKeeps
<1>5. ReadOK(vol, super, fr')
  BY <1>1, <1>2, <1>3 DEF ReadOK, Steps
<1> QED BY <1>1, <1>4, <1>5 DEF StreamInv, StreamOK

LEMMA ReadBlocksKeeps ==
    ASSUME StreamInv, NEW ok, ReadBlocks(super, ok), vol' = vol, super' = super
    PROVE  StreamInv'
<1> DEFINE n == (fr.loose \div BlockSize) * BlockSize
           total == Wrap(fr.bytes_read + n)
           rest == fr.loose - n
           place == n \div BlockSize
<1>1. /\ vol \in Volumes /\ super \in Leftovers /\ fr.bytes_read \in Nat
      /\ FileOpen(vol, super, fp) /\ ReadOK(vol, super, fr)
      /\ fr.step = "clusters"
  BY Reading DEF ReadBlocks
<1>2. /\ fr' = [fr EXCEPT !.bytes_read = total, !.loose = rest, !.step = "tail"]
      /\ fp' = [fp EXCEPT !.block_cluster_offset = place]
  BY DEF ReadBlocks
<1>3. fr.loose \in Nat /\ (super = Superblock(vol) => fr.loose < vol.clustersize * BlockSize)
  BY <1>1 DEF ReadOK
<1>4. /\ n \in Int /\ rest \in 0..(BlockSize - 1) /\ place \in Int
      /\ super = Superblock(vol) => place \in 0..(vol.clustersize - 1)
  BY <1>1, <1>3, Blocks
<1>5. total \in 0..(SizeMod - 1)
  <2>1. SizeMod \in Nat \ {0}
    BY <1>1, SizeFacts
  <2> HIDE DEF n
  <2>2. fr.bytes_read + n \in Int
    BY <1>1, <1>4
  <2> QED BY <2>1, <2>2, WrapRange
<1> HIDE DEF n, total, rest, place
<1>6. FileOpen(vol, super, fp')
  BY <1>1, <1>2, <1>4 DEF FileOpen
<1>7. ReadOK(vol, super, fr')
  BY <1>1, <1>2, <1>4, <1>5 DEF ReadOK, Steps
<1> QED BY <1>1, <1>6, <1>7 DEF StreamInv, StreamOK

LEMMA ReadTailKeeps ==
    ASSUME StreamInv, NEW ok, ReadTail(super, ok), vol' = vol, super' = super
    PROVE  StreamInv'
<1> DEFINE total == Wrap(fr.bytes_read + BlockSize)
           pos == Wrap(fp.pos + total)
<1>1. /\ vol \in Volumes /\ super \in Leftovers /\ fr.bytes_read \in Nat
      /\ FileOpen(vol, super, fp) /\ ReadOK(vol, super, fr)
      /\ fr.step = "tail"
  BY Reading DEF ReadTail
<1>2. /\ fr' = [fr EXCEPT !.step = "off", !.bytes_read = total]
      /\ fp' = [fp EXCEPT !.pos = pos, !.pos_block_offset = fr.loose]
  BY DEF ReadTail
<1>3. fr.loose \in 0..(BlockSize - 1)
  BY <1>1 DEF ReadOK
<1>4. SizeMod \in Nat \ {0} /\ BlockSize \in Nat
  BY <1>1, SizeFacts
<1>5. total \in 0..(SizeMod - 1) /\ total \in Int
  <2>1. fr.bytes_read + BlockSize \in Int
    BY <1>1, <1>4
  <2> QED BY <1>4, <2>1, WrapRange
<1>6. pos \in 0..(SizeMod - 1)
  <2> HIDE DEF total
  <2>1. fp.pos + total \in Int
    BY <1>1, <1>4, <1>5 DEF FileOpen
  <2> QED BY <1>4, <2>1, WrapRange
<1> HIDE DEF total, pos
<1>7. FileOpen(vol, super, fp')
  BY <1>1, <1>2, <1>3, <1>6 DEF FileOpen
<1>8. ReadOK(vol, super, fr')
  BY <1>1, <1>2, <1>5 DEF ReadOK, Steps
<1> QED BY <1>1, <1>7, <1>8 DEF StreamInv, StreamOK

LEMMA FileStepKeeps ==
    ASSUME StreamInv, FileStep(vol, super), vol' = vol, super' = super
    PROVE  StreamInv'
  BY ReadHeadKeeps, ReadRestKeeps, NextClusterKeeps, ReadClusterKeeps, ReadBlocksKeeps,
     ReadTailKeeps DEF FileStep
-----------------------------------------------------------------------------
(* Every step of the commands.                                               *)

(* The command that has a file open is cat, and its reader is off.           *)
CatInv == fp.open => cmd.op = "cat" /\ rd.phase = "off"
FsInv == WalkInv /\ StreamInv

LEMMA InitFs == Init => FsInv /\ CatInv
  BY InitWalk, InitStream DEF Init, FsInv, CatInv, FileInit, NoFile

LEMMA WalkUnchanged ==
    ASSUME WalkInv, UNCHANGED <<vol, walk>>
    PROVE  WalkInv'
  BY DEF WalkInv, walk

LEMMA StreamUnchanged ==
    ASSUME StreamInv, UNCHANGED <<vol, super, stream>>
    PROVE  StreamInv'
  BY DEF StreamInv, stream

LEMMA BeginStep ==
    ASSUME FsInv, NEW op \in {"ls", "tree", "cat"}, NEW path, Begin(op, path), UNCHANGED stream
    PROVE  FsInv'
<1>1. vol' = vol /\ super' = super
  BY DEF Begin
<1> QED BY <1>1, BeginKeeps, StreamUnchanged DEF FsInv

LEMMA CatLookupKeeps ==
    ASSUME FsInv, CatLookup
    PROVE  FsInv'
<1> DEFINE found == Matches(rd.list, Head(cmd.path))
           d == rd.list[First(found)]
<1>1. \/ UNCHANGED <<vol, walk, stream>>
      \/ Finish(-1) /\ UNCHANGED stream
      \/ /\ found # {} /\ FOpen(d, "r") /\ rd' = NoReader
         /\ UNCHANGED <<vol, cmd, super, it, chain, out, ret, failed, blocks, lost>>
  BY DEF CatLookup
<1>2. CASE UNCHANGED <<vol, walk, stream>>
  BY <1>2, WalkUnchanged, StreamUnchanged DEF FsInv, walk
<1>3. CASE Finish(-1) /\ UNCHANGED stream
  <2>1. vol' = vol /\ super' = super
    BY <1>3 DEF Finish
  <2> QED BY <1>3, <2>1, FinishKeeps, StreamUnchanged DEF FsInv
<1>4. CASE /\ found # {} /\ FOpen(d, "r") /\ rd' = NoReader
           /\ UNCHANGED <<vol, cmd, super, it, chain, out, ret, failed, blocks, lost>>
  <2>1. vol \in Volumes /\ super \in Leftovers /\ rd.list \in Seq(Listable(vol, super))
    BY DEF FsInv, WalkInv, ReaderOK, Readers
  <2>2. d \in Dirents(vol)
    BY <1>4, <2>1, FoundListed
  <2>3. StreamInv'
    <3> HIDE DEF d
    <3> QED BY <1>4, <2>2, FOpenKeeps DEF FsInv
  <2>4. ReaderOK(vol, super, rd')
    BY <1>4, <2>1, NewReader
  <2>5. WalkInv'
    <3> HIDE DEF found, d
    <3> QED BY <1>4, <2>4 DEF FsInv, WalkInv, BootOK, NoReader
  <2> QED BY <2>3, <2>5 DEF FsInv
<1> QED BY <1>1, <1>2, <1>3, <1>4

(* The superblock changes only when the boot block is read, without a file.  *)
LEMMA BootStream ==
    ASSUME StreamInv, CatInv, NEW ok \in BOOLEAN, ReadBoot(ok), UNCHANGED stream
    PROVE  StreamInv'
<1>1. /\ super' = Superblock(vol) \/ super' \in Leftovers
      /\ vol' = vol /\ fp' = fp /\ fr' = fr
  BY DEF ReadBoot, stream
<1>2. vol \in Volumes /\ super' \in Leftovers
  BY <1>1 DEF StreamInv, Leftovers
<1>3. ~fp.open
  BY DEF CatInv, ReadBoot
<1>4. fr.step = "off" /\ fp = NoFile /\ ReadOK(vol, super, fr)
  BY <1>3 DEF StreamInv, StreamOK, FileOpen
<1>5. StreamOK(vol, super', fp, fr)
  BY <1>4 DEF StreamOK, ReadOK
<1> QED BY <1>1, <1>2, <1>5 DEF StreamInv

LEMMA DirectoryStream ==
    ASSUME StreamInv, CatInv, DirectoryStep, UNCHANGED stream
    PROVE  StreamInv'
<1>1. CASE \E ok \in BOOLEAN : ReadBoot(ok)
  BY <1>1, BootStream
<1>2. CASE ~\E ok \in BOOLEAN : ReadBoot(ok)
  <2>1. vol' = vol /\ super' = super
    BY <1>2 DEF DirectoryStep, ReadEntry, ReadStream, ReadName, LsStep, TreeEnter,
                TreePrint, TreeEnd, Finish
  <2> QED BY <2>1, StreamUnchanged
<1> QED BY <1>1, <1>2

LEMMA NextFs == FsInv /\ CatInv /\ [Next]_vars => FsInv'
<1> SUFFICES ASSUME FsInv, CatInv, [Next]_vars PROVE FsInv'
  OBVIOUS
<1>1. ASSUME Ls \/ Tree \/ Cat \/ CatAbsolute PROVE FsInv'
  BY <1>1, BeginStep DEF Ls, Tree, Cat, CatAbsolute
<1>2. ASSUME CatNested \/ UNCHANGED vars PROVE FsInv'
  <2>1. UNCHANGED <<vol, walk>> /\ UNCHANGED <<vol, super, stream>>
    BY <1>2 DEF CatNested, vars, walk, stream
  <2> QED BY <2>1, WalkUnchanged, StreamUnchanged DEF FsInv
<1>3. ASSUME CatRead PROVE FsInv'
  <2>1. PICK n \in ReadSizes : FRead(n) /\ UNCHANGED <<vol, walk, lost>>
    BY <1>3 DEF CatRead
  <2>2. n \in Nat /\ super' = super
    BY <2>1, ExFatAssumption DEF walk
  <2> QED BY <2>1, <2>2, WalkUnchanged, FReadKeeps DEF FsInv
<1>4. ASSUME CatClose PROVE FsInv'
  <2>1. FClose /\ Finish(-1) /\ vol' = vol /\ super' = super
    BY <1>4 DEF CatClose, Finish
  <2> QED BY <2>1, FCloseKeeps, FinishKeeps DEF FsInv
<1>5. ASSUME DirectoryStep, UNCHANGED <<stream, lost>> PROVE FsInv'
  BY <1>5, DirectoryKeeps, DirectoryStream DEF FsInv
<1>6. ASSUME FileStep(vol, super), UNCHANGED <<vol, walk, lost>> PROVE FsInv'
  <2>1. super' = super
    BY <1>6 DEF walk
  <2> QED BY <1>6, <2>1, FileStepKeeps, WalkUnchanged DEF FsInv
<1> QED BY <1>1, <1>2, <1>3, <1>4, <1>5, <1>6, CatLookupKeeps DEF Next

LEMMA NextCat == FsInv /\ CatInv /\ [Next]_vars => CatInv'
<1> SUFFICES ASSUME FsInv, CatInv, [Next]_vars PROVE CatInv'
  OBVIOUS
<1>1. ASSUME Ls \/ Tree \/ Cat \/ CatAbsolute PROVE CatInv'
  <2>1. PICK op, path : Begin(op, path) /\ UNCHANGED stream
    BY <1>1 DEF Ls, Tree, Cat, CatAbsolute
  <2>2. ~fp.open /\ fp' = fp
    BY <2>1 DEF CatInv, Begin, Idle, stream
  <2> QED BY <2>2 DEF CatInv
<1>2. ASSUME CatNested \/ UNCHANGED vars \/ CatRead PROVE CatInv'
  <2>1. fp' = fp /\ cmd' = cmd /\ rd' = rd
    BY <1>2 DEF CatNested, CatRead, FRead, vars, walk, stream
  <2> QED BY <2>1 DEF CatInv
<1>3. ASSUME CatClose PROVE CatInv'
  <2>1. ~fp'.open
    BY <1>3 DEF CatClose, FClose, NoFile
  <2> QED BY <2>1 DEF CatInv
<1>4. ASSUME DirectoryStep, UNCHANGED <<stream, lost>> PROVE CatInv'
  <2>1. ~(cmd.op = "cat" /\ rd.phase = "off")
    BY <1>4 DEF DirectoryStep, ReadBoot, ReadEntry, ReadStream, ReadName, LsStep, TreeEnter,
                TreePrint, TreeEnd
  <2>2. fp' = fp
    BY <1>4 DEF stream
  <2> QED BY <2>1, <2>2 DEF CatInv
<1>5. ASSUME FileStep(vol, super), UNCHANGED <<vol, walk, lost>> PROVE CatInv'
  <2>1. fr.step # "off"
    BY <1>5 DEF FileStep, ReadHead, ReadRest, NextCluster, ReadCluster, ReadBlocks, ReadTail
  <2>2. fp.open
    BY <2>1 DEF FsInv, StreamInv, StreamOK, FileOpen
  <2>3. cmd' = cmd /\ rd' = rd
    BY <1>5 DEF walk
  <2> QED BY <2>2, <2>3 DEF CatInv
<1>6. ASSUME CatLookup PROVE CatInv'
  <2>1. cmd.op = "cat" /\ rd.phase = "done" /\ ~fp.open
    BY <1>6 DEF CatLookup, CatInv
  <2>2. \/ fp' = fp
        \/ rd' = NoReader /\ cmd' = cmd
    BY <1>6 DEF CatLookup, stream
  <2> QED BY <2>1, <2>2 DEF CatInv, NoReader
<1> QED BY <1>1, <1>2, <1>3, <1>4, <1>5, <1>6 DEF Next

LEMMA FsAlways == Spec => [](FsInv /\ CatInv)
<1>1. FsInv /\ CatInv /\ [Next]_vars => (FsInv /\ CatInv)'
  BY NextFs, NextCat
<1> QED BY InitFs, <1>1, PTL DEF Spec

(* The walk's and the stream's state keep their shape: the position and the  *)
(* counters of a read stay below what size_t counts, and the stream stands   *)
(* in a block of its cluster, whatever sizes are asked and whatever the      *)
(* table and the reads return (exfat_fread's unsigned arithmetic).           *)
THEOREM TypeCorrect == Spec => []TypeOK
<1>1. FsInv => TypeOK
  <2> SUFFICES ASSUME FsInv PROVE TypeOK
    OBVIOUS
  <2>1. /\ vol \in Volumes /\ super \in Leftovers /\ ret \in {0, -1}
        /\ cmd.op \in {"none", "ls", "tree", "cat"}
    BY DEF FsInv, WalkInv, CmdOK
  <2>2. /\ rd.phase \in {"off", "boot", "entry", "stream", "name", "done"}
        /\ rd.idx \in Nat /\ rd.left \in Nat
    BY DEF FsInv, WalkInv, ReaderOK, Readers
  <2>3. fr.step \in Steps /\ fr.bytes_read \in 0..(SizeMod - 1)
    BY DEF FsInv, StreamInv, StreamOK, ReadOK
  <2>4. fp.open => /\ fp.pos \in 0..(SizeMod - 1)
                   /\ Own => fp.block_cluster_offset \in 0..(vol.clustersize - 1)
                   /\ fp.pos_block_offset \in 0..(BlockSize - 1)
    BY DEF FsInv, StreamInv, StreamOK, FileOpen, NoFile, Own
  <2> QED BY <2>1, <2>2, <2>3, <2>4 DEF TypeOK
<1> QED BY <1>1, FsAlways, PTL

(* The walks over a volume's directories read blocks of directories only,    *)
(* although they never look at the allocation table: on a volume whose       *)
(* directories are contiguous (exfat_readdir_fromblock, ls, tree and cat's   *)
(* look-up).                                                                 *)
THEOREM WalkStaysCorrect ==
    ASSUME SoundVolumes PROVE Spec => []WalkStaysInDirectories
<1>1. FsInv => WalkStaysInDirectories
  <2> SUFFICES ASSUME FsInv, Contiguous(vol), Own
               PROVE  \A b \in blocks \ {0} : ClusterOf(vol, b) \in DOMAIN vol.dirs
    BY DEF WalkStaysInDirectories
  <2>1. vol \in Volumes /\ BlocksOK(vol, super, blocks)
    BY DEF FsInv, WalkInv
  <2>2. Right(vol, super)
    BY <2>1 DEF SoundVolumes, Right, Sound, Own
  <2> QED BY <2>1, <2>2 DEF BlocksOK
<1> QED BY <1>1, FsAlways, PTL
-----------------------------------------------------------------------------
(* What a directory holds, by the table, is what the code reads, which never *)
(* looks at the table: the clusters of a chain follow each other up to the   *)
(* directory's end.                                                          *)

(* Recursion: what is so at first, and after each step if before it, is so up*)
(* to N; and a function that goes on step by step exists.                    *)
LEMMA UpTo ==
    ASSUME NEW N \in Nat, NEW S, 0 \in S, \A n \in 0..N : n \in S /\ n # N => n + 1 \in S
    PROVE  \A n \in 0..N : n \in S
<1> DEFINE B == {n \in 0..N : n \notin S}
<1> SUFFICES ASSUME B # {} PROVE FALSE
  OBVIOUS
<1>1. B \in SUBSET Nat
  OBVIOUS
<1>2. PICK n \in B : \A m \in B : n <= m
  <2> HIDE DEF B
  <2> QED BY <1>1, LeastNat
<1>3. n \in 0..N /\ n \notin S /\ n # 0
  OBVIOUS
<1>4. n - 1 \in 0..N /\ (n - 1) + 1 = n /\ n - 1 # N /\ ~(n <= n - 1)
  BY <1>3
<1>5. n - 1 \in S
  <2>1. n - 1 \notin B
    BY <1>2, <1>4, Zenon
  <2> QED BY <1>4, <2>1
<1> QED BY <1>3, <1>4, <1>5

Follows(f, x, T, N) ==
    f[0] = x /\ \A i \in 0..N : i # N => f[i + 1] = T[i][f[i]]

LEMMA RunExists ==
    ASSUME NEW N \in Nat, NEW X, NEW x \in X, NEW T \in [0..N -> [X -> X]]
    PROVE  \E f \in [0..N -> X] : Follows(f, x, T, N)
<1> DEFINE S == {n \in 0..N : \E f \in [0..n -> X] : Follows(f, x, T, n)}
<1>1. 0 \in S
  <2> DEFINE f == [n \in 0..0 |-> x]
  <2>1. f \in [0..0 -> X] /\ 0 \in 0..N
    OBVIOUS
  <2>2. f[0] = x /\ \A i \in 0..0 : i = 0
    OBVIOUS
  <2> HIDE DEF f
  <2>3. Follows(f, x, T, 0)
    BY <2>2 DEF Follows
  <2> QED BY <2>1, <2>3
<1>2. ASSUME NEW n \in 0..N, n \in S, n # N PROVE n + 1 \in S
  <2>1. PICK f \in [0..n -> X] : Follows(f, x, T, n)
    BY <1>2
  <2> DEFINE g == [h \in 0..(n + 1) |-> IF h <= n THEN f[h] ELSE T[n][f[n]]]
  <2>2. n + 1 \in 0..N /\ n \in 0..n /\ n \in Nat
    BY <1>2
  <2>3. g \in [0..(n + 1) -> X]
    <3>1. f[n] \in X
      BY <2>2
    <3>2. T[n][f[n]] \in X
      BY <3>1
    <3>3. \A h \in 0..(n + 1) : h <= n => h \in 0..n
      BY <2>2
    <3> QED BY <3>2, <3>3
  <2>4. g[0] = x
    BY <2>1, <2>2 DEF Follows
  <2>5. ASSUME NEW h \in 0..(n + 1), h # n + 1 PROVE g[h + 1] = T[h][g[h]]
    <3>1. h \in 0..n /\ h + 1 \in 0..(n + 1) /\ h \in 0..(n + 1) /\ g[h] = f[h]
      BY <2>2, <2>5
    <3>2. CASE h = n
      <4>1. g[h + 1] = T[n][f[n]]
        BY <2>2, <3>1, <3>2
      <4> QED BY <3>1, <3>2, <4>1
    <3>3. CASE h # n
      <4>1. h + 1 <= n /\ g[h + 1] = f[h + 1]
        BY <2>2, <3>1, <3>3
      <4>2. f[h + 1] = T[h][f[h]]
        BY <2>1, <3>1, <3>3 DEF Follows
      <4> QED BY <3>1, <4>1, <4>2
    <3> QED BY <3>2, <3>3
  <2> HIDE DEF g
  <2>6. Follows(g, x, T, n + 1)
    BY <2>4, <2>5 DEF Follows
  <2> QED BY <2>2, <2>3, <2>6
<1>3. \A n \in 0..N : n \in S
  <2> HIDE DEF S
  <2> QED BY <1>1, <1>2, UpTo
<1>4. N \in S
  BY <1>3
<1> QED BY <1>4

MaxClusters(v) == Cardinality(DOMAIN v.dirs)
LEMMA MaxFacts ==
    ASSUME NEW v \in Volumes
    PROVE  /\ IsFiniteSet(DOMAIN v.dirs) /\ MaxClusters(v) \in Nat /\ MaxEntries(v) \in Nat
           /\ MaxEntries(v) = MaxClusters(v) * PerCluster(v)
<1>1. IsFiniteSet(DOMAIN v.dirs)
  BY VolumesAssumption DEF VolumeOK
<1>2. MaxClusters(v) \in Nat
  BY <1>1, FS_CardinalityType DEF MaxClusters
<1>3. PerCluster(v) \in Nat
  BY ClusterFacts
<1> DEFINE a == MaxClusters(v)
           b == PerCluster(v)
<1>4. a * b \in Nat
  <2>1. a \in Nat /\ b \in Nat
    BY <1>2, <1>3
  <2> HIDE DEF a, b
  <2> QED BY <2>1, ProductNat
<1> QED BY <1>1, <1>2, <1>4 DEF MaxEntries, MaxClusters

ClusterStep(v, x) == IF x \in DOMAIN v.dirs THEN v.next[x] ELSE LastCluster

LEMMA ClusterSteps ==
    ASSUME NEW v \in Volumes, ChainsWhole(v), NEW c \in DOMAIN v.dirs
    PROVE  /\ ClusterAt(v, c, 0) = c
           /\ \A n \in 0..MaxClusters(v) : n # MaxClusters(v) =>
                 ClusterAt(v, c, n + 1) = ClusterStep(v, ClusterAt(v, c, n))
<1> DEFINE K == MaxClusters(v)
           X == DOMAIN v.dirs \cup {LastCluster}
           T == [i \in 0..K |-> [x \in X |-> ClusterStep(v, x)]]
           Is(f) == f = [n \in 0..K |-> IF n = 0 THEN c
                                        ELSE IF f[n - 1] \in DOMAIN v.dirs THEN v.next[f[n - 1]]
                                             ELSE LastCluster]
           F == CHOOSE f : Is(f)
<1>1. K \in Nat /\ c \in X
  BY MaxFacts
<1>2. T \in [0..K -> [X -> X]]
  <2>1. \A x \in X : ClusterStep(v, x) \in X
    BY DEF ClusterStep, ChainsWhole
  <2> HIDE DEF X
  <2> QED BY <2>1
<1>3. PICK f \in [0..K -> X] : Follows(f, c, T, K)
  <2> HIDE DEF X, K, T
  <2> QED BY <1>1, <1>2, RunExists
<1>4. f[0] = c /\ \A n \in 0..K : n # K => f[n + 1] = ClusterStep(v, f[n])
  <2>1. \A n \in 0..K : f[n] \in X
    OBVIOUS
  <2>2. \A n \in 0..K : T[n][f[n]] = ClusterStep(v, f[n])
    <3> HIDE DEF X
    <3> QED BY <2>1
  <2> HIDE DEF T, K, X
  <2> QED BY <1>3, <2>2 DEF Follows
<1>5. Is(f)
  <2>1. ASSUME NEW n \in 0..K
        PROVE  f[n] = IF n = 0 THEN c
                      ELSE IF f[n - 1] \in DOMAIN v.dirs THEN v.next[f[n - 1]] ELSE LastCluster
    <3>1. CASE n = 0
      BY <1>4, <3>1
    <3>2. CASE n # 0
      <4>1. n - 1 \in 0..K /\ n - 1 # K /\ (n - 1) + 1 = n
        BY <1>1, <3>2
      <4>2. f[n] = ClusterStep(v, f[n - 1])
        BY <1>4, <4>1
      <4> QED BY <3>2, <4>2 DEF ClusterStep
    <3> QED BY <3>1, <3>2
  <2> HIDE DEF K, X
  <2> QED BY <1>3, <2>1
<1>6. Is(F)
  <2> HIDE DEF Is
  <2> QED BY <1>5
<1>7. \A k : ClusterAt(v, c, k) = F[k]
  BY DEF ClusterAt, MaxClusters
<1> HIDE DEF F
<1>8. F[0] = c
  <2>1. 0 \in 0..K
    BY <1>1
  <2> HIDE DEF K
  <2> QED BY <1>6, <2>1
<1>9. ASSUME NEW n \in 0..K, n # K PROVE F[n + 1] = ClusterStep(v, F[n])
  <2>1. n + 1 \in 0..K /\ n + 1 # 0 /\ (n + 1) - 1 = n
    BY <1>1, <1>9
  <2>2. F[n + 1] = IF F[n] \in DOMAIN v.dirs THEN v.next[F[n]] ELSE LastCluster
    <3> HIDE DEF K
    <3>1. F[n + 1] = IF n + 1 = 0 THEN c
                      ELSE IF F[(n + 1) - 1] \in DOMAIN v.dirs THEN v.next[F[(n + 1) - 1]] ELSE LastCluster
      BY <1>6, <2>1
    <3> QED BY <2>1, <3>1
  <2> QED BY <2>2 DEF ClusterStep
<1> QED BY <1>7, <1>8, <1>9

NextFiles(v, c, i, list) ==
    IF EntryIn(v, c, i).code = "file" THEN Append(list, FileAt(v, c, i)) ELSE list

LEMMA FilesSteps ==
    ASSUME NEW v \in Volumes, NEW c
    PROVE  /\ FilesBefore(v, c, 0) = <<>>
           /\ \A n \in 0..MaxEntries(v) :
                 /\ FilesBefore(v, c, n) \in Seq({FileAt(v, c, i) : i \in 0..MaxEntries(v)})
                 /\ n # MaxEntries(v) =>
                       FilesBefore(v, c, n + 1) = NextFiles(v, c, n, FilesBefore(v, c, n))
<1> DEFINE K == MaxEntries(v)
           D == {FileAt(v, c, i) : i \in 0..K}
           X == Seq(D)
           T == [i \in 0..K |-> [l \in X |-> NextFiles(v, c, i, l)]]
           Is(f) == f = [i \in 0..K |->
                            IF i = 0 THEN <<>>
                            ELSE IF EntryIn(v, c, i - 1).code = "file"
                            THEN Append(f[i - 1], FileAt(v, c, i - 1)) ELSE f[i - 1]]
           F == CHOOSE f : Is(f)
<1>1. K \in Nat /\ <<>> \in X
  <2> HIDE DEF D
  <2> QED BY MaxFacts
<1>2. T \in [0..K -> [X -> X]]
  <2>1. ASSUME NEW i \in 0..K, NEW l \in X PROVE NextFiles(v, c, i, l) \in X
    <3>1. FileAt(v, c, i) \in D
      OBVIOUS
    <3> HIDE DEF D
    <3> QED BY <3>1 DEF NextFiles
  <2> HIDE DEF X, K
  <2> QED BY <2>1
<1>3. PICK f \in [0..K -> X] : Follows(f, <<>>, T, K)
  <2> HIDE DEF X, K, T
  <2> QED BY <1>1, <1>2, RunExists
<1>4. f[0] = <<>> /\ \A n \in 0..K : n # K => f[n + 1] = NextFiles(v, c, n, f[n])
  <2>1. \A n \in 0..K : f[n] \in X
    OBVIOUS
  <2>2. \A n \in 0..K : T[n][f[n]] = NextFiles(v, c, n, f[n])
    <3> HIDE DEF X, K
    <3> QED BY <2>1
  <2> HIDE DEF T, K, X
  <2> QED BY <1>3, <2>2 DEF Follows
<1>5. Is(f)
  <2>1. ASSUME NEW n \in 0..K
        PROVE  f[n] = IF n = 0 THEN <<>>
                      ELSE IF EntryIn(v, c, n - 1).code = "file"
                      THEN Append(f[n - 1], FileAt(v, c, n - 1)) ELSE f[n - 1]
    <3>1. CASE n = 0
      BY <1>4, <3>1
    <3>2. CASE n # 0
      <4>1. n - 1 \in 0..K /\ n - 1 # K /\ (n - 1) + 1 = n
        BY <1>1, <3>2
      <4>2. f[n] = NextFiles(v, c, n - 1, f[n - 1])
        BY <1>4, <4>1
      <4> QED BY <3>2, <4>2 DEF NextFiles
    <3> QED BY <3>1, <3>2
  <2> HIDE DEF K, X
  <2> QED BY <1>3, <2>1
<1>6. Is(F)
  <2> HIDE DEF Is
  <2> QED BY <1>5
<1>7. \A k : FilesBefore(v, c, k) = F[k]
  BY DEF FilesBefore
<1> HIDE DEF F
<1>8. F[0] = <<>>
  <2>1. 0 \in 0..K
    BY <1>1
  <2> HIDE DEF K
  <2> QED BY <1>6, <2>1
<1>9. ASSUME NEW n \in 0..K, n # K PROVE F[n + 1] = NextFiles(v, c, n, F[n])
  <2>1. n + 1 \in 0..K /\ n + 1 # 0 /\ (n + 1) - 1 = n
    BY <1>1, <1>9
  <2>2. F[n + 1] = IF n + 1 = 0 THEN <<>>
                    ELSE IF EntryIn(v, c, (n + 1) - 1).code = "file"
                      THEN Append(F[(n + 1) - 1], FileAt(v, c, (n + 1) - 1)) ELSE F[(n + 1) - 1]
    <3> HIDE DEF K
    <3> QED BY <1>6, <2>1
  <2> QED BY <2>1, <2>2 DEF NextFiles
<1>10. \A n \in 0..K : F[n] \in X
  <2> DEFINE S == {n \in 0..K : F[n] \in X}
  <2>1. 0 \in S
    BY <1>1, <1>8
  <2>2. ASSUME NEW n \in 0..K, n \in S, n # K PROVE n + 1 \in S
    <3>1. F[n] \in X
      BY <2>2
    <3>2. n + 1 \in 0..K
      BY <1>1, <2>2
    <3>3. NextFiles(v, c, n, F[n]) \in X
      <4>1. FileAt(v, c, n) \in D
        OBVIOUS
      <4> HIDE DEF D
      <4> QED BY <3>1, <4>1 DEF NextFiles
    <3> HIDE DEF X, K
    <3> QED BY <1>9, <2>2, <3>2, <3>3
  <2>3. \A n \in 0..K : n \in S
    <3> HIDE DEF S, K
    <3> QED BY <1>1, <2>1, <2>2, UpTo
  <2> QED BY <2>3
<1> QED BY <1>7, <1>8, <1>9, <1>10

(* No entry before entry n ends the directory.                               *)
NoEnd(v, c, n) == \A j \in 0..(n - 1) : EntryType(EntryOf(v, c, j)) # "end"

(* Up to its end, the clusters of a directory's chain follow each other.     *)
LEMMA ChainInLine ==
    ASSUME NEW v \in Volumes, Sound(v), NEW s \in DOMAIN v.dirs, NEW n \in Nat, NoEnd(v, s, n),
           NEW k \in Nat, k * PerCluster(v) <= n
    PROVE  /\ k + 1 <= MaxClusters(v)
           /\ \A m \in 0..k : ClusterAt(v, s, m) = s + m /\ s + m \in DOMAIN v.dirs
<1> DEFINE P == PerCluster(v)
<1>1. P \in Nat \ {0} /\ s \in Nat /\ \A c \in DOMAIN v.dirs : c \in Nat
  BY ClusterFacts
<1>2. ASSUME NEW m \in 0..k, m # k, s + m \in DOMAIN v.dirs
      PROVE  v.next[s + m] = s + m + 1 /\ s + m + 1 \in DOMAIN v.dirs
  <2>1. v.next[s + m] # LastCluster
    <3> SUFFICES ASSUME v.next[s + m] = LastCluster PROVE FALSE
      OBVIOUS
    <3>1. Len(v.dirs[s + m]) < P
      BY <1>2 DEF Sound, Contiguous, PerCluster
    <3>2. P - 1 \in 0..(P - 1) /\ m \in Nat
      <4> HIDE DEF P
      <4> QED BY <1>1
    <3>3. SlotOf(v, s + m, P - 1) = Blank
      <4> HIDE DEF P
      <4> QED BY <1>1, <3>1 DEF SlotOf
    <3>4. EntryOf(v, s, m * P + (P - 1)) = SlotOf(v, s + m, P - 1)
      BY <1>2, <3>2, InsideEntry
    <3>5. m * P + (P - 1) \in 0..(n - 1)
      <4> HIDE DEF P
      <4>0. m \in Nat /\ m + 1 <= k
        BY <1>2
      <4>1. (m + 1) * P <= k * P
        BY <1>1, <4>0
      <4>2. (m + 1) * P = m * P + P /\ m * P \in Nat
        BY <1>1, <4>0
      <4>3. k * P <= n
        BY DEF P
      <4> QED BY <1>1, <4>1, <4>2, <4>3
    <3>6. EntryType(EntryOf(v, s, m * P + (P - 1))) # "end"
      BY <3>5 DEF NoEnd
    <3> QED BY <3>3, <3>4, <3>6 DEF Blank, EntryType
  <2>2. v.next[s + m] = s + m + 1
    BY <1>2, <2>1 DEF Sound, Contiguous
  <2>3. v.next[s + m] \in DOMAIN v.dirs
    BY <1>2, <2>1 DEF Sound, ChainsWhole
  <2> QED BY <2>2, <2>3
<1> DEFINE S == {m \in 0..k : s + m \in DOMAIN v.dirs}
<1>3. \A m \in 0..k : m \in S
  <2>1. 0 \in S
    BY <1>1
  <2>2. ASSUME NEW m \in 0..k, m \in S, m # k PROVE m + 1 \in S
    <3>1. s + m + 1 \in DOMAIN v.dirs /\ s + (m + 1) = s + m + 1 /\ m + 1 \in 0..k
      BY <1>1, <1>2, <2>2
    <3> QED BY <3>1
  <2> HIDE DEF S
  <2> QED BY <2>1, <2>2, UpTo
<1>4. k + 1 <= MaxClusters(v)
  <2>1. s..(s + k) \subseteq DOMAIN v.dirs
    <3>1. ASSUME NEW c \in s..(s + k) PROVE c \in DOMAIN v.dirs
      <4>1. c - s \in 0..k /\ s + (c - s) = c
        BY <1>1
      <4> QED BY <1>3, <4>1
    <3> QED BY <3>1
  <2>2. Cardinality(s..(s + k)) = k + 1
    <3>1. s \in Int /\ s + k \in Int /\ ~(s > s + k) /\ (s + k) - s + 1 = k + 1
      BY <1>1
    <3> QED BY <3>1, FS_Interval
  <2>3. Cardinality(s..(s + k)) <= Cardinality(DOMAIN v.dirs)
    BY <2>1, MaxFacts, FS_Subset
  <2> QED BY <2>2, <2>3 DEF MaxClusters
<1> DEFINE C == {m \in 0..k : ClusterAt(v, s, m) = s + m}
<1>5. \A m \in 0..k : m \in C
  <2>1. 0 \in C
    BY <1>1, ClusterSteps DEF Sound
  <2>2. ASSUME NEW m \in 0..k, m \in C, m # k PROVE m + 1 \in C
    <3>1. m \in S /\ ClusterAt(v, s, m) = s + m
      BY <1>3, <2>2
    <3>2. v.next[s + m] = s + m + 1 /\ s + m \in DOMAIN v.dirs
      BY <1>2, <2>2, <3>1
    <3>3. m \in 0..MaxClusters(v) /\ m # MaxClusters(v)
      BY <1>4, MaxFacts
    <3>4. ClusterAt(v, s, m + 1) = ClusterStep(v, ClusterAt(v, s, m))
      BY <3>3, ClusterSteps DEF Sound
    <3>5. m + 1 \in 0..k /\ s + (m + 1) = s + m + 1
      BY <1>1, <2>2
    <3> QED BY <3>1, <3>2, <3>4, <3>5 DEF ClusterStep
  <2> HIDE DEF C
  <2> QED BY <2>1, <2>2, UpTo
<1> QED BY <1>3, <1>4, <1>5

(* So the entries are where the code, which never looks at the table, finds  *)
(* them.                                                                     *)
LEMMA EntryFound ==
    ASSUME NEW v \in Volumes, Sound(v), NEW s \in DOMAIN v.dirs, NEW n \in Nat, NoEnd(v, s, n),
           NEW i \in 0..n
    PROVE  /\ EntryIn(v, s, i) = EntryOf(v, s, i)
           /\ i < MaxEntries(v) /\ Inside(v, s, i)
<1> DEFINE P == PerCluster(v)
           k == i \div P
           j == i % P
<1>1. P \in Nat \ {0} /\ i \in Nat
  BY ClusterFacts
<1>2. j \in 0..(P - 1) /\ k \in Nat /\ i = k * P + j
  <2> HIDE DEF P
  <2>1. i \div P \in Int /\ i % P \in 0..(P - 1) /\ i = P * (i \div P) + (i % P)
    BY <1>1, DivRange
  <2>2. i \div P \in Nat
    BY <1>1, DivNat
  <2>3. P * (i \div P) = (i \div P) * P
    BY <1>1, <2>2
  <2> QED BY <2>1, <2>2, <2>3
<1>3. k * P <= n
  <2> HIDE DEF P, k, j
  <2>1. k * P \in Nat
    BY <1>1, <1>2, ProductNat
  <2> QED BY <1>1, <1>2, <2>1
<1>4. k + 1 <= MaxClusters(v) /\ ClusterAt(v, s, k) = s + k /\ s + k \in DOMAIN v.dirs
  <2> HIDE DEF k, j
  <2>1. k \in 0..k
    BY <1>2
  <2> QED BY <1>2, <1>3, <2>1, ChainInLine
<1>5. i < MaxEntries(v)
  <2> DEFINE K == MaxClusters(v)
  <2>1. K \in Nat /\ MaxEntries(v) = K * P
    BY MaxFacts
  <2> HIDE DEF P, k, j, K
  <2>2. (k + 1) * P <= K * P
    BY <1>1, <1>2, <1>4, <2>1 DEF K
  <2>3. (k + 1) * P = k * P + P /\ k * P \in Nat /\ K * P \in Nat
    BY <1>1, <1>2, <2>1
  <2> QED BY <1>1, <1>2, <2>1, <2>2, <2>3
<1>6. EntryIn(v, s, i) = SlotOf(v, s + k, j)
  BY <1>4 DEF EntryIn
<1>7. EntryOf(v, s, i) = SlotOf(v, s + k, j)
  <2>1. EntryOf(v, s, k * P + j) = SlotOf(v, s + k, j)
    <3> HIDE DEF k, j
    <3> QED BY <1>2, <1>4, InsideEntry
  <2> HIDE DEF k, j
  <2> QED BY <1>2, <2>1
<1>8. Inside(v, s, i)
  <2> HIDE DEF k, j
  <2> QED BY <1>2, <1>4 DEF Inside
<1> QED BY <1>5, <1>6, <1>7, <1>8

(* The end is the first of its kind.                                         *)
LEMMA EndFound ==
    ASSUME NEW v \in Volumes, Sound(v), NEW s \in DOMAIN v.dirs, NEW n \in Nat, NoEnd(v, s, n),
           EntryType(EntryOf(v, s, n)) = "end"
    PROVE  EndIn(v, s) = n
<1> DEFINE Ends(i) == /\ EntryType(EntryIn(v, s, i)) = "end"
                      /\ \A j \in 0..(i - 1) : EntryType(EntryIn(v, s, j)) # "end"
           M == MaxEntries(v)
           x == CHOOSE i \in 0..M : Ends(i)
<1>1. \A i \in 0..n : EntryIn(v, s, i) = EntryOf(v, s, i) /\ i < M
  BY EntryFound
<1>2. n \in 0..M /\ M \in Nat
  <2>1. n \in 0..n /\ M \in Nat
    BY MaxFacts
  <2> HIDE DEF M
  <2> QED BY <1>1, <2>1
<1>3. Ends(n)
  <2>1. n \in 0..n /\ \A j \in 0..(n - 1) : j \in 0..n
    OBVIOUS
  <2> QED BY <1>1, <2>1 DEF NoEnd
<1>4. x \in 0..M /\ Ends(x)
  <2> HIDE DEF M, Ends
  <2> QED BY <1>2, <1>3
<1>5. ~(x < n) /\ ~(n < x)
  <2> HIDE DEF x
  <2>1. x < n => x \in 0..(n - 1)
    BY <1>2, <1>4
  <2>2. n < x => n \in 0..(x - 1)
    BY <1>2, <1>4
  <2> QED BY <1>3, <1>4, <2>1, <2>2
<1>6. x = n
  <2> HIDE DEF x, Ends
  <2> QED BY <1>2, <1>4, <1>5
<1> QED BY <1>6 DEF EndIn
-----------------------------------------------------------------------------
(* In a formatted directory nothing but a failed read stops the reader, and a*)
(* set makes one file.                                                       *)

LEMMA FormattedSound ==
    ASSUME NEW v, Formatted(v)
    PROVE  Sound(v)
  BY DEF Formatted, Sound

LEMMA FormattedRight ==
    ASSUME NEW v, Formatted(v), NEW u, u = Superblock(v)
    PROVE  Right(v, u)
  BY DEF Formatted, Sound, Right

(* Entry j of cluster c is no bad one.                                       *)
LEMMA SlotGood ==
    ASSUME NEW v \in Volumes, Formatted(v), NEW c \in DOMAIN v.dirs, NEW j \in Nat
    PROVE  ~BadEntry(SlotOf(v, c, j))
<1>1. CASE j + 1 > Len(v.dirs[c])
  BY <1>1 DEF SlotOf, Blank, BadEntry, EntryType
<1>2. CASE ~(j + 1 > Len(v.dirs[c]))
  <2>1. DOMAIN v.dirs[c] = 1..Len(v.dirs[c]) /\ Len(v.dirs[c]) \in Nat
    BY VolumesAssumption DEF VolumeOK
  <2>2. j + 1 \in DOMAIN v.dirs[c]
    BY <1>2, <2>1
  <2>3. ~BadEntry(v.dirs[c][j + 1])
    BY <2>2 DEF Formatted
  <2> QED BY <1>2, <2>3 DEF SlotOf
<1> QED BY <1>1, <1>2

(* Nothing in a directory keeps the reader from going on.                    *)
LEMMA EntryGood ==
    ASSUME NEW v \in Volumes, Formatted(v), NEW s \in DOMAIN v.dirs, NEW i \in Nat, Inside(v, s, i)
    PROVE  ~BadEntry(EntryOf(v, s, i)) /\ OnCard(EntryBlock(v, s, i))
<1> DEFINE P == PerCluster(v)
           cs == v.clustersize
           off == v.clusterheap_offset
<1>1. PICK k \in Nat, j \in 0..(P - 1) : i = k * P + j /\ s + k \in DOMAIN v.dirs
  BY DEF Inside
<1> DEFINE c == s + k
           b == EntryBlock(v, s, i)
<1>2. cs \in Nat \ {0} /\ off \in Nat /\ c \in Nat /\ c >= 2 /\ j \in Nat
      /\ s \in Nat /\ s >= 2 /\ P \in Nat
  BY <1>1, ClusterFacts
<1>3. EntryOf(v, s, i) = SlotOf(v, c, j) /\ ClusterOf(v, b) = c
  BY <1>1, InsideEntry
<1>4. ~BadEntry(EntryOf(v, s, i))
  BY <1>1, <1>2, <1>3, SlotGood
<1>5. b \in Int
  <2>1. cluster_to_block(v, s) \in Int
    <3>1. (s - 2) * cs \in Nat
      <4>1. s - 2 \in Nat
        BY <1>2
      <4> HIDE DEF cs
      <4> QED BY <1>2, <4>1, ProductNat
    <3> QED BY <1>2, <3>1 DEF cluster_to_block
  <2>2. cluster_to_block(v, s) * BlockSize + EntrySize * i \in Int /\ BlockSize \in Nat \ {0}
    <3>1. cluster_to_block(v, s) * BlockSize \in Int
      BY <2>1, BlockFacts
    <3> QED BY <3>1, BlockFacts DEF EntrySize
  <2> QED BY <2>2, DivRange DEF EntryBlock
<1>6. b < (c - 2) * cs + off + cs /\ b >= 0
  <2> DEFINE d == b - off
  <2>1. d \in Int /\ d \div cs = c - 2
    <3>1. (b - off) \div cs \in Int
      <4>1. b - off \in Int
        BY <1>2, <1>5
      <4> HIDE DEF b, off, cs
      <4> QED BY <1>2, <4>1, DivRange
    <3>2. (b - off) \div cs + 2 = c
      BY <1>3 DEF ClusterOf
    <3>3. b - off \in Int
      BY <1>2, <1>5
    <3> HIDE DEF b, off, cs, c
    <3> QED BY <1>2, <3>1, <3>2, <3>3
  <2>2. d = cs * (c - 2) + (d % cs) /\ d % cs \in 0..(cs - 1)
    <3> HIDE DEF d, cs, c
    <3> QED BY <1>2, <2>1, DivRange
  <2>3. d < (c - 2) * cs + cs
    <3> DEFINE r == d % cs
               a == c - 2
    <3>1. d = cs * a + r /\ r \in 0..(cs - 1) /\ a \in Int /\ cs \in Nat
      BY <1>2, <2>2
    <3> HIDE DEF r, a, cs, d
    <3>2. d < a * cs + cs
      BY <3>1
    <3> QED BY <3>2 DEF a
  <2>4. (c - 2) * cs \in Int
    <3> HIDE DEF cs, c
    <3> QED BY <1>2
  <2>5. d >= 0
    <3> DEFINE r == d % cs
               a == c - 2
    <3>1. d = cs * a + r /\ r \in 0..(cs - 1) /\ a \in Nat /\ cs \in Nat
      BY <1>2, <2>2
    <3> HIDE DEF r, a, cs, d
    <3>2. cs * a \in Nat
      BY <3>1, ProductNat
    <3> QED BY <3>1, <3>2
  <2> HIDE DEF b, off, cs, c
  <2> QED BY <1>2, <1>5, <2>3, <2>4, <2>5 DEF d
<1>7. (c - 2) * cs + off + cs <= NumBlocks
  <2>1. cluster_to_block(v, c) + cs <= NumBlocks
    BY <1>1 DEF Formatted
  <2>2. cluster_to_block(v, c) = (c - 2) * cs + off
    BY <1>2 DEF cluster_to_block
  <2> QED BY <2>1, <2>2
<1>8. (c - 2) * cs + off + cs \in Int /\ NumBlocks \in Int
  <2>1. (c - 2) * cs \in Int
    <3> HIDE DEF cs, c
    <3> QED BY <1>2
  <2> QED BY <1>2, <2>1, BlockFacts
<1> HIDE DEF b, cs, off, c
<1>9. b \in 0..(NumBlocks - 1)
  BY <1>5, <1>6, <1>7, <1>8
<1> QED BY <1>4, <1>9 DEF b, OnCard

(* A set is a file, a stream and names.                                      *)
LEMMA SetShape ==
    ASSUME NEW v \in Volumes, Formatted(v), NEW s \in DOMAIN v.dirs, NEW i \in Nat,
           Inside(v, s, i), EntryOf(v, s, i).code = "file"
    PROVE  LET e == EntryOf(v, s, i)
           IN /\ e.secondary \in Nat \ {0} /\ e.secondary >= 2
              /\ EntryOf(v, s, i + 1).code = "stream"
              /\ \A k \in 2..e.secondary : EntryOf(v, s, i + k).code = "name"
              /\ \A m \in 0..(e.secondary + 1) : Inside(v, s, i + m)
<1> DEFINE n == PerCluster(v)
           e == EntryOf(v, s, i)
<1>1. PICK k \in Nat, j \in 0..(n - 1) : i = k * n + j /\ s + k \in DOMAIN v.dirs
  BY DEF Inside
<1>2. n \in Nat \ {0} /\ s \in Nat /\ s >= 2 /\ j \in Nat
  BY <1>1, ClusterFacts
<1> DEFINE c == s + k
<1>3. e = SlotOf(v, c, j)
  BY <1>1, InsideEntry
<1>4. j + 1 \in DOMAIN v.dirs[c] /\ e = v.dirs[c][j + 1]
  <2>1. e # Blank
    BY DEF Blank
  <2>2. ~(j + 1 > Len(v.dirs[c])) /\ e = v.dirs[c][j + 1]
    BY <1>3, <2>1 DEF SlotOf
  <2>3. DOMAIN v.dirs[c] = 1..Len(v.dirs[c]) /\ Len(v.dirs[c]) \in Nat
    BY <1>1, VolumesAssumption DEF VolumeOK
  <2> QED BY <1>2, <2>2, <2>3
<1>5. e.secondary \in Nat \ {0}
  BY <1>1, <1>4, VolumesAssumption DEF VolumeOK
<1>6. /\ e.secondary >= 2 /\ EntryOf(v, c, j + 1).code = "stream"
      /\ \A m \in 2..e.secondary : EntryOf(v, c, (j + 1) - 1 + m).code = "name"
  BY <1>1, <1>4 DEF Formatted
<1>7. ASSUME NEW m \in Nat PROVE EntryOf(v, s, i + m) = EntryOf(v, c, j + m)
  <2>1. k * n + (j + m) = i + m /\ j + m \in Int
    <3> HIDE DEF n
    <3> QED BY <1>1, <1>2
  <2>2. EntryOf(v, s, k * n + (j + m)) = EntryOf(v, c, j + m)
    BY <1>2, <2>1, EntryShift
  <2> QED BY <2>1, <2>2
<1>8. ASSUME NEW m \in 2..e.secondary PROVE EntryOf(v, s, i + m).code = "name"
  <2>1. m \in Nat /\ (j + 1) - 1 + m = j + m
    BY <1>2, <1>5
  <2> QED BY <1>6, <1>7, <2>1
<1>9. EntryOf(v, s, i + 1).code = "stream"
  BY <1>6, <1>7
<1>10. \A m \in 0..(e.secondary + 1) : Inside(v, s, i + m)
  BY SetInside, FormattedSound DEF Sound
<1> QED BY <1>5, <1>6, <1>8, <1>9, <1>10

(* Behind a set there is one file more.                                      *)
LEMMA SetListed ==
    ASSUME NEW v \in Volumes, Formatted(v), NEW s \in DOMAIN v.dirs, NEW i \in Nat,
           Inside(v, s, i), NoEnd(v, s, i), EntryOf(v, s, i).code = "file"
    PROVE  LET n == i + EntryOf(v, s, i).secondary + 1
           IN /\ NoEnd(v, s, n)
              /\ FilesBefore(v, s, n) = Append(FilesBefore(v, s, i), FileAt(v, s, i))
<1> DEFINE e == EntryOf(v, s, i)
           N == e.secondary
           A == Append(FilesBefore(v, s, i), FileAt(v, s, i))
<1>1. /\ N \in Nat \ {0} /\ EntryOf(v, s, i + 1).code = "stream"
      /\ \A k \in 2..N : EntryOf(v, s, i + k).code = "name"
  BY SetShape
<1>2. \A k \in 0..N : EntryOf(v, s, i + k).code \in {"file", "stream", "name"}
                      /\ (EntryOf(v, s, i + k).code = "file" <=> k = 0)
  <2> SUFFICES ASSUME NEW k \in 0..N
               PROVE  EntryOf(v, s, i + k).code \in {"file", "stream", "name"}
                      /\ (EntryOf(v, s, i + k).code = "file" <=> k = 0)
    OBVIOUS
  <2>1. CASE k = 0
    <3>1. i + k = i
      BY <2>1
    <3> QED BY <2>1, <3>1
  <2>2. CASE k = 1
    BY <1>1, <2>2
  <2>3. CASE k # 0 /\ k # 1
    <3>1. k \in 2..N
      BY <1>1, <2>3
    <3> QED BY <1>1, <2>3, <3>1
  <2> QED BY <2>1, <2>2, <2>3
<1>3. \A k \in 0..N : EntryType(EntryOf(v, s, i + k)) # "end"
  BY <1>2 DEF EntryType
<1>4. ASSUME NEW m \in 0..(N + 1) PROVE NoEnd(v, s, i + m)
  <2> SUFFICES ASSUME NEW j \in 0..(i + m - 1) PROVE EntryType(EntryOf(v, s, j)) # "end"
    BY DEF NoEnd
  <2>1. CASE j \in 0..(i - 1)
    BY <2>1 DEF NoEnd
  <2>2. CASE j \notin 0..(i - 1)
    <3>1. j - i \in 0..N /\ i + (j - i) = j
      BY <1>1, <2>2
    <3> QED BY <1>3, <3>1
  <2> QED BY <2>1, <2>2
<1>5. ASSUME NEW m \in 0..N
      PROVE  /\ FilesBefore(v, s, i + m + 1) = NextFiles(v, s, i + m, FilesBefore(v, s, i + m))
             /\ EntryIn(v, s, i + m) = EntryOf(v, s, i + m)
  <2>1. i + m \in Nat /\ m \in 0..(N + 1) /\ i + m \in 0..(i + m)
    BY <1>1
  <2>2. NoEnd(v, s, i + m)
    BY <1>4, <2>1
  <2>3. EntryIn(v, s, i + m) = EntryOf(v, s, i + m) /\ i + m < MaxEntries(v)
    BY <2>1, <2>2, EntryFound, FormattedSound
  <2>4. i + m \in 0..MaxEntries(v) /\ i + m # MaxEntries(v)
    BY <2>1, <2>3, MaxFacts
  <2> QED BY <2>3, <2>4, FilesSteps
<1> DEFINE S == {m \in 0..N : FilesBefore(v, s, i + m + 1) = A}
<1>6. \A m \in 0..N : m \in S
  <2>1. 0 \in S
    <3>1. 0 \in 0..N /\ i + 0 = i /\ i + 0 + 1 = i + 1
      BY <1>1
    <3>2. FilesBefore(v, s, i + 1) = NextFiles(v, s, i, FilesBefore(v, s, i)) /\ EntryIn(v, s, i) = e
      BY <1>5, <3>1
    <3>3. FilesBefore(v, s, i + 1) = A
      BY <3>2 DEF NextFiles
    <3> QED BY <3>1, <3>3
  <2>2. ASSUME NEW m \in 0..N, m \in S, m # N PROVE m + 1 \in S
    <3>1. m + 1 \in 0..N /\ i + (m + 1) = i + m + 1 /\ m + 1 # 0
      BY <1>1, <2>2
    <3>2. FilesBefore(v, s, i + (m + 1)) = A
      BY <2>2, <3>1
    <3>3. EntryIn(v, s, i + (m + 1)).code # "file"
      BY <1>2, <1>5, <3>1
    <3>4. FilesBefore(v, s, i + (m + 1) + 1) = NextFiles(v, s, i + (m + 1), FilesBefore(v, s, i + (m + 1)))
      BY <1>5, <3>1
    <3>5. FilesBefore(v, s, i + (m + 1) + 1) = A
      BY <3>2, <3>3, <3>4 DEF NextFiles
    <3> QED BY <3>1, <3>5
  <2> HIDE DEF S
  <2> QED BY <1>1, <2>1, <2>2, UpTo
<1>7. N \in 0..N /\ N + 1 \in 0..(N + 1) /\ i + (N + 1) = i + N + 1
  BY <1>1
<1>8. FilesBefore(v, s, i + N + 1) = A
  BY <1>6, <1>7
<1>9. NoEnd(v, s, i + N + 1)
  BY <1>4, <1>7
<1> QED BY <1>8, <1>9
-----------------------------------------------------------------------------
(* The reader's list: exfat_readdir_fromblock and read_file_direntset.       *)

(* What a list keeps of a file.                                              *)
Shown(d) == [d EXCEPT !.name = ShownName(@, d.start_cluster)]
ShownAll(list) == [i \in DOMAIN list |-> Shown(list[i])]

LEMMA ShownAppend ==
    ASSUME NEW S, NEW list \in Seq(S), NEW d
    PROVE  ShownAll(Append(list, d)) = Append(ShownAll(list), Shown(d))
<1> DEFINE n == Len(list)
           a == Append(list, d)
           b == ShownAll(list)
           T == {Shown(x) : x \in S}
<1>1. n \in Nat /\ DOMAIN list = 1..n
  OBVIOUS
<1>2. DOMAIN a = 1..(n + 1) /\ a[n + 1] = d /\ \A i \in 1..n : a[i] = list[i]
  OBVIOUS
<1>3. b \in Seq(T) /\ Len(b) = n /\ \A i \in 1..n : b[i] = Shown(list[i])
  <2>1. b = [i \in 1..n |-> Shown(list[i])]
    BY <1>1 DEF ShownAll
  <2>2. \A i \in 1..n : Shown(list[i]) \in T
    OBVIOUS
  <2> HIDE DEF T, b, n
  <2> QED BY <1>1, <2>1, <2>2
<1> DEFINE x == Shown(d)
           c == Append(b, x)
<1>4. /\ c = [i \in 1..(n + 1) |-> c[i]] /\ c[n + 1] = x
      /\ \A i \in 1..n : c[i] = Shown(list[i])
  <2>1. x \in T \cup {x} /\ b \in Seq(T \cup {x})
    <3> HIDE DEF T, x, b
    <3> QED BY <1>3
  <2> DEFINE U == T \cup {x}
  <2> HIDE DEF b, n, T, x, U
  <2>2. b \in Seq(U) /\ x \in U
    BY <2>1 DEF U
  <2>3. c \in Seq(U) /\ Len(c) = n + 1
    BY <1>3, <2>2
  <2>4. c = [i \in 1..(n + 1) |-> c[i]]
    <3> HIDE DEF c
    <3>1. c \in Seq(U) /\ Len(c) = n + 1
      BY <2>3
    <3>2. c = [i \in 1..Len(c) |-> c[i]]
      BY <3>1
    <3> QED BY <3>1, <3>2
  <2>5. c[n + 1] = x /\ \A i \in 1..n : c[i] = b[i]
    BY <1>1, <1>3, <2>2
  <2> HIDE DEF c
  <2> QED BY <1>3, <2>4, <2>5
<1>5. ShownAll(a) = [i \in 1..(n + 1) |-> Shown(a[i])]
  BY <1>2 DEF ShownAll
<1>6. ASSUME NEW i \in 1..(n + 1) PROVE Shown(a[i]) = c[i]
  <2>1. i = n + 1 \/ i \in 1..n
    BY <1>1
  <2> HIDE DEF a, c, n
  <2> QED BY <1>2, <1>4, <2>1
<1> HIDE DEF a, c, n
<1>7. [i \in 1..(n + 1) |-> Shown(a[i])] = [i \in 1..(n + 1) |-> c[i]]
  BY <1>6
<1> QED BY <1>4, <1>5, <1>7 DEF a, c

LEMMA ShownNone == ShownAll(<<>>) = <<>>
  BY DEF ShownAll

(* The first m parts of the name of the file at entry i.                     *)
PartsTo(v, s, i, m) == [k \in 1..m |-> EntryIn(v, s, i + 1 + k).part]

(* Of the directory it reads a reader has found the files so far, and of a   *)
(* set what it has read of it; a list that is done is the directory's, or a  *)
(* read has failed.                                                          *)
ListRight(v, r, fail) ==
    /\ r.phase \in {"entry", "stream", "name"} =>
          /\ r.list = ShownAll(FilesBefore(v, r.start, r.idx))
          /\ NoEnd(v, r.start, r.idx)
    /\ r.phase = "stream" => r.cur.name = <<>>
    /\ r.phase = "name" =>
          /\ r.cur.name = PartsTo(v, r.start, r.idx, r.count - 1 - r.left)
          /\ r.cur.byte_size = EntryIn(v, r.start, r.idx + 1).length
          /\ r.cur.start_cluster = EntryIn(v, r.start, r.idx + 1).first
    /\ r.phase = "done" =>
          \/ r.list = ShownAll(Files(v, r.start))
          \/ r.list = <<>> /\ fail

LEMMA RightStart ==
    ASSUME NEW v \in Volumes, Formatted(v), NEW c \in DOMAIN v.dirs, NEW fail
    PROVE  ListRight(v, Reader(c), fail)
<1>1. Reader(c).phase = "entry" /\ Reader(c).start = c /\ Reader(c).idx = 0 /\ Reader(c).list = <<>>
  BY DEF Reader, NoReader
<1>2. FilesBefore(v, c, 0) = <<>>
  BY FilesSteps
<1>3. NoEnd(v, c, 0)
  BY DEF NoEnd
<1> QED BY <1>1, <1>2, <1>3, ShownNone DEF ListRight

LEMMA RightGiveUp ==
    ASSUME NEW v \in Volumes, NEW u, NEW r \in Readers(v, u)
    PROVE  ListRight(v, [r EXCEPT !.phase = "done", !.list = <<>>], TRUE)
<1> DEFINE a == [r EXCEPT !.phase = "done", !.list = <<>>]
<1>1. a.phase = "done" /\ a.list = <<>>
  BY DEF Readers
<1> QED BY <1>1 DEF ListRight

LEMMA RightEntry ==
    ASSUME NEW v \in Volumes, Formatted(v), NEW u, u = Superblock(v), NEW fail, NEW r,
           ReaderOK(v, u, r), ListRight(v, r, fail),
           r.phase = "entry"
    PROVE  LET e == EntryOf(v, r.start, r.idx) IN
           /\ EntryType(e) = "file" =>
                 ListRight(v, [r EXCEPT !.phase = "stream", !.count = e.secondary,
                                        !.cur = [NoDirent EXCEPT !.is_dir = e.directory]], fail)
           /\ EntryType(e) = "end" => ListRight(v, [r EXCEPT !.phase = "done"], fail)
           /\ EntryType(e) \notin {"file", "end"} => ListRight(v, [r EXCEPT !.idx = @ + 1], fail)
<1> DEFINE s == r.start
           i == r.idx
           e == EntryOf(v, s, i)
<1>1. r \in Readers(v, u) /\ PlaceOK(v, u, r) /\ i \in Nat /\ s \in DOMAIN v.dirs
  BY FormattedRight DEF ReaderOK, Readers, PlaceOK, AtEntry
<1>2. r.list = ShownAll(FilesBefore(v, s, i)) /\ NoEnd(v, s, i)
  BY DEF ListRight
<1>3. EntryIn(v, s, i) = e /\ i < MaxEntries(v)
  <2>1. i \in 0..i
    BY <1>1
  <2> QED BY <1>1, <1>2, <2>1, EntryFound, FormattedSound
<1>4. ASSUME EntryType(e) = "file"
      PROVE  ListRight(v, [r EXCEPT !.phase = "stream", !.count = e.secondary,
                                    !.cur = [NoDirent EXCEPT !.is_dir = e.directory]], fail)
  <2> DEFINE d == [NoDirent EXCEPT !.is_dir = e.directory]
             a == [r EXCEPT !.phase = "stream", !.count = e.secondary, !.cur = d]
  <2>1. d.name = <<>>
    BY DEF NoDirent
  <2>2. a.phase = "stream" /\ a.start = s /\ a.idx = i /\ a.list = r.list /\ a.cur = d
    <3> HIDE DEF d, e
    <3> QED BY <1>1 DEF Readers
  <2> HIDE DEF a, d
  <2>3. ListRight(v, a, fail)
    BY <1>2, <2>1, <2>2 DEF ListRight
  <2> QED BY <2>3 DEF a, d
<1>5. ASSUME EntryType(e) = "end" PROVE ListRight(v, [r EXCEPT !.phase = "done"], fail)
  <2> DEFINE a == [r EXCEPT !.phase = "done"]
  <2>1. a.phase = "done" /\ a.start = s /\ a.list = r.list
    BY <1>1 DEF Readers
  <2>2. Files(v, s) = FilesBefore(v, s, i)
    BY <1>1, <1>2, <1>5, EndFound, FormattedSound DEF Files
  <2> HIDE DEF a
  <2>3. ListRight(v, a, fail)
    BY <1>2, <2>1, <2>2 DEF ListRight
  <2> QED BY <2>3 DEF a
<1>6. ASSUME EntryType(e) \notin {"file", "end"} PROVE ListRight(v, [r EXCEPT !.idx = @ + 1], fail)
  <2> DEFINE a == [r EXCEPT !.idx = @ + 1]
  <2>1. a.phase = "entry" /\ a.start = s /\ a.list = r.list /\ a.idx = i + 1
    BY <1>1 DEF Readers
  <2>2. e.code # "file"
    BY <1>6 DEF EntryType
  <2>3. FilesBefore(v, s, i + 1) = FilesBefore(v, s, i)
    <3>1. i \in 0..MaxEntries(v) /\ i # MaxEntries(v)
      BY <1>1, <1>3, MaxFacts
    <3>2. FilesBefore(v, s, i + 1) = NextFiles(v, s, i, FilesBefore(v, s, i))
      BY <3>1, FilesSteps
    <3> QED BY <1>3, <2>2, <3>2 DEF NextFiles
  <2>4. NoEnd(v, s, i + 1)
    <3> SUFFICES ASSUME NEW j \in 0..((i + 1) - 1) PROVE EntryType(EntryOf(v, s, j)) # "end"
      BY DEF NoEnd
    <3>1. j = i \/ j \in 0..(i - 1)
      BY <1>1
    <3> QED BY <1>2, <1>6, <3>1 DEF NoEnd
  <2> HIDE DEF a
  <2>5. ListRight(v, a, fail)
    BY <1>2, <2>1, <2>3, <2>4 DEF ListRight
  <2> QED BY <2>5 DEF a
<1> QED BY <1>4, <1>5, <1>6

(* The entries of a set the reader stands at are those of the directory.     *)
LEMMA SetFound ==
    ASSUME NEW v \in Volumes, Formatted(v), NEW u, u = Superblock(v), NEW r, ReaderOK(v, u, r),
           r.phase \in {"stream", "name"}, NoEnd(v, r.start, r.idx)
    PROVE  /\ r.start \in DOMAIN v.dirs /\ r.idx \in Nat /\ r.count \in Nat \ {0}
           /\ Inside(v, r.start, r.idx)
           /\ EntryOf(v, r.start, r.idx).code = "file"
           /\ EntryOf(v, r.start, r.idx).secondary = r.count /\ r.count >= 2
           /\ EntryOf(v, r.start, r.idx).directory = r.cur.is_dir
           /\ \A m \in 0..r.count : EntryIn(v, r.start, r.idx + m) = EntryOf(v, r.start, r.idx + m)
<1> DEFINE s == r.start
           i == r.idx
<1>1. AtSet(v, r) /\ i \in Nat /\ r.count \in Nat \ {0}
  BY FormattedRight DEF ReaderOK, Readers, PlaceOK, CountOK
<1>2. /\ s \in DOMAIN v.dirs /\ Inside(v, s, i) /\ EntryOf(v, s, i).code = "file"
      /\ EntryOf(v, s, i).secondary = r.count /\ EntryOf(v, s, i).directory = r.cur.is_dir
  BY <1>1 DEF AtSet, AtEntry
<1>3. NoEnd(v, s, i + r.count + 1)
  BY <1>1, <1>2, SetListed
<1>4. ASSUME NEW m \in 0..r.count PROVE EntryIn(v, s, i + m) = EntryOf(v, s, i + m)
  <2>1. i + m \in 0..(i + r.count + 1) /\ i + r.count + 1 \in Nat
    BY <1>1
  <2> QED BY <1>2, <1>3, <2>1, EntryFound, FormattedSound
<1>5. r.count >= 2
  BY <1>1, <1>2, SetShape
<1> QED BY <1>1, <1>2, <1>4, <1>5

LEMMA RightLink ==
    ASSUME NEW v \in Volumes, Formatted(v), NEW u, u = Superblock(v), NEW fail, NEW r,
           ReaderOK(v, u, r), ListRight(v, r, fail),
           r.phase \in {"stream", "name"}, NEW d, d = Shown(FileAt(v, r.start, r.idx))
    PROVE  ListRight(v, Linked(r, d), fail)
<1> DEFINE s == r.start
           i == r.idx
           a == Linked(r, d)
<1>1. r.list = ShownAll(FilesBefore(v, s, i)) /\ NoEnd(v, s, i)
  BY DEF ListRight
<1>2. /\ s \in DOMAIN v.dirs /\ i \in Nat /\ Inside(v, s, i) /\ EntryOf(v, s, i).code = "file"
      /\ EntryOf(v, s, i).secondary = r.count
  BY <1>1, SetFound
<1>3. /\ NoEnd(v, s, i + r.count + 1)
      /\ FilesBefore(v, s, i + r.count + 1) = Append(FilesBefore(v, s, i), FileAt(v, s, i))
  BY <1>1, <1>2, SetListed
<1>4. a.phase = "entry" /\ a.start = s /\ a.idx = i + r.count + 1 /\ a.list = Append(r.list, d)
  BY DEF ReaderOK, Readers, Linked
<1>5. ShownAll(FilesBefore(v, s, i + r.count + 1)) = Append(r.list, d)
  <2>1. FilesBefore(v, s, i) \in Seq({FileAt(v, s, n) : n \in 0..MaxEntries(v)})
    <3>1. i \in 0..i
      BY <1>2
    <3>2. i < MaxEntries(v)
      BY <1>1, <1>2, <3>1, EntryFound, FormattedSound
    <3>3. i \in 0..MaxEntries(v)
      BY <1>2, <3>2, MaxFacts
    <3> QED BY <3>3, FilesSteps
  <2> QED BY <1>1, <1>3, <2>1, ShownAppend
<1> HIDE DEF a
<1>6. ListRight(v, a, fail)
  BY <1>3, <1>4, <1>5 DEF ListRight
<1> QED BY <1>6 DEF a

(* A record is what its fields are.                                          *)
LEMMA DirentIs ==
    ASSUME NEW v, NEW d \in Dirents(v)
    PROVE  d = [name |-> d.name, is_dir |-> d.is_dir, byte_size |-> d.byte_size,
                start_cluster |-> d.start_cluster]
  BY DEF Dirents

LEMMA NoParts ==
    ASSUME NEW v, NEW s, NEW i
    PROVE  PartsTo(v, s, i, 0) = <<>>
  BY DEF PartsTo

LEMMA RightStream ==
    ASSUME NEW v \in Volumes, Formatted(v), NEW u, u = Superblock(v), NEW fail, NEW r,
           ReaderOK(v, u, r), ListRight(v, r, fail),
           r.phase = "stream"
    PROVE  LET e == EntryOf(v, r.start, r.idx + 1)
               cur == [r.cur EXCEPT !.byte_size = e.length, !.start_cluster = e.first]
           IN ListRight(v, IF r.count = 1 THEN Linked(r, [cur EXCEPT !.name = <<Garbled>>])
                           ELSE [r EXCEPT !.phase = "name", !.cur = cur,
                                          !.left = r.count - 1, !.part = Garbled], fail)
<1> DEFINE s == r.start
           i == r.idx
           e == EntryOf(v, s, i + 1)
           cur == [r.cur EXCEPT !.byte_size = e.length, !.start_cluster = e.first]
           a == [r EXCEPT !.phase = "name", !.cur = cur, !.left = r.count - 1, !.part = Garbled]
<1>1. r.list = ShownAll(FilesBefore(v, s, i)) /\ NoEnd(v, s, i) /\ r.cur.name = <<>>
  BY DEF ListRight
<1>2. /\ s \in DOMAIN v.dirs /\ i \in Nat /\ r.count \in Nat \ {0} /\ r.count >= 2
      /\ EntryOf(v, s, i).secondary = r.count /\ EntryOf(v, s, i).directory = r.cur.is_dir
      /\ \A m \in 0..r.count : EntryIn(v, s, i + m) = EntryOf(v, s, i + m)
  BY <1>1, SetFound
<1>3. EntryIn(v, s, i + 1) = e /\ EntryIn(v, s, i) = EntryOf(v, s, i)
  <2>1. 0 \in 0..r.count /\ 1 \in 0..r.count /\ i + 0 = i
    BY <1>2
  <2> QED BY <1>2, <2>1
<1>4. r \in Readers(v, u) /\ r.cur \in Dirents(v)
  BY DEF ReaderOK, Readers
<1>5. /\ cur.name = <<>> /\ cur.is_dir = EntryOf(v, s, i).directory /\ cur.byte_size = e.length
      /\ cur.start_cluster = e.first
      /\ cur = [name |-> cur.name, is_dir |-> cur.is_dir, byte_size |-> cur.byte_size,
                start_cluster |-> cur.start_cluster]
  <2> DEFINE o == r.cur
  <2>1. o = [name |-> o.name, is_dir |-> o.is_dir, byte_size |-> o.byte_size,
             start_cluster |-> o.start_cluster]
    BY <1>4, DirentIs
  <2>2. o.name = <<>> /\ o.is_dir = EntryOf(v, s, i).directory
    BY <1>1, <1>2
  <2> HIDE DEF e, o
  <2>3. cur = [o EXCEPT !.byte_size = e.length, !.start_cluster = e.first]
    BY DEF o
  <2> HIDE DEF cur
  <2> QED BY <2>1, <2>2, <2>3
<1>6. r.count # 1
  BY <1>2
<1>7. ListRight(v, a, fail)
  <2>1. /\ a.phase = "name" /\ a.start = s /\ a.idx = i /\ a.list = r.list /\ a.cur = cur
        /\ a.count - 1 - a.left = 0
    <3> HIDE DEF cur
    <3> QED BY <1>2, <1>4 DEF Readers
  <2> HIDE DEF a, cur
  <2>2. ListRight(v, a, fail)
    BY <1>1, <1>3, <1>5, <2>1, NoParts DEF ListRight
  <2> QED BY <2>2 DEF a, cur
<1> QED BY <1>6, <1>7

(* One part more of a name.                                                  *)
LEMMA PartsNext ==
    ASSUME NEW v, NEW s, NEW i, NEW m \in Nat
    PROVE  Append(PartsTo(v, s, i, m), EntryIn(v, s, i + 1 + (m + 1)).part)
               = PartsTo(v, s, i, m + 1)
<1> DEFINE P(k) == EntryIn(v, s, i + 1 + k).part
           U == {P(k) : k \in 1..(m + 1)}
           a == PartsTo(v, s, i, m)
           x == P(m + 1)
           c == Append(a, x)
           g == [k \in 1..(m + 1) |-> P(k)]
<1>1. a = [k \in 1..m |-> P(k)]
  BY DEF PartsTo
<1>2. x \in U /\ \A k \in 1..m : P(k) \in U /\ k \in 1..(m + 1)
  OBVIOUS
<1>3. a \in Seq(U) /\ Len(a) = m /\ \A k \in 1..m : a[k] = P(k)
  <2> HIDE DEF P, U, x, a
  <2> QED BY <1>1, <1>2
<1>4. c \in Seq(U) /\ Len(c) = m + 1 /\ c[m + 1] = x /\ \A k \in 1..m : c[k] = P(k)
  <2> HIDE DEF P, U, x, a
  <2> QED BY <1>2, <1>3
<1>5. c = [k \in 1..(m + 1) |-> c[k]]
  <2> HIDE DEF P, U, x, a, c
  <2>1. c = [k \in 1..Len(c) |-> c[k]]
    BY <1>4
  <2> QED BY <1>4, <2>1
<1>6. ASSUME NEW k \in 1..(m + 1) PROVE c[k] = P(k)
  <2>1. k = m + 1 \/ k \in 1..m
    OBVIOUS
  <2> HIDE DEF c, a, U, P
  <2> QED BY <1>4, <2>1 DEF x
<1>7. c = g
  <2> HIDE DEF c, P
  <2> QED BY <1>5, <1>6
<1> QED BY <1>7 DEF PartsTo

LEMMA RightName ==
    ASSUME NEW v \in Volumes, Formatted(v), NEW u, u = Superblock(v), NEW fail, NEW r,
           ReaderOK(v, u, r), ListRight(v, r, fail),
           r.phase = "name"
    PROVE  LET e == EntryOf(v, r.start, r.idx + 1 + (r.count - r.left))
               part == PartAfter(e, r.part)
               cur == [r.cur EXCEPT !.name = Append(@, part)]
               shown == [cur EXCEPT !.name = ShownName(@, cur.start_cluster)]
           IN ListRight(v, IF r.left = 1 THEN Linked(r, shown)
                           ELSE [r EXCEPT !.cur = cur, !.left = @ - 1, !.part = part], fail)
<1> DEFINE s == r.start
           i == r.idx
           k == r.count - r.left
           e == EntryOf(v, s, i + 1 + k)
           part == PartAfter(e, r.part)
           cur == [r.cur EXCEPT !.name = Append(@, part)]
           shown == [cur EXCEPT !.name = ShownName(@, cur.start_cluster)]
           a == [r EXCEPT !.cur = cur, !.left = @ - 1, !.part = part]
<1>1. /\ r.list = ShownAll(FilesBefore(v, s, i)) /\ NoEnd(v, s, i)
      /\ r.cur.name = PartsTo(v, s, i, r.count - 1 - r.left)
      /\ r.cur.byte_size = EntryIn(v, s, i + 1).length
      /\ r.cur.start_cluster = EntryIn(v, s, i + 1).first
  BY DEF ListRight
<1>2. /\ s \in DOMAIN v.dirs /\ i \in Nat /\ r.count \in Nat \ {0}
      /\ EntryOf(v, s, i).code = "file" /\ Inside(v, s, i)
      /\ EntryOf(v, s, i).secondary = r.count /\ EntryOf(v, s, i).directory = r.cur.is_dir
  BY <1>1, SetFound
<1>3. \A m \in 0..r.count : EntryIn(v, s, i + m) = EntryOf(v, s, i + m)
  BY <1>1, SetFound
<1>4. /\ r \in Readers(v, u) /\ r.cur \in Dirents(v)
      /\ r.left \in Nat /\ r.left >= 1 /\ r.left < r.count
  BY DEF ReaderOK, Readers, CountOK
<1>5. k \in Nat /\ k >= 1 /\ k + 1 \in 2..r.count /\ k + 1 \in 0..r.count /\ i + (k + 1) = i + 1 + k
      /\ r.count - 1 - r.left = k - 1 /\ k - 1 \in Nat /\ (k - 1) + 1 = k
  BY <1>2, <1>4
<1> HIDE DEF k
<1>6. e.code = "name" /\ EntryIn(v, s, i + 1 + k) = e
  <2>1. \A m \in 2..r.count : EntryOf(v, s, i + m).code = "name"
    BY <1>2, SetShape
  <2>2. EntryOf(v, s, i + (k + 1)).code = "name" /\ EntryIn(v, s, i + (k + 1)) = EntryOf(v, s, i + (k + 1))
    BY <1>3, <1>5, <2>1
  <2> QED BY <1>5, <2>2
<1>7. part = e.part
  <2> HIDE DEF e
  <2> QED BY <1>6 DEF EntryType, PartAfter
<1>8. Append(r.cur.name, part) = PartsTo(v, s, i, k)
  <2>1. Append(PartsTo(v, s, i, k - 1), EntryIn(v, s, i + 1 + ((k - 1) + 1)).part)
            = PartsTo(v, s, i, (k - 1) + 1)
    BY <1>5, PartsNext
  <2>2. r.cur.name = PartsTo(v, s, i, k - 1)
    BY <1>1, <1>5
  <2> HIDE DEF e, part
  <2> QED BY <1>5, <1>6, <1>7, <2>1, <2>2
<1>9. cur = [name |-> PartsTo(v, s, i, k), is_dir |-> EntryOf(v, s, i).directory,
             byte_size |-> EntryIn(v, s, i + 1).length, start_cluster |-> EntryIn(v, s, i + 1).first]
  <2> DEFINE o == r.cur
  <2>1. o = [name |-> o.name, is_dir |-> o.is_dir, byte_size |-> o.byte_size,
             start_cluster |-> o.start_cluster]
    BY <1>4, DirentIs
  <2> HIDE DEF o, part
  <2>2. cur = [o EXCEPT !.name = Append(o.name, part)]
    BY DEF o
  <2>3. Append(o.name, part) = PartsTo(v, s, i, k) /\ o.is_dir = EntryOf(v, s, i).directory
        /\ o.byte_size = EntryIn(v, s, i + 1).length /\ o.start_cluster = EntryIn(v, s, i + 1).first
    BY <1>1, <1>2, <1>8 DEF o
  <2> DEFINE n == Append(o.name, part)
  <2> HIDE DEF cur, n
  <2> QED BY <2>1, <2>2, <2>3 DEF n
<1>10. CASE r.left = 1
  <2>1. k = r.count - 1
    BY <1>2, <1>10 DEF k
  <2>2. EntryIn(v, s, i) = EntryOf(v, s, i)
    <3>1. 0 \in 0..r.count /\ i + 0 = i
      BY <1>2
    <3> QED BY <1>3, <3>1
  <2>3. FileAt(v, s, i) = cur
    <3> HIDE DEF cur
    <3> QED BY <1>2, <1>9, <2>1, <2>2 DEF FileAt, PartsTo
  <2>4. shown = Shown(FileAt(v, s, i))
    BY <2>3 DEF Shown
  <2> HIDE DEF shown
  <2>5. ListRight(v, Linked(r, shown), fail)
    BY <2>4, RightLink
  <2> QED BY <1>10, <2>5 DEF shown, k
<1>11. CASE r.left # 1
  <2>1. /\ a.phase = "name" /\ a.start = s /\ a.idx = i /\ a.list = r.list /\ a.cur = cur
        /\ a.count - 1 - a.left = k
    <3> HIDE DEF cur, part
    <3>1. a.count = r.count /\ a.left = r.left - 1
      BY <1>4 DEF Readers
    <3>2. a.phase = "name" /\ a.start = s /\ a.idx = i /\ a.list = r.list /\ a.cur = cur
      BY <1>4 DEF Readers
    <3> HIDE DEF a
    <3> QED BY <1>2, <1>4, <3>1, <3>2 DEF k
  <2>2. cur.name = PartsTo(v, s, i, k) /\ cur.byte_size = EntryIn(v, s, i + 1).length
        /\ cur.start_cluster = EntryIn(v, s, i + 1).first
    <3> HIDE DEF cur
    <3> QED BY <1>9
  <2> HIDE DEF a, cur
  <2>3. ListRight(v, a, fail)
    BY <1>1, <2>1, <2>2 DEF ListRight
  <2> QED BY <1>11, <2>3 DEF a, cur, k
<1> QED BY <1>10, <1>11

(* A reader's list is right at every step.                                   *)
Listing(r) == r.phase \in {"entry", "stream", "name", "done"}
ReaderRight ==
    Formatted(vol) /\ Own => ListRight(vol, rd, failed)

LEMMA MoreFailed ==
    ASSUME NEW v, NEW r, NEW f, NEW g, ListRight(v, r, f), f => g
    PROVE  ListRight(v, r, g)
  BY DEF ListRight

(* With this volume's superblock the reader sees its own entries.            *)
LEMMA OwnEntry ==
    ASSUME Own, NEW i
    PROVE  Entry(i) = EntryOf(vol, rd.start, i) /\ Block(i) = EntryBlock(vol, rd.start, i)
  BY SeenOwn DEF Own, Entry, Block

(* In a formatted directory only a read that fails stops the reader.         *)
LEMMA StopFailed ==
    ASSUME WalkInv, ReaderRight, Formatted(vol), Own, NEW i \in Nat, NEW ok \in BOOLEAN,
           rd.start \in DOMAIN vol.dirs, Inside(vol, rd.start, i), Reads(i, ok), ~Got(i, ok)
    PROVE  failed' = TRUE
<1>1. vol \in Volumes
  BY DEF WalkInv
<1>2. ~BadEntry(EntryOf(vol, rd.start, i)) /\ OnCard(EntryBlock(vol, rd.start, i))
  BY <1>1, EntryGood
<1>3. failed' = (failed \/ ~ok)
  BY DEF Reads
<1>4. ~BadEntry(Entry(i)) /\ OnCard(Block(i))
  BY <1>2, OwnEntry
<1>5. ~ok
  BY <1>4 DEF Got
<1> QED BY <1>3, <1>5

LEMMA ReaderMoves ==
    ASSUME UNCHANGED vol, ListRight(vol, rd', failed')
    PROVE  ReaderRight'
<1>1. ListRight(vol', rd', failed')
  <2>1. vol' = vol
    OBVIOUS
  <2> QED BY <2>1
<1> QED BY <1>1 DEF ReaderRight

(* Other volumes, and another superblock.                                    *)
LEMMA NotFormatted ==
    ASSUME ~(Formatted(vol) /\ Own), UNCHANGED <<vol, super>>
    PROVE  ReaderRight'
<1>1. ~(Formatted(vol) /\ Own)'
  BY DEF Own
<1> QED BY <1>1 DEF ReaderRight

LEMMA ReadEntryRight ==
    ASSUME WalkInv, ReaderRight, Formatted(vol), Own, NEW ok \in BOOLEAN, ReadEntry(ok)
    PROVE  ReaderRight'
<1>1. /\ vol \in Volumes /\ ReaderOK(vol, super, rd) /\ rd.phase = "entry" /\ Listing(rd)
      /\ ListRight(vol, rd, failed)
  BY DEF WalkInv, ReadEntry, ReaderRight, Listing
<1>2. rd \in Readers(vol, super) /\ rd.idx \in Nat /\ rd.start \in DOMAIN vol.dirs /\ Inside(vol, rd.start, rd.idx)
  BY <1>1, FormattedRight DEF ReaderOK, Readers, PlaceOK, AtEntry, Own
<1> DEFINE e == EntryOf(vol, rd.start, rd.idx)
           set == [rd EXCEPT !.phase = "stream", !.count = e.secondary,
                             !.cur = [NoDirent EXCEPT !.is_dir = e.directory]]
           ended == [rd EXCEPT !.phase = "done"]
           lost_list == [rd EXCEPT !.phase = "done", !.list = <<>>]
           further == [rd EXCEPT !.idx = @ + 1]
<1>3. /\ IF ~Got(rd.idx, ok) THEN rd' = lost_list
         ELSE IF EntryType(e) = "file" THEN rd' = set
         ELSE IF EntryType(e) = "end" THEN rd' = ended
         ELSE rd' = further
      /\ Reads(rd.idx, ok) /\ UNCHANGED <<vol, super>>
  <2>1. Entry(rd.idx) = e
    BY OwnEntry
  <2>2. /\ IF ~Got(rd.idx, ok) THEN rd' = lost_list
           ELSE IF EntryType(Entry(rd.idx)) = "file"
           THEN rd' = [rd EXCEPT !.phase = "stream", !.count = Entry(rd.idx).secondary,
                                 !.cur = [NoDirent EXCEPT !.is_dir = Entry(rd.idx).directory]]
           ELSE IF EntryType(Entry(rd.idx)) = "end" THEN rd' = ended
           ELSE rd' = further
        /\ Reads(rd.idx, ok) /\ UNCHANGED <<vol, super>>
    BY DEF ReadEntry, GiveUp
  <2> HIDE DEF e, ended, lost_list, further
  <2> QED BY <2>1, <2>2
<1>4. failed => failed'
  BY <1>3 DEF Reads
<1>5. ListRight(vol, lost_list, TRUE)
  BY <1>2, <1>1, RightGiveUp
<1>6. /\ EntryType(e) = "file" => ListRight(vol, set, failed)
      /\ EntryType(e) = "end" => ListRight(vol, ended, failed)
      /\ EntryType(e) \notin {"file", "end"} => ListRight(vol, further, failed)
  BY <1>1, RightEntry DEF Own
<1>7. Listing(lost_list) /\ Listing(set) /\ Listing(ended) /\ Listing(further)
  <2>1. lost_list.phase = "done" /\ set.phase = "stream" /\ ended.phase = "done" /\ further.phase = "entry"
    BY <1>1, <1>2 DEF Readers
  <2> HIDE DEF set, ended, lost_list, further
  <2> QED BY <2>1 DEF Listing
<1>8. ~Got(rd.idx, ok) => failed' = TRUE
  BY <1>1, <1>2, <1>3, StopFailed
<1> HIDE DEF e, set, ended, lost_list, further
<1>9. ListRight(vol, rd', failed') /\ Listing(rd')
  <2>1. CASE ~Got(rd.idx, ok)
    BY <1>3, <1>5, <1>7, <1>8, <2>1, MoreFailed
  <2>2. CASE Got(rd.idx, ok)
    <3>1. ListRight(vol, rd', failed) /\ Listing(rd')
      BY <1>3, <1>6, <1>7, <2>2
    <3> QED BY <1>4, <3>1, MoreFailed
  <2> QED BY <2>1, <2>2
<1> QED BY <1>3, <1>9, ReaderMoves

(* Within a set.                                                             *)
LEMMA SetEntries ==
    ASSUME WalkInv, ReaderRight, Formatted(vol), Own, rd.phase \in {"stream", "name"}
    PROVE  /\ vol \in Volumes /\ ReaderOK(vol, super, rd) /\ rd \in Readers(vol, super) /\ Listing(rd)
           /\ ListRight(vol, rd, failed)
           /\ rd.start \in DOMAIN vol.dirs /\ rd.idx \in Nat /\ rd.count \in Nat \ {0}
           /\ EntryOf(vol, rd.start, rd.idx + 1).code = "stream"
           /\ \A m \in 0..(rd.count + 1) : Inside(vol, rd.start, rd.idx + m)
<1>1. /\ vol \in Volumes /\ ReaderOK(vol, super, rd) /\ rd \in Readers(vol, super) /\ Listing(rd)
      /\ ListRight(vol, rd, failed)
  BY DEF WalkInv, ReaderRight, Listing, ReaderOK
<1>2. NoEnd(vol, rd.start, rd.idx)
  BY <1>1 DEF ListRight
<1>3. /\ rd.start \in DOMAIN vol.dirs /\ rd.idx \in Nat /\ rd.count \in Nat \ {0}
      /\ EntryOf(vol, rd.start, rd.idx).code = "file" /\ Inside(vol, rd.start, rd.idx)
      /\ EntryOf(vol, rd.start, rd.idx).secondary = rd.count
  BY <1>1, <1>2, SetFound DEF Own
<1>4. /\ EntryOf(vol, rd.start, rd.idx + 1).code = "stream"
      /\ \A m \in 0..(rd.count + 1) : Inside(vol, rd.start, rd.idx + m)
  BY <1>1, <1>3, SetShape
<1> QED BY <1>1, <1>3, <1>4

LEMMA ReadStreamRight ==
    ASSUME WalkInv, ReaderRight, Formatted(vol), Own, NEW ok \in BOOLEAN, ReadStream(ok)
    PROVE  ReaderRight'
<1>1. rd.phase = "stream"
  BY DEF ReadStream
<1>2. /\ vol \in Volumes /\ ReaderOK(vol, super, rd) /\ rd \in Readers(vol, super) /\ Listing(rd)
      /\ ListRight(vol, rd, failed)
      /\ rd.start \in DOMAIN vol.dirs /\ rd.idx \in Nat /\ rd.count \in Nat \ {0}
      /\ EntryOf(vol, rd.start, rd.idx + 1).code = "stream"
      /\ \A m \in 0..(rd.count + 1) : Inside(vol, rd.start, rd.idx + m)
  BY <1>1, SetEntries
<1> DEFINE e == EntryOf(vol, rd.start, rd.idx + 1)
           cur == [rd.cur EXCEPT !.byte_size = e.length, !.start_cluster = e.first]
           link == Linked(rd, [cur EXCEPT !.name = <<Garbled>>])
           named == [rd EXCEPT !.phase = "name", !.cur = cur, !.left = rd.count - 1,
                               !.part = Garbled]
           next == IF rd.count = 1 THEN link ELSE named
           lost_list == [rd EXCEPT !.phase = "done", !.list = <<>>]
<1>3. EntryType(e) = "stream"
  BY <1>2 DEF EntryType
<1>4. /\ IF ~Got(rd.idx + 1, ok) THEN rd' = lost_list ELSE rd' = next
      /\ Reads(rd.idx + 1, ok) /\ UNCHANGED <<vol, super>>
  <2>1. /\ IF ~Got(rd.idx + 1, ok) \/ EntryType(e) # "stream" THEN rd' = lost_list
           ELSE rd' = next
        /\ Reads(rd.idx + 1, ok) /\ UNCHANGED <<vol, super>>
    <3>1. Entry(rd.idx + 1) = e
      BY OwnEntry
    <3>2. LET f == Entry(rd.idx + 1)
              c == [rd.cur EXCEPT !.byte_size = f.length, !.start_cluster = f.first]
          IN /\ IF ~Got(rd.idx + 1, ok) \/ EntryType(f) # "stream" THEN rd' = lost_list
                ELSE rd' = IF rd.count = 1 THEN Linked(rd, [c EXCEPT !.name = <<Garbled>>])
                           ELSE [rd EXCEPT !.phase = "name", !.cur = c, !.left = rd.count - 1,
                                           !.part = Garbled]
             /\ Reads(rd.idx + 1, ok) /\ UNCHANGED <<vol, super>>
      BY DEF ReadStream, GiveUp
    <3> HIDE DEF e, lost_list
    <3> QED BY <3>1, <3>2
  <2> HIDE DEF e, next, lost_list
  <2> QED BY <1>3, <2>1
<1>5. failed => failed'
  BY <1>4 DEF Reads
<1>6. ListRight(vol, lost_list, TRUE)
  BY <1>2, RightGiveUp
<1>7. ListRight(vol, next, failed)
  BY <1>1, <1>2, RightStream DEF Own
<1>8. Listing(lost_list) /\ Listing(next)
  <2>1. lost_list.phase = "done" /\ link.phase = "entry" /\ named.phase = "name"
    <3> HIDE DEF cur
    <3> QED BY <1>2 DEF Readers, Linked
  <2> HIDE DEF link, named, lost_list
  <2> QED BY <2>1 DEF Listing
<1>9. ~Got(rd.idx + 1, ok) => failed' = TRUE
  <2>1. Inside(vol, rd.start, rd.idx + 1) /\ rd.idx + 1 \in Nat
    BY <1>2
  <2> QED BY <1>2, <1>4, <2>1, StopFailed
<1> HIDE DEF e, next, lost_list
<1>10. ListRight(vol, rd', failed') /\ Listing(rd')
  <2>1. CASE ~Got(rd.idx + 1, ok)
    BY <1>4, <1>6, <1>8, <1>9, <2>1
  <2>2. CASE Got(rd.idx + 1, ok)
    <3>1. ListRight(vol, rd', failed) /\ Listing(rd')
      BY <1>4, <1>7, <1>8, <2>2
    <3> QED BY <1>5, <3>1, MoreFailed
  <2> QED BY <2>1, <2>2
<1> QED BY <1>4, <1>10, ReaderMoves

LEMMA ReadNameRight ==
    ASSUME WalkInv, ReaderRight, Formatted(vol), Own, NEW ok \in BOOLEAN, ReadName(ok)
    PROVE  ReaderRight'
<1>1. rd.phase = "name"
  BY DEF ReadName
<1>2. /\ vol \in Volumes /\ ReaderOK(vol, super, rd) /\ rd \in Readers(vol, super) /\ Listing(rd)
      /\ ListRight(vol, rd, failed)
      /\ rd.start \in DOMAIN vol.dirs /\ rd.idx \in Nat /\ rd.count \in Nat \ {0}
      /\ \A m \in 0..(rd.count + 1) : Inside(vol, rd.start, rd.idx + m)
  BY <1>1, SetEntries
<1> DEFINE i == rd.idx + 1 + (rd.count - rd.left)
           e == EntryOf(vol, rd.start, i)
           part == PartAfter(e, rd.part)
           cur == [rd.cur EXCEPT !.name = Append(@, part)]
           shown == [cur EXCEPT !.name = ShownName(@, cur.start_cluster)]
           link == Linked(rd, shown)
           named == [rd EXCEPT !.cur = cur, !.left = @ - 1, !.part = part]
           next == IF rd.left = 1 THEN link ELSE named
           lost_list == [rd EXCEPT !.phase = "done", !.list = <<>>]
<1>4. /\ IF ~Got(i, ok) THEN rd' = lost_list ELSE rd' = next
      /\ Reads(i, ok) /\ UNCHANGED <<vol, super>>
  BY OwnEntry DEF ReadName, GiveUp
<1>5. failed => failed'
  <2> HIDE DEF i
  <2> QED BY <1>4 DEF Reads
<1>6. ListRight(vol, lost_list, TRUE)
  BY <1>2, RightGiveUp
<1>7. ListRight(vol, next, failed)
  BY <1>1, <1>2, RightName DEF Own
<1>8. Listing(lost_list) /\ Listing(next)
  <2>1. lost_list.phase = "done" /\ link.phase = "entry" /\ named.phase = "name"
    <3> HIDE DEF cur, shown, part
    <3> QED BY <1>1, <1>2 DEF Readers, Linked
  <2> HIDE DEF link, named, lost_list
  <2> QED BY <2>1 DEF Listing
<1>9. ~Got(i, ok) => failed' = TRUE
  <2> DEFINE m == 1 + (rd.count - rd.left)
  <2>1. rd.left \in Nat /\ rd.left < rd.count
    BY <1>1, <1>2 DEF ReaderOK, Readers, CountOK
  <2>2. m \in 0..(rd.count + 1) /\ rd.idx + m = i /\ i \in Nat
    BY <1>2, <2>1
  <2>3. Inside(vol, rd.start, i)
    <3> HIDE DEF m, i
    <3>1. Inside(vol, rd.start, rd.idx + m)
      BY <1>2, <2>2
    <3> QED BY <2>2, <3>1
  <2> HIDE DEF i
  <2> QED BY <1>2, <1>4, <2>2, <2>3, StopFailed
<1> HIDE DEF i, e, next, lost_list
<1>10. ListRight(vol, rd', failed') /\ Listing(rd')
  <2>1. CASE ~Got(i, ok)
    BY <1>4, <1>6, <1>8, <1>9, <2>1
  <2>2. CASE Got(i, ok)
    <3>1. ListRight(vol, rd', failed) /\ Listing(rd')
      BY <1>4, <1>7, <1>8, <2>2
    <3> QED BY <1>5, <3>1, MoreFailed
  <2> QED BY <2>1, <2>2
<1> QED BY <1>4, <1>10, ReaderMoves

(* A directory has an end.                                                   *)
LEMMA EndExists ==
    ASSUME NEW v \in Volumes, Sound(v), NEW s \in DOMAIN v.dirs
    PROVE  \E n \in Nat : NoEnd(v, s, n) /\ EntryType(EntryOf(v, s, n)) = "end"
<1> DEFINE M == MaxEntries(v)
           E == {n \in Nat : EntryType(EntryOf(v, s, n)) = "end"}
<1>1. ~NoEnd(v, s, M)
  <2> SUFFICES ASSUME NoEnd(v, s, M) PROVE FALSE
    OBVIOUS
  <2> DEFINE K == MaxClusters(v)
  <2>1. M \in Nat /\ K \in Nat /\ M = K * PerCluster(v)
    BY MaxFacts
  <2>2. K * PerCluster(v) <= M
    BY <2>1
  <2>3. K + 1 <= K
    BY <2>1, <2>2, ChainInLine
  <2> QED BY <2>1, <2>3
<1>2. PICK m \in 0..(M - 1) : EntryType(EntryOf(v, s, m)) = "end"
  BY <1>1 DEF NoEnd
<1>3. E \in SUBSET Nat /\ E # {}
  <2>1. m \in Nat
    BY MaxFacts
  <2> QED BY <1>2, <2>1
<1>4. PICK n \in E : \A j \in E : n <= j
  <2> HIDE DEF E
  <2> QED BY <1>3, LeastNat
<1>5. n \in Nat /\ EntryType(EntryOf(v, s, n)) = "end"
  OBVIOUS
<1>6. NoEnd(v, s, n)
  <2> SUFFICES ASSUME NEW j \in 0..(n - 1), EntryType(EntryOf(v, s, j)) = "end" PROVE FALSE
    BY DEF NoEnd
  <2>1. j \in Nat /\ ~(n <= j)
    BY <1>5
  <2>2. j \in E
    BY <2>1
  <2> QED BY <1>4, <2>1, <2>2
<1> QED BY <1>5, <1>6

(* The files of a directory are a list.                                      *)
LEMMA FilesList ==
    ASSUME NEW v \in Volumes, Formatted(v), NEW s \in DOMAIN v.dirs
    PROVE  /\ Files(v, s) \in Seq({FileAt(v, s, i) : i \in 0..MaxEntries(v)})
           /\ Len(Files(v, s)) \in Nat /\ DOMAIN Files(v, s) = 1..Len(Files(v, s))
<1>1. PICK n \in Nat : NoEnd(v, s, n) /\ EntryType(EntryOf(v, s, n)) = "end"
  BY EndExists, FormattedSound
<1>2. EndIn(v, s) = n
  BY <1>1, EndFound, FormattedSound
<1>3. n \in 0..MaxEntries(v)
  <2>1. n \in 0..n
    OBVIOUS
  <2>2. n < MaxEntries(v)
    BY <1>1, <2>1, EntryFound, FormattedSound
  <2> QED BY <2>2, MaxFacts
<1>4. Files(v, s) \in Seq({FileAt(v, s, i) : i \in 0..MaxEntries(v)})
  BY <1>2, <1>3, FilesSteps DEF Files
<1> DEFINE S == {FileAt(v, s, i) : i \in 0..MaxEntries(v)}
<1> HIDE DEF S
<1> QED BY <1>4 DEF S

LEMMA FileIs ==
    ASSUME NEW v \in Volumes, Formatted(v), NEW s \in DOMAIN v.dirs, NEW k \in DOMAIN Files(v, s)
    PROVE  LET d == Files(v, s)[k] IN
           /\ Shown(d).name = ShownName(d.name, d.start_cluster)
           /\ Shown(d).is_dir = d.is_dir /\ Shown(d).start_cluster = d.start_cluster
           /\ Head(Shown(d).name) = Head(d.name)
<1> DEFINE S == {FileAt(v, s, i) : i \in 0..MaxEntries(v)}
           d == Files(v, s)[k]
<1>1. d \in S
  <2>1. Files(v, s) \in Seq(S) /\ DOMAIN Files(v, s) = 1..Len(Files(v, s))
    BY FilesList
  <2> HIDE DEF S
  <2> QED BY <2>1
<1>2. PICK i \in 0..MaxEntries(v) : d = FileAt(v, s, i)
  BY <1>1
<1>3. d = [name |-> d.name, is_dir |-> d.is_dir, byte_size |-> d.byte_size,
           start_cluster |-> d.start_cluster]
  BY <1>2 DEF FileAt
<1> HIDE DEF d
<1>4. /\ Shown(d).name = ShownName(d.name, d.start_cluster)
      /\ Shown(d).is_dir = d.is_dir /\ Shown(d).start_cluster = d.start_cluster
  BY <1>3 DEF Shown
<1>5. Head(ShownName(d.name, d.start_cluster)) = Head(d.name)
  BY DEF ShownName
<1> QED BY <1>4, <1>5 DEF d

(* Looking a name up in a right list finds what the name leads to.           *)
LEMMA LeadsOne ==
    ASSUME NEW v \in Volumes, Formatted(v), NEW c \in DOMAIN v.dirs, NEW name, NEW d1, NEW d2,
           Leads(v, c, name, d1), Leads(v, c, name, d2)
    PROVE  d1 = d2
<1> DEFINE found == {i \in DOMAIN Files(v, c) :
                        LET d == Files(v, c)[i] IN ShownName(d.name, d.start_cluster) = name}
<1>1. PICK i \in found : (\A j \in found : i <= j) /\ Below(v, [dir |-> c, nr |-> i], d1)
  BY DEF Leads
<1>2. PICK k \in found : (\A j \in found : k <= j) /\ Below(v, [dir |-> c, nr |-> k], d2)
  BY DEF Leads
<1>3. i \in Nat /\ k \in Nat /\ i <= k /\ k <= i
  <2>1. i \in 1..Len(Files(v, c)) /\ k \in 1..Len(Files(v, c)) /\ Len(Files(v, c)) \in Nat
    BY FilesList
  <2> HIDE DEF found
  <2> QED BY <1>1, <1>2, <2>1
<1>4. i = k
  BY <1>3
<1> QED BY <1>1, <1>2, <1>4 DEF Below

LEMMA LookedUp ==
    ASSUME NEW v \in Volumes, Formatted(v), NEW c \in DOMAIN v.dirs, NEW name,
           NEW list, list = ShownAll(Files(v, c))
    PROVE  LET found == Matches(list, name)
               d == list[First(found)] IN
           /\ found = {} \/ ~d.is_dir => \A dir : ~Leads(v, c, name, dir)
           /\ found # {} /\ d.is_dir => Leads(v, c, name, d.start_cluster)
<1> DEFINE F == Files(v, c)
           named == {i \in DOMAIN F : LET d == F[i] IN ShownName(d.name, d.start_cluster) = name}
           found == Matches(list, name)
<1>1. DOMAIN list = DOMAIN F /\ \A i \in DOMAIN F : list[i] = Shown(F[i])
  BY DEF ShownAll
<1>2. \A i \in DOMAIN F : /\ list[i].name = ShownName(F[i].name, F[i].start_cluster)
                          /\ list[i].is_dir = F[i].is_dir
                          /\ list[i].start_cluster = F[i].start_cluster
  BY <1>1, FileIs
<1>3. found = named
  BY <1>1, <1>2 DEF Matches
<1>4. named \in SUBSET (1..Len(F)) /\ Len(F) \in Nat
  BY FilesList
<1> HIDE DEF F
<1>5. ASSUME named # {}
      PROVE  First(named) \in named /\ \A j \in named : First(named) <= j
  <2> HIDE DEF named
  <2> QED BY <1>4, <1>5, FirstOfPlaces
<1>6. ASSUME NEW i \in named, \A j \in named : i <= j
      PROVE  i = First(named)
  <2> DEFINE k == First(named)
  <2>1. k \in named /\ k <= i /\ i <= k
    BY <1>5, <1>6
  <2>2. k \in Nat /\ i \in Nat
    <3> HIDE DEF k, named
    <3> QED BY <1>4, <1>6, <2>1
  <2> HIDE DEF k, named
  <2>3. i = k
    BY <2>1, <2>2
  <2> QED BY <2>3 DEF k
<1>7. ASSUME NEW dir, Leads(v, c, name, dir)
      PROVE  named # {} /\ F[First(named)].is_dir
  <2>1. PICK i \in named : (\A j \in named : i <= j) /\ Below(v, [dir |-> c, nr |-> i], dir)
    BY <1>7 DEF Leads, F
  <2>2. i = First(named)
    <3> HIDE DEF named
    <3> QED BY <1>6, <2>1
  <2>3. F[i].is_dir
    BY <2>1 DEF Below, FileOf, F
  <2> HIDE DEF named
  <2> QED BY <2>2, <2>3
<1>8. ASSUME named # {}, F[First(named)].is_dir
      PROVE  Leads(v, c, name, F[First(named)].start_cluster)
  <2> DEFINE k == First(named)
  <2>1. k \in named /\ \A j \in named : k <= j
    BY <1>5, <1>8
  <2>2. Below(v, [dir |-> c, nr |-> k], F[k].start_cluster)
    <3> HIDE DEF k
    <3> QED BY <1>8 DEF Below, FileOf, F, k
  <2> HIDE DEF k
  <2>3. Leads(v, c, name, F[k].start_cluster)
    BY <2>1, <2>2 DEF Leads, F
  <2> QED BY <2>3 DEF k
<1>9. ASSUME named # {}
      PROVE  /\ list[First(named)].is_dir = F[First(named)].is_dir
             /\ list[First(named)].start_cluster = F[First(named)].start_cluster
  <2>1. First(named) \in DOMAIN F
    BY <1>5, <1>9
  <2> HIDE DEF named
  <2> QED BY <1>2, <2>1
<1> HIDE DEF named, found
<1>10. /\ found = {} \/ ~list[First(found)].is_dir => \A dir : ~Leads(v, c, name, dir)
       /\ found # {} /\ list[First(found)].is_dir => Leads(v, c, name, list[First(found)].start_cluster)
  BY <1>3, <1>7, <1>8, <1>9
<1> QED BY <1>10 DEF found
-----------------------------------------------------------------------------
(* The commands' readers: how each begins, and what its steps leave alone.   *)

(* A step of the reader leaves the rest of the walk alone.                   *)
Moves(ok) == ReadEntry(ok) \/ ReadStream(ok) \/ ReadName(ok)

LEMMA MovesOn ==
    ASSUME WalkInv, NEW ok \in BOOLEAN, Moves(ok)
    PROVE  /\ Listing(rd) /\ Listing(rd') /\ rd'.start = rd.start /\ (failed => failed')
           /\ rd.phase # "done"
           /\ UNCHANGED <<vol, cmd, super, it, chain, out, ret>>
<1>1. rd \in Readers(vol, super)
  BY DEF WalkInv, ReaderOK
<1>2. Listing(rd) /\ rd.phase # "done" /\ (failed => failed')
      /\ UNCHANGED <<vol, cmd, super, it, chain, out, ret>>
  BY DEF Moves, ReadEntry, ReadStream, ReadName, Listing, Reads
<1>3. Listing(rd') /\ rd'.start = rd.start
  <2>1. ASSUME GiveUp PROVE Listing(rd') /\ rd'.start = rd.start
    BY <1>1, <2>1 DEF GiveUp, Readers, Listing
  <2>2. ASSUME NEW d, rd' = Linked(rd, d) PROVE Listing(rd') /\ rd'.start = rd.start
    <3>1. rd'.phase = "entry" /\ rd'.start = rd.start
      BY <1>1, <2>2 DEF Linked, Readers
    <3> QED BY <3>1 DEF Listing
  <2>3. CASE ReadEntry(ok)
    <3> DEFINE e == Entry(rd.idx)
               d == [NoDirent EXCEPT !.is_dir = e.directory]
    <3>1. \/ GiveUp
          \/ rd' = [rd EXCEPT !.phase = "stream", !.count = e.secondary, !.cur = d]
          \/ rd' = [rd EXCEPT !.phase = "done"]
          \/ rd' = [rd EXCEPT !.idx = @ + 1]
      BY <2>3 DEF ReadEntry
    <3> HIDE DEF e, d
    <3>2. CASE GiveUp
      BY <2>1, <3>2
    <3>3. CASE ~GiveUp
      <4>1. rd'.start = rd.start /\ rd'.phase \in {"stream", "done", rd.phase}
        BY <1>1, <3>1, <3>3 DEF Readers
      <4> QED BY <1>2, <4>1 DEF Listing
    <3> QED BY <3>2, <3>3
  <2>4. CASE ReadStream(ok)
    <3> DEFINE e == Entry(rd.idx + 1)
               cur == [rd.cur EXCEPT !.byte_size = e.length, !.start_cluster = e.first]
               only == [cur EXCEPT !.name = <<Garbled>>]
               named == [rd EXCEPT !.phase = "name", !.cur = cur, !.left = rd.count - 1,
                                   !.part = Garbled]
    <3>1. \/ GiveUp
          \/ rd' = Linked(rd, only)
          \/ rd' = named
      BY <2>4 DEF ReadStream
    <3>2. ASSUME rd' = named PROVE rd'.start = rd.start /\ rd'.phase = "name"
      <4> HIDE DEF cur
      <4> QED BY <1>1, <3>2 DEF Readers
    <3> HIDE DEF cur, only, named
    <3> QED BY <2>1, <2>2, <3>1, <3>2 DEF Listing
  <2>5. CASE ReadName(ok)
    <3> DEFINE i == rd.idx + 1 + (rd.count - rd.left)
               e == Entry(i)
               part == PartAfter(e, rd.part)
               cur == [rd.cur EXCEPT !.name = Append(@, part)]
               shown == [cur EXCEPT !.name = ShownName(@, cur.start_cluster)]
               named == [rd EXCEPT !.cur = cur, !.left = @ - 1, !.part = part]
    <3>1. \/ GiveUp
          \/ rd' = Linked(rd, shown)
          \/ rd' = named
      BY <2>5 DEF ReadName
    <3>2. ASSUME rd' = named PROVE rd'.start = rd.start /\ rd'.phase = rd.phase
      <4> HIDE DEF cur, part
      <4> QED BY <1>1, <3>2 DEF Readers
    <3> HIDE DEF cur, shown, named
    <3> QED BY <1>2, <2>1, <2>2, <3>1, <3>2 DEF Listing
  <2> QED BY <2>3, <2>4, <2>5 DEF Moves
<1> QED BY <1>2, <1>3

LEMMA MovesRight ==
    ASSUME WalkInv, ReaderRight, NEW ok \in BOOLEAN, Moves(ok)
    PROVE  ReaderRight'
<1>1. CASE Formatted(vol) /\ Own
  BY <1>1, ReadEntryRight, ReadStreamRight, ReadNameRight DEF Moves
<1>2. CASE ~(Formatted(vol) /\ Own)
  <2>1. UNCHANGED <<vol, super>>
    BY MovesOn
  <2> QED BY <1>2, <2>1, NotFormatted
<1> QED BY <1>1, <1>2

(* A reader that has not begun, and a new one.                               *)
LEMMA OffRight ==
    ASSUME vol' = vol, rd'.phase \in {"off", "boot"}
    PROVE  ReaderRight'
<1>1. ListRight(vol', rd', failed')
  BY DEF ListRight
<1> QED BY <1>1 DEF ReaderRight

LEMMA StartRight ==
    ASSUME vol \in Volumes, vol' = vol, NEW c, rd' = Reader(c),
           Formatted(vol) /\ Own' => c \in DOMAIN vol.dirs
    PROVE  ReaderRight'
<1>1. CASE Formatted(vol) /\ Own'
  <2>1. ListRight(vol', rd', failed')
    <3>1. ListRight(vol, Reader(c), failed')
      BY <1>1, RightStart
    <3> QED BY <3>1
  <2> QED BY <2>1 DEF ReaderRight
<1>2. CASE ~(Formatted(vol) /\ Own')
  <2>1. ~(Formatted(vol) /\ Own)'
    BY <1>2
  <2> QED BY <2>1 DEF ReaderRight
<1> QED BY <1>1, <1>2

LEMMA PhaseOff == NoReader.phase = "off" /\ [NoReader EXCEPT !.phase = "boot"].phase = "boot"
  BY DEF NoReader

LEMMA BootRight ==
    ASSUME WalkInv, NEW ok \in BOOLEAN, ReadBoot(ok)
    PROVE  ReaderRight'
<1>1. rd' = Reader(super'.rootdir_start) /\ vol' = vol /\ vol \in Volumes
  BY DEF ReadBoot, WalkInv
<1>2. Formatted(vol) /\ Own' => super'.rootdir_start \in DOMAIN vol.dirs
  BY <1>1 DEF Formatted, ChainsWhole, Own, Superblock
<1> QED BY <1>1, <1>2, StartRight

(* A reader starts in a directory its list names.                            *)
LEMMA ListedRight ==
    ASSUME WalkInv, NEW d \in Listable(vol, super), d.is_dir, rd' = Reader(d.start_cluster),
           UNCHANGED <<vol, super>>
    PROVE  ReaderRight'
<1>1. vol \in Volumes /\ (Formatted(vol) /\ Own => d.start_cluster \in DOMAIN vol.dirs)
  BY FormattedRight DEF WalkInv, Listable, Own
<1>2. Own' = Own
  BY DEF Own
<1> QED BY <1>1, <1>2, StartRight

-----------------------------------------------------------------------------
(* ls follows its path from the root: what it is asked for, it answers.      *)

(* The names of a path, followed as far as the n-th from the root on.        *)
Followed(v, names, n, t) ==
    /\ t \in [0..n -> DOMAIN v.dirs] /\ t[0] = v.rootdir_start
    /\ \A i \in 1..n : Leads(v, t[i - 1], names[i], t[i])

(* ls has followed the path it was asked for up to what is left of it, and   *)
(* reads the directory it has come to, if it has this volume's superblock.   *)
Reached(v, asked, path, c) ==
    \E n \in 0..Len(asked) :
        /\ path = SubSeq(asked, n + 1, Len(asked))
        /\ \E t : Followed(v, asked, n, t) /\ t[n] = c
LsRight ==
    cmd.op = "ls" /\ Formatted(vol) =>
        /\ PathOK(cmd.asked)
        /\ rd.phase = "boot" => cmd.path = cmd.asked
        /\ rd.phase # "boot" /\ Own => Reached(vol, cmd.asked, cmd.path, rd.start)

LEMMA PathFacts ==
    ASSUME NEW p, PathOK(p)
    PROVE  /\ Len(p) \in Nat
           /\ SubSeq(p, 1, Len(p)) = p
           /\ \A n \in 0..Len(p) : LET q == SubSeq(p, n + 1, Len(p)) IN
                 /\ q = <<>> <=> n = Len(p)
                 /\ n # Len(p) => Head(q) = p[n + 1] /\ Tail(q) = SubSeq(p, n + 1 + 1, Len(p))
<1> DEFINE U == {p[i] : i \in DOMAIN p}
           m == Len(p)
<1>1. p \in Seq(U)
  BY DEF PathOK
<1> HIDE DEF U
<1>2. m \in Nat /\ SubSeq(p, 1, m) = p
  BY <1>1, LenProperties, SubSeqFull
<1>3. ASSUME NEW n \in 0..m
      PROVE  LET q == SubSeq(p, n + 1, m) IN
                 /\ q = <<>> <=> n = m
                 /\ n # m => Head(q) = p[n + 1] /\ Tail(q) = SubSeq(p, n + 1 + 1, m)
  <2> DEFINE q == SubSeq(p, n + 1, m)
  <2>1. CASE n = m
    <3>1. n + 1 \in Int /\ m \in Int /\ m < n + 1
      BY <1>2, <2>1
    <3>2. q = <<>>
      BY <3>1, SubSeqEmpty
    <3> QED BY <2>1, <3>2
  <2>2. CASE n # m
    <3> HIDE DEF m
    <3>1. n + 1 \in 1..m /\ m \in (n + 1)..m /\ n + 1 \in Int /\ m \in Int
      BY <1>2, <2>2
    <3>2. Head(q) = p[n + 1] /\ Tail(q) = SubSeq(p, n + 1 + 1, m)
      BY <1>1, <3>1, HeadTailOfSubSeq DEF m
    <3>3. \A i \in (n + 1)..m : p[i] \in U
      <4>1. \A i \in (n + 1)..m : i \in 1..m
        BY <1>2
      <4> QED BY <1>1, <4>1, ElementOfSeq DEF m
    <3>4. Len(q) = m - (n + 1) + 1
      <4>1. n + 1 <= m
        BY <3>1
      <4> QED BY <3>1, <3>3, <4>1, SubSeqProperties
    <3>5. q # <<>>
      <4>1. m - (n + 1) + 1 # 0
        BY <1>2, <2>2
      <4>2. Len(<<>>) = 0
        OBVIOUS
      <4> HIDE DEF q
      <4> QED BY <3>4, <4>1, <4>2
    <3> QED BY <2>2, <3>2, <3>5
  <2> QED BY <2>1, <2>2
<1> QED BY <1>2, <1>3

(* A path has one way.                                                       *)
LEMMA OneWay ==
    ASSUME NEW v \in Volumes, Formatted(v), NEW names, NEW n \in Nat, NEW m \in Nat, n <= m,
           NEW t, Followed(v, names, n, t), NEW u, Followed(v, names, m, u)
    PROVE  t[n] = u[n]
<1> DEFINE S == {i \in 0..n : t[i] = u[i]}
<1>1. 0 \in S
  BY DEF Followed
<1>2. ASSUME NEW i \in 0..n, i \in S, i # n PROVE i + 1 \in S
  <2>1. i + 1 \in 1..n /\ i + 1 \in 1..m /\ (i + 1) - 1 = i /\ i + 1 \in 0..n /\ i \in 0..n
    BY <1>2
  <2>2. Leads(v, t[i], names[i + 1], t[i + 1]) /\ Leads(v, u[i], names[i + 1], u[i + 1])
    BY <2>1 DEF Followed
  <2>3. t[i] \in DOMAIN v.dirs /\ t[i] = u[i]
    BY <1>2, <2>1 DEF Followed
  <2>4. t[i + 1] = u[i + 1]
    BY <2>2, <2>3, LeadsOne
  <2> QED BY <2>1, <2>4
<1>3. \A i \in 0..n : i \in S
  <2> HIDE DEF S
  <2> QED BY <1>1, <1>2, UpTo
<1>4. n \in 0..n
  OBVIOUS
<1> QED BY <1>3, <1>4

(* ls begins at the root.                                                    *)
LEMMA FirstReached ==
    ASSUME NEW v, Formatted(v), NEW asked, PathOK(asked)
    PROVE  Reached(v, asked, asked, v.rootdir_start)
<1> DEFINE t == [i \in 0..0 |-> v.rootdir_start]
<1>1. v.rootdir_start \in DOMAIN v.dirs
  BY DEF Formatted, ChainsWhole
<1>2. t \in [0..0 -> DOMAIN v.dirs] /\ t[0] = v.rootdir_start
  BY <1>1
<1> HIDE DEF t
<1>3. Followed(v, asked, 0, t)
  BY <1>2 DEF Followed
<1>4. 0 \in 0..Len(asked) /\ asked = SubSeq(asked, 0 + 1, Len(asked))
  BY PathFacts
<1> QED BY <1>2, <1>3, <1>4 DEF Reached

(* Where ls has come to with a list read: it goes on, or gives its answer.   *)
LEMMA LsGoesOn ==
    ASSUME NEW v \in Volumes, Formatted(v), NEW asked, PathOK(asked), NEW path, path # <<>>,
           NEW c, Reached(v, asked, path, c), NEW list, list = ShownAll(Files(v, c))
    PROVE  LET found == Matches(list, Head(path))
               d == list[First(found)] IN
           /\ found # {} /\ d.is_dir /\ d.start_cluster \in DOMAIN v.dirs =>
                 Reached(v, asked, Tail(path), d.start_cluster)
           /\ found = {} \/ ~d.is_dir => Resolve(v, asked) = {}
<1> DEFINE found == Matches(list, Head(path))
           d == list[First(found)]
<1>1. PICK n \in 0..Len(asked) :
          path = SubSeq(asked, n + 1, Len(asked)) /\ \E t : Followed(v, asked, n, t) /\ t[n] = c
  BY DEF Reached
<1>2. PICK t : Followed(v, asked, n, t) /\ t[n] = c
  BY <1>1
<1>3. Len(asked) \in Nat
  BY PathFacts
<1>4. n # Len(asked) /\ Head(path) = asked[n + 1] /\ Tail(path) = SubSeq(asked, n + 1 + 1, Len(asked))
  BY <1>1, PathFacts
<1>5. n \in Nat /\ n + 1 \in 0..Len(asked) /\ n + 1 \in 1..Len(asked) /\ n <= Len(asked) /\ n \in 0..n
      /\ (n + 1) - 1 = n
  BY <1>1, <1>3, <1>4
<1>6. c \in DOMAIN v.dirs
  BY <1>2, <1>5 DEF Followed
<1>7. /\ found = {} \/ ~d.is_dir => \A dir : ~Leads(v, c, asked[n + 1], dir)
      /\ found # {} /\ d.is_dir => Leads(v, c, asked[n + 1], d.start_cluster)
  BY <1>4, <1>6, LookedUp
<1> HIDE DEF found, d
<1>8. ASSUME found # {}, d.is_dir, d.start_cluster \in DOMAIN v.dirs
      PROVE  Reached(v, asked, Tail(path), d.start_cluster)
  <2>1. \E u : Followed(v, asked, n + 1, u) /\ u[n + 1] = d.start_cluster
    <3> DEFINE b == d.start_cluster
    <3>1. b \in DOMAIN v.dirs /\ Leads(v, t[n], asked[n + 1], b) /\ n \in Nat
      BY <1>2, <1>5, <1>7, <1>8
    <3> HIDE DEF b
    <3> DEFINE u == [i \in 0..(n + 1) |-> IF i = n + 1 THEN b ELSE t[i]]
    <3>2. \A i \in 0..n : u[i] = t[i] /\ t[i] \in DOMAIN v.dirs /\ i \in 0..(n + 1)
      BY <1>2, <3>1 DEF Followed
    <3>3. u[n + 1] = b /\ n + 1 \in 0..(n + 1)
      BY <3>1
    <3>4. u \in [0..(n + 1) -> DOMAIN v.dirs]
      <4>1. \A i \in 0..(n + 1) : i = n + 1 \/ i \in 0..n
        BY <3>1
      <4> QED BY <3>1, <3>2, <4>1
    <3> HIDE DEF u
    <3>5. ASSUME NEW i \in 1..(n + 1) PROVE Leads(v, u[i - 1], asked[i], u[i])
      <4>1. CASE i = n + 1
        <5>1. i - 1 = n /\ n \in 0..n
          BY <3>1, <4>1
        <5> QED BY <3>1, <3>2, <3>3, <4>1, <5>1
      <4>2. CASE i # n + 1
        <5>1. i \in 1..n /\ i \in 0..n /\ i - 1 \in 0..n
          BY <3>1, <4>2
        <5>2. Leads(v, t[i - 1], asked[i], t[i])
          BY <1>2, <5>1 DEF Followed
        <5> QED BY <3>2, <5>1, <5>2
      <4> QED BY <4>1, <4>2
    <3>6. u[0] = v.rootdir_start
      BY <1>2, <3>1, <3>2 DEF Followed
    <3>7. Followed(v, asked, n + 1, u) /\ u[n + 1] = b
      BY <3>3, <3>4, <3>5, <3>6 DEF Followed
    <3> QED BY <3>7 DEF b
  <2> QED BY <1>4, <1>5, <2>1 DEF Reached
<1>9. ASSUME found = {} \/ ~d.is_dir PROVE Resolve(v, asked) = {}
  <2> SUFFICES ASSUME NEW u, Followed(v, asked, Len(asked), u) PROVE FALSE
    BY DEF Resolve, Followed
  <2>1. u[n] = c
    BY <1>2, <1>3, <1>5, OneWay
  <2>2. Leads(v, u[(n + 1) - 1], asked[n + 1], u[n + 1])
    BY <1>5 DEF Followed
  <2> QED BY <1>5, <1>7, <1>9, <2>1, <2>2
<1> QED BY <1>8, <1>9 DEF found, d

LEMMA LsArrives ==
    ASSUME NEW v \in Volumes, NEW asked, PathOK(asked), NEW c, Reached(v, asked, <<>>, c)
    PROVE  c \in Resolve(v, asked) /\ c \in DOMAIN v.dirs
<1>1. PICK n \in 0..Len(asked) :
          <<>> = SubSeq(asked, n + 1, Len(asked)) /\ \E t : Followed(v, asked, n, t) /\ t[n] = c
  BY DEF Reached
<1>2. PICK t : Followed(v, asked, n, t) /\ t[n] = c
  BY <1>1
<1>3. n = Len(asked) /\ Len(asked) \in Nat
  BY <1>1, PathFacts
<1>4. Followed(v, asked, Len(asked), t) /\ t[Len(asked)] = c /\ Len(asked) \in 0..Len(asked)
  BY <1>2, <1>3
<1>5. t[Len(asked)] \in Resolve(v, asked)
  BY <1>4 DEF Followed, Resolve
<1> QED BY <1>4, <1>5 DEF Followed

(* Each step of ls keeps what it has followed; the other commands are none of*)
(* its business.                                                             *)
LEMMA NotLs ==
    ASSUME cmd'.op # "ls" PROVE LsRight'
  BY DEF LsRight

LEMMA LsBegins ==
    ASSUME NEW p \in Paths, Begin("ls", p)
    PROVE  LsRight'
<1>1. cmd'.asked = p /\ cmd'.path = p /\ rd'.phase = "boot" /\ PathOK(p)
  BY ExFatAssumption, PhaseOff DEF Begin
<1> QED BY <1>1 DEF LsRight

LEMMA LsBoots ==
    ASSUME WalkInv, LsRight, NEW ok \in BOOLEAN, ReadBoot(ok)
    PROVE  LsRight'
<1>1. /\ rd.phase = "boot" /\ rd' = Reader(super'.rootdir_start) /\ vol' = vol /\ cmd' = cmd
  BY DEF ReadBoot
<1>2. rd'.phase = "entry" /\ rd'.start = super'.rootdir_start
  BY <1>1 DEF Reader, NoReader
<1>3. CASE cmd.op = "ls" /\ Formatted(vol)
  <2>1. PathOK(cmd.asked) /\ cmd.path = cmd.asked
    BY <1>1, <1>3 DEF LsRight
  <2>2. Own' => rd'.start = vol.rootdir_start
    BY <1>1, <1>2 DEF Own, Superblock
  <2>3. Reached(vol, cmd.asked, cmd.path, vol.rootdir_start)
    BY <1>3, <2>1, FirstReached
  <2> QED BY <1>1, <1>2, <2>1, <2>2, <2>3 DEF LsRight
<1>4. CASE ~(cmd.op = "ls" /\ Formatted(vol))
  BY <1>1, <1>4 DEF LsRight
<1> QED BY <1>3, <1>4

LEMMA LsMoves ==
    ASSUME WalkInv, LsRight, NEW ok \in BOOLEAN, Moves(ok)
    PROVE  LsRight'
<1>1. /\ Listing(rd) /\ Listing(rd') /\ rd'.start = rd.start /\ vol' = vol /\ cmd' = cmd
      /\ super' = super
  BY MovesOn
<1>2. rd.phase # "boot" /\ rd'.phase # "boot" /\ Own' = Own
  BY <1>1 DEF Listing, Own
<1> QED BY <1>1, <1>2 DEF LsRight

(* What ls has in hand when a list is read: the directory's, or none since a *)
(* read has failed.                                                          *)
LEMMA LsList ==
    ASSUME WalkInv, ReaderRight, LsRight, Formatted(vol), Own, LsStep
    PROVE  /\ vol \in Volumes /\ rd.phase = "done" /\ rd.list \in Seq(Listable(vol, super))
           /\ PathOK(cmd.asked) /\ Reached(vol, cmd.asked, cmd.path, rd.start)
           /\ rd.list = ShownAll(Files(vol, rd.start)) \/ (rd.list = <<>> /\ failed)
<1>1. rd.phase = "done" /\ cmd.op = "ls"
  BY DEF LsStep
<1>2. vol \in Volumes /\ rd.list \in Seq(Listable(vol, super))
  BY DEF WalkInv, ReaderOK, Readers
<1>3. PathOK(cmd.asked) /\ Reached(vol, cmd.asked, cmd.path, rd.start)
  BY <1>1 DEF LsRight
<1>4. rd.list = ShownAll(Files(vol, rd.start)) \/ (rd.list = <<>> /\ failed)
  BY <1>1 DEF ReaderRight, ListRight
<1> QED BY <1>1, <1>2, <1>3, <1>4

LEMMA NoMatch ==
    ASSUME NEW name PROVE Matches(<<>>, name) = {}
  BY DEF Matches

LEMMA LsSteps ==
    ASSUME WalkInv, ReaderRight, LsRight, LsStep
    PROVE  LsRight' /\ ReaderRight'
<1> DEFINE found == Matches(rd.list, Head(cmd.path))
           d == rd.list[First(found)]
<1>1. \/ Finish(0)
      \/ Finish(-1)
      \/ /\ cmd.path # <<>> /\ found # {} /\ d.is_dir /\ rd' = Reader(d.start_cluster)
         /\ cmd' = [cmd EXCEPT !.path = Tail(@)]
         /\ UNCHANGED <<vol, super, it, chain, out, ret, failed, blocks>>
  BY DEF LsStep
<1>2. CASE Finish(0) \/ Finish(-1)
  <2>1. cmd' = Idle /\ vol' = vol /\ rd' = NoReader
    BY <1>2 DEF Finish
  <2>2. LsRight'
    BY <2>1, NotLs DEF Idle
  <2>3. ReaderRight'
    BY <2>1, OffRight, PhaseOff
  <2> QED BY <2>2, <2>3
<1>3. CASE /\ cmd.path # <<>> /\ found # {} /\ d.is_dir /\ rd' = Reader(d.start_cluster)
           /\ cmd' = [cmd EXCEPT !.path = Tail(@)]
           /\ UNCHANGED <<vol, super, it, chain, out, ret, failed, blocks>>
  <2>1. /\ vol \in Volumes /\ super \in Leftovers /\ CmdOK(cmd)
        /\ rd.list \in Seq(Listable(vol, super))
    BY DEF WalkInv, ReaderOK, Readers
  <2>2. d \in Listable(vol, super)
    BY <1>3, <2>1, FoundListed
  <2>3. rd.phase = "done" /\ cmd.op = "ls"
    BY DEF LsStep
  <2>4. Own' = Own /\ vol' = vol
    BY <1>3 DEF Own
  <2>5. ReaderRight'
    <3> HIDE DEF found, d
    <3> QED BY <1>3, <2>2, ListedRight
  <2>6. cmd'.op = cmd.op /\ cmd'.asked = cmd.asked /\ cmd'.path = Tail(cmd.path)
    BY <1>3, <2>1 DEF CmdOK
  <2>7. rd'.phase = "entry" /\ rd'.start = d.start_cluster
    <3> HIDE DEF found, d
    <3> QED BY <1>3 DEF Reader, NoReader
  <2>8. CASE Formatted(vol) /\ Own
    <3>1. /\ PathOK(cmd.asked) /\ Reached(vol, cmd.asked, cmd.path, rd.start)
          /\ rd.list = ShownAll(Files(vol, rd.start)) \/ (rd.list = <<>> /\ failed)
      BY <2>8, LsList
    <3>2. rd.list = ShownAll(Files(vol, rd.start))
      BY <1>3, <3>1, NoMatch
    <3>3. d.start_cluster \in DOMAIN vol.dirs
      <4> HIDE DEF d
      <4> QED BY <1>3, <2>2, <2>8, FormattedRight DEF Listable, Own
    <3>4. Reached(vol, cmd.asked, Tail(cmd.path), d.start_cluster)
      BY <1>3, <2>1, <2>8, <3>1, <3>2, <3>3, LsGoesOn
    <3> HIDE DEF found, d
    <3> QED BY <2>4, <2>5, <2>6, <2>7, <3>1, <3>4 DEF LsRight
  <2>9. CASE ~(Formatted(vol) /\ Own)
    <3>1. PathOK(cmd.asked) \/ ~Formatted(vol)
      BY <2>3 DEF LsRight
    <3> HIDE DEF found, d
    <3> QED BY <2>4, <2>5, <2>6, <2>7, <2>9, <3>1 DEF LsRight
  <2> QED BY <2>5, <2>8, <2>9
<1> QED BY <1>1, <1>2, <1>3

(* The answer.                                                               *)
LsAnswer ==
    LET dirs == Resolve(vol, cmd.asked) IN
       \/ ret' = -1 /\ (failed \/ dirs = {})
       \/ ret' = 0 /\ out' = <<>> /\ failed
       \/ ret' = 0 /\ \E c \in dirs :
             /\ DOMAIN out' = DOMAIN Files(vol, c)
             /\ \A i \in DOMAIN out' : SameLine(out'[i], Line(0, Files(vol, c)[i]))

LEMMA SameShown ==
    ASSUME NEW v \in Volumes, Formatted(v), NEW s \in DOMAIN v.dirs, NEW k \in DOMAIN Files(v, s), NEW depth
    PROVE  SameLine(Line(depth, Shown(Files(v, s)[k])), Line(depth, Files(v, s)[k]))
<1> DEFINE d == Files(v, s)[k]
<1>1. Shown(d).is_dir = d.is_dir /\ Head(Shown(d).name) = Head(d.name)
  BY FileIs
<1> HIDE DEF d
<1> QED BY <1>1 DEF SameLine, Line, d

LEMMA LsGivesAnswer ==
    ASSUME WalkInv, ReaderRight, LsRight, Formatted(vol), Own, LsStep, cmd' = Idle
    PROVE  LsAnswer
<1> DEFINE found == Matches(rd.list, Head(cmd.path))
           d == rd.list[First(found)]
<1>1. /\ vol \in Volumes /\ rd.phase = "done" /\ rd.list \in Seq(Listable(vol, super))
      /\ PathOK(cmd.asked) /\ Reached(vol, cmd.asked, cmd.path, rd.start)
      /\ rd.list = ShownAll(Files(vol, rd.start)) \/ (rd.list = <<>> /\ failed)
  BY LsList
<1>2. \/ /\ cmd.path = <<>> /\ ret' = 0
         /\ out' = [i \in DOMAIN rd.list |-> Line(0, rd.list[i])]
      \/ cmd.path # <<>> /\ ret' = -1 /\ (found = {} \/ ~d.is_dir)
      \/ cmd' = [cmd EXCEPT !.path = Tail(@)]
  BY DEF LsStep, Finish
<1>3. CASE cmd' = [cmd EXCEPT !.path = Tail(@)]
  <2>1. cmd'.op = cmd.op /\ cmd.op = "ls"
    BY <1>3 DEF WalkInv, CmdOK, LsStep
  <2> QED BY <2>1 DEF Idle
<1>4. CASE cmd.path # <<>> /\ ret' = -1 /\ (found = {} \/ ~d.is_dir)
  <2>1. CASE rd.list = ShownAll(Files(vol, rd.start))
    <3>1. Resolve(vol, cmd.asked) = {}
      BY <1>1, <1>4, <2>1, LsGoesOn
    <3> QED BY <1>4, <3>1 DEF LsAnswer
  <2>2. CASE rd.list = <<>> /\ failed
    BY <1>4, <2>2 DEF LsAnswer
  <2> QED BY <1>1, <2>1, <2>2
<1>5. CASE /\ cmd.path = <<>> /\ ret' = 0
           /\ out' = [i \in DOMAIN rd.list |-> Line(0, rd.list[i])]
  <2>1. CASE rd.list = <<>> /\ failed
    <3>1. out' = <<>>
      BY <1>5, <2>1
    <3> QED BY <1>5, <2>1, <3>1 DEF LsAnswer
  <2>2. CASE rd.list = ShownAll(Files(vol, rd.start))
    <3> DEFINE c == rd.start
               F == Files(vol, c)
    <3>1. c \in Resolve(vol, cmd.asked) /\ c \in DOMAIN vol.dirs
      BY <1>1, <1>5, LsArrives
    <3>2. \A i \in DOMAIN F : SameLine(Line(0, Shown(F[i])), Line(0, F[i]))
      BY <1>1, <3>1, SameShown
    <3>3. DOMAIN out' = DOMAIN F /\ \A i \in DOMAIN F : out'[i] = Line(0, Shown(F[i]))
      <4> HIDE DEF F
      <4> QED BY <1>5, <2>2 DEF ShownAll, F
    <3>4. DOMAIN out' = DOMAIN F /\ \A i \in DOMAIN out' : SameLine(out'[i], Line(0, F[i]))
      <4> HIDE DEF F
      <4> QED BY <3>2, <3>3
    <3> QED BY <1>5, <3>1, <3>4 DEF LsAnswer
  <2> QED BY <1>1, <2>1, <2>2
<1> QED BY <1>2, <1>3, <1>4, <1>5
-----------------------------------------------------------------------------
(* The tree: paths through the volume, and their order.                      *)

(* A volume tree can print.                                                  *)
Good(v) == Formatted(v) /\ IsTree(v)

LEMMA PlaceIs ==
    ASSUME NEW v \in Volumes, Formatted(v), NEW a \in Places(v)
    PROVE  /\ a = [dir |-> a.dir, nr |-> a.nr] /\ a.dir \in DOMAIN v.dirs
           /\ a.nr \in Nat /\ a.nr >= 1 /\ a.nr <= Len(Files(v, a.dir)) /\ a.nr \in DOMAIN Files(v, a.dir)
           /\ Len(Files(v, a.dir)) \in Nat
<1>1. PICK c \in DOMAIN v.dirs : a \in {[dir |-> c, nr |-> k] : k \in DOMAIN Files(v, c)}
  BY DEF Places
<1>2. PICK k \in DOMAIN Files(v, c) : a = [dir |-> c, nr |-> k]
  BY <1>1
<1>3. Len(Files(v, c)) \in Nat /\ DOMAIN Files(v, c) = 1..Len(Files(v, c))
  BY FilesList
<1> QED BY <1>2, <1>3

LEMMA IsPlace ==
    ASSUME NEW v, NEW c \in DOMAIN v.dirs, NEW k \in DOMAIN Files(v, c)
    PROVE  [dir |-> c, nr |-> k] \in Places(v)
  BY DEF Places

(* The directory the first k places of a path lead to.                       *)
DirAt(v, p, k) == IF k = 0 THEN v.rootdir_start ELSE FileOf(v, p[k]).start_cluster
DirOf(v, p) == DirAt(v, p, Len(p))

LEMMA PathDirs ==
    ASSUME NEW v, NEW p \in Seq(Places(v)), IsPath(v, p), NEW k \in Nat, k < Len(p)
    PROVE  p[k + 1].dir = DirAt(v, p, k)
<1> DEFINE S == Places(v)
           m == Len(p)
<1>1. m \in Nat
  OBVIOUS
<1>2. CASE k = 0
  <2>1. p # <<>> /\ k + 1 = 1
    <3> HIDE DEF S
    <3> QED BY <1>2
  <2> QED BY <1>2, <2>1 DEF IsPath, DirAt
<1>3. CASE k # 0
  <2>1. k + 1 \in 2..m /\ (k + 1) - 1 = k
    <3> HIDE DEF m
    <3> QED BY <1>1, <1>3 DEF m
  <2>2. Below(v, p[k], p[k + 1].dir)
    BY <2>1 DEF IsPath
  <2> QED BY <1>3, <2>2 DEF Below, DirAt
<1> QED BY <1>2, <1>3

(* On a way down the heights fall, so that a path is no longer than there    *)
(* are directories.                                                          *)
LEMMA PathShort ==
    ASSUME NEW v \in Volumes, Good(v), NEW p \in Seq(Places(v)), IsPath(v, p)
    PROVE  Len(p) <= MaxClusters(v)
<1> DEFINE K == MaxClusters(v)
           m == Len(p)
<1>1. K \in Nat /\ m \in Nat
  BY MaxFacts
<1>2. PICK height \in [DOMAIN v.dirs -> 1..K] :
          \A place \in Places(v) : FileOf(v, place).is_dir =>
              height[FileOf(v, place).start_cluster] < height[place.dir]
  BY DEF Good, IsTree, MaxClusters
<1> DEFINE h(i) == height[p[i].dir]
           S == {k \in 0..(m - 1) : h(k + 1) + k <= K}
<1>3. \A i \in 1..m : p[i] \in Places(v) /\ p[i].dir \in DOMAIN v.dirs
  <2>1. \A i \in 1..m : p[i] \in Places(v)
    BY ElementOfSeq
  <2> QED BY <2>1, PlaceIs DEF Good
<1>4. \A i \in 1..m : h(i) \in 1..K
  BY <1>3
<1>5. CASE m # 0
  <2>1. 0 \in S
    <3>1. 1 \in 1..m /\ 0 + 1 = 1 /\ 0 \in 0..(m - 1)
      BY <1>1, <1>5
    <3>2. h(0 + 1) + 0 <= K
      <4>1. h(1) \in 1..K
        BY <1>4, <3>1
      <4> HIDE DEF h, K
      <4> QED BY <1>1, <3>1, <4>1
    <3> QED BY <3>1, <3>2
  <2>2. ASSUME NEW k \in 0..(m - 1), k \in S, k # m - 1 PROVE k + 1 \in S
    <3>1. k + 1 \in 1..m /\ (k + 1) + 1 \in 2..m /\ (k + 1) + 1 \in 1..m /\ ((k + 1) + 1) - 1 = k + 1
          /\ k + 1 \in 0..(m - 1)
      BY <1>1, <2>2
    <3>2. Below(v, p[k + 1], p[(k + 1) + 1].dir)
      BY <3>1 DEF IsPath
    <3>3. h((k + 1) + 1) < h(k + 1)
      BY <1>2, <1>3, <3>1, <3>2 DEF Below
    <3>4. h(k + 1) \in 1..K /\ h((k + 1) + 1) \in 1..K /\ h(k + 1) + k <= K
      BY <1>4, <2>2, <3>1
    <3>5. h((k + 1) + 1) + (k + 1) <= K
      <4> HIDE DEF h, K, m
      <4> QED BY <1>1, <3>3, <3>4
    <3> QED BY <3>1, <3>5
  <2>3. m - 1 \in Nat /\ m - 1 \in 0..(m - 1) /\ (m - 1) + 1 = m /\ m \in 1..m
    BY <1>1, <1>5
  <2>4. \A k \in 0..(m - 1) : k \in S
    <3> HIDE DEF S, m
    <3> QED BY <2>1, <2>2, <2>3, UpTo
  <2>5. h(m) + (m - 1) <= K /\ h(m) \in 1..K
    <3>1. m - 1 \in S
      BY <2>3, <2>4
    <3> QED BY <1>4, <2>3, <3>1
  <2> HIDE DEF h, K, m
  <2> QED BY <1>1, <2>5 DEF m, K
<1>6. CASE m = 0
  BY <1>1, <1>6
<1> QED BY <1>5, <1>6

LEMMA NodeIs ==
    ASSUME NEW v \in Volumes, Good(v), NEW p
    PROVE  p \in Nodes(v) <=> p \in Seq(Places(v)) /\ p # <<>> /\ IsPath(v, p)
<1> DEFINE S == Places(v)
           K == MaxClusters(v)
<1>1. K \in Nat
  BY MaxFacts
<1>2. ASSUME p \in SeqOf(S, K) PROVE p \in Seq(S)
  <2>1. PICK m \in 0..K : p \in [1..m -> S]
    BY <1>2 DEF SeqOf
  <2> HIDE DEF S, K
  <2> QED BY <1>1, <2>1
<1>3. ASSUME p \in Seq(S), IsPath(v, p) PROVE p \in SeqOf(S, K)
  <2>1. Len(p) <= K
    BY <1>3, PathShort
  <2>2. Len(p) \in Nat /\ p \in [1..Len(p) -> S]
    BY <1>3, LenProperties
  <2>3. Len(p) \in 0..K
    <3> HIDE DEF K
    <3> QED BY <1>1, <2>1, <2>2
  <2> HIDE DEF S, K
  <2> QED BY <2>2, <2>3 DEF SeqOf
<1> HIDE DEF S
<1> QED BY <1>2, <1>3 DEF Nodes, MaxClusters, S

(* The walk stands in the directory a path leads to, behind its first q      *)
(* files: what it has passed there are the files on the path, and what comes *)
(* before them or is below that.                                             *)
PastAt(n, p, q, k) ==
    /\ k <= Len(p)
    /\ k = Len(n) \/ (k < Len(p) /\ n[k + 1].nr < p[k + 1].nr) \/ (k = Len(p) /\ n[k + 1].nr <= q)
    /\ \A i \in 1..k : n[i] = p[i]
Past(n, p, q) == \E k \in 0..Len(n) : PastAt(n, p, q, k)

(* A way down from the root.                                                 *)
Way(v, p) == p \in Seq(Places(v)) /\ IsPath(v, p)

(* One place further.                                                        *)
Longer(p, x, y) ==
    Len(x) = Len(p) + 1 /\ x[Len(p) + 1] = y /\ \A i \in 1..Len(p) : x[i] = p[i]

LEMMA WayFacts ==
    ASSUME NEW v \in Volumes, Formatted(v), NEW p, Way(v, p)
    PROVE  /\ Len(p) \in Nat /\ p = [i \in 1..Len(p) |-> p[i]]
           /\ \A i \in 1..Len(p) : /\ p[i] = [dir |-> p[i].dir, nr |-> p[i].nr]
                                   /\ p[i].dir \in DOMAIN v.dirs /\ p[i].nr \in Nat /\ p[i].nr >= 1
                                   /\ p[i].nr <= Len(Files(v, p[i].dir))
                                   /\ Len(Files(v, p[i].dir)) \in Nat
<1>1. Len(p) \in Nat /\ p = [i \in 1..Len(p) |-> p[i]]
  <2> DEFINE S == Places(v)
  <2>1. p \in Seq(S)
    BY DEF Way
  <2> HIDE DEF S
  <2>2. Len(p) \in Nat /\ p \in [1..Len(p) -> S]
    BY <2>1, LenProperties
  <2> QED BY <2>2
<1>2. \A i \in 1..Len(p) : p[i] \in Places(v)
  BY ElementOfSeq DEF Way
<1> QED BY <1>1, <1>2, PlaceIs

(* Ways that agree so far go on in the same directory.                       *)
LEMMA SameDir ==
    ASSUME NEW v \in Volumes, Formatted(v), NEW n, NEW p, Way(v, n), Way(v, p), NEW k \in Nat,
           k < Len(n), k <= Len(p), \A i \in 1..k : n[i] = p[i]
    PROVE  /\ n[k + 1].dir = DirAt(v, p, k)
           /\ k < Len(p) => n[k + 1].dir = p[k + 1].dir
           /\ k < Len(p) /\ n[k + 1].nr = p[k + 1].nr => n[k + 1] = p[k + 1]
<1>1. n[k + 1].dir = DirAt(v, n, k)
  BY PathDirs DEF Way
<1>2. DirAt(v, n, k) = DirAt(v, p, k)
  <2>1. k = 0 \/ k \in 1..k
    OBVIOUS
  <2> QED BY <2>1 DEF DirAt
<1>3. k < Len(p) => n[k + 1].dir = p[k + 1].dir
  BY <1>1, <1>2, PathDirs DEF Way
<1>4. ASSUME k < Len(p), n[k + 1].nr = p[k + 1].nr PROVE n[k + 1] = p[k + 1]
  <2>1. k + 1 \in 1..Len(n) /\ k + 1 \in 1..Len(p)
    BY <1>4, WayFacts
  <2>2. n[k + 1] = [dir |-> n[k + 1].dir, nr |-> n[k + 1].nr]
        /\ p[k + 1] = [dir |-> p[k + 1].dir, nr |-> p[k + 1].nr]
    BY <2>1, WayFacts
  <2> QED BY <1>3, <1>4, <2>2
<1> QED BY <1>1, <1>2, <1>3, <1>4

LEMMA PastBefore ==
    ASSUME NEW n, NEW p, NEW x, NEW y, NEW q \in Nat, Len(n) \in Nat, Len(p) \in Nat,
           \A i \in 1..Len(n) : n[i].nr \in Nat, Past(n, p, q), Longer(p, x, y), y.nr = q + 1
    PROVE  Before(n, x)
<1>1. PICK k \in 0..Len(n) : PastAt(n, p, q, k)
  BY DEF Past
<1>2. k <= Len(p) /\ k < Len(x) /\ \A i \in 1..k : n[i] = x[i]
  BY <1>1 DEF PastAt, Longer
<1>3. k = Len(n) \/ n[k + 1].nr < x[k + 1].nr
  <2>1. CASE k < Len(p)
    <3>1. k + 1 \in 1..Len(p)
      BY <2>1
    <3> QED BY <1>1, <2>1, <3>1 DEF PastAt, Longer
  <2>2. CASE k = Len(p) /\ k # Len(n)
    <3>1. n[k + 1].nr <= q /\ k + 1 \in 1..Len(n)
      BY <1>1, <2>2 DEF PastAt
    <3>2. x[k + 1].nr = q + 1
      BY <2>2 DEF Longer
    <3>3. n[k + 1].nr \in Nat
      BY <3>1
    <3> QED BY <3>1, <3>2, <3>3
  <2> QED BY <1>2, <2>1, <2>2
<1> QED BY <1>2, <1>3 DEF Before

(* Entering a directory.                                                     *)
LEMMA PastInto ==
    ASSUME NEW n, NEW p, NEW x, NEW y, NEW q \in Nat, Len(n) \in Nat, Len(p) \in Nat,
           \A i \in 1..Len(n) : n[i].nr \in Nat, Past(n, p, q), Longer(p, x, y), y.nr = q + 1
    PROVE  Past(n, x, 0)
<1>1. PICK k \in 0..Len(n) : PastAt(n, p, q, k)
  BY DEF Past
<1>2. k <= Len(p) /\ k < Len(x) /\ k <= Len(x) /\ \A i \in 1..k : n[i] = x[i]
  BY <1>1 DEF PastAt, Longer
<1>3. k = Len(n) \/ n[k + 1].nr < x[k + 1].nr
  <2>1. CASE k < Len(p)
    <3>1. k + 1 \in 1..Len(p)
      BY <2>1
    <3> QED BY <1>1, <2>1, <3>1 DEF PastAt, Longer
  <2>2. CASE k = Len(p) /\ k # Len(n)
    <3>1. n[k + 1].nr <= q /\ k + 1 \in 1..Len(n)
      BY <1>1, <2>2 DEF PastAt
    <3>2. x[k + 1].nr = q + 1
      BY <2>2 DEF Longer
    <3>3. n[k + 1].nr \in Nat
      BY <3>1
    <3> QED BY <3>1, <3>2, <3>3
  <2> QED BY <1>2, <2>1, <2>2
<1>4. PastAt(n, x, 0, k)
  BY <1>2, <1>3 DEF PastAt
<1> QED BY <1>4 DEF Past

LEMMA PastItself ==
    ASSUME NEW x, NEW q, Len(x) \in Nat
    PROVE  Past(x, x, q)
<1>1. PastAt(x, x, q, Len(x)) /\ Len(x) \in 0..Len(x)
  BY DEF PastAt
<1> QED BY <1>1 DEF Past

LEMMA IntoPast ==
    ASSUME NEW v \in Volumes, Formatted(v), NEW n, NEW p, NEW x, NEW y, NEW q \in Nat,
           Way(v, n), Way(v, p), Way(v, x), Past(n, x, 0), Longer(p, x, y), y.nr = q + 1
    PROVE  n = x \/ Past(n, p, q)
<1>0. /\ Len(n) \in Nat /\ Len(p) \in Nat /\ Len(x) = Len(p) + 1
      /\ n = [i \in 1..Len(n) |-> n[i]] /\ x = [i \in 1..Len(x) |-> x[i]]
      /\ \A i \in 1..Len(n) : n[i].nr \in Nat /\ n[i].nr >= 1
  BY WayFacts DEF Longer
<1>1. PICK k \in 0..Len(n) : PastAt(n, x, 0, k)
  BY DEF Past
<1>2. CASE k = Len(p) + 1
  <2>1. k = Len(n)
    <3> SUFFICES ASSUME k # Len(n) PROVE FALSE
      OBVIOUS
    <3>1. n[k + 1].nr <= 0 /\ k + 1 \in 1..Len(n)
      <4>0. Len(n) \in Nat /\ Len(p) \in Nat /\ Len(x) = Len(p) + 1 /\ k \in 0..Len(n)
        BY <1>0
      <4>1. k = Len(x) /\ ~(k < Len(x)) /\ k + 1 \in 1..Len(n)
        BY <1>2, <4>0
      <4> QED BY <1>1, <4>1 DEF PastAt
    <3> QED BY <1>0, <3>1
  <2>2. \A i \in 1..Len(n) : n[i] = x[i]
    BY <1>1, <2>1 DEF PastAt
  <2>3. Len(n) = Len(x)
    BY <1>0, <1>2, <2>1
  <2> QED BY <1>0, <2>2, <2>3
<1>3. CASE k # Len(p) + 1
  <2>1. k <= Len(p) /\ \A i \in 1..k : n[i] = p[i]
    BY <1>0, <1>1, <1>3 DEF PastAt, Longer
  <2>2. k = Len(n) \/ (k < Len(p) /\ n[k + 1].nr < p[k + 1].nr) \/ (k = Len(p) /\ n[k + 1].nr <= q)
    <3> SUFFICES ASSUME k # Len(n)
                 PROVE (k < Len(p) /\ n[k + 1].nr < p[k + 1].nr) \/ (k = Len(p) /\ n[k + 1].nr <= q)
      OBVIOUS
    <3>1. n[k + 1].nr < x[k + 1].nr
      BY <1>0, <1>1, <2>1 DEF PastAt
    <3>2. CASE k < Len(p)
      <4>1. k + 1 \in 1..Len(p)
        BY <1>0, <3>2
      <4>2. x[k + 1] = p[k + 1]
        BY <4>1 DEF Longer
      <4> QED BY <3>1, <3>2, <4>2
    <3>3. CASE k = Len(p)
      <4>1. x[k + 1].nr = q + 1
        BY <3>3 DEF Longer
      <4>2. n[k + 1].nr \in Nat
        <5>1. k + 1 \in 1..Len(n)
          BY <1>0
        <5> QED BY <1>0, <5>1
      <4> QED BY <3>1, <3>3, <4>1, <4>2
    <3> QED BY <1>0, <2>1, <3>2, <3>3
  <2> QED BY <2>1, <2>2 DEF Past, PastAt
<1> QED BY <1>2, <1>3

(* Going on behind a file.                                                   *)
LEMMA PastOver ==
    ASSUME NEW n, NEW p, NEW q \in Nat, NEW r \in Nat, q <= r, Len(n) \in Nat,
           \A i \in 1..Len(n) : n[i].nr \in Nat, Past(n, p, q)
    PROVE  Past(n, p, r)
<1>1. PICK k \in 0..Len(n) : PastAt(n, p, q, k)
  BY DEF Past
<1>2. k # Len(n) /\ n[k + 1].nr <= q => n[k + 1].nr <= r
  <2>1. k # Len(n) => k + 1 \in 1..Len(n)
    OBVIOUS
  <2> QED BY <2>1
<1>3. PastAt(n, p, r, k)
  BY <1>1, <1>2 DEF PastAt
<1> QED BY <1>3 DEF Past

LEMMA OverItself ==
    ASSUME NEW p, NEW x, NEW y, NEW q \in Nat, Len(p) \in Nat, Longer(p, x, y), y.nr = q + 1
    PROVE  Past(x, p, q + 1)
<1>1. PastAt(x, p, q + 1, Len(p)) /\ Len(p) \in 0..Len(x)
  BY DEF PastAt, Longer
<1> QED BY <1>1 DEF Past

LEMMA OverPast ==
    ASSUME NEW v \in Volumes, Formatted(v), NEW n, NEW p, NEW x, NEW y, NEW q \in Nat,
           Way(v, n), Way(v, p), Way(v, x), Past(n, p, q + 1), Longer(p, x, y), y.nr = q + 1,
           ~FileOf(v, y).is_dir
    PROVE  n = x \/ Past(n, p, q)
<1>0. /\ Len(n) \in Nat /\ Len(p) \in Nat /\ Len(x) = Len(p) + 1
      /\ n = [i \in 1..Len(n) |-> n[i]] /\ x = [i \in 1..Len(x) |-> x[i]]
      /\ \A i \in 1..Len(n) : n[i].nr \in Nat
  BY WayFacts DEF Longer
<1>1. PICK k \in 0..Len(n) : PastAt(n, p, q + 1, k)
  BY DEF Past
<1>2. CASE k # Len(n) /\ k = Len(p) /\ n[k + 1].nr = q + 1
  <2>1. k \in Nat /\ k < Len(n) /\ k < Len(x) /\ k <= Len(x) /\ k + 1 \in 1..Len(n) /\ x[k + 1] = y
    BY <1>0, <1>2 DEF Longer
  <2>2. \A i \in 1..k : n[i] = x[i]
    BY <1>1, <1>2 DEF PastAt, Longer
  <2>3. n[k + 1] = y
    <3>1. n[k + 1].nr = x[k + 1].nr
      BY <1>2, <2>1
    <3>2. n[k + 1] = x[k + 1]
      BY <2>1, <2>2, <3>1, SameDir
    <3> QED BY <2>1, <3>2
  <2>4. Len(n) = k + 1
    <3> SUFFICES ASSUME Len(n) # k + 1 PROVE FALSE
      OBVIOUS
    <3>1. (k + 1) + 1 \in 2..Len(n) /\ ((k + 1) + 1) - 1 = k + 1
      BY <1>0, <2>1
    <3>2. Below(v, n[k + 1], n[(k + 1) + 1].dir)
      BY <3>1 DEF Way, IsPath
    <3> QED BY <2>3, <3>2 DEF Below
  <2>5. \A i \in 1..Len(n) : n[i] = x[i]
    <3>1. \A i \in 1..Len(n) : i \in 1..k \/ i = k + 1
      BY <2>1, <2>4
    <3> QED BY <2>1, <2>2, <2>3, <3>1
  <2>6. Len(n) = Len(x)
    BY <1>0, <1>2, <2>4
  <2> QED BY <1>0, <2>5, <2>6
<1>3. CASE ~(k # Len(n) /\ k = Len(p) /\ n[k + 1].nr = q + 1)
  <2>1. PastAt(n, p, q, k)
    <3>1. k # Len(n) /\ n[k + 1].nr <= q + 1 /\ n[k + 1].nr # q + 1 => n[k + 1].nr <= q
      <4>1. k # Len(n) => k + 1 \in 1..Len(n)
        BY <1>0
      <4>2. k # Len(n) => n[k + 1].nr \in Nat
        BY <1>0, <4>1
      <4> QED BY <4>2
    <3> QED BY <1>1, <1>3, <3>1 DEF PastAt
  <2> QED BY <2>1 DEF Past
<1> QED BY <1>2, <1>3

(* Leaving directories whose files are all passed.                           *)
Prefix(pp, p, j) == Len(pp) = j /\ \A i \in 1..j : pp[i] = p[i]

LEMMA PastUp ==
    ASSUME NEW n, NEW p, NEW q \in Nat, NEW j \in Nat, j < Len(p), NEW pp, Prefix(pp, p, j),
           Len(n) \in Nat, Len(p) \in Nat, \A i \in 1..Len(n) : n[i].nr \in Nat,
           \A i \in 1..Len(p) : p[i].nr \in Nat, Past(n, p, q)
    PROVE  Past(n, pp, p[j + 1].nr)
<1>1. PICK k \in 0..Len(n) : PastAt(n, p, q, k)
  BY DEF Past
<1>2. CASE k <= j
  <2>1. \A i \in 1..k : n[i] = pp[i]
    BY <1>1, <1>2 DEF PastAt, Prefix
  <2>2. \/ k = Len(n)
        \/ k < j /\ n[k + 1].nr < pp[k + 1].nr
        \/ k = j /\ n[k + 1].nr <= p[j + 1].nr
    <3> SUFFICES ASSUME k # Len(n)
                 PROVE \/ k < j /\ n[k + 1].nr < pp[k + 1].nr
                       \/ k = j /\ n[k + 1].nr <= p[j + 1].nr
      OBVIOUS
    <3>1. k < Len(p) /\ n[k + 1].nr < p[k + 1].nr
      BY <1>1, <1>2 DEF PastAt
    <3>2. CASE k < j
      <4>1. k + 1 \in 1..j
        BY <3>2
      <4> QED BY <3>1, <3>2, <4>1 DEF Prefix
    <3>3. CASE k = j
      <4>1. k + 1 \in 1..Len(n) /\ j + 1 \in 1..Len(p)
        BY <3>3
      <4>2. n[k + 1].nr \in Nat /\ p[j + 1].nr \in Nat
        BY <4>1
      <4> QED BY <3>1, <3>3, <4>2
    <3> QED BY <1>2, <3>2, <3>3
  <2>3. PastAt(n, pp, p[j + 1].nr, k)
    BY <1>2, <2>1, <2>2 DEF PastAt, Prefix
  <2> QED BY <2>3 DEF Past
<1>3. CASE ~(k <= j)
  <2>1. j + 1 \in 1..k /\ j \in 0..Len(n) /\ j + 1 \in 1..Len(n) /\ \A i \in 1..j : i \in 1..k
    BY <1>3
  <2>2. n[j + 1] = p[j + 1] /\ \A i \in 1..j : n[i] = pp[i]
    BY <1>1, <2>1 DEF PastAt, Prefix
  <2>3. n[j + 1].nr <= p[j + 1].nr
    <3>1. n[j + 1].nr \in Nat
      BY <2>1
    <3> QED BY <2>2, <3>1
  <2>4. PastAt(n, pp, p[j + 1].nr, j)
    BY <2>2, <2>3 DEF PastAt, Prefix
  <2> QED BY <2>1, <2>4 DEF Past
<1> QED BY <1>2, <1>3

(* Behind the j-th directory of the path nothing is left.                    *)
Exhausted(v, p, q, j) ==
    /\ q = Len(Files(v, DirOf(v, p)))
    /\ \A i \in 2..Len(p) : j + 2 <= i => p[i].nr = Len(Files(v, p[i].dir))

LEMMA DownPast ==
    ASSUME NEW v \in Volumes, Formatted(v), NEW n, NEW p, Way(v, n), Way(v, p), NEW q \in Nat,
           NEW j \in Nat, j < Len(p), NEW pp, Prefix(pp, p, j), Exhausted(v, p, q, j),
           Past(n, pp, p[j + 1].nr)
    PROVE  Past(n, p, q)
<1> DEFINE N == Len(n)
           P == Len(p)
<1>0. /\ N \in Nat /\ P \in Nat
      /\ \A i \in 1..N : /\ n[i].nr \in Nat /\ n[i].nr <= Len(Files(v, n[i].dir))
                         /\ Len(Files(v, n[i].dir)) \in Nat
      /\ \A i \in 1..P : p[i].nr \in Nat
  BY WayFacts
<1>1. PICK k \in 0..N : PastAt(n, pp, p[j + 1].nr, k)
  BY DEF Past
<1>2. k <= j /\ k <= P /\ \A i \in 1..k : n[i] = p[i]
  BY <1>0, <1>1 DEF PastAt, Prefix
<1>3. CASE k = N \/ k < j
  <2>1. k = N \/ (k < P /\ n[k + 1].nr < p[k + 1].nr)
    <3> SUFFICES ASSUME k # N PROVE k < P /\ n[k + 1].nr < p[k + 1].nr
      OBVIOUS
    <3>1. n[k + 1].nr < pp[k + 1].nr /\ k + 1 \in 1..j
      BY <1>1, <1>3 DEF PastAt, Prefix
    <3> QED BY <1>0, <1>3, <3>1 DEF Prefix
  <2>2. PastAt(n, p, q, k)
    BY <1>2, <2>1 DEF PastAt
  <2> QED BY <2>2 DEF Past
<1>4. CASE k # N /\ k = j
  <2>1. n[j + 1].nr <= p[j + 1].nr /\ j < N /\ j + 1 \in 1..N /\ j + 1 \in 1..P
    <3>1. j < N /\ j + 1 \in 1..N /\ j + 1 \in 1..P
      BY <1>0, <1>4
    <3>2. n[j + 1].nr <= p[j + 1].nr
      BY <1>1, <1>4 DEF PastAt, Prefix
    <3> QED BY <3>1, <3>2
  <2>2. n[j + 1].nr \in Nat /\ p[j + 1].nr \in Nat
    BY <1>0, <2>1
  <2>3. CASE n[j + 1].nr # p[j + 1].nr
    <3>1. n[j + 1].nr < p[j + 1].nr
      BY <2>1, <2>2, <2>3
    <3>2. PastAt(n, p, q, k)
      BY <1>2, <1>4, <3>1 DEF PastAt
    <3> QED BY <3>2 DEF Past
  <2>4. CASE n[j + 1].nr = p[j + 1].nr
    <3>1. n[j + 1] = p[j + 1]
      BY <1>2, <1>4, <2>1, <2>4, SameDir
    <3> DEFINE A == {a \in 1..N : a <= P /\ \A i \in 1..a : n[i] = p[i]}
    <3>2. j + 1 \in A
      <4>1. \A i \in 1..(j + 1) : i \in 1..j \/ i = j + 1
        OBVIOUS
      <4>2. \A i \in 1..(j + 1) : n[i] = p[i]
        BY <1>2, <1>4, <3>1, <4>1
      <4>3. j + 1 <= P
        BY <2>1, <1>0
      <4> QED BY <2>1, <4>2, <4>3
    <3>3. PICK a \in A : \A b \in A : b <= a
      <4>1. A \in SUBSET (1..N) /\ A # {}
        BY <3>2
      <4> HIDE DEF A, N
      <4> QED BY <1>0, <4>1, GreatestPlace
    <3>4. a \in 1..N /\ a <= P /\ j + 1 <= a /\ a \in Nat /\ a \in 0..N
      <4>1. j + 1 <= a
        <5> HIDE DEF A
        <5> QED BY <3>2, <3>3
      <4> QED BY <1>0, <4>1
    <3>5. \A i \in 1..a : n[i] = p[i]
      OBVIOUS
    <3>6. a + 1 \notin A
      <4>1. ~(a + 1 <= a)
        BY <3>4
      <4> HIDE DEF A
      <4> QED BY <3>3, <4>1
    <3> HIDE DEF A
    <3>7. CASE a = N
      <4>1. PastAt(n, p, q, a)
        BY <3>4, <3>5, <3>7 DEF PastAt
      <4> QED BY <3>4, <4>1 DEF Past
    <3>8. CASE a # N /\ a = P
      <4>1. a < N /\ a + 1 \in 1..N
        BY <1>0, <3>4, <3>8
      <4>2. n[a + 1].dir = DirOf(v, p)
        <5>1. n[a + 1].dir = DirAt(v, p, a)
          BY <3>4, <3>5, <4>1, SameDir
        <5> QED BY <3>8, <5>1 DEF DirOf
      <4>3. n[a + 1].nr <= q
        BY <1>0, <4>1, <4>2 DEF Exhausted
      <4>4. PastAt(n, p, q, a)
        BY <3>4, <3>5, <3>8, <4>3 DEF PastAt
      <4> QED BY <3>4, <4>4 DEF Past
    <3>9. CASE a # N /\ a # P
      <4>1. a < N /\ a < P /\ a + 1 \in 1..N /\ a + 1 \in 1..P /\ a + 1 \in 2..P /\ j + 2 <= a + 1
        BY <1>0, <3>4, <3>9
      <4>2. n[a + 1].dir = p[a + 1].dir
        BY <3>4, <3>5, <4>1, SameDir
      <4>3. n[a + 1] # p[a + 1]
        <5> SUFFICES ASSUME n[a + 1] = p[a + 1] PROVE FALSE
          OBVIOUS
        <5>1. \A i \in 1..(a + 1) : i \in 1..a \/ i = a + 1
          BY <3>4
        <5>2. \A i \in 1..(a + 1) : n[i] = p[i]
          BY <3>5, <5>1
        <5>3. a + 1 <= P
          BY <4>1, <1>0, <3>4
        <5> QED BY <3>6, <4>1, <5>2, <5>3 DEF A
      <4>4. n[a + 1].nr # p[a + 1].nr
        BY <3>4, <3>5, <4>1, <4>3, SameDir
      <4>5. n[a + 1].nr < p[a + 1].nr
        <5>1. p[a + 1].nr = Len(Files(v, p[a + 1].dir))
          BY <4>1 DEF Exhausted
        <5>2. n[a + 1].nr \in Nat /\ p[a + 1].nr \in Nat /\ n[a + 1].nr <= p[a + 1].nr
          BY <1>0, <4>1, <4>2, <5>1
        <5> QED BY <4>4, <5>2
      <4>6. PastAt(n, p, q, a)
        BY <3>4, <3>5, <4>1, <4>5 DEF PastAt
      <4> QED BY <3>4, <4>6 DEF Past
    <3> QED BY <3>7, <3>8, <3>9
  <2> QED BY <2>3, <2>4
<1> QED BY <1>2, <1>3, <1>4
-----------------------------------------------------------------------------
(* Where test_printtree stands, and what it has printed.                     *)

(* Where the walk of the tree stands: p leads to the directory it is in,     *)
(* whose first q files it has behind it, list is what it has of the others,  *)
(* and the stack what it has of those left in the directories above.         *)
Walkable(v, p) ==
    /\ Way(v, p) /\ DirOf(v, p) \in DOMAIN v.dirs
    /\ \A i \in 1..Len(p) : FileOf(v, p[i]).is_dir
At(v, p, q) == Walkable(v, p) /\ q \in 0..Len(Files(v, DirOf(v, p)))
Suffix(v, c, k, list) ==
    /\ Len(list) = Len(Files(v, c)) - k
    /\ \A j \in 1..Len(list) : list[j] = Shown(Files(v, c)[k + j])
Stacked(v, p, stack) ==
    Len(stack) = Len(p) /\ \A i \in 1..Len(p) : Suffix(v, p[i].dir, p[i].nr, stack[i])
Standing(v, p, q, list, stack) ==
    At(v, p, q) /\ Stacked(v, p, stack) /\ Suffix(v, DirOf(v, p), q, list)

(* What it has printed: some of what it has passed, and all of it unless a   *)
(* read has failed.                                                          *)
Printed(v, p, q, fail, lines, nodes) ==
    /\ nodes \in [DOMAIN lines -> Nodes(v)] /\ Shows(v, lines, nodes)
    /\ \A i \in DOMAIN lines : Past(nodes[i], p, q)
    /\ ~fail => \A n \in Nodes(v) : Past(n, p, q) => \E i \in DOMAIN lines : nodes[i] = n

LEMMA WayNr ==
    ASSUME NEW v \in Volumes, Good(v), NEW n \in Nodes(v)
    PROVE  Way(v, n) /\ Len(n) \in Nat /\ n # <<>> /\ Len(n) >= 1 /\ \A i \in 1..Len(n) : n[i].nr \in Nat
<1>1. Way(v, n) /\ n # <<>> /\ Formatted(v)
  BY NodeIs DEF Way, Good
<1>2. Len(n) \in Nat /\ \A i \in 1..Len(n) : n[i].nr \in Nat
  BY <1>1, WayFacts
<1>3. Len(n) # 0
  <2> DEFINE S == Places(v)
  <2>1. n \in Seq(S)
    BY <1>1 DEF Way
  <2> HIDE DEF S
  <2> QED BY <1>1, <2>1, EmptySeq
<1> QED BY <1>1, <1>2, <1>3

(* What is passed may be said of two places.                                 *)
LEMMA PrintedAt ==
    ASSUME NEW v, NEW p, NEW q, NEW pp, NEW qq, NEW fail, NEW lines, NEW nodes,
           Printed(v, p, q, fail, lines, nodes),
           \A n \in Nodes(v) : Past(n, p, q) => Past(n, pp, qq),
           ~fail => \A n \in Nodes(v) : Past(n, pp, qq) => Past(n, p, q)
    PROVE  Printed(v, pp, qq, fail, lines, nodes)
<1>1. \A i \in DOMAIN lines : nodes[i] \in Nodes(v) /\ Past(nodes[i], pp, qq)
  BY DEF Printed
<1> QED BY <1>1 DEF Printed

(* The directories above.                                                    *)
LEMMA UpFrom ==
    ASSUME NEW v \in Volumes, Formatted(v), NEW p, Walkable(v, p), NEW j \in Nat, j < Len(p)
    PROVE  LET pp == SubSeq(p, 1, j) IN
           /\ Prefix(pp, p, j) /\ DirOf(v, pp) = p[j + 1].dir
           /\ At(v, pp, p[j + 1].nr) /\ (j = 0 => pp = <<>>)
<1> DEFINE pp == SubSeq(p, 1, j)
           S == Places(v)
<1>1. p \in Seq(S) /\ IsPath(v, p) /\ Way(v, p) /\ Len(p) \in Nat
  BY WayFacts DEF Walkable, Way
<1>2. pp \in Seq(S) /\ Prefix(pp, p, j)
  <2>1. \A i \in 1..j : p[i] \in S
    <3>1. \A i \in 1..j : i \in 1..Len(p)
      BY <1>1
    <3> QED BY <1>1, <3>1, ElementOfSeq
  <2>2. /\ SubSeq(p, 1, j) \in Seq(S)
        /\ Len(SubSeq(p, 1, j)) = IF 1 <= j THEN j - 1 + 1 ELSE 0
        /\ \A i \in 1..(j - 1 + 1) : SubSeq(p, 1, j)[i] = p[1 + i - 1]
    BY <2>1, SubSeqProperties
  <2>3. (IF 1 <= j THEN j - 1 + 1 ELSE 0) = j /\ j - 1 + 1 = j /\ \A i \in 1..j : 1 + i - 1 = i
    OBVIOUS
  <2> HIDE DEF pp, S
  <2> QED BY <2>2, <2>3 DEF Prefix, pp
<1>3. j = 0 => pp = <<>>
  BY SubSeqEmpty
<1> HIDE DEF pp
<1>4. DirOf(v, pp) = p[j + 1].dir
  <2>1. p[j + 1].dir = DirAt(v, p, j)
    BY <1>1, PathDirs
  <2>2. DirAt(v, p, j) = DirAt(v, pp, j)
    <3>1. j = 0 \/ j \in 1..j
      OBVIOUS
    <3> QED BY <1>2, <3>1 DEF DirAt, Prefix
  <2> QED BY <1>2, <2>1, <2>2 DEF DirOf, Prefix
<1>5. IsPath(v, pp)
  <2>1. pp # <<>> => pp[1].dir = v.rootdir_start
    <3>1. CASE j = 0
      BY <1>3, <3>1
    <3>2. CASE j # 0
      <4>1. 1 \in 1..j /\ 0 < Len(p) /\ 0 + 1 = 1
        BY <1>1, <3>2
      <4>2. p[0 + 1].dir = DirAt(v, p, 0)
        BY <1>1, <4>1, PathDirs
      <4> QED BY <1>2, <4>1, <4>2 DEF Prefix, DirAt
    <3> QED BY <3>1, <3>2
  <2>2. ASSUME NEW i \in 2..Len(pp) PROVE Below(v, pp[i - 1], pp[i].dir)
    <3>1. i \in 2..Len(p) /\ i \in 1..j /\ i - 1 \in 1..j
      BY <1>1, <1>2, <2>2 DEF Prefix
    <3>2. Below(v, p[i - 1], p[i].dir)
      BY <1>1, <3>1 DEF IsPath
    <3> QED BY <1>2, <3>1, <3>2 DEF Prefix
  <2> QED BY <2>1, <2>2 DEF IsPath
<1>6. /\ p[j + 1].dir \in DOMAIN v.dirs /\ p[j + 1].nr \in Nat
      /\ p[j + 1].nr <= Len(Files(v, p[j + 1].dir)) /\ Len(Files(v, p[j + 1].dir)) \in Nat
  <2>1. j + 1 \in 1..Len(p)
    BY <1>1
  <2> QED BY <1>1, <2>1, WayFacts
<1>7. ASSUME NEW i \in 1..Len(pp) PROVE FileOf(v, pp[i]).is_dir
  <2>1. i \in 1..j /\ i \in 1..Len(p)
    BY <1>1, <1>2 DEF Prefix
  <2> QED BY <1>2, <2>1 DEF Walkable, Prefix
<1>8. Walkable(v, pp)
  BY <1>2, <1>4, <1>5, <1>6, <1>7 DEF Walkable, Way
<1>9. At(v, pp, p[j + 1].nr)
  BY <1>4, <1>6, <1>8 DEF At
<1> QED BY <1>2, <1>3, <1>4, <1>9 DEF pp

LEMMA PrintedUp ==
    ASSUME NEW v \in Volumes, Good(v), NEW p, Walkable(v, p), NEW q \in Nat, NEW j \in Nat, j < Len(p),
           NEW fail, NEW lines, NEW nodes, Printed(v, p, q, fail, lines, nodes), Exhausted(v, p, q, j)
    PROVE  Printed(v, SubSeq(p, 1, j), p[j + 1].nr, fail, lines, nodes)
<1> DEFINE pp == SubSeq(p, 1, j)
           qq == p[j + 1].nr
<1>0. Formatted(v) /\ Way(v, p)
  BY DEF Good, Walkable
<1>1. Prefix(pp, p, j)
  BY <1>0, UpFrom
<1> HIDE DEF pp
<1>2. ASSUME NEW n \in Nodes(v) PROVE Past(n, p, q) <=> Past(n, pp, qq)
  <2>1. Way(v, n) /\ Len(n) \in Nat /\ \A i \in 1..Len(n) : n[i].nr \in Nat
    BY WayNr
  <2>2. Len(p) \in Nat /\ \A i \in 1..Len(p) : p[i].nr \in Nat
    BY <1>0, WayFacts
  <2>3. Past(n, p, q) => Past(n, pp, qq)
    BY <1>1, <2>1, <2>2, PastUp
  <2>4. Past(n, pp, qq) => Past(n, p, q)
    BY <1>0, <1>1, <2>1, DownPast
  <2> QED BY <2>3, <2>4
<1>3. Printed(v, pp, qq, fail, lines, nodes)
  <2> HIDE DEF qq
  <2> QED BY <1>2, PrintedAt
<1> QED BY <1>3 DEF pp

(* The walk goes on with the rest of the list, or where a directory above    *)
(* has something left; else it is at the root's end.                         *)
LEMMA Resumed ==
    ASSUME NEW v \in Volumes, Good(v), NEW u, NEW p, NEW q, NEW list, NEW stack,
           Standing(v, p, q, list, stack), ListsOK(v, u, list, stack), Resume(list, stack),
           NEW fail, NEW lines, NEW nodes, Printed(v, p, q, fail, lines, nodes)
    PROVE  \E pp, qq : /\ Standing(v, pp, qq, it', chain') /\ (it' = <<>> => pp = <<>>)
                       /\ Printed(v, pp, qq, fail, lines, nodes)
<1> DEFINE L == Listable(v, u)
           left == {k \in DOMAIN stack : stack[k] # <<>>}
           top == CHOOSE n \in left : \A m \in left : m <= n
<1>0. Formatted(v) /\ Walkable(v, p) /\ Way(v, p) /\ At(v, p, q) /\ Stacked(v, p, stack)
      /\ Suffix(v, DirOf(v, p), q, list)
  BY DEF Good, Standing, At, Walkable
<1>1. list \in Seq(L) /\ stack \in Seq(Seq(L))
  BY DEF ListsOK
<1>2. Len(stack) \in Nat /\ DOMAIN stack = 1..Len(stack) /\ Len(stack) = Len(p)
  <2> HIDE DEF L
  <2>1. Len(stack) \in Nat /\ DOMAIN stack = 1..Len(stack)
    BY <1>1
  <2> QED BY <1>0, <2>1 DEF Stacked
<1>3. CASE list # <<>>
  <2>1. it' = list /\ chain' = stack
    BY <1>3 DEF Resume
  <2> QED BY <1>3, <2>1
<1>4. ASSUME list = <<>>
      PROVE  q = Len(Files(v, DirOf(v, p))) /\ q \in Nat
  <2>1. Len(Files(v, DirOf(v, p))) \in Nat
    BY <1>0, FilesList DEF Walkable
  <2>2. Len(list) = 0
    BY <1>4
  <2>3. q \in 0..Len(Files(v, DirOf(v, p))) /\ Len(list) = Len(Files(v, DirOf(v, p))) - q
    BY <1>0 DEF At, Suffix
  <2> QED BY <2>1, <2>2, <2>3
<1>5. ASSUME NEW i \in 1..Len(p), stack[i] = <<>>
      PROVE  p[i].nr = Len(Files(v, p[i].dir))
  <2>1. Len(stack[i]) = 0
    BY <1>5
  <2>2. Len(stack[i]) = Len(Files(v, p[i].dir)) - p[i].nr
    BY <1>0 DEF Stacked, Suffix
  <2>3. p[i].nr \in Nat /\ Len(Files(v, p[i].dir)) \in Nat
    BY <1>0, WayFacts
  <2> QED BY <2>1, <2>2, <2>3
<1>6. CASE list = <<>> /\ left = {} /\ p = <<>>
  <2>1. it' = <<>> /\ chain' = <<>>
    BY <1>6 DEF Resume
  <2>2. stack = <<>>
    <3>1. Len(stack) = 0
      BY <1>2, <1>6
    <3> DEFINE T == Seq(L)
    <3> HIDE DEF L, T
    <3> QED BY <1>1, <3>1 DEF T
  <2> QED BY <1>6, <2>1, <2>2
<1>7. CASE list = <<>> /\ left = {} /\ p # <<>>
  <2> DEFINE pp == SubSeq(p, 1, 0)
             qq == p[0 + 1].nr
  <2>1. it' = <<>> /\ chain' = <<>>
    BY <1>7 DEF Resume
  <2>2. 0 < Len(p) /\ 0 \in Nat /\ 0 + 1 \in 1..Len(p)
    <3>1. Len(p) \in Nat
      BY <1>2
    <3>2. Len(p) # 0
      <4>1. p = [i \in 1..Len(p) |-> p[i]]
        BY <1>0, WayFacts
      <4> QED BY <1>7, <4>1
    <3> QED BY <3>1, <3>2
  <2>3. At(v, pp, qq) /\ DirOf(v, pp) = p[0 + 1].dir /\ pp = <<>>
    BY <1>0, <2>2, UpFrom
  <2>4. \A i \in 1..Len(p) : stack[i] = <<>>
    BY <1>2, <1>7
  <2>5. Exhausted(v, p, q, 0)
    <3>1. \A i \in 2..Len(p) : i \in 1..Len(p)
      BY <1>2
    <3> QED BY <1>4, <1>5, <1>7, <2>4, <3>1 DEF Exhausted
  <2>6. Printed(v, pp, qq, fail, lines, nodes)
    BY <1>0, <1>4, <1>7, <2>2, <2>5, PrintedUp
  <2>7. Suffix(v, DirOf(v, pp), qq, <<>>)
    <3>1. Suffix(v, p[0 + 1].dir, qq, stack[0 + 1])
      BY <1>0, <2>2 DEF Stacked
    <3> QED BY <2>2, <2>3, <2>4, <3>1
  <2>8. Stacked(v, pp, <<>>)
    <3>1. pp = <<>>
      BY <2>3
    <3> HIDE DEF pp
    <3> QED BY <3>1 DEF Stacked
  <2> HIDE DEF pp, qq
  <2> QED BY <2>1, <2>3, <2>6, <2>7, <2>8 DEF Standing
<1>8. CASE list = <<>> /\ left # {}
  <2>1. it' = stack[top] /\ chain' = SubSeq(stack, 1, top - 1)
    BY <1>8 DEF Resume
  <2>2. top \in left /\ \A m \in left : m <= top
    <3>1. \E n \in left : \A m \in left : m <= n
      <4>1. left \in SUBSET (1..Len(stack))
        BY <1>2
      <4> HIDE DEF left
      <4> QED BY <1>2, <1>8, <4>1, GreatestPlace
    <3> HIDE DEF left
    <3> QED BY <3>1
  <2> HIDE DEF top
  <2> DEFINE j == top - 1
             pp == SubSeq(p, 1, j)
             qq == p[j + 1].nr
  <2>3. top \in 1..Len(stack) /\ stack[top] # <<>>
    BY <1>2, <2>2
  <2>4. j \in Nat /\ j < Len(p) /\ j + 1 = top /\ top \in 1..Len(p)
    BY <1>2, <2>3
  <2> HIDE DEF j
  <2>5. At(v, pp, qq) /\ DirOf(v, pp) = p[j + 1].dir /\ Prefix(pp, p, j)
    BY <1>0, <2>4, UpFrom
  <2>6. ASSUME NEW i \in 2..Len(p), j + 2 <= i PROVE p[i].nr = Len(Files(v, p[i].dir))
    <3>1. i \in 1..Len(p) /\ ~(i <= top) /\ i \in DOMAIN stack
      BY <1>2, <2>3, <2>4, <2>6
    <3>2. i \notin left
      <4> HIDE DEF left
      <4> QED BY <2>2, <3>1
    <3> QED BY <1>5, <3>1, <3>2
  <2>7. Exhausted(v, p, q, j)
    BY <1>4, <1>8, <2>6 DEF Exhausted
  <2>8. Printed(v, pp, qq, fail, lines, nodes)
    BY <1>0, <1>4, <1>8, <2>4, <2>7, PrintedUp
  <2>9. Suffix(v, DirOf(v, pp), qq, stack[top])
    <3>1. Suffix(v, p[top].dir, p[top].nr, stack[top])
      BY <1>0, <2>4 DEF Stacked
    <3> QED BY <2>4, <2>5, <3>1
  <2>10. Stacked(v, pp, SubSeq(stack, 1, j))
    <3> DEFINE c == SubSeq(stack, 1, j)
               T == Seq(L)
    <3>1. Len(c) = j /\ \A i \in 1..j : c[i] = stack[i]
      <4>1. \A i \in 1..j : stack[i] \in T
        <5>1. \A i \in 1..j : i \in 1..Len(stack)
          BY <1>2, <2>4
        <5> HIDE DEF L
        <5> QED BY <1>1, <5>1, ElementOfSeq
      <4>2. /\ Len(SubSeq(stack, 1, j)) = IF 1 <= j THEN j - 1 + 1 ELSE 0
            /\ \A i \in 1..(j - 1 + 1) : SubSeq(stack, 1, j)[i] = stack[1 + i - 1]
        <5> HIDE DEF T
        <5> QED BY <2>4, <4>1, SubSeqProperties
      <4>3. (IF 1 <= j THEN j - 1 + 1 ELSE 0) = j /\ j - 1 + 1 = j /\ \A i \in 1..j : 1 + i - 1 = i
        BY <2>4
      <4> HIDE DEF c
      <4> QED BY <4>2, <4>3 DEF c
    <3> HIDE DEF c, pp
    <3>2. ASSUME NEW i \in 1..Len(pp) PROVE Suffix(v, pp[i].dir, pp[i].nr, c[i])
      <4>1. i \in 1..j /\ i \in 1..Len(p)
        BY <1>2, <2>4, <2>5 DEF Prefix
      <4>2. pp[i] = p[i] /\ c[i] = stack[i]
        BY <2>5, <3>1, <4>1 DEF Prefix
      <4>3. Suffix(v, p[i].dir, p[i].nr, stack[i])
        BY <1>0, <4>1 DEF Stacked
      <4> QED BY <4>2, <4>3
    <3>3. Len(c) = Len(pp)
      BY <2>5, <3>1 DEF Prefix
    <3>4. Stacked(v, pp, c)
      BY <3>2, <3>3 DEF Stacked
    <3> QED BY <3>4 DEF c
  <2>11. it' # <<>> /\ it' = stack[top] /\ chain' = SubSeq(stack, 1, j)
    BY <2>1, <2>3 DEF j
  <2> HIDE DEF pp, qq
  <2> QED BY <2>5, <2>8, <2>9, <2>10, <2>11 DEF Standing
<1> QED BY <1>3, <1>6, <1>7, <1>8

(* A line more.                                                              *)
Lines(v) == [depth : Nat, name : Seq(Parts(v)), is_dir : BOOLEAN]
NodeLine(v, x) == Line(Len(x) - 1, FileOf(v, Last(x)))
More(nodes, k, x) == [i \in 1..(k + 1) |-> IF i = k + 1 THEN x ELSE nodes[i]]

LEMMA PrintedMore ==
    ASSUME NEW v, NEW p, NEW q, NEW pp, NEW qq, NEW fail, NEW S, NEW lines \in Seq(S), NEW nodes,
           Printed(v, p, q, fail, lines, nodes), NEW x \in Nodes(v), NEW l \in S,
           SameLine(l, NodeLine(v, x)), Past(x, pp, qq),
           \A n \in Nodes(v) : Past(n, p, q) => Before(n, x) /\ Past(n, pp, qq),
           ~fail => \A n \in Nodes(v) : Past(n, pp, qq) => n = x \/ Past(n, p, q)
    PROVE  Printed(v, pp, qq, fail, Append(lines, l), More(nodes, Len(lines), x))
<1> DEFINE k == Len(lines)
           ll == Append(lines, l)
           nn == More(nodes, k, x)
<1>1. k \in Nat /\ DOMAIN lines = 1..k
  BY LenProperties
<1>2. DOMAIN ll = 1..(k + 1) /\ ll[k + 1] = l /\ \A i \in 1..k : ll[i] = lines[i]
  <2>1. Append(lines, l) \in Seq(S) /\ Len(Append(lines, l)) = Len(lines) + 1
        /\ \A i \in 1..Len(lines) : Append(lines, l)[i] = lines[i]
    BY AppendProperties
  <2>2. Append(lines, l)[Len(lines) + 1] = l
    BY AppendProperties
  <2>3. DOMAIN ll = 1..Len(ll)
    BY <2>1, LenProperties
  <2> QED BY <2>1, <2>2, <2>3
<1>3. DOMAIN nn = 1..(k + 1) /\ nn[k + 1] = x /\ \A i \in 1..k : nn[i] = nodes[i]
  <2>1. k + 1 \in 1..(k + 1) /\ \A i \in 1..k : i \in 1..(k + 1) /\ i # k + 1
    BY <1>1
  <2> HIDE DEF k
  <2> QED BY <2>1 DEF More
<1>4. \A i \in 1..k : nodes[i] \in Nodes(v) /\ Past(nodes[i], p, q) /\ i \in DOMAIN nodes
  BY <1>1 DEF Printed
<1>5. nn \in [1..(k + 1) -> Nodes(v)]
  <2>1. \A i \in 1..(k + 1) : (IF i = k + 1 THEN x ELSE nodes[i]) \in Nodes(v)
    <3>1. \A i \in 1..(k + 1) : i = k + 1 \/ i \in 1..k
      BY <1>1
    <3> QED BY <1>4, <3>1
  <2> HIDE DEF k
  <2> QED BY <2>1 DEF More
<1>6. k + 1 \in 1..(k + 1) /\ \A i \in 1..(k + 1) : i = k + 1 \/ i \in 1..k
  BY <1>1
<1> HIDE DEF ll, nn
<1>7. \A i, j \in 1..k : i < j => Before(nodes[i], nodes[j])
  BY <1>4 DEF Printed, Shows
<1>8. \A i \in 1..k : SameLine(lines[i], NodeLine(v, nodes[i]))
  BY <1>4 DEF Printed, Shows, NodeLine
<1>9. Shows(v, ll, nn)
  <2>1. ASSUME NEW i \in 1..(k + 1), NEW j \in 1..(k + 1), i < j PROVE Before(nn[i], nn[j])
    <3>1. i \in 1..k
      BY <1>1, <2>1
    <3>2. CASE j = k + 1
      <4>1. Before(nodes[i], x)
        BY <1>4, <3>1
      <4> QED BY <1>3, <3>1, <3>2, <4>1
    <3>3. CASE j \in 1..k
      BY <1>3, <1>7, <2>1, <3>1, <3>3
    <3> QED BY <1>6, <3>2, <3>3
  <2>2. ASSUME NEW i \in 1..(k + 1) PROVE SameLine(ll[i], NodeLine(v, nn[i]))
    <3>1. CASE i = k + 1
      BY <1>2, <1>3, <3>1
    <3>2. CASE i \in 1..k
      BY <1>2, <1>3, <1>8, <3>2
    <3> QED BY <1>6, <3>1, <3>2
  <2> QED BY <1>3, <2>1, <2>2 DEF Shows, NodeLine
<1>10. ASSUME NEW i \in 1..(k + 1) PROVE Past(nn[i], pp, qq)
  <2>1. CASE i = k + 1
    BY <1>3, <2>1
  <2>2. CASE i \in 1..k
    BY <1>3, <1>4, <2>2
  <2> QED BY <1>6, <2>1, <2>2
<1>11. ASSUME ~fail, NEW n \in Nodes(v), Past(n, pp, qq)
       PROVE  \E i \in 1..(k + 1) : nn[i] = n
  <2>1. CASE n = x
    BY <1>3, <1>6, <2>1
  <2>2. CASE n # x
    <3>1. Past(n, p, q)
      BY <1>11, <2>2
    <3>2. PICK i \in 1..k : nodes[i] = n
      BY <1>1, <1>11, <3>1 DEF Printed
    <3>3. i \in 1..(k + 1) /\ nn[i] = n
      BY <1>1, <1>3, <3>2
    <3> QED BY <3>3
  <2> QED BY <2>1, <2>2
<1>12. Printed(v, pp, qq, fail, ll, nn)
  BY <1>2, <1>5, <1>9, <1>10, <1>11 DEF Printed
<1> QED BY <1>12 DEF ll, nn

(* The next file of the directory the walk is in.                            *)
NextPlace(v, p, q) == [dir |-> DirOf(v, p), nr |-> q + 1]
NextNode(v, p, q) == Append(p, NextPlace(v, p, q))

LEMMA NextFile ==
    ASSUME NEW v \in Volumes, Good(v), NEW u, NEW p, NEW q, NEW list, NEW stack,
           Standing(v, p, q, list, stack), ListsOK(v, u, list, stack), list # <<>>
    PROVE  LET d == Head(list)
               y == NextPlace(v, p, q)
               x == NextNode(v, p, q) IN
           /\ q \in Nat /\ q + 1 \in 0..Len(Files(v, DirOf(v, p))) /\ d \in Listable(v, u) /\ d \in Dirents(v)
           /\ x \in Nodes(v) /\ Longer(p, x, y) /\ y.nr = q + 1 /\ Last(x) = y
           /\ FileOf(v, y).is_dir = d.is_dir /\ FileOf(v, y).start_cluster = d.start_cluster
           /\ SameLine(Line(Len(stack), d), NodeLine(v, x))
           /\ Suffix(v, DirOf(v, p), q + 1, Tail(list))
           /\ Tail(list) \in Seq(Listable(v, u))
<1> DEFINE L == Listable(v, u)
           c == DirOf(v, p)
           F == Files(v, c)
           d == Head(list)
           t == Tail(list)
           y == NextPlace(v, p, q)
           x == NextNode(v, p, q)
           S == Places(v)
<1>0. /\ Formatted(v) /\ Walkable(v, p) /\ Way(v, p) /\ c \in DOMAIN v.dirs /\ p \in Seq(S)
      /\ q \in 0..Len(F) /\ Stacked(v, p, stack) /\ Suffix(v, c, q, list)
  BY DEF Good, Standing, At, Walkable, Way
<1>1. Len(F) \in Nat /\ DOMAIN F = 1..Len(F) /\ q \in Nat
  <2>1. Len(F) \in Nat /\ DOMAIN F = 1..Len(F)
    BY <1>0, FilesList
  <2> HIDE DEF F
  <2> QED BY <1>0, <2>1
<1>2. /\ d \in L /\ t \in Seq(L) /\ Len(list) \in Nat /\ Len(list) >= 1 /\ d = list[1]
      /\ Len(t) = Len(list) - 1 /\ \A j \in 1..Len(t) : t[j] = list[j + 1]
  <2>1. list \in Seq(L)
    BY DEF ListsOK
  <2> HIDE DEF L
  <2>2. d \in L /\ t \in Seq(L) /\ Len(t) = Len(list) - 1 /\ \A j \in 1..Len(t) : t[j] = list[j + 1]
    BY <2>1, HeadTailProperties
  <2>3. Len(list) \in Nat \ {0} /\ d = list[1]
    BY <2>1, EmptySeq
  <2> QED BY <2>2, <2>3
<1>3. Len(list) = Len(F) - q /\ \A j \in 1..Len(list) : list[j] = Shown(F[q + j])
  BY <1>0 DEF Suffix
<1>4. q + 1 \in 1..Len(F) /\ q + 1 \in 0..Len(F) /\ 1 \in 1..Len(list)
  <2> HIDE DEF F
  <2> QED BY <1>1, <1>2, <1>3
<1>5. d = Shown(F[q + 1])
  <2> HIDE DEF F, d
  <2> QED BY <1>2, <1>3, <1>4
<1>6. d.is_dir = F[q + 1].is_dir /\ d.start_cluster = F[q + 1].start_cluster /\ q + 1 \in DOMAIN F
  <2>1. q + 1 \in DOMAIN F
    BY <1>1, <1>4
  <2> HIDE DEF d
  <2> QED BY <1>0, <1>5, <2>1, FileIs
<1>7. y \in S /\ y.nr = q + 1 /\ y.dir = c /\ FileOf(v, y) = F[q + 1]
  BY <1>0, <1>6, IsPlace DEF NextPlace, FileOf
<1> HIDE DEF y, S
<1>8. /\ x \in Seq(S) /\ x # <<>> /\ Len(x) = Len(p) + 1 /\ x[Len(p) + 1] = y
      /\ \A i \in 1..Len(p) : x[i] = p[i]
  <2>1. /\ Append(p, y) \in Seq(S) /\ Append(p, y) # <<>> /\ Len(Append(p, y)) = Len(p) + 1
        /\ \A i \in 1..Len(p) : Append(p, y)[i] = p[i]
        /\ Append(p, y)[Len(p) + 1] = y
    BY <1>0, <1>7, AppendProperties
  <2> QED BY <2>1 DEF NextNode, y
<1> HIDE DEF x
<1>9. Longer(p, x, y) /\ Last(x) = y /\ Len(p) \in Nat
  <2>1. Len(p) \in Nat
    BY <1>0, WayFacts
  <2> QED BY <1>8, <2>1 DEF Longer, Last
<1>10. IsPath(v, x)
  <2>1. x[1].dir = v.rootdir_start
    <3>1. CASE Len(p) = 0
      <4>1. x[1] = y
        BY <1>8, <3>1
      <4> QED BY <1>7, <3>1, <4>1 DEF DirOf, DirAt
    <3>2. CASE Len(p) # 0
      <4>1. 1 \in 1..Len(p) /\ 0 < Len(p) /\ 0 + 1 = 1
        BY <1>9, <3>2
      <4>2. p[0 + 1].dir = DirAt(v, p, 0)
        BY <1>0, <4>1, PathDirs DEF Way
      <4> QED BY <1>8, <4>1, <4>2 DEF DirAt
    <3> QED BY <3>1, <3>2
  <2>2. ASSUME NEW i \in 2..Len(x) PROVE Below(v, x[i - 1], x[i].dir)
    <3>1. CASE i = Len(p) + 1
      <4>1. i - 1 = Len(p) /\ Len(p) \in 1..Len(p) /\ Len(p) # 0
        BY <1>9, <2>2, <3>1
      <4>2. FileOf(v, p[Len(p)]).is_dir
        BY <1>0, <4>1 DEF Walkable
      <4>3. FileOf(v, p[Len(p)]).start_cluster = c
        BY <4>1 DEF DirOf, DirAt
      <4> QED BY <1>7, <1>8, <3>1, <4>1, <4>2, <4>3 DEF Below
    <3>2. CASE i # Len(p) + 1
      <4>1. i \in 2..Len(p) /\ i \in 1..Len(p) /\ i - 1 \in 1..Len(p)
        <5>1. Len(p) \in Nat /\ Len(x) = Len(p) + 1
          BY <1>8, <1>9
        <5> QED BY <2>2, <3>2, <5>1
      <4>2. Below(v, p[i - 1], p[i].dir)
        BY <1>0, <4>1 DEF Way, IsPath
      <4> QED BY <1>8, <4>1, <4>2
    <3> QED BY <3>1, <3>2
  <2> QED BY <2>1, <2>2 DEF IsPath
<1>11. x \in Nodes(v)
  BY <1>8, <1>10, NodeIs DEF S
<1>12. SameLine(Line(Len(stack), d), NodeLine(v, x))
  <2>1. SameLine(Line(Len(stack), Shown(F[q + 1])), Line(Len(stack), F[q + 1]))
    BY <1>0, <1>6, SameShown
  <2>2. Len(stack) = Len(x) - 1
    BY <1>0, <1>8, <1>9 DEF Stacked
  <2> HIDE DEF d, F
  <2> QED BY <1>5, <1>7, <1>9, <2>1, <2>2 DEF NodeLine
<1>13. Suffix(v, c, q + 1, t)
  <2> HIDE DEF F, t
  <2>1. Len(t) = Len(F) - (q + 1)
    BY <1>1, <1>2, <1>3
  <2>2. ASSUME NEW j \in 1..Len(t) PROVE t[j] = Shown(F[q + 1 + j])
    <3>1. j + 1 \in 1..Len(list) /\ q + (j + 1) = q + 1 + j
      BY <1>1, <1>2
    <3>2. t[j] = list[j + 1]
      BY <1>2
    <3> QED BY <1>3, <3>1, <3>2
  <2> QED BY <2>1, <2>2 DEF Suffix, F
<1>14. d \in Dirents(v)
  BY <1>2 DEF Listable
<1> QED BY <1>1, <1>2, <1>4, <1>6, <1>7, <1>9, <1>11, <1>12, <1>13, <1>14 DEF x, y

(* Where the tree is: between two lines, or while it reads the directory it  *)
(* has just printed, of which it has passed nothing.                         *)
TreePlaced(p, q) ==
    IF rd.phase = "off"
    THEN Standing(vol, p, q, it, chain) /\ (it = <<>> => p = <<>>)
    ELSE At(vol, p, q) /\ Stacked(vol, p, chain) /\ q = 0 /\ rd.start = DirOf(vol, p)
TreeRight ==
    cmd.op = "tree" /\ Good(vol) =>
        /\ rd.phase = "boot" => out = <<>> /\ chain = <<>>
        /\ rd.phase # "boot" /\ Own =>
              /\ out \in Seq(Lines(vol))
              /\ \E p, q, nodes : Printed(vol, p, q, failed, out, nodes) /\ TreePlaced(p, q)

(* Without a failure it has this volume's superblock.                        *)
TreeBooted == cmd.op = "tree" /\ rd.phase # "boot" => Own \/ failed

LEMMA NotTree ==
    ASSUME cmd'.op # "tree" PROVE TreeRight' /\ TreeBooted'
  BY DEF TreeRight, TreeBooted

LEMMA TreeBegins ==
    ASSUME NEW op, NEW path, Begin(op, path)
    PROVE  TreeRight' /\ TreeBooted'
<1>1. rd'.phase = "boot" /\ out' = <<>> /\ chain' = <<>>
  BY PhaseOff DEF Begin
<1> QED BY <1>1 DEF TreeRight, TreeBooted

(* The root, before anything is printed.                                     *)
LEMMA AtRoot ==
    ASSUME NEW v \in Volumes, Good(v), NEW fail
    PROVE  At(v, <<>>, 0) /\ Stacked(v, <<>>, <<>>) /\ DirOf(v, <<>>) = v.rootdir_start
           /\ Printed(v, <<>>, 0, fail, <<>>, <<>>)
<1>1. Formatted(v) /\ v.rootdir_start \in DOMAIN v.dirs /\ Len(<<>>) = 0
  BY DEF Good, Formatted, ChainsWhole
<1>2. Way(v, <<>>)
  <2>1. <<>> \in Seq(Places(v))
    BY EmptySeq
  <2>2. \A i \in 2..Len(<<>>) : FALSE
    BY <1>1
  <2> QED BY <2>1, <2>2 DEF Way, IsPath
<1>3. DirOf(v, <<>>) = v.rootdir_start
  BY <1>1 DEF DirOf, DirAt
<1>4. Walkable(v, <<>>)
  <2>1. \A i \in 1..Len(<<>>) : FALSE
    BY <1>1
  <2> QED BY <1>1, <1>2, <1>3, <2>1 DEF Walkable
<1>5. At(v, <<>>, 0)
  <2>1. Len(Files(v, v.rootdir_start)) \in Nat
    BY <1>1, FilesList
  <2> QED BY <1>3, <1>4, <2>1 DEF At
<1>6. Stacked(v, <<>>, <<>>)
  BY <1>1 DEF Stacked
<1>7. ASSUME NEW n \in Nodes(v), Past(n, <<>>, 0) PROVE FALSE
  <2>1. Len(n) \in Nat /\ Len(n) >= 1 /\ Way(v, n) /\ \A i \in 1..Len(n) : n[i].nr \in Nat
    BY WayNr
  <2>2. \A i \in 1..Len(n) : n[i].nr >= 1
    BY <1>1, <2>1, WayFacts
  <2>3. PICK k \in 0..Len(n) : PastAt(n, <<>>, 0, k)
    BY <1>7 DEF Past
  <2>4. k = 0 /\ 1 \in 1..Len(n) /\ k # Len(n)
    BY <1>1, <2>1, <2>3 DEF PastAt
  <2>5. n[1].nr <= 0
    BY <1>1, <2>3, <2>4 DEF PastAt
  <2> QED BY <2>1, <2>2, <2>4, <2>5
<1>8. Printed(v, <<>>, 0, fail, <<>>, <<>>)
  <2>1. DOMAIN <<>> = {} /\ <<>> \in [{} -> Nodes(v)]
    OBVIOUS
  <2> QED BY <1>7, <2>1 DEF Printed, Shows
<1> QED BY <1>3, <1>5, <1>6, <1>8

LEMMA TreeBoots ==
    ASSUME WalkInv, TreeRight, NEW ok \in BOOLEAN, ReadBoot(ok)
    PROVE  TreeRight' /\ TreeBooted'
<1>1. /\ rd.phase = "boot" /\ rd' = Reader(super'.rootdir_start) /\ vol' = vol /\ cmd' = cmd
      /\ out' = out /\ chain' = chain /\ vol \in Volumes
      /\ super' = Superblock(vol) \/ failed'
  BY DEF ReadBoot, WalkInv
<1>2. rd'.phase = "entry" /\ rd'.start = super'.rootdir_start
  BY <1>1 DEF Reader, NoReader
<1>0. TreeBooted'
  BY <1>1 DEF TreeBooted, Own
<1>3. CASE cmd.op = "tree" /\ Good(vol) /\ Own'
  <2>0. rd'.start = vol.rootdir_start
    BY <1>1, <1>2, <1>3 DEF Own, Superblock
  <2>1. out = <<>> /\ chain = <<>>
    BY <1>1, <1>3 DEF TreeRight
  <2>2. /\ At(vol, <<>>, 0) /\ Stacked(vol, <<>>, <<>>) /\ DirOf(vol, <<>>) = vol.rootdir_start
        /\ Printed(vol, <<>>, 0, failed', <<>>, <<>>)
    BY <1>1, <1>3, AtRoot
  <2>3. TreePlaced(<<>>, 0)'
    BY <1>1, <1>2, <2>0, <2>1, <2>2 DEF TreePlaced
  <2>4. Printed(vol', <<>>, 0, failed', out', <<>>)
    BY <1>1, <2>1, <2>2
  <2>5. out' \in Seq(Lines(vol'))
    BY <1>1, <2>1, EmptySeq
  <2>6. \E p, q, nodes : Printed(vol', p, q, failed', out', nodes) /\ TreePlaced(p, q)'
    BY <2>3, <2>4
  <2> QED BY <1>0, <1>1, <1>2, <2>5, <2>6 DEF TreeRight
<1>4. CASE ~(cmd.op = "tree" /\ Good(vol) /\ Own')
  BY <1>0, <1>1, <1>2, <1>4 DEF TreeRight
<1> QED BY <1>3, <1>4

(* A failure excuses what was printed before it.                             *)
LEMMA PrintedFailed ==
    ASSUME NEW v, NEW p, NEW q, NEW f, NEW g, NEW lines, NEW nodes,
           Printed(v, p, q, f, lines, nodes), f => g
    PROVE  Printed(v, p, q, g, lines, nodes)
  BY DEF Printed

LEMMA TreeMoves ==
    ASSUME WalkInv, TreeRight, TreeBooted, NEW ok \in BOOLEAN, Moves(ok)
    PROVE  TreeRight' /\ TreeBooted'
<1>1. /\ Listing(rd) /\ Listing(rd') /\ rd'.start = rd.start /\ (failed => failed')
      /\ vol' = vol /\ cmd' = cmd /\ super' = super /\ chain' = chain /\ out' = out
  BY MovesOn
<1>2. rd.phase \notin {"boot", "off"} /\ rd'.phase \notin {"boot", "off"} /\ Own' = Own
  BY <1>1 DEF Listing, Own
<1>3. CASE cmd.op = "tree" /\ Good(vol) /\ Own
  <2>1. PICK p, q, nodes : Printed(vol, p, q, failed, out, nodes) /\ TreePlaced(p, q)
    BY <1>2, <1>3 DEF TreeRight
  <2>2. Printed(vol', p, q, failed', out', nodes)
    <3>1. Printed(vol, p, q, failed', out, nodes)
      BY <1>1, <2>1, PrintedFailed
    <3> QED BY <1>1, <3>1
  <2>3. TreePlaced(p, q)'
    BY <1>1, <1>2, <2>1 DEF TreePlaced
  <2>4. out' \in Seq(Lines(vol'))
    BY <1>1, <1>2, <1>3 DEF TreeRight
  <2>5. TreeRight'
    BY <1>2, <2>2, <2>3, <2>4 DEF TreeRight
  <2> QED BY <1>1, <1>2, <2>5 DEF TreeBooted
<1>4. CASE ~(cmd.op = "tree" /\ Good(vol) /\ Own)
  BY <1>1, <1>2, <1>4 DEF TreeRight, TreeBooted
<1> QED BY <1>3, <1>4

(* The walk goes on from a place it stands at.                               *)
LEMMA TreeResumes ==
    ASSUME NEW v \in Volumes, v = vol, Good(v), NEW u, NEW p, NEW q, NEW list, NEW stack,
           Standing(v, p, q, list, stack), ListsOK(v, u, list, stack), Resume(list, stack),
           NEW lines \in Seq(Lines(v)), NEW nodes, Printed(v, p, q, failed, lines, nodes),
           out' = lines, rd'.phase = "off", vol' = vol, failed' = failed
    PROVE  TreeRight'
<1>1. PICK pp, qq : /\ Standing(v, pp, qq, it', chain') /\ (it' = <<>> => pp = <<>>)
                    /\ Printed(v, pp, qq, failed, lines, nodes)
  BY Resumed
<1>2. TreePlaced(pp, qq)'
  BY <1>1 DEF TreePlaced
<1>3. Printed(vol', pp, qq, failed', out', nodes) /\ out' \in Seq(Lines(vol'))
  BY <1>1
<1> QED BY <1>2, <1>3 DEF TreeRight

(* The list of the directory printed last is there, or a failure has lost it.*)
LEMMA TreeEnters ==
    ASSUME WalkInv, ReaderRight, TreeRight, TreeBooted, TreeEnter
    PROVE  TreeRight' /\ TreeBooted'
<1>1. /\ vol \in Volumes /\ rd.list \in Seq(Listable(vol, super)) /\ ListsOK(vol, super, it, chain)
      /\ Resume(rd.list, chain) /\ rd' = NoReader /\ cmd.op = "tree" /\ rd.phase = "done"
      /\ UNCHANGED <<vol, cmd, super, out, ret, failed, blocks>>
  BY DEF WalkInv, ReaderOK, Readers, TreeEnter
<1>2. rd'.phase = "off" /\ TreeBooted' /\ Own' = Own
  BY <1>1, PhaseOff DEF TreeBooted, Own
<1>3. ListsOK(vol, super, rd.list, chain)
  BY <1>1 DEF ListsOK
<1>4. ASSUME Good(vol), Own PROVE TreeRight'
  <2>1. PICK p, q, nodes : Printed(vol, p, q, failed, out, nodes) /\ TreePlaced(p, q)
    BY <1>1, <1>4 DEF TreeRight
  <2>2. out \in Seq(Lines(vol))
    BY <1>1, <1>4 DEF TreeRight
  <2>3. At(vol, p, 0) /\ Stacked(vol, p, chain) /\ q = 0 /\ rd.start = DirOf(vol, p)
    BY <1>1, <2>1 DEF TreePlaced
  <2> DEFINE F == Files(vol, rd.start)
             n == Len(F)
  <2>4. Formatted(vol) /\ Walkable(vol, p) /\ rd.start \in DOMAIN vol.dirs /\ Way(vol, p)
    BY <1>4, <2>3 DEF Good, At, Walkable
  <2>5. n \in Nat /\ DOMAIN F = 1..n
    BY <1>1, <2>4, FilesList
  <2>6. rd.list = ShownAll(F) \/ (rd.list = <<>> /\ failed)
    BY <1>1, <1>4, <2>4 DEF ReaderRight, ListRight
  <2>7. CASE rd.list = ShownAll(F)
    <3>1. Suffix(vol, rd.start, 0, rd.list)
      <4>1. DOMAIN rd.list = 1..n /\ \A j \in 1..n : rd.list[j] = Shown(F[j])
        <5> HIDE DEF F
        <5> QED BY <2>5, <2>7 DEF ShownAll
      <4>2. Len(rd.list) = n
        <5> HIDE DEF n
        <5>1. Len(rd.list) \in Nat /\ DOMAIN rd.list = 1..Len(rd.list)
          BY <1>1, LenProperties
        <5> QED BY <2>5, <4>1, <5>1
      <4>3. \A j \in 1..n : 0 + j = j
        BY <2>5
      <4>4. n = n - 0
        BY <2>5
      <4> QED BY <4>1, <4>2, <4>3, <4>4 DEF Suffix
    <3>2. Standing(vol, p, 0, rd.list, chain)
      BY <2>3, <3>1 DEF Standing
    <3>3. Printed(vol, p, 0, failed, out, nodes)
      BY <2>1, <2>3
    <3>4. out' = out /\ vol' = vol /\ failed' = failed
      BY <1>1
    <3> QED BY <1>1, <1>2, <1>3, <1>4, <2>2, <3>2, <3>3, <3>4, TreeResumes
  <2>8. CASE rd.list = <<>> /\ failed
    <3>1. Suffix(vol, rd.start, n, rd.list)
      <4>1. Len(<<>>) = 0 /\ n - n = 0
        BY <2>5
      <4>2. \A j \in 1..Len(<<>>) : FALSE
        BY <4>1
      <4> QED BY <2>8, <4>1, <4>2 DEF Suffix
    <3>2. At(vol, p, n)
      BY <2>3, <2>4, <2>5 DEF At
    <3>3. Standing(vol, p, n, rd.list, chain)
      BY <2>3, <3>1, <3>2 DEF Standing
    <3>4. ASSUME NEW x \in Nodes(vol), Past(x, p, 0) PROVE Past(x, p, n)
      <4>1. Len(x) \in Nat /\ \A i \in 1..Len(x) : x[i].nr \in Nat
        BY <1>1, <1>4, WayNr
      <4>2. 0 \in Nat /\ 0 <= n
        BY <2>5
      <4> HIDE DEF n
      <4> QED BY <2>5, <3>4, <4>1, <4>2, PastOver
    <3>5. Printed(vol, p, n, failed, out, nodes)
      <4>1. Printed(vol, p, 0, failed, out, nodes)
        BY <2>1, <2>3
      <4> HIDE DEF n
      <4> QED BY <2>8, <3>4, <4>1, PrintedAt
    <3>6. out' = out /\ vol' = vol /\ failed' = failed
      BY <1>1
    <3> HIDE DEF n
    <3> QED BY <1>1, <1>2, <1>3, <1>4, <2>2, <3>3, <3>5, <3>6, TreeResumes
  <2> QED BY <2>6, <2>7, <2>8
<1>5. CASE ~(Good(vol) /\ Own)
  BY <1>1, <1>2, <1>5 DEF TreeRight
<1> QED BY <1>2, <1>4, <1>5

(* A line is printed: a directory's, which is then read, or another file's.  *)
LEMMA TreePrints ==
    ASSUME WalkInv, ReaderRight, TreeRight, TreeBooted, TreePrint
    PROVE  TreeRight' /\ TreeBooted' /\ ReaderRight'
<1> DEFINE d == Head(it)
           l == Line(Len(chain), d)
<1>1. /\ vol \in Volumes /\ it # <<>> /\ ListsOK(vol, super, it, chain) /\ cmd.op = "tree" /\ rd.phase = "off"
      /\ out' = Append(out, l) /\ UNCHANGED <<vol, cmd, super, ret, failed, blocks>>
  BY DEF WalkInv, TreePrint
<1>2. /\ d \in Listable(vol, super) /\ d \in Dirents(vol)
      /\ it \in Seq(Listable(vol, super)) /\ chain \in Seq(Seq(Listable(vol, super)))
      /\ Len(chain) \in Nat
  <2> DEFINE L == Listable(vol, super)
             T == Seq(L)
  <2>1. it \in Seq(L) /\ chain \in Seq(T)
    BY <1>1 DEF ListsOK
  <2>2. d \in L /\ Len(chain) \in Nat
    <3> HIDE DEF L, T
    <3> QED BY <1>1, <2>1, HeadTailProperties, LenProperties
  <2> QED BY <2>1, <2>2 DEF Listable
<1>3. (Own \/ failed) /\ Own' = Own
  BY <1>1 DEF TreeBooted, Own
<1>4. TreeBooted'
  BY <1>1, <1>3 DEF TreeBooted
<1>5. l \in Lines(vol)
  BY <1>2 DEF Lines, Line, Dirents
<1>6. \/ d.is_dir /\ chain' = Append(chain, Tail(it)) /\ it' = it /\ rd' = Reader(d.start_cluster)
      \/ ~d.is_dir /\ Resume(Tail(it), chain) /\ rd' = rd
  BY DEF TreePrint
<1>7. ReaderRight'
  <2>1. CASE d.is_dir /\ rd' = Reader(d.start_cluster)
    <3> HIDE DEF d
    <3> QED BY <1>1, <1>2, <2>1, ListedRight
  <2>2. CASE rd' = rd
    <3>1. vol' = vol /\ rd'.phase \in {"off", "boot"}
      BY <1>1, <2>2
    <3> QED BY <3>1, OffRight
  <2> QED BY <1>6, <2>1, <2>2
<1>8. ASSUME Good(vol), Own PROVE TreeRight'
  <2>0. out \in Seq(Lines(vol)) /\ Formatted(vol)
    BY <1>1, <1>8 DEF TreeRight, Good
  <2>1. PICK p, q, nodes : Printed(vol, p, q, failed, out, nodes) /\ Standing(vol, p, q, it, chain)
    BY <1>1, <1>8 DEF TreeRight, TreePlaced
  <2>2. PICK x, y :
        /\ y = NextPlace(vol, p, q) /\ q \in Nat /\ q + 1 \in 0..Len(Files(vol, DirOf(vol, p)))
        /\ x \in Nodes(vol) /\ Longer(p, x, y) /\ y.nr = q + 1 /\ Last(x) = y
        /\ FileOf(vol, y).is_dir = d.is_dir /\ FileOf(vol, y).start_cluster = d.start_cluster
        /\ SameLine(l, NodeLine(vol, x))
        /\ Suffix(vol, DirOf(vol, p), q + 1, Tail(it))
        /\ Tail(it) \in Seq(Listable(vol, super))
    <3> DEFINE b == NextPlace(vol, p, q)
               a == NextNode(vol, p, q)
    <3>1. /\ q \in Nat /\ q + 1 \in 0..Len(Files(vol, DirOf(vol, p)))
          /\ a \in Nodes(vol) /\ Longer(p, a, b) /\ b.nr = q + 1 /\ Last(a) = b
          /\ FileOf(vol, b).is_dir = d.is_dir /\ FileOf(vol, b).start_cluster = d.start_cluster
          /\ SameLine(l, NodeLine(vol, a))
          /\ Suffix(vol, DirOf(vol, p), q + 1, Tail(it))
          /\ Tail(it) \in Seq(Listable(vol, super))
      BY <1>1, <1>8, <2>1, NextFile
    <3> HIDE DEF a, d, l
    <3> QED BY <3>1
  <2> DEFINE S == Lines(vol)
             nn == More(nodes, Len(out), x)
  <2>3. /\ At(vol, p, q) /\ Stacked(vol, p, chain) /\ Walkable(vol, p) /\ Way(vol, p)
        /\ Suffix(vol, DirOf(vol, p), q, it)
    BY <2>1 DEF Standing, At, Walkable
  <2> HIDE DEF d, l
  <2>4. Way(vol, x) /\ Len(x) \in Nat /\ x # <<>> /\ x = [i \in 1..Len(x) |-> x[i]]
    BY <1>1, <1>8, <2>0, <2>2, WayNr, WayFacts
  <2>5. Len(p) \in Nat
    BY <1>1, <2>0, <2>3, WayFacts
  <2>6. ASSUME NEW n \in Nodes(vol)
        PROVE  Way(vol, n) /\ Len(n) \in Nat /\ \A i \in 1..Len(n) : n[i].nr \in Nat
    BY <1>1, <1>8, WayNr
  <2>7. \A n \in Nodes(vol) : Past(n, p, q) => Before(n, x)
    BY <2>2, <2>5, <2>6, PastBefore
  <2>8. CASE d.is_dir
    <3>1. chain' = Append(chain, Tail(it)) /\ rd' = Reader(d.start_cluster)
      BY <1>6, <2>8
    <3>2. rd'.phase = "entry" /\ rd'.start = d.start_cluster
      BY <3>1 DEF Reader, NoReader
    <3>3. \A n \in Nodes(vol) : Past(n, p, q) => Past(n, x, 0)
      BY <2>2, <2>5, <2>6, PastInto
    <3>4. \A n \in Nodes(vol) : Past(n, x, 0) => n = x \/ Past(n, p, q)
      BY <1>1, <2>0, <2>2, <2>3, <2>4, <2>6, IntoPast
    <3>5. Past(x, x, 0)
      BY <2>4, PastItself
    <3>6. Printed(vol, x, 0, failed, Append(out, l), nn)
      <4> HIDE DEF S, nn
      <4>1. out \in Seq(S) /\ l \in S
        BY <1>5, <2>0 DEF S
      <4>2. Printed(vol, p, q, failed, out, nodes)
        BY <2>1
      <4>3. \A n \in Nodes(vol) : Past(n, p, q) => Before(n, x) /\ Past(n, x, 0)
        BY <2>7, <3>3
      <4>4. Printed(vol, x, 0, failed, Append(out, l), More(nodes, Len(out), x))
        BY <2>2, <3>4, <3>5, <4>1, <4>2, <4>3, PrintedMore
      <4> QED BY <4>4 DEF nn
    <3>7. x[Len(x)] = y /\ DirOf(vol, x) = d.start_cluster /\ Len(x) = Len(p) + 1
      <4>1. Len(x) = Len(p) + 1 /\ x[Len(p) + 1] = y /\ Len(x) # 0
        BY <2>2, <2>5 DEF Longer
      <4> QED BY <2>2, <4>1 DEF DirOf, DirAt
    <3>8. d.start_cluster \in DOMAIN vol.dirs
      BY <1>1, <1>2, <1>8, <2>0, <2>8, FormattedRight DEF Listable, Own
    <3>9. Walkable(vol, x)
      <4>1. ASSUME NEW i \in 1..Len(x) PROVE FileOf(vol, x[i]).is_dir
        <5>1. CASE i = Len(x)
          BY <2>2, <2>8, <3>7, <5>1
        <5>2. CASE i # Len(x)
          <6>1. i \in 1..Len(p)
            BY <2>5, <3>7, <4>1, <5>2
          <6>2. x[i] = p[i]
            BY <2>2, <6>1 DEF Longer
          <6> QED BY <2>3, <6>1, <6>2 DEF Walkable
        <5> QED BY <5>1, <5>2
      <4> QED BY <2>4, <3>7, <3>8, <4>1 DEF Walkable
    <3>10. At(vol, x, 0)
      <4>1. Len(Files(vol, d.start_cluster)) \in Nat
        BY <1>1, <2>0, <3>8, FilesList
      <4> QED BY <3>7, <3>9, <4>1 DEF At
    <3>11. Stacked(vol, x, chain')
      <4> DEFINE L == Listable(vol, super)
                 T == Seq(L)
                 t == Tail(it)
      <4>1. chain \in Seq(T) /\ t \in T
        BY <1>2, <2>2
      <4>2. /\ Len(chain') = Len(chain) + 1 /\ chain'[Len(chain) + 1] = t
            /\ \A i \in 1..Len(chain) : chain'[i] = chain[i]
        <5>1. chain' = Append(chain, t)
          BY <3>1
        <5> HIDE DEF T, t
        <5> QED BY <4>1, <5>1, AppendProperties
      <4>3. Len(chain) = Len(p)
        BY <2>3 DEF Stacked
      <4>4. ASSUME NEW i \in 1..Len(x) PROVE Suffix(vol, x[i].dir, x[i].nr, chain'[i])
        <5>1. CASE i = Len(x)
          <6>1. x[i] = y /\ chain'[i] = t
            BY <3>7, <4>2, <4>3, <5>1
          <6>2. y.dir = DirOf(vol, p) /\ y.nr = q + 1
            BY <2>2 DEF NextPlace
          <6> QED BY <2>2, <6>1, <6>2
        <5>2. CASE i # Len(x)
          <6>1. i \in 1..Len(p)
            BY <2>5, <3>7, <4>4, <5>2
          <6>2. x[i] = p[i] /\ chain'[i] = chain[i]
            BY <2>2, <4>2, <4>3, <6>1 DEF Longer
          <6> QED BY <2>3, <6>1, <6>2 DEF Stacked
        <5> QED BY <5>1, <5>2
      <4> QED BY <3>7, <4>2, <4>3, <4>4 DEF Stacked
    <3>12. TreePlaced(x, 0)'
      BY <1>1, <3>2, <3>7, <3>10, <3>11 DEF TreePlaced
    <3>13. out' \in Seq(Lines(vol')) /\ Printed(vol', x, 0, failed', out', nn)
      <4>1. Append(out, l) \in Seq(S)
        <5> HIDE DEF S
        <5>1. out \in Seq(S) /\ l \in S
          BY <1>5, <2>0 DEF S
        <5> QED BY <5>1, AppendProperties
      <4> HIDE DEF nn
      <4> QED BY <1>1, <3>6, <4>1
    <3>14. \E a, b, c : Printed(vol', a, b, failed', out', c) /\ TreePlaced(a, b)'
      <4> HIDE DEF nn
      <4> QED BY <3>12, <3>13
    <3>15. rd'.phase # "boot"
      BY <3>2
    <3> QED BY <3>13, <3>14, <3>15 DEF TreeRight
  <2>9. CASE ~d.is_dir
    <3>1. Resume(Tail(it), chain) /\ rd' = rd
      BY <1>6, <2>9
    <3>2. q + 1 \in Nat /\ q <= q + 1
      BY <2>2
    <3>3. \A n \in Nodes(vol) : Past(n, p, q) => Past(n, p, q + 1)
      BY <2>2, <2>6, <3>2, PastOver
    <3>4. \A n \in Nodes(vol) : Past(n, p, q + 1) => n = x \/ Past(n, p, q)
      <4>1. ~FileOf(vol, y).is_dir
        BY <2>2, <2>9
      <4> QED BY <1>1, <2>0, <2>2, <2>3, <2>4, <2>6, <4>1, OverPast
    <3>5. Past(x, p, q + 1)
      BY <2>2, <2>5, OverItself
    <3>6. Printed(vol, p, q + 1, failed, Append(out, l), nn)
      <4> HIDE DEF S, nn
      <4>1. out \in Seq(S) /\ l \in S
        BY <1>5, <2>0 DEF S
      <4>2. Printed(vol, p, q, failed, out, nodes)
        BY <2>1
      <4>3. \A n \in Nodes(vol) : Past(n, p, q) => Before(n, x) /\ Past(n, p, q + 1)
        BY <2>7, <3>3
      <4>4. Printed(vol, p, q + 1, failed, Append(out, l), More(nodes, Len(out), x))
        BY <2>2, <3>4, <3>5, <4>1, <4>2, <4>3, PrintedMore
      <4> QED BY <4>4 DEF nn
    <3>7. Standing(vol, p, q + 1, Tail(it), chain)
      BY <2>2, <2>3 DEF Standing, At
    <3>8. ListsOK(vol, super, Tail(it), chain)
      BY <1>2, <2>2 DEF ListsOK
    <3>9. Append(out, l) \in Seq(S)
      <4> HIDE DEF S
      <4>1. out \in Seq(S) /\ l \in S
        BY <1>5, <2>0 DEF S
      <4> QED BY <4>1, AppendProperties
    <3>10. rd'.phase = "off" /\ vol' = vol /\ failed' = failed
      BY <1>1, <3>1
    <3> HIDE DEF nn
    <3> QED BY <1>1, <1>8, <3>1, <3>6, <3>7, <3>8, <3>9, <3>10, TreeResumes
  <2> QED BY <2>8, <2>9
<1>9. CASE ~(Good(vol) /\ Own)
  <2>1. TreeRight'
    <3>1. rd'.phase # "boot"
      <4> DEFINE c == d.start_cluster
      <4>1. rd' = Reader(c) \/ rd' = rd
        BY <1>6
      <4> HIDE DEF c
      <4> QED BY <1>1, <4>1 DEF Reader, NoReader
    <3> QED BY <1>1, <1>3, <1>9, <3>1 DEF TreeRight
  <2> QED BY <1>4, <1>7, <2>1
<1> QED BY <1>4, <1>7, <1>8, <1>9
-----------------------------------------------------------------------------
(* The commands together.                                                    *)

(* The end of a command leaves nothing to be kept.                           *)
LEMMA TreeEnds ==
    ASSUME TreeEnd \/ Finish(-1) \/ Finish(0)
    PROVE  ReaderRight' /\ LsRight' /\ TreeRight' /\ TreeBooted'
<1>1. cmd' = Idle /\ rd' = NoReader /\ vol' = vol
  BY DEF TreeEnd, Finish
<1>2. cmd'.op = "none" /\ rd'.phase = "off"
  BY <1>1 DEF Idle, NoReader
<1> QED BY <1>1, <1>2, OffRight, NotLs, NotTree

(* At the end the walk stands behind the root's files.                       *)
LEMMA TreePrintsAll ==
    ASSUME WalkInv, TreeRight, TreeBooted, TreeEnd, Good(vol), ~failed
    PROVE  \E nodes \in [DOMAIN out' -> Nodes(vol)] :
              /\ Shows(vol, out', nodes)
              /\ \A p \in Nodes(vol) : \E i \in DOMAIN nodes : nodes[i] = p
<1>1. cmd.op = "tree" /\ rd.phase = "off" /\ it = <<>> /\ out' = out /\ vol \in Volumes
  BY DEF TreeEnd, WalkInv
<1>2. PICK p, q, nodes : Printed(vol, p, q, failed, out, nodes) /\ TreePlaced(p, q)
  BY <1>1 DEF TreeRight, TreeBooted
<1>3. p = <<>> /\ Standing(vol, p, q, it, chain)
  BY <1>1, <1>2 DEF TreePlaced
<1>4. At(vol, p, q) /\ Suffix(vol, DirOf(vol, p), q, it) /\ Formatted(vol)
  BY <1>3 DEF Standing, Good
<1>5. DirOf(vol, p) = vol.rootdir_start /\ vol.rootdir_start \in DOMAIN vol.dirs
  <2>1. Len(p) = 0
    BY <1>3
  <2> QED BY <1>4, <2>1 DEF DirOf, DirAt, At, Walkable
<1>6. q = Len(Files(vol, vol.rootdir_start)) /\ q \in Nat
  <2>1. Len(Files(vol, vol.rootdir_start)) \in Nat
    BY <1>1, <1>4, <1>5, FilesList
  <2>2. Len(it) = 0
    BY <1>1
  <2> QED BY <1>4, <1>5, <2>1, <2>2 DEF At, Suffix
<1>7. ASSUME NEW n \in Nodes(vol) PROVE Past(n, p, q)
  <2>1. Way(vol, n) /\ Len(n) \in Nat /\ n # <<>> /\ Len(n) >= 1
    BY <1>1, <1>4, WayNr
  <2>2. n[1].dir = vol.rootdir_start
    BY <2>1 DEF Way, IsPath
  <2>3. n[1].nr <= Len(Files(vol, n[1].dir))
    <3>1. 1 \in 1..Len(n)
      BY <2>1
    <3> QED BY <1>1, <1>4, <2>1, <3>1, WayFacts
  <2>4. PastAt(n, p, q, 0)
    <3>1. Len(p) = 0 /\ 0 + 1 = 1 /\ \A i \in 1..0 : FALSE
      BY <1>3
    <3> QED BY <1>6, <2>2, <2>3, <3>1 DEF PastAt
  <2>5. 0 \in 0..Len(n)
    BY <2>1
  <2> QED BY <2>4, <2>5 DEF Past
<1>8. nodes \in [DOMAIN out -> Nodes(vol)] /\ Shows(vol, out, nodes) /\ DOMAIN nodes = DOMAIN out
  BY <1>2 DEF Printed
<1>9. \A n \in Nodes(vol) : \E i \in DOMAIN nodes : nodes[i] = n
  BY <1>2, <1>7, <1>8 DEF Printed
<1> QED BY <1>1, <1>8, <1>9

(* On the way there it has printed a part.                                   *)
LEMMA TreePrintsPart ==
    ASSUME WalkInv, TreeRight, cmd.op = "tree", Good(vol), Own
    PROVE  \E nodes \in [DOMAIN out -> Nodes(vol)] : Shows(vol, out, nodes)
<1>1. CASE rd.phase = "boot"
  <2>1. out = <<>>
    BY <1>1 DEF TreeRight
  <2>2. DOMAIN out = {} /\ <<>> \in [{} -> Nodes(vol)] /\ DOMAIN <<>> = {}
    BY <2>1
  <2>3. <<>> \in [DOMAIN out -> Nodes(vol)] /\ Shows(vol, out, <<>>)
    BY <2>2 DEF Shows
  <2> QED BY <2>3
<1>2. CASE rd.phase # "boot"
  BY <1>2 DEF TreeRight, Printed
<1> QED BY <1>1, <1>2

(* What all the commands keep: every list is right as far as it is read, ls is*)
(* where its path has led it so far, tree has printed what it has passed, and*)
(* a file is open only in cat.                                               *)
CommandsInv ==
    FsInv /\ ReaderRight /\ LsRight /\ TreeRight /\ TreeBooted /\ CatInv

LEMMA InitCommands == Init => CommandsInv
<1> SUFFICES ASSUME Init PROVE CommandsInv
  OBVIOUS
<1>1. FsInv /\ CatInv /\ cmd = Idle /\ rd = NoReader
  BY InitFs DEF Init, DirectoryInit
<1>2. cmd.op = "none" /\ rd.phase = "off"
  BY <1>1 DEF Idle, NoReader
<1>3. ReaderRight
  BY <1>2 DEF ReaderRight, ListRight
<1> QED BY <1>1, <1>2, <1>3 DEF CommandsInv, LsRight, TreeRight, TreeBooted

(* What the steps of a stream, the prompt and the walks keep of it.          *)
LEMMA CommandsRest ==
    ASSUME ReaderRight, LsRight, TreeRight, TreeBooted, UNCHANGED <<vol, walk>>
    PROVE  ReaderRight' /\ LsRight' /\ TreeRight' /\ TreeBooted'
<1>1. UNCHANGED <<vol, cmd, super, rd, it, chain, out, failed>>
  BY DEF walk
<1>2. ReaderRight' /\ LsRight' /\ TreeBooted'
  BY <1>1 DEF ReaderRight, LsRight, TreeBooted, Own
<1>3. TreeRight'
  BY <1>1 DEF TreeRight, TreePlaced, Own
<1> QED BY <1>2, <1>3

LEMMA CommandsBegin ==
    ASSUME NEW op \in {"ls", "tree", "cat"}, NEW path, Begin(op, path), op = "ls" => path \in Paths
    PROVE  ReaderRight' /\ LsRight' /\ TreeRight' /\ TreeBooted'
<1>1. vol' = vol /\ rd'.phase = "boot" /\ cmd'.op = op
  BY PhaseOff DEF Begin
<1>2. ReaderRight'
  BY <1>1, OffRight
<1>3. LsRight'
  <2>1. CASE op = "ls"
    <3>1. path \in Paths /\ Begin("ls", path)
      BY <2>1
    <3> QED BY <3>1, LsBegins
  <2>2. CASE op # "ls"
    BY <1>1, <2>2, NotLs
  <2> QED BY <2>1, <2>2
<1> QED BY <1>2, <1>3, TreeBegins

LEMMA CommandsWalk ==
    ASSUME CommandsInv, DirectoryStep
    PROVE  ReaderRight' /\ LsRight' /\ TreeRight' /\ TreeBooted'
<1>0. WalkInv /\ ReaderRight /\ LsRight /\ TreeRight /\ TreeBooted
  BY DEF CommandsInv, FsInv
<1>1. ASSUME NEW ok \in BOOLEAN, ReadBoot(ok)
      PROVE  ReaderRight' /\ LsRight' /\ TreeRight' /\ TreeBooted'
  BY <1>0, <1>1, BootRight, LsBoots, TreeBoots
<1>2. ASSUME NEW ok \in BOOLEAN, Moves(ok)
      PROVE  ReaderRight' /\ LsRight' /\ TreeRight' /\ TreeBooted'
  BY <1>0, <1>2, MovesRight, LsMoves, TreeMoves
<1>3. ASSUME LsStep PROVE ReaderRight' /\ LsRight' /\ TreeRight' /\ TreeBooted'
  <2>1. cmd'.op # "tree"
    <3>1. \/ cmd' = Idle
          \/ cmd' = [cmd EXCEPT !.path = Tail(@)]
      BY <1>3 DEF LsStep, Finish
    <3>2. cmd.op = "ls" /\ CmdOK(cmd)
      BY <1>0, <1>3 DEF LsStep, WalkInv
    <3> QED BY <3>1, <3>2 DEF Idle, CmdOK
  <2> QED BY <1>0, <1>3, <2>1, LsSteps, NotTree
<1>4. ASSUME TreeEnter \/ TreePrint PROVE ReaderRight' /\ LsRight' /\ TreeRight' /\ TreeBooted'
  <2>1. cmd' = cmd /\ cmd.op = "tree" /\ vol' = vol
    BY <1>4 DEF TreeEnter, TreePrint
  <2>2. LsRight'
    BY <2>1, NotLs
  <2>3. CASE TreeEnter
    <3>1. rd' = NoReader
      BY <2>3 DEF TreeEnter
    <3> QED BY <1>0, <2>1, <2>2, <2>3, <3>1, OffRight, PhaseOff, TreeEnters
  <2>4. CASE TreePrint
    BY <1>0, <2>2, <2>4, TreePrints
  <2> QED BY <1>4, <2>3, <2>4
<1> QED BY <1>1, <1>2, <1>3, <1>4, TreeEnds DEF DirectoryStep, Moves

(* cat keeps what is said of the others, since it is not one of them.        *)
LEMMA CommandsCat ==
    ASSUME CommandsInv, CatLookup
    PROVE  ReaderRight' /\ LsRight' /\ TreeRight' /\ TreeBooted'
<1>0. ReaderRight /\ LsRight /\ TreeRight /\ TreeBooted
  BY DEF CommandsInv
<1>1. cmd.op = "cat"
  BY DEF CatLookup
<1>2. \/ UNCHANGED <<vol, walk>>
      \/ Finish(-1)
      \/ rd' = NoReader /\ vol' = vol /\ cmd' = cmd
  BY DEF CatLookup
<1>3. CASE UNCHANGED <<vol, walk>>
  BY <1>0, <1>3, CommandsRest
<1>4. CASE Finish(-1)
  BY <1>4, TreeEnds
<1>5. CASE rd' = NoReader /\ vol' = vol /\ cmd' = cmd
  BY <1>1, <1>5, OffRight, PhaseOff, NotLs, NotTree
<1> QED BY <1>2, <1>3, <1>4, <1>5

LEMMA NextCommands == CommandsInv /\ [Next]_vars => CommandsInv'
<1> SUFFICES ASSUME CommandsInv, [Next]_vars PROVE CommandsInv'
  OBVIOUS
<1>0. FsInv' /\ CatInv' /\ ReaderRight /\ LsRight /\ TreeRight /\ TreeBooted
  BY NextFs, NextCat DEF CommandsInv
<1> DEFINE Kept == ReaderRight /\ LsRight /\ TreeRight /\ TreeBooted
<1>1. ASSUME Ls \/ Tree \/ Cat \/ CatAbsolute PROVE Kept'
  <2>1. PICK op, path : /\ op \in {"ls", "tree", "cat"} /\ (op = "ls" => path \in Paths)
                        /\ Begin(op, path)
    BY <1>1 DEF Ls, Tree, Cat, CatAbsolute
  <2> QED BY <2>1, CommandsBegin
<1>2. ASSUME CatNested \/ CatRead \/ UNCHANGED vars PROVE Kept'
  <2>1. UNCHANGED <<vol, walk>>
    BY <1>2 DEF CatNested, CatRead, vars, walk
  <2> QED BY <1>0, <2>1, CommandsRest
<1>3. ASSUME CatClose PROVE Kept'
  BY <1>3, TreeEnds DEF CatClose
<1>4. ASSUME DirectoryStep PROVE Kept'
  BY <1>4, CommandsWalk
<1>5. ASSUME FileStep(vol, super), UNCHANGED <<vol, walk, lost>> PROVE Kept'
  BY <1>0, <1>5, CommandsRest
<1>6. Kept'
  BY <1>1, <1>2, <1>3, <1>4, <1>5, CommandsCat DEF Next
<1> QED BY <1>0, <1>6 DEF CommandsInv

LEMMA CommandsAlways == Spec => []CommandsInv
  BY InitCommands, NextCommands, PTL DEF Spec

(* The steps that end an ls or a tree.                                       *)
LEMMA CommandEnds ==
    ASSUME CommandsInv, Next, cmd.op \in {"ls", "tree"}, cmd' = Idle
    PROVE  (cmd.op = "ls" /\ LsStep) \/ (cmd.op = "tree" /\ TreeEnd)
<1>1. cmd' # cmd /\ cmd # Idle
  BY DEF Idle
<1>2. ~(Ls \/ Tree \/ Cat \/ CatAbsolute \/ CatNested)
  BY <1>1 DEF Ls, Tree, Cat, CatAbsolute, CatNested, Begin
<1>3. ~(CatLookup \/ CatRead)
  BY <1>1 DEF CatLookup, CatRead, walk
<1>4. ~CatClose
  BY DEF CatClose, FClose, CommandsInv, CatInv
<1>5. ~(FileStep(vol, super) /\ UNCHANGED <<vol, walk, lost>>)
  BY <1>1 DEF walk
<1>6. DirectoryStep
  BY <1>2, <1>3, <1>4, <1>5 DEF Next
<1>7. LsStep \/ TreeEnd
  BY <1>1, <1>6 DEF DirectoryStep, ReadBoot, ReadEntry, ReadStream, ReadName, TreeEnter, TreePrint
<1> QED BY <1>7 DEF LsStep, TreeEnd

(* On a volume in good order ls, with the superblock of that volume, answers *)
(* a path with the directory it names, every file of it in its order, and    *)
(* with an error when it names none; a directory read that fails, at any     *)
(* point and however often, turns the answer into an error or an empty list, *)
(* never into another directory's (shell_cmd_ls, with exfat_readdir_fromblock*)
(* which gives up its list at the first failure).  With what else its stack  *)
(* may hold after a failed boot read nothing is said.                        *)
THEOREM LsAnswersCorrect ==
    ASSUME FormattedVolumes PROVE Spec => LsAnswers
<1>1. CommandsInv /\ [Next]_vars =>
          [cmd.op = "ls" /\ cmd' = Idle /\ Contiguous(vol) /\ Own => LsAnswer]_vars
  <2> SUFFICES ASSUME CommandsInv, Next, cmd.op = "ls", cmd' = Idle, Contiguous(vol), Own
               PROVE  LsAnswer
    OBVIOUS
  <2>1. WalkInv /\ ReaderRight /\ LsRight /\ vol \in Volumes
    BY DEF CommandsInv, FsInv, WalkInv
  <2>2. LsStep
    BY CommandEnds
  <2> QED BY <2>1, <2>2, LsGivesAnswer DEF FormattedVolumes
<1> QED BY <1>1, CommandsAlways, PTL DEF Spec, LsAnswers, LsAnswer

(* Whatever reads of directories fail, at every moment tree, with the super- *)
(* block of the volume, has printed lines of that volume, in the order of the*)
(* tree and each at most once: a directory whose list is lost leaves those   *)
(* above it on the stack (test_printtree).                                   *)
THEOREM TreeIsPartCorrect ==
    ASSUME TreeVolumes PROVE Spec => []TreeIsPart
<1>1. CommandsInv => TreeIsPart
  BY TreePrintsPart DEF CommandsInv, FsInv, WalkInv, TreeIsPart, TreeVolumes, Good
<1> QED BY <1>1, CommandsAlways, PTL

(* A tree that ends and lost no read has printed every file and directory of *)
(* the volume, however deep, each once and below its own directory           *)
(* (test_printtree's stack of the lists it has yet to go on with).           *)
THEOREM TreeIsWholeCorrect ==
    ASSUME TreeVolumes PROVE Spec => TreeIsWhole
<1>1. CommandsInv /\ [Next]_vars =>
          [cmd.op = "tree" /\ cmd' = Idle /\ ~failed /\ Contiguous(vol) =>
             \E nodes \in [DOMAIN out' -> Nodes(vol)] :
                /\ Shows(vol, out', nodes)
                /\ \A p \in Nodes(vol) : \E i \in DOMAIN nodes : nodes[i] = p]_vars
  <2> SUFFICES ASSUME CommandsInv, Next, cmd.op = "tree", cmd' = Idle, ~failed, Contiguous(vol)
               PROVE  \E nodes \in [DOMAIN out' -> Nodes(vol)] :
                         /\ Shows(vol, out', nodes)
                         /\ \A p \in Nodes(vol) : \E i \in DOMAIN nodes : nodes[i] = p
    OBVIOUS
  <2>1. WalkInv /\ TreeRight /\ TreeBooted /\ vol \in Volumes
    BY DEF CommandsInv, FsInv, WalkInv
  <2>2. TreeEnd
    BY CommandEnds
  <2> QED BY <2>1, <2>2, TreePrintsAll DEF TreeVolumes, Good
<1> QED BY <1>1, CommandsAlways, PTL DEF Spec, TreeIsWhole
=============================================================================
