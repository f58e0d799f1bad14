------------------------------ MODULE Contents ------------------------------
(* What a volume holds, read the way the format defines it: a directory is   *)
(* the entries of the clusters of its chain up to its end, a file is a set of*)
(* them, and the files below the root form a tree.  The walks of Directory   *)
(* are judged by it; none of the code's ways of reading is in it.            *)
EXTENDS Volume, FiniteSets, SequencesExt

(* The entries of a cluster, and no fewer than any directory has.            *)
PerCluster(v) == v.clustersize * EntriesPerBlock
MaxEntries(v) == Cardinality(DOMAIN v.dirs) * PerCluster(v)

(* Cluster k of the chain that begins with c, by the allocation table.       *)
ClusterAt(v, c, k) ==
    LET f[n \in 0..Cardinality(DOMAIN v.dirs)] ==
            IF n = 0 THEN c
            ELSE IF f[n - 1] \in DOMAIN v.dirs THEN v.next[f[n - 1]] ELSE LastCluster
    IN f[k]

(* Entry i of the directory that begins with cluster c, both from 0.         *)
SlotOf(v, c, j) == IF j + 1 > Len(v.dirs[c]) THEN Blank ELSE v.dirs[c][j + 1]
EntryIn(v, c, i) ==
    LET x == ClusterAt(v, c, i \div PerCluster(v))
    IN IF x \in DOMAIN v.dirs THEN SlotOf(v, x, i % PerCluster(v)) ELSE Blank

EndIn(v, c) ==
    CHOOSE i \in 0..MaxEntries(v) :
        /\ EntryType(EntryIn(v, c, i)) = "end"
        /\ \A j \in 0..(i - 1) : EntryType(EntryIn(v, c, j)) # "end"

(* The file whose set begins at entry i, in use or deleted.                  *)
FileAt(v, c, i) ==
    LET e == EntryIn(v, c, i)
        second == EntryIn(v, c, i + 1)
    IN [name |-> [k \in 1..(e.secondary - 1) |-> EntryIn(v, c, i + 1 + k).part],
        is_dir |-> e.directory, byte_size |-> second.length,
        start_cluster |-> second.first]

(* The files of a directory whose sets begin before entry n, and all of them.*)
FilesBefore(v, c, n) ==
    LET f[i \in 0..MaxEntries(v)] ==
            IF i = 0 THEN <<>>
            ELSE IF EntryIn(v, c, i - 1).code = "file"
            THEN Append(f[i - 1], FileAt(v, c, i - 1)) ELSE f[i - 1]
    IN f[n]
Files(v, c) == FilesBefore(v, c, EndIn(v, c))

(* A file by its directory and its number there; a node of the tree is the   *)
(* sequence of them that leads from the root to it.                          *)
Places(v) ==
    UNION {{[dir |-> c, nr |-> k] : k \in DOMAIN Files(v, c)} : c \in DOMAIN v.dirs}
FileOf(v, place) == Files(v, place.dir)[place.nr]
Below(v, place, dir) == FileOf(v, place).is_dir /\ FileOf(v, place).start_cluster = dir
IsPath(v, p) ==
    /\ p # <<>> => p[1].dir = v.rootdir_start
    /\ \A i \in 2..Len(p) : Below(v, p[i - 1], p[i].dir)
Nodes(v) == {p \in SeqOf(Places(v), Cardinality(DOMAIN v.dirs)) : p # <<>> /\ IsPath(v, p)}

(* Depth first: a directory before what is below it, and in a directory one  *)
(* file and what is below it before the next.                                *)
Before(p, q) ==
    \E n \in 0..Len(p) :
        /\ n < Len(q) /\ \A i \in 1..n : p[i] = q[i]
        /\ n = Len(p) \/ p[n + 1].nr < q[n + 1].nr

(* The directories a path of names leads to: one, or none.                   *)
Leads(v, c, name, dir) ==
    LET found == {i \in DOMAIN Files(v, c) :
                     LET d == Files(v, c)[i] IN ShownName(d.name, d.start_cluster) = name}
    IN \E i \in found : (\A j \in found : i <= j) /\ Below(v, [dir |-> c, nr |-> i], dir)
Resolve(v, path) ==
    {s[Len(path)] : s \in {t \in [0..Len(path) -> DOMAIN v.dirs] :
        /\ t[0] = v.rootdir_start
        /\ \A i \in 1..Len(path) : Leads(v, t[i - 1], path[i], t[i])}}
=============================================================================
