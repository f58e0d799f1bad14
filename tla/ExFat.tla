-------------------------------- MODULE ExFat --------------------------------
(* The file-system commands of the shell over one volume: ls, tree, and cat, *)
(* which finds a file of the root directory, opens it and reads from it.     *)
EXTENDS Directory, FileStream, Contents

CONSTANTS Paths,        \* the paths typed after ls; the empty one is "/"
          Names,        \* the names typed after cat
          ReadSizes     \* the sizes asked of exfat_fread (cat itself asks 4)

(* A path is a sequence of names; a cluster, 32 MB at most, is less than     *)
(* size_t can count.                                                         *)
PathOK(p) == p \in Seq({p[i] : i \in DOMAIN p})
ASSUME ExFatAssumption ==
    /\ ReadSizes \subseteq Nat
    /\ \A p \in Paths : PathOK(p)
    /\ \A v \in Volumes : v.clustersize * BlockSize < SizeMod

VARIABLES lost          \* "no", or why control never comes back

vars == <<vol, cmd, super, rd, it, chain, out, ret, failed, blocks,
          fp, fr, got, reads, lost>>

Init == DirectoryInit /\ FileInit /\ lost = "no"

Ls == \E p \in Paths : Begin("ls", p) /\ UNCHANGED <<stream, lost>>
Tree == Begin("tree", <<>>) /\ UNCHANGED <<stream, lost>>

(* shell_cmd_cat with a name without a slash.                                *)
Cat == \E n \in Names : Begin("cat", <<n>>) /\ UNCHANGED <<stream, lost>>

(* With a leading slash the first token is empty, and the name looked up is  *)
(* the empty one.                                                            *)
CatAbsolute == Begin("cat", <<<<>>>>) /\ UNCHANGED <<stream, lost>>

(* With a slash after a name the loop over the tokens never fetches the next *)
(* one.                                                                      *)
CatNested ==
    /\ cmd = Idle /\ lost = "no"
    /\ lost' = "spinning"
    /\ UNCHANGED <<vol, walk, stream>>

(* cat's search of the root list: an empty list is dereferenced, and after a *)
(* directory the next level is a pointer nobody set.                         *)
CatLookup ==
    /\ cmd.op = "cat" /\ rd.phase = "done" /\ lost = "no"
    /\ LET found == Matches(rd.list, Head(cmd.path)) IN
       IF rd.list = <<>>
       THEN lost' = "null" /\ UNCHANGED <<vol, walk, stream>>
       ELSE IF found = {}
       THEN Finish(-1) /\ UNCHANGED <<out, stream, lost>>
       ELSE IF rd.list[First(found)].is_dir
       THEN lost' = "wild" /\ UNCHANGED <<vol, walk, stream>>
       ELSE /\ FOpen(rd.list[First(found)], "r")
            /\ rd' = NoReader
            /\ UNCHANGED <<vol, cmd, super, it, chain, out, ret, failed, blocks, lost>>

CatRead == \E n \in ReadSizes : FRead(n) /\ UNCHANGED <<vol, walk, lost>>

CatClose ==
    /\ reads > 0 /\ FClose /\ Finish(-1) /\ UNCHANGED <<out, lost>>

Next ==
    \/ lost = "no" /\ (Ls \/ Tree \/ Cat \/ CatAbsolute)
    \/ CatNested \/ CatLookup \/ CatRead \/ CatClose
    \/ DirectoryStep /\ UNCHANGED <<stream, lost>>
    \/ FileStep(vol, super) /\ UNCHANGED <<vol, walk, lost>>

(* The processor goes on with the command it runs; nothing obliges a user to *)
(* type another.                                                             *)
Fairness ==
    /\ WF_vars(DirectoryStep /\ UNCHANGED <<stream, lost>>)
    /\ WF_vars(FileStep(vol, super) /\ UNCHANGED <<vol, walk, lost>>)
    /\ WF_vars(CatLookup) /\ WF_vars(CatRead) /\ WF_vars(CatClose)

Spec == Init /\ [][Next]_vars /\ Fairness
-----------------------------------------------------------------------------
(* Volumes the walks can follow.                                             *)

(* Every directory lies in consecutive clusters, and ends before its last    *)
(* cluster does.                                                             *)
Contiguous(v) ==
    \A c \in DOMAIN v.dirs :
        /\ v.next[c] \in {c + 1, LastCluster}
        /\ v.next[c] = LastCluster =>
               Len(v.dirs[c]) < v.clustersize * EntriesPerBlock

(* The sets of a directory are not cut off by its end, and the set of a      *)
(* directory, in use or deleted, leads to one.                               *)
SetsWhole(v) ==
    \A c \in DOMAIN v.dirs : \A i \in DOMAIN v.dirs[c] :
        LET e == v.dirs[c][i]
            second == EntryOf(v, c, i)
        IN e.code = "file" =>
              /\ \A k \in 1..e.secondary : EntryType(EntryOf(v, c, i - 1 + k)) # "end"
              /\ e.directory /\ second.code = "stream" => second.first \in DOMAIN v.dirs

(* The clusters that follow in a directory, and its root, are directories'.  *)
ChainsWhole(v) ==
    /\ v.rootdir_start \in DOMAIN v.dirs
    /\ \A c \in DOMAIN v.dirs : v.next[c] \in DOMAIN v.dirs \cup {LastCluster}

SoundVolumes == \A v \in Volumes : Contiguous(v) => ChainsWhole(v) /\ SetsWhole(v)

(* A volume as the format wants it: it fits on the card, its entries are of  *)
(* known types, and a set is a file, a stream and names.                     *)
Formatted(v) ==
    /\ Contiguous(v) /\ ChainsWhole(v) /\ SetsWhole(v)
    /\ \A c \in DOMAIN v.dirs :
          /\ cluster_to_block(v, c) + v.clustersize <= NumBlocks
          /\ \A i \in DOMAIN v.dirs[c] :
                LET e == v.dirs[c][i] IN
                /\ ~BadEntry(e)
                /\ e.code = "file" =>
                      /\ e.secondary >= 2 /\ EntryOf(v, c, i).code = "stream"
                      /\ \A k \in 2..e.secondary : EntryOf(v, c, i - 1 + k).code = "name"

(* No directory is below itself: a directory has a height, above the heights *)
(* of those in it.                                                           *)
IsTree(v) ==
    \E height \in [DOMAIN v.dirs -> 1..Cardinality(DOMAIN v.dirs)] :
        \A place \in Places(v) : FileOf(v, place).is_dir =>
            height[FileOf(v, place).start_cluster] < height[place.dir]

FormattedVolumes == \A v \in Volumes : Contiguous(v) => Formatted(v)
TreeVolumes == \A v \in Volumes : Contiguous(v) => Formatted(v) /\ IsTree(v)

(* Lines agree up to the part of a name the screen shows.                    *)
SameLine(l1, l2) ==
    /\ l1.depth = l2.depth /\ l1.is_dir = l2.is_dir
    /\ Head(l1.name) = Head(l2.name)

(* Lines that show nodes of the tree, in their order and each at most once.  *)
Shows(v, lines, nodes) ==
    /\ \A i, j \in DOMAIN nodes : i < j => Before(nodes[i], nodes[j])
    /\ \A i \in DOMAIN nodes :
          SameLine(lines[i], Line(Len(nodes[i]) - 1, FileOf(v, Last(nodes[i]))))
-----------------------------------------------------------------------------
Steps == {"off", "head", "rest", "next", "clusters", "blocks", "tail"}

(* The shape of the walk's and the stream's state.                           *)
TypeOK ==
    /\ vol \in Volumes /\ super \in Leftovers
    /\ cmd.op \in {"none", "ls", "tree", "cat"}
    /\ rd.phase \in {"off", "boot", "entry", "stream", "name", "done"}
    /\ rd.idx \in Nat /\ rd.left \in Nat /\ ret \in {0, -1}
    /\ fr.step \in Steps /\ fr.bytes_read \in 0..(SizeMod - 1)
    /\ fp.open => fp.pos \in 0..(SizeMod - 1)
    /\ fp.open /\ Own => fp.block_cluster_offset \in 0..(vol.clustersize - 1)
    /\ fp.open => fp.pos_block_offset \in 0..(BlockSize - 1)

(* A tree that ran without a failed read has printed the whole volume, every *)
(* file once and below its directory (test_printtree's stack, and the reader *)
(* that skips a file's secondary entries).                                   *)
TreeIsWhole ==
    [][cmd.op = "tree" /\ cmd' = Idle /\ ~failed /\ Contiguous(vol) =>
       \E nodes \in [DOMAIN out' -> Nodes(vol)] :
          /\ Shows(vol, out', nodes)
          /\ \A p \in Nodes(vol) : \E i \in DOMAIN nodes : nodes[i] = p]_vars

(* Whatever reads of directories fail, tree prints lines of the volume only, *)
(* in their order and each at most once: losing a directory's list leaves the*)
(* rest right.  Where the boot block could not be read it holds as long as   *)
(* the stack still had this volume's superblock.                             *)
TreeIsPart ==
    cmd.op = "tree" /\ Contiguous(vol) /\ Own =>
        \E nodes \in [DOMAIN out -> Nodes(vol)] : Shows(vol, out, nodes)

(* ls, with this volume's superblock, answers with the directory the path    *)
(* names, or with an error when it names none; a failed read may only turn   *)
(* the answer into an error or an empty list, never into another directory's.*)
LsAnswers ==
    [][cmd.op = "ls" /\ cmd' = Idle /\ Contiguous(vol) /\ Own =>
       LET dirs == Resolve(vol, cmd.asked) IN
       \/ ret' = -1 /\ (failed \/ dirs = {})
       \/ ret' = 0 /\ out' = <<>> /\ failed
       \/ ret' = 0 /\ \E c \in dirs :
             /\ DOMAIN out' = DOMAIN Files(vol, c)
             /\ \A i \in DOMAIN out' : SameLine(out'[i], Line(0, Files(vol, c)[i]))]_vars

(* On a volume whose directories are contiguous the readers, given its super-*)
(* block, never leave the directories' clusters (the boot block apart),      *)
(* although they never look at the table.                                    *)
WalkStaysInDirectories ==
    Contiguous(vol) /\ Own =>
        \A b \in blocks \ {0} : ClusterOf(vol, b) \in DOMAIN vol.dirs

(* Whatever reads fail, an ls or a tree that walks a contiguous volume with  *)
(* that volume's superblock ends: tree comes out of every nesting, and the   *)
(* reader stops at the end of each directory.                                *)
CommandsEnd ==
    (cmd.op \in {"ls", "tree"} /\ rd.phase # "boot" /\ Contiguous(vol) /\ Own) ~> (cmd = Idle)

(* What the comment over exfat_fread's body says of the last piece: the data *)
(* we want is copied to the given buffer, so that nothing lands past the     *)
(* bytes asked for.                                                          *)
WithinBuffer == \A g \in got : g.at + g.n <= fr.asked
=============================================================================
