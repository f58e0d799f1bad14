------------------------------ MODULE Directory ------------------------------
(* The directory walks of fs/fat.c and fs/util.c: exfat_readdir_fromblock    *)
(* reads a directory entry by entry, one block read each; ls follows a path  *)
(* and lists the directory it names, tree lists the volume depth first with  *)
(* a stack of the directories it is in, and cat's look-up searches the root. *)
(* Every block read may fail: the card may be removed at any time.           *)
EXTENDS Volume, FiniteSets

CONSTANTS Volumes,       \* the volumes that may be in the slot
          Garbage,       \* what else the stack may hold for a superblock
          MaxLines       \* bound: lines of a tree with a foreign superblock

(* The fields the code reads are numbers, a cluster is not empty, directories*)
(* are lists of entries, and every file set has a stream extension at least. *)
VolumeOK(v) ==
    /\ v.clustersize \in Nat \ {0} /\ v.clusterheap_offset \in Nat
    /\ v.rootdir_start \in Nat
    /\ DOMAIN v.dirs \subseteq Nat \ {0, 1} /\ IsFiniteSet(DOMAIN v.dirs)
    /\ \A c \in DOMAIN v.dirs :
          /\ DOMAIN v.dirs[c] = 1..Len(v.dirs[c]) /\ Len(v.dirs[c]) \in Nat
          /\ \A i \in DOMAIN v.dirs[c] :
                LET e == v.dirs[c][i] IN
                /\ e.code = "file" => e.secondary \in Nat \ {0} /\ e.directory \in BOOLEAN
                /\ e.code = "stream" => e.first \in Nat /\ e.length \in Nat

ASSUME VolumesAssumption == \A v \in Volumes : VolumeOK(v)

(* What a command finds on its stack: an earlier command's superblock, of any*)
(* volume that has been in the slot, or garbage.                             *)
Leftovers == {Superblock(v) : v \in Volumes} \cup Garbage
ASSUME GarbageAssumption ==
    \A s \in Garbage :
        s.clustersize \in Nat /\ s.clusterheap_offset \in Nat /\ s.rootdir_start \in Nat

VARIABLES
    vol,      \* the volume in the slot
    cmd,      \* the command that runs: op, the path asked for (a sequence of
              \* names, a name being the sequence of its parts), what is left
    super,    \* the superblock on the command's stack
    rd,       \* the reader: phase, first cluster, index, list, current set
              \* and the part of a name its union holds
    it,       \* dirent_it: the rest of the list being walked
    chain,    \* tree: for each enclosing directory what follows it
    out,      \* the lines printed, as depth, name and is_dir
    ret,      \* what the last command returned
    failed,   \* history: a read has failed since the command began
    blocks    \* history: the blocks the command has read

walk == <<cmd, super, rd, it, chain, out, ret, failed, blocks>>

NoDirent == [name |-> <<>>, is_dir |-> FALSE, byte_size |-> 0, start_cluster |-> 0]
Idle == [op |-> "none", asked |-> <<>>, path |-> <<>>]
NoReader == [phase |-> "off", start |-> 0, idx |-> 0, list |-> <<>>,
             cur |-> NoDirent, left |-> 0, count |-> 0, part |-> Garbled]
Reader(c) == [NoReader EXCEPT !.phase = "entry", !.start = c]

DirectoryInit ==
    /\ vol \in Volumes
    /\ cmd = Idle /\ rd = NoReader /\ super \in Leftovers
    /\ it = <<>> /\ chain = <<>> /\ out = <<>> /\ ret = 0
    /\ failed = FALSE /\ blocks = {}

(* A command of the shell enters the file system.                            *)
Begin(op, path) ==
    /\ cmd = Idle
    /\ cmd' = [op |-> op, asked |-> path, path |-> path]
    /\ rd' = [NoReader EXCEPT !.phase = "boot"]
    /\ it' = <<>> /\ chain' = <<>> /\ out' = <<>> /\ ret' = 0
    /\ failed' = FALSE /\ blocks' = {}
    /\ UNCHANGED <<vol, super>>

Finish(value) ==
    /\ cmd' = Idle /\ rd' = NoReader /\ it' = <<>> /\ chain' = <<>>
    /\ ret' = value
    /\ UNCHANGED <<vol, super, failed, blocks>>

(* exfat_read_boot_block; no caller here looks at its result, and after a    *)
(* failure they go on with the superblock they find on their stack.          *)
ReadBoot(ok) ==
    /\ rd.phase = "boot"
    /\ IF ok THEN super' = Superblock(vol) ELSE super' \in Leftovers
    /\ rd' = Reader(super'.rootdir_start)
    /\ failed' = ~ok
    /\ blocks' = {0}
    /\ UNCHANGED <<vol, cmd, it, chain, out, ret>>

(* The command works with the superblock of the volume in the slot.          *)
Own == super = Superblock(vol)

(* One call of exfat_read_directory_entry: dev->read, then the entry.        *)
Block(i) == EntryBlock(super, rd.start, i)
Entry(i) == EntrySeen(vol, super, rd.start, i)
Reads(i, ok) ==
    /\ blocks' = blocks \union {Block(i)}
    /\ failed' = (failed \/ ~ok)
Got(i, ok) == ok /\ OnCard(Block(i)) /\ ~BadEntry(Entry(i))

(* Mutant: after a failed read the list found so far is kept and the reader  *)
(* starts again from the first entry.                                        *)
GiveUp_Again == rd' = [rd EXCEPT !.phase = "entry", !.idx = 0]

(* Mutant: after a failed read the directory is read again from its start.   *)
GiveUp_Retry == rd' = Reader(rd.start)

(* exfat_readdir_fromblock gives up: NULL, what was read so far is lost.     *)
GiveUp == rd' = [rd EXCEPT !.phase = "done", !.list = <<>>]

(* Mutant: the end marker is passed over like any other entry.               *)
ReadEntry_PastEnd(ok) ==
    /\ rd.phase = "entry"
    /\ Reads(rd.idx, ok)
    /\ LET e == Entry(rd.idx) IN
       IF ~Got(rd.idx, ok) THEN GiveUp
       ELSE IF EntryType(e) = "file"
       THEN rd' = [rd EXCEPT !.phase = "stream", !.count = e.secondary,
                             !.cur = [NoDirent EXCEPT !.is_dir = e.directory]]
       ELSE rd' = [rd EXCEPT !.idx = @ + 1]
    /\ UNCHANGED <<vol, cmd, super, it, chain, out, ret>>

(* The next entry of the directory: a file set begins, the list ends, or the *)
(* entry is of no interest.                                                  *)
ReadEntry(ok) ==
    /\ rd.phase = "entry"
    /\ Reads(rd.idx, ok)
    /\ LET e == Entry(rd.idx) IN
       IF ~Got(rd.idx, ok) THEN GiveUp
       ELSE IF EntryType(e) = "file"
       THEN rd' = [rd EXCEPT !.phase = "stream", !.count = e.secondary,
                             !.cur = [NoDirent EXCEPT !.is_dir = e.directory]]
       ELSE IF EntryType(e) = "end" THEN rd' = [rd EXCEPT !.phase = "done"]
       ELSE rd' = [rd EXCEPT !.idx = @ + 1]
    /\ UNCHANGED <<vol, cmd, super, it, chain, out, ret>>

(* The set is complete: link it, and go on after its last entry.             *)
Linked(r, cur) ==
    [r EXCEPT !.phase = "entry", !.list = Append(@, cur),
              !.idx = @ + r.count + 1, !.cur = NoDirent, !.left = 0, !.part = Garbled]

(* read_file_direntset: the stream extension must follow the file entry.  A  *)
(* set without more has the name that the memory for it happens to hold.     *)
ReadStream(ok) ==
    /\ rd.phase = "stream"
    /\ Reads(rd.idx + 1, ok)
    /\ LET e == Entry(rd.idx + 1) IN
       IF ~Got(rd.idx + 1, ok) \/ EntryType(e) # "stream" THEN GiveUp
       ELSE LET cur == [rd.cur EXCEPT !.byte_size = e.length,
                                      !.start_cluster = e.first]
            IN rd' = IF rd.count = 1
                     THEN Linked(rd, [cur EXCEPT !.name = <<Garbled>>])
                     ELSE [rd EXCEPT !.phase = "name", !.cur = cur,
                                     !.left = rd.count - 1, !.part = Garbled]
    /\ UNCHANGED <<vol, cmd, super, it, chain, out, ret>>

(* What the union offers as a part of a name once an entry has been read.    *)
PartAfter(e, part) ==
    IF EntryType(e) = "name" THEN e.part ELSE IF LeavesUnion(e) THEN part ELSE Garbled

(* Its name loop takes whatever entries follow for parts of the name.        *)
ReadName(ok) ==
    /\ rd.phase = "name"
    /\ LET i == rd.idx + 1 + (rd.count - rd.left) IN
       /\ Reads(i, ok)
       /\ IF ~Got(i, ok) THEN GiveUp
          ELSE LET part == PartAfter(Entry(i), rd.part)
                   cur == [rd.cur EXCEPT !.name = Append(@, part)]
                   shown == [cur EXCEPT !.name = ShownName(@, cur.start_cluster)]
               IN rd' = IF rd.left = 1 THEN Linked(rd, shown)
                        ELSE [rd EXCEPT !.cur = cur, !.left = @ - 1, !.part = part]
    /\ UNCHANGED <<vol, cmd, super, it, chain, out, ret>>
-----------------------------------------------------------------------------
Line(depth, d) == [depth |-> depth, name |-> d.name, is_dir |-> d.is_dir]

(* Mutant: the result of strcmp is taken for "the same".                     *)
Matches_Strcmp(list, name) == {i \in DOMAIN list : list[i].name # name}

Matches(list, name) == {i \in DOMAIN list : list[i].name = name}
First(S) == CHOOSE i \in S : \A j \in S : i <= j

(* ls: look the next component up in the list just read and read the         *)
(* directory it names; with no component left, print the list.               *)
LsStep ==
    /\ cmd.op = "ls" /\ rd.phase = "done"
    /\ IF cmd.path = <<>>
       THEN /\ out' = [i \in DOMAIN rd.list |-> Line(0, rd.list[i])]
            /\ Finish(0)
       ELSE LET found == Matches(rd.list, Head(cmd.path)) IN
            IF found = {} \/ ~rd.list[First(found)].is_dir
            THEN Finish(-1) /\ UNCHANGED out
            ELSE /\ rd' = Reader(rd.list[First(found)].start_cluster)
                 /\ cmd' = [cmd EXCEPT !.path = Tail(@)]
                 /\ UNCHANGED <<vol, super, it, chain, out, ret, failed, blocks>>

(* Mutant: the end of a list resumes the outermost directory.                *)
Resume_Outermost(list, stack) ==
    LET left == {k \in DOMAIN stack : stack[k] # <<>>}
        k == CHOOSE n \in left : \A m \in left : n <= m
    IN IF list # <<>> THEN it' = list /\ chain' = stack
       ELSE IF left = {} THEN it' = <<>> /\ chain' = <<>>
       ELSE it' = stack[k] /\ chain' = SubSeq(stack, 1, k - 1)

(* tree: after a list ends, go on after the nearest directory on the stack   *)
(* that has something left.                                                  *)
Resume(list, stack) ==
    LET left == {k \in DOMAIN stack : stack[k] # <<>>}
        k == CHOOSE n \in left : \A m \in left : m <= n
    IN IF list # <<>> THEN it' = list /\ chain' = stack
       ELSE IF left = {} THEN it' = <<>> /\ chain' = <<>>
       ELSE it' = stack[k] /\ chain' = SubSeq(stack, 1, k - 1)

TreeEnter ==
    /\ cmd.op = "tree" /\ rd.phase = "done"
    /\ Resume(rd.list, chain)
    /\ rd' = NoReader
    /\ UNCHANGED <<vol, cmd, super, out, ret, failed, blocks>>

(* test_printtree prints an entry; a directory goes on the stack and is read.*)
(* With a foreign superblock a directory may seem to lie in itself: the lines*)
(* are bounded then.                                                         *)
TreePrint ==
    /\ cmd.op = "tree" /\ rd.phase = "off" /\ it # <<>>
    /\ Own \/ Len(out) < MaxLines
    /\ out' = Append(out, Line(Len(chain), Head(it)))
    /\ IF Head(it).is_dir
       THEN /\ chain' = Append(chain, Tail(it))
            /\ rd' = Reader(Head(it).start_cluster)
            /\ UNCHANGED it
       ELSE Resume(Tail(it), chain) /\ UNCHANGED rd
    /\ UNCHANGED <<vol, cmd, super, ret, failed, blocks>>

TreeEnd ==
    /\ cmd.op = "tree" /\ rd.phase = "off" /\ it = <<>>
    /\ Finish(0) /\ UNCHANGED out

DirectoryStep ==
    \/ \E ok \in BOOLEAN : ReadBoot(ok) \/ ReadEntry(ok) \/ ReadStream(ok) \/ ReadName(ok)
    \/ LsStep \/ TreeEnter \/ TreePrint \/ TreeEnd
=============================================================================
