------------------------------- MODULE Volume -------------------------------
(* An exFAT volume as the file-system code reads it (fs/fat.c): blocks are   *)
(* found by number, a directory is a run of 32-byte entries, the allocation  *)
(* table says which cluster follows which.  A volume is a record             *)
(*   clustersize, fat_offset, fat_length, active_fat, clusterheap_offset,    *)
(*   rootdir_start: the fields of struct exfat_superblock the code uses,     *)
(*   next   cluster -> the following one, LastCluster at the end of a chain, *)
(*   dirs   cluster -> the entries stored there (directory clusters only),   *)
(*   stray  what a word read outside the first table may hold.               *)
(* What the code knows of it is a superblock, a record of the first six: what*)
(* it finds follows from the blocks these numbers lead to (sb below) and from*)
(* what the volume holds there (vol).                                        *)
(* An entry is [code, use, ...]: its type code, its in-use bit, and for      *)
(* "file" secondary and directory, for "stream" first and length, for "name" *)
(* the part of the name it carries, for "label" len.                         *)
EXTENDS Integers, Sequences

CONSTANTS BlockSize,     \* bytes of a block of the card
          NumBlocks      \* blocks the card has

ASSUME VolumeAssumption ==
    /\ BlockSize \in Nat /\ BlockSize >= 32 /\ BlockSize % 32 = 0
    /\ NumBlocks \in Nat

EntrySize == 32
WordsPerBlock == BlockSize \div 4
EntriesPerBlock == BlockSize \div EntrySize
LastCluster == -1        \* 0xFFFFFFFF in the table
NoCluster == 1           \* what a failed look-up of the table returns

Superblock(vol) ==
    [clustersize |-> vol.clustersize, fat_offset |-> vol.fat_offset,
     fat_length |-> vol.fat_length, active_fat |-> vol.active_fat,
     clusterheap_offset |-> vol.clusterheap_offset, rootdir_start |-> vol.rootdir_start]

(* The first block of a cluster, as the 32-bit number the driver takes: below*)
(* cluster 2 the unsigned difference and the cut to 32 bits cancel out, and a*)
(* number below zero here stands for one far outside the card.               *)
cluster_to_block(sb, c) == (c - 2) * sb.clustersize + sb.clusterheap_offset

OnCard(b) == b \in 0..(NumBlocks - 1)

ClusterOf(vol, b) == (b - vol.clusterheap_offset) \div vol.clustersize + 2
BlockInCluster(vol, b) == (b - vol.clusterheap_offset) % vol.clustersize

Foreign == [code |-> "unknown", use |-> TRUE]   \* file data read as an entry
Blank == [code |-> "zero", use |-> FALSE]       \* zeroes: the end marker

(* The entry at slot k (from 0) of block b.                                  *)
EntryAt(vol, b, k) ==
    LET c == ClusterOf(vol, b)
        slot == BlockInCluster(vol, b) * EntriesPerBlock + k + 1
    IN IF b < vol.clusterheap_offset \/ c \notin DOMAIN vol.dirs THEN Foreign
       ELSE IF slot > Len(vol.dirs[c]) THEN Blank
       ELSE vol.dirs[c][slot]

(* exfat_dirent_interpret_entrytype: an all-zero code is the end marker, or  *)
(* invalid when its in-use bit is set.  The bit is ignored for the others.   *)
EntryType(e) ==
    IF e.code = "zero" THEN (IF e.use THEN "invalid" ELSE "end") ELSE e.code

(* exfat_read_directory_entry_data fails for these entries.                  *)
BadEntry(e) ==
    \/ EntryType(e) \in {"unknown", "invalid", "texfat"}
    \/ e.code = "label" /\ e.len > 11

(* Entries of the kinds whose content is not stored into the reader's union. *)
LeavesUnion(e) == EntryType(e) \in {"end", "vendor_ext", "vendor_alloc"}

(* exfat_read_directory_entry: the block and the slot of entry idx of a      *)
(* directory, counted from its first cluster on without consulting the table.*)
EntryBlock(sb, start, idx) ==
    (cluster_to_block(sb, start) * BlockSize + EntrySize * idx) \div BlockSize
EntrySlot(sb, start, idx) ==
    ((cluster_to_block(sb, start) * BlockSize + EntrySize * idx) % BlockSize)
        \div EntrySize

(* What is found there with a superblock, and with the volume's own.         *)
EntrySeen(vol, sb, start, idx) ==
    EntryAt(vol, EntryBlock(sb, start, idx), EntrySlot(sb, start, idx))
EntryOf(vol, start, idx) == EntrySeen(vol, vol, start, idx)

(* The first block of the table in use.                                      *)
FirstFatBlock(sb) == sb.fat_offset + sb.active_fat * sb.fat_length

(* fat_idx_to_cluster_idx: the start of the table is taken in bytes and the  *)
(* index in words, and their sum is divided by the words of a block.         *)
FatBlock(sb, i) == (FirstFatBlock(sb) * BlockSize + i) \div WordsPerBlock
FatSlot(sb, i) == (FirstFatBlock(sb) * BlockSize + i) % WordsPerBlock

(* The words that may be found at slot k of block b.                         *)
FatWords(vol, b, k) ==
    LET i == (b - FirstFatBlock(vol)) * WordsPerBlock + k IN
    IF b >= FirstFatBlock(vol) /\ i \in DOMAIN vol.next
    THEN {vol.next[i]} ELSE vol.stray

(* The name a list shows.  str_from_wchar counts one character too many for  *)
(* a full part when the byte after it, the low byte of the file's first      *)
(* cluster, is not zero: a zero then stays between the first two parts.      *)
ShownName(parts, first) ==
    IF first % 256 # 0 /\ Len(parts) > 1 THEN <<parts[1]>> ELSE parts

(* A part of a name made of whatever another entry, or unset memory, holds.  *)
Garbled == "garbled"
=============================================================================
