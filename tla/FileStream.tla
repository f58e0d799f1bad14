----------------------------- MODULE FileStream -----------------------------
(* exfat_fopen, exfat_fread and exfat_fclose of fs/fat.c.  A read goes in    *)
(* steps: the rest of the block the stream is in, the rest of its cluster,   *)
(* whole clusters, whole blocks, a last block.  The code ignores whether the *)
(* device read succeeded, and all sizes are unsigned (modulo SizeMod).  The  *)
(* stream works with the superblock (sb) of the command that opened the file.*)
EXTENDS Volume

CONSTANTS SizeMod,       \* 2^w for the width w of size_t
          MaxReads       \* bound: reads on one stream

ASSUME FileAssumption == SizeMod \in Nat /\ SizeMod > BlockSize /\ MaxReads \in Nat

VARIABLES
    fp,       \* the open FILE with its struct exfat_file_opaque, or NoFile
    fr,       \* the read in progress: step, ptr offset, sizes, counters
    got,      \* history: the pieces copied to the caller's buffer
    reads     \* history: reads made on this stream

stream == <<fp, fr, got, reads>>

Wrap(n) == n % SizeMod
NoFile == [open |-> FALSE]
NoRead == [step |-> "off", asked |-> 0, byte_size |-> 0, bytes_read |-> 0,
           loose |-> 0, clusters |-> 0, pos |-> 0, looked |-> 0]
ClusterBytes(sb) == Wrap(sb.clustersize * BlockSize)

(* A division by zero gives zero on the processor, and leaves all as the rest*)
Quot(n, d) == IF d = 0 THEN 0 ELSE n \div d
Rem(n, d) == IF d = 0 THEN n ELSE n % d

FileInit == fp = NoFile /\ fr = NoRead /\ got = {} /\ reads = 0

(* exfat_fopen: any mode but "r" fails.                                      *)
FOpen(d, mode) ==
    /\ ~fp.open
    /\ fp' = IF mode # "r" THEN NoFile
             ELSE [open |-> TRUE, pos |-> 0, len |-> d.byte_size,
                   first_cluster |-> d.start_cluster,
                   current_cluster |-> d.start_cluster,
                   block_cluster_offset |-> 0, pos_block_offset |-> 0]
    /\ reads' = 0
    /\ UNCHANGED <<fr, got>>

(* exfat_fclose                                                              *)
FClose ==
    /\ fp.open /\ fr.step = "off"
    /\ fp' = NoFile /\ fr' = NoRead /\ got' = {} /\ reads' = 0

(* What lands in the caller's buffer: n bytes at `at', from byte `off' of    *)
(* block b; OldContent stands for what an unread block buffer held before.   *)
OldContent == -1
Piece(at, n, b, off) ==
    got' = IF n > 0 THEN got \union {[at |-> at, n |-> n, block |-> b, off |-> off]} ELSE got

(* memcpy from the buffer of one block, made whether the block was read or   *)
(* not, and a device read straight into the caller's buffer.                 *)
Copy(at, n, b, off, ok) == Piece(at, n, IF ok /\ OnCard(b) THEN b ELSE OldContent, off)
Direct(at, n, b, ok) ==
    IF ok /\ OnCard(b) /\ OnCard(b + n \div BlockSize - 1) THEN Piece(at, n, b, 0) ELSE got' = got

(* exfat_fread is called: the size is cut to what is left of the file.       *)
FRead(n) ==
    /\ fp.open /\ fr.step = "off" /\ reads < MaxReads
    /\ fr' = [NoRead EXCEPT
                !.step = "head", !.asked = n, !.pos = fp.pos,
                !.byte_size = IF Wrap(fp.pos + n) >= fp.len
                              THEN Wrap(fp.len - fp.pos) ELSE n]
    /\ got' = {} /\ reads' = reads + 1
    /\ UNCHANGED fp

(* Mutant: the offset into the cluster is not reset at its end.              *)
ReadHead_NoReset(sb, ok) ==
    /\ fr.step = "head"
    /\ LET n == BlockSize - fp.pos_block_offset
           b == cluster_to_block(sb, fp.current_cluster) + fp.block_cluster_offset
           next == fp.block_cluster_offset + 1
           atEnd == next = sb.clustersize
       IN /\ Copy(0, n, b, fp.pos_block_offset, ok)
          /\ fr' = [fr EXCEPT !.bytes_read = n, !.step = IF atEnd THEN "next" ELSE "rest"]
          /\ fp' = [fp EXCEPT !.pos_block_offset = 0, !.block_cluster_offset = next]
    /\ UNCHANGED reads

(* The rest of the block the stream stands in.                               *)
ReadHead(sb, ok) ==
    /\ fr.step = "head"
    /\ LET n == BlockSize - fp.pos_block_offset
           b == cluster_to_block(sb, fp.current_cluster) + fp.block_cluster_offset
           next == fp.block_cluster_offset + 1
           atEnd == next = sb.clustersize
       IN /\ Copy(0, n, b, fp.pos_block_offset, ok)
          /\ fr' = [fr EXCEPT !.bytes_read = n, !.step = IF atEnd THEN "next" ELSE "rest"]
          /\ fp' = [fp EXCEPT !.pos_block_offset = 0,
                              !.block_cluster_offset = IF atEnd THEN 0 ELSE next]
    /\ UNCHANGED reads

(* The rest of the cluster: as many blocks as are left, but read from the    *)
(* first block of the cluster.                                               *)
ReadRest(sb, ok) ==
    /\ fr.step = "rest"
    /\ LET n == Wrap(BlockSize * (sb.clustersize - fp.block_cluster_offset))
       IN /\ Direct(fr.bytes_read, n, cluster_to_block(sb, fp.current_cluster), ok)
          /\ fr' = [fr EXCEPT !.bytes_read = Wrap(@ + n), !.step = "next"]
          /\ fp' = [fp EXCEPT !.pos_block_offset = 0, !.block_cluster_offset = 0]
    /\ UNCHANGED reads

(* fat_idx_to_cluster_idx as a step: the cluster after the current one.      *)
LookUp(vol, sb, ok) ==
    LET c == fp.current_cluster IN
    \E word \in IF ok /\ OnCard(FatBlock(sb, c))
                THEN FatWords(vol, FatBlock(sb, c), FatSlot(sb, c))
                ELSE {NoCluster} :
        fp' = [fp EXCEPT !.current_cluster = word]

(* The first look-up, and the count of the clusters to read whole.           *)
NextCluster(vol, sb, ok) ==
    /\ fr.step = "next"
    /\ LookUp(vol, sb, ok)
    /\ LET left == Wrap(fr.byte_size - fr.bytes_read)
           loose == Rem(left, ClusterBytes(sb))
       IN fr' = [fr EXCEPT !.loose = loose, !.step = "clusters",
                           !.clusters = Quot(left - loose, sb.clustersize) \div BlockSize,
                           !.looked = 1]
    /\ UNCHANGED <<got, reads>>

(* One round of the loop over clusters.  exfat_read_cluster_to_buf wants the *)
(* buffer's size in blocks and is given it in bytes: it refuses, unheard.    *)
ReadCluster(vol, sb, ok) ==
    /\ fr.step = "clusters" /\ fr.clusters > 0
    /\ LookUp(vol, sb, ok)
    /\ fr' = [fr EXCEPT !.bytes_read = Wrap(@ + ClusterBytes(sb)),
                        !.clusters = @ - 1, !.looked = @ + 1]
    /\ UNCHANGED <<got, reads>>

(* The whole blocks that remain.                                             *)
ReadBlocks(sb, ok) ==
    /\ fr.step = "clusters" /\ fr.clusters = 0
    /\ LET n == (fr.loose \div BlockSize) * BlockSize
       IN /\ Direct(fr.bytes_read, n, cluster_to_block(sb, fp.current_cluster), ok)
          /\ fr' = [fr EXCEPT !.bytes_read = Wrap(@ + n), !.loose = @ - n, !.step = "tail"]
          /\ fp' = [fp EXCEPT !.block_cluster_offset = n \div BlockSize]
    /\ UNCHANGED reads

(* The last block, read whole, counted whole, and copied after what it was   *)
(* counted for; then the stream's position moves on and the call returns.    *)
ReadTail(sb, ok) ==
    /\ fr.step = "tail"
    /\ LET total == Wrap(fr.bytes_read + BlockSize)
           b == cluster_to_block(sb, fp.current_cluster) + fp.block_cluster_offset
       IN /\ Copy(total, fr.loose, b, 0, ok)
          /\ fp' = [fp EXCEPT !.pos = Wrap(@ + total), !.pos_block_offset = fr.loose]
          /\ fr' = [fr EXCEPT !.step = "off", !.bytes_read = total]
    /\ UNCHANGED reads

FileStep(vol, sb) ==
    \E ok \in BOOLEAN :
        \/ ReadHead(sb, ok) \/ ReadRest(sb, ok) \/ NextCluster(vol, sb, ok)
        \/ ReadCluster(vol, sb, ok) \/ ReadBlocks(sb, ok) \/ ReadTail(sb, ok)
=============================================================================
