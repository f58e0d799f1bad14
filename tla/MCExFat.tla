------------------------------- MODULE MCExFat -------------------------------
(* Three small volumes for the run of ExFat, with four entries to a block.   *)
EXTENDS ExFat

Label == [code |-> "label", use |-> TRUE, len |-> 4]
Bitmap == [code |-> "bitmap", use |-> TRUE]
Set(use, dir, parts, c, n) ==
    <<[code |-> "file", use |-> use, directory |-> dir, secondary |-> Len(parts) + 1],
      [code |-> "stream", use |-> use, first |-> c, length |-> n]>>
    \o [i \in 1..Len(parts) |-> [code |-> "name", use |-> use, part |-> parts[i]]]

Base == [fat_offset |-> 2, fat_length |-> 1, clusterheap_offset |-> 4,
         rootdir_start |-> 2]

(* Two blocks to a cluster: a directory with an empty one below it.          *)
Nested == Base @@
    [clustersize |-> 2, active_fat |-> 0, stray |-> {LastCluster, 3},
     next |-> [c \in 2..7 |-> IF c = 5 THEN 6 ELSE LastCluster],
     dirs |-> (2 :> (<<Bitmap>> \o Set(TRUE, TRUE, <<"d">>, 3, 0)
                     \o Set(TRUE, FALSE, <<"f">>, 5, 300)))
           @@ (3 :> (Set(TRUE, TRUE, <<"e">>, 4, 0) \o Set(TRUE, FALSE, <<"g">>, 7, 4)))
           @@ (4 :> <<>>)]

(* One block to a cluster: a directory of three clusters with a deleted file *)
(* and a name of two parts.                                                  *)
Long == Base @@
    [clustersize |-> 1, active_fat |-> 1, stray |-> {6},
     next |-> [c \in 2..6 |-> IF c \in {2, 3, 5} THEN c + 1 ELSE LastCluster],
     dirs |-> (2 :> (<<Label>> \o Set(FALSE, FALSE, <<"x">>, 0, 0)))
           @@ (3 :> Set(TRUE, FALSE, <<"l", "m">>, 5, 256))
           @@ (4 :> Set(TRUE, FALSE, <<"f">>, 6, 100))]

(* The root's second cluster does not follow its first.                      *)
Split == Base @@
    [clustersize |-> 1, active_fat |-> 0, stray |-> {1},
     next |-> [c \in 2..4 |-> IF c = 2 THEN 4 ELSE LastCluster],
     dirs |-> (2 :> (<<Bitmap>> \o Set(TRUE, FALSE, <<"f">>, 3, 128))) @@ (4 :> <<>>)]

(* What else a command may find on its stack: the fields of a superblock that*)
(* was overwritten, with no blocks to a cluster or with another root.        *)
Overwritten ==
    {[Superblock(Nested) EXCEPT !.clustersize = 0],
     [Superblock(Nested) EXCEPT !.rootdir_start = 3],
     [Superblock(Long) EXCEPT !.clusterheap_offset = 0, !.rootdir_start = 0]}

AllVolumes == {Nested, Long, Split}
SomeNames == {<<"f">>, <<"d">>, <<"x">>}
SomePaths == {<<>>, <<<<"d">>>>, <<<<"d">>, <<"e">>>>, <<<<"f">>>>, <<<<"d">>, <<>>>>}

(* The hypotheses of the theorems hold of these volumes.                     *)
ASSUME VolumesSound == SoundVolumes /\ TreeVolumes
=============================================================================
