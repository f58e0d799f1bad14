------------------------------- MODULE MCMalloc -------------------------------
(* A heap of three small pages for the run of Malloc.                        *)
EXTENDS Malloc

(* Heaps that differ in memory no chunk's head or foot accounts for behave   *)
(* alike: nothing reads it.                                                  *)
WithoutStaleWords ==
    <<live, kept, gm.bins, gm.dv, gm.dvsize, gm.top, gm.topsize, gm.brk, gm.contiguous,
      {<<p, gm.head[p]>> : p \in Walk(gm)},
      {<<p, gm.foot[After(gm, p)]>> : p \in FreeChunks(gm)}>>
=============================================================================
