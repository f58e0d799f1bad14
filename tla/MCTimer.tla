------------------------------- MODULE MCTimer -------------------------------
(***************************************************************************)
(* Timer on a counter of a few values, with delays that stay before the    *)
(* wrap, reach it and cross it.                                            *)
(***************************************************************************)
EXTENDS Timer

MCUsecs == {-1, 0, 1, 3, 5}

=============================================================================
