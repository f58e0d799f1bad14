----------------------------- MODULE MCMailbox ------------------------------
(***************************************************************************)
(* The request for the run of Mailbox: a tag of two words with an input.   *)
(***************************************************************************)
EXTENDS Mailbox

OneRequest == {[known |-> TRUE, words |-> 2, input |-> "in"]}
=============================================================================
