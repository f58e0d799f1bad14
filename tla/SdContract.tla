----------------------------- MODULE SdContract -----------------------------
(***************************************************************************)
(* What sd_issue_command promises its callers in emmc.c: a command is      *)
(* executed at most once, a reported success means it was, and after a     *)
(* failure last_error tells an error of the bus from a driver timeout.     *)
(* EmmcDriver takes every command for one step on the strength of this.    *)
(***************************************************************************)
EXTENDS Integers

CONSTANT ErrorSets      \* what last_error can be

VARIABLES
    pending,    \* a call is under way
    executed,   \* the card has executed the call's command
    success,    \* last_cmd_success, between calls
    error       \* last_error

vars == <<pending, executed, success, error>>

Init == pending = FALSE /\ executed = FALSE /\ success = FALSE /\ error = {}

Ask ==
    /\ ~pending /\ pending' = TRUE /\ executed' = FALSE /\ success' = FALSE
    /\ UNCHANGED error

Execute ==
    /\ pending /\ ~executed /\ executed' = TRUE
    /\ UNCHANGED <<pending, success, error>>

(* Only a success requires the card; it leaves last_error as it was.       *)
Answer(ok, e) ==
    /\ pending /\ pending' = FALSE /\ success' = ok /\ error' = e
    /\ ok => executed /\ e = error
    /\ UNCHANGED executed

Next == Ask \/ Execute \/ \E ok \in BOOLEAN, e \in ErrorSets : Answer(ok, e)

Spec == Init /\ [][Next]_vars

(* Every call is answered.                                                 *)
FairSpec == Spec /\ WF_vars(\E ok \in BOOLEAN, e \in ErrorSets : Answer(ok, e))
=============================================================================
