------------------------------ MODULE Terminal ------------------------------
(***************************************************************************)
(* What the console of src/src/drivers/graphics/console.c is for: the last *)
(* lines written are on the screen, every character in the colour in force *)
(* when it was written, and a temporary change of colour ends.             *)
(***************************************************************************)
EXTENDS Integers, Sequences

CONSTANTS
    Width,      \* the longest line
    Colors      \* what characters are drawn in

VARIABLES
    height,     \* how many lines are kept; 0 until the screen is on
    lines,      \* the lines kept, oldest first: a color or "blank" per cell
    length,     \* characters in the newest line
    plain,      \* the colour
    shown       \* the colour in force: plain, or a temporary one

vars == <<height, lines, length, plain, shown>>

EmptyLine == [x \in 1..Width |-> "blank"]

Init == height = 0 /\ lines = <<>> /\ length = 0 /\ plain \in Colors /\ shown = plain

SwitchOn ==
    /\ height = 0 /\ height' \in Nat \ {0}
    /\ lines' = <<EmptyLine>> /\ length' = 0
    /\ plain' \in Colors /\ shown' = plain'

Put(inked) ==
    /\ height > 0 /\ length < Width
    /\ lines' = [lines EXCEPT ![Len(lines)][length + 1] = IF inked THEN shown ELSE "blank"]
    /\ length' = length + 1
    /\ UNCHANGED <<height, plain, shown>>

NewLine ==
    /\ height > 0
    /\ lines' = Append(IF Len(lines) = height THEN Tail(lines) ELSE lines, EmptyLine)
    /\ length' = 0
    /\ UNCHANGED <<height, plain, shown>>

SetColor(c)  == plain' = c /\ shown' = c /\ UNCHANGED <<height, lines, length>>
Highlight(c) == shown' = c /\ UNCHANGED <<height, lines, length, plain>>
Restore      == shown' = plain /\ UNCHANGED <<height, lines, length, plain>>

Next ==
    \/ SwitchOn
    \/ \E inked \in BOOLEAN : Put(inked)
    \/ NewLine
    \/ \E c \in Colors : SetColor(c) \/ Highlight(c)
    \/ Restore

Spec == Init /\ [][Next]_vars
=============================================================================
