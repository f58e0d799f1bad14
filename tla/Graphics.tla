------------------------------ MODULE Graphics ------------------------------
(* The moving box of shell_cmd_graphics (kernel/shell.c), drawn with         *)
(* set_rectangle (drivers/graphics/fb_pixels.c), pixel by pixel.  The numbers*)
(* of the code are 640, 480, 100, 100, 100, 4 and, for 24 bits a pixel, 1.   *)
EXTENDS Integers

CONSTANTS
    Width, Height,      \* what fb_dims returns
    box_w, box_h,
    Start,              \* where the box is at first, on both axes
    Step,               \* pixels a frame
    Shift               \* 0 with one byte a pixel, else 1: see Painted

ASSUME GraphicsAssumption ==
    /\ {Width, Height, box_w, box_h, Start, Step, Shift} \subseteq Nat
    /\ Start + box_w < Width /\ Start + box_h < Height
    /\ box_w + 2 * Step <= Width /\ box_h + 2 * Step <= Height
    /\ Shift \in {0, 1}

VARIABLES
    frame,              \* "off", or what the frame loop does next
    box_x, box_y, box_v_x, box_v_y,
    drawn,              \* where the box was drawn last
    lit,                \* the pixels in the colour of the box
    wild                \* a rectangle went past the frame buffer

box == <<box_x, box_y, box_v_x, box_v_y>>
graphicsVars == <<frame, box, drawn, lit, wild>>

Pixels == (0..(Width - 1)) \X (0..(Height - 1))
Rectangle(x, y, w, h) == (x..(x + w - 1)) \X (y..(y + h - 1))

(* set_rectangle refuses a corner off the display, a negative one with it,   *)
(* which is a large one in its parameters.                                   *)
Refused(x, y) == x \notin 0..Width \/ y \notin 0..Height

(* With more than one byte a pixel the offset is advanced before each write. *)
Painted(x, y, w, h) == IF Refused(x, y) THEN {} ELSE Rectangle(x + Shift, y, w, h)
PastBuffer(x, y, w, h) ==
    ~Refused(x, y) /\ (w < 0 \/ h < 0 \/ ~(Rectangle(x + Shift, y, w, h) \subseteq Pixels))

GraphicsInit ==
    /\ frame = "off" /\ lit = {} /\ wild = FALSE
    /\ box_x = Start /\ box_y = Start /\ box_v_x = 0 /\ box_v_y = 0
    /\ drawn = <<Start, Start>>

Open ==
    /\ frame = "off" /\ frame' = "blank"
    /\ box_x' = Start /\ box_y' = Start /\ box_v_x' = 0 /\ box_v_y' = 0
    /\ UNCHANGED <<drawn, lit, wild>>

(* Mutant: the strip to the right of the box is as wide as the box's offset. *)
RightOfBox_Narrow == <<box_x + box_w, box_y, box_x, box_h>>

(* The four rectangles around the box.                                       *)
LeftOfBox == <<0, 0, box_x, Height>>
AboveBox == <<box_x, 0, Width - box_x - 1, box_y>>
BelowBox == <<box_x, box_y + box_h, Width - box_x - 1, Height - (box_y + box_h)>>
RightOfBox == <<box_x + box_w, box_y, Width - (box_x + box_w) - 1, box_h>>
Around == {LeftOfBox, AboveBox, BelowBox, RightOfBox}

Blank ==
    /\ frame = "blank" /\ frame' = "key"
    /\ lit' = lit \ UNION {Painted(r[1], r[2], r[3], r[4]) : r \in Around}
    /\ wild' = (wild \/ \E r \in Around : PastBuffer(r[1], r[2], r[3], r[4]))
    /\ UNCHANGED <<box, drawn>>

(* A key, or none; b only changes the colours of the background, so that it  *)
(* is no more than an unknown key here.                                      *)
Key(vx, vy) ==
    /\ frame = "key" /\ frame' = "draw"
    /\ box_v_x' = vx /\ box_v_y' = vy
    /\ UNCHANGED <<box_x, box_y, drawn, lit, wild>>

ReadKey ==
    \/ Key(box_v_x, box_v_y)
    \/ \E v \in {-Step, Step} : Key(v, box_v_y) \/ Key(box_v_x, v)
    \/ Key(0, 0)

(* q: what is left of the box stays on the display.                          *)
Quit ==
    /\ frame = "key" /\ frame' = "off"
    /\ UNCHANGED <<box, drawn, lit, wild>>

Draw ==
    /\ frame = "draw" /\ frame' = "move"
    /\ lit' = lit \cup Painted(box_x, box_y, box_w, box_h)
    /\ wild' = (wild \/ PastBuffer(box_x, box_y, box_w, box_h))
    /\ drawn' = <<box_x, box_y>>
    /\ UNCHANGED box

(* Mutant: the box may leave the display by one step.                        *)
Turns_Late(p, v, size, limit) == p < 0 \/ p + size >= limit

(* The box turns around when its next place would not be on the display, and *)
(* moves even so.                                                            *)
Turns(p, v, size, limit) == p + v < 0 \/ p + v + size >= limit

Move ==
    /\ frame = "move" /\ frame' = "wait"
    /\ box_v_x' = IF Turns(box_x, box_v_x, box_w, Width) THEN -box_v_x ELSE box_v_x
    /\ box_v_y' = IF Turns(box_y, box_v_y, box_h, Height) THEN -box_v_y ELSE box_v_y
    /\ box_x' = box_x + box_v_x' /\ box_y' = box_y + box_v_y'
    /\ UNCHANGED <<drawn, lit, wild>>

(* compare_timer says that the frame is over.                                *)
EndFrame ==
    /\ frame = "wait" /\ frame' = "blank"
    /\ UNCHANGED <<box, drawn, lit, wild>>

GraphicsNext == Open \/ Blank \/ ReadKey \/ Quit \/ Draw \/ Move \/ EndFrame
GraphicsSpec == GraphicsInit /\ [][GraphicsNext]_graphicsVars

(* Between two frames the display shows the box where it was drawn last and  *)
(* nothing of where it was before, though set_rectangle paints a pixel to the*)
(* right, column 0 is never cleared, and no rectangle covers the whole       *)
(* display; and no rectangle goes past the frame buffer, though the sizes are*)
(* differences in unsigned words and the box turns only at the next step.    *)
NoTrail ==
    /\ ~wild
    /\ frame \in {"move", "wait"}
          => lit = Rectangle(drawn[1] + Shift, drawn[2], box_w, box_h)
=============================================================================
