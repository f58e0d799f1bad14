------------------------------ MODULE Console -------------------------------
(***************************************************************************)
(* The graphical console of src/src/drivers/graphics/console.c with the    *)
(* drawing of fb_pixels.c and the switch in framebuf.c, in character cells. *)
(* Rows and columns count from 0, as in the code.  The background colour   *)
(* is left out: it is set once, before the screen is on.                   *)
(***************************************************************************)
EXTENDS Integers, Sequences

CONSTANTS
    Screen,     \* [cols, rows]: the display main.c asks for
    Boot,       \* the displays the firmware may have set up before that
    Longest,    \* bound: characters in a line of output
    LastRow,    \* bound: the row at which output stops
    Colors

CONFIG_CONSOLE_MIN_ROWS_BELOW == 1

(* console_init sizes the console by the firmware's display, and never     *)
(* again: it must not be larger than the display it is used on, nor so low *)
(* that no row is left.                                                    *)
ASSUME ConsoleAssumption ==
    /\ Screen \in [cols : Nat \ {0}, rows : Nat \ {0}]
    /\ \A d \in Boot : /\ d \in [cols : 1..Screen.cols, rows : 1..Screen.rows]
                       /\ d.rows > CONFIG_CONSOLE_MIN_ROWS_BELOW
    /\ Longest \in Nat /\ LastRow \in Nat
    /\ "blank" \notin Colors

VARIABLES
    enabled, framebuf_enabled,
    col, row, cols, rows,       \* console_descriptor
    fg_color, fg_reset_color,
    screen,                     \* what is on the display, by row and column
    outside,                    \* a cell below the last row was written
    length,                     \* characters since the last '\n'
    temporary                   \* a temporary colour is in force

cursor  == <<col, row, length>>
colours == <<fg_color, fg_reset_color, temporary>>
vars    == <<enabled, framebuf_enabled, cols, rows, cursor, colours, screen, outside>>

Blank == [y \in 0..Screen.rows - 1 |-> [x \in 0..Screen.cols - 1 |-> "blank"]]

SwitchesOK ==
    /\ enabled \in BOOLEAN /\ framebuf_enabled \in BOOLEAN
    /\ outside \in BOOLEAN /\ temporary \in BOOLEAN

CursorOK ==
    /\ cols \in 0..Screen.cols /\ rows \in 0..Screen.rows
    /\ col \in 0..Screen.cols - 1 /\ row \in Nat /\ length \in 0..Longest

Screens == [0..Screen.rows - 1 -> [0..Screen.cols - 1 -> Colors \cup {"blank"}]]

(* Every variable has its type: the cursor's column is on the display, and *)
(* the colour in force is never the zero that fg_reset_color starts as.    *)
TypeOK ==
    /\ SwitchesOK /\ CursorOK /\ screen \in Screens
    /\ fg_color \in Colors /\ fg_reset_color \in Colors \cup {"zero"}

Init ==
    /\ enabled = FALSE /\ framebuf_enabled = FALSE
    /\ col = 0 /\ row = 0 /\ cols = 0 /\ rows = 0 /\ length = 0
    /\ fg_color \in Colors /\ fg_reset_color = "zero" /\ temporary = FALSE
    /\ screen = Blank /\ outside = FALSE

(* console_init, with the display the firmware reports.                    *)
ConsoleInit(d) ==
    /\ ~enabled /\ enabled' = TRUE
    /\ cols' = d.cols /\ rows' = d.rows /\ col' = 0 /\ row' = 0
    /\ UNCHANGED <<framebuf_enabled, length, colours, screen, outside>>

(* fb_alloc succeeds; main.c sets the colours and clears the screen.       *)
ScreenOn(c) ==
    /\ enabled /\ ~framebuf_enabled /\ framebuf_enabled' = TRUE
    /\ ~temporary
    /\ fg_color' = c /\ screen' = Blank
    /\ UNCHANGED <<enabled, cols, rows, cursor, fg_reset_color, temporary, outside>>

-----------------------------------------------------------------------------
(* Drawing.  The bounds tests of fb_pixels.c let the row just below the    *)
(* screen pass; what is written there is on no row.                        *)

(* Mutant of Scrolled: memcpy starts at the end of the overlapping areas.   *)
Scrolled_FromEnd(s) ==
    [y \in DOMAIN s |-> [x \in DOMAIN s[y] |->
        IF x >= cols \/ y >= rows THEN s[y][x]
        ELSE IF y = rows - 1 THEN "blank"
        ELSE s[rows - 1][x]]]

(* console_scroll_down(1): the rows of the console move up, the last one   *)
(* is erased.  The areas overlap, but memcpy copies forwards.              *)
Scrolled(s) ==
    [y \in DOMAIN s |-> [x \in DOMAIN s[y] |->
        IF x >= cols \/ y >= rows THEN s[y][x]
        ELSE IF y = rows - 1 THEN "blank"
        ELSE s[y + 1][x]]]

(* console_erase_character and console_write_from_bitmap_with_colors.      *)
Drawn(s, inked) ==
    IF row \in DOMAIN s
    THEN [s EXCEPT ![row][col] = IF inked THEN fg_color ELSE "blank"]
    ELSE s

(* console_next_pos: a full row is left for the next; only past the last   *)
(* row of all does the console scroll.                                     *)
NextPos(s) ==
    IF col + 1 < cols
    THEN col' = col + 1 /\ row' = row /\ screen' = s
    ELSE /\ col' = 0
         /\ IF row + 1 = rows
            THEN row' = row /\ screen' = Scrolled(s)
            ELSE row' = row + 1 /\ screen' = s

(* console_putc of a character with ink in its glyph or without.  Off the  *)
(* screen, a glyph with ink is refused and the cursor stays.               *)
PutCharacter(inked) ==
    /\ enabled /\ framebuf_enabled
    /\ length < Longest /\ length' = length + 1
    /\ IF row < Screen.rows \/ ~inked
       THEN NextPos(Drawn(screen, inked))
       ELSE UNCHANGED <<col, row, screen>>
    /\ outside' = (outside \/ row = Screen.rows)
    /\ UNCHANGED <<enabled, framebuf_enabled, cols, rows, colours>>

(* Mutant of PutNewline: the row kept free below is forgotten.             *)
PutNewline_AllRows ==
    /\ enabled /\ framebuf_enabled
    /\ row < LastRow
    /\ col' = 0 /\ length' = 0
    /\ IF row + 1 = rows
       THEN row' = row /\ screen' = Scrolled(screen)
       ELSE row' = row + 1 /\ screen' = screen
    /\ UNCHANGED <<enabled, framebuf_enabled, cols, rows, colours, outside>>

(* console_putc('\n'): exactly at the limit the console scrolls.           *)
PutNewline ==
    /\ enabled /\ framebuf_enabled
    /\ row < LastRow
    /\ col' = 0 /\ length' = 0
    /\ IF row + 1 = rows - CONFIG_CONSOLE_MIN_ROWS_BELOW
       THEN row' = row /\ screen' = Scrolled(screen)
       ELSE row' = row + 1 /\ screen' = screen
    /\ UNCHANGED <<enabled, framebuf_enabled, cols, rows, colours, outside>>

(* Output before the screen is on goes nowhere.                            *)
PutNowhere ==
    /\ ~(enabled /\ framebuf_enabled)
    /\ UNCHANGED vars

-----------------------------------------------------------------------------
(* Colours.  The callers end one temporary change before they begin        *)
(* another, and set colours only in between.                               *)

SetFgColor(c) ==
    /\ ~temporary /\ fg_color' = c
    /\ UNCHANGED <<enabled, framebuf_enabled, cols, rows, cursor, fg_reset_color, temporary,
                   screen, outside>>

(* Mutant of SetTmpFgColor: the colour to return to is not stored.         *)
SetTmpFgColor_NoStore(c) ==
    /\ ~temporary /\ temporary' = TRUE
    /\ fg_color' = c /\ UNCHANGED fg_reset_color
    /\ UNCHANGED <<enabled, framebuf_enabled, cols, rows, cursor, screen, outside>>

SetTmpFgColor(c) ==
    /\ ~temporary /\ temporary' = TRUE
    /\ fg_reset_color' = fg_color /\ fg_color' = c
    /\ UNCHANGED <<enabled, framebuf_enabled, cols, rows, cursor, screen, outside>>

ResetColors ==
    /\ temporary /\ temporary' = FALSE
    /\ fg_color' = fg_reset_color
    /\ UNCHANGED <<enabled, framebuf_enabled, cols, rows, cursor, fg_reset_color, screen,
                   outside>>

Next ==
    \/ \E d \in Boot : ConsoleInit(d)
    \/ \E c \in Colors : ScreenOn(c) \/ SetFgColor(c) \/ SetTmpFgColor(c)
    \/ \E inked \in BOOLEAN : PutCharacter(inked)
    \/ PutNewline \/ PutNowhere \/ ResetColors

Spec == Init /\ [][Next]_vars

-----------------------------------------------------------------------------
(* Every line of output is shorter than a row of the console.              *)
LinesFit == \A d \in Boot : Longest < d.cols

(* With lines shorter than a row the console is a terminal that keeps as   *)
(* many lines as it has rows above the free ones: scrolling moves all of   *)
(* them, and a line begins on an empty row.                                *)
On == enabled /\ framebuf_enabled

Term == INSTANCE Terminal WITH
    Width  <- Longest,
    height <- IF On THEN rows - CONFIG_CONSOLE_MIN_ROWS_BELOW ELSE 0,
    lines  <- IF On THEN [i \in 1..row + 1 |-> [x \in 1..Longest |-> screen[i - 1][x - 1]]]
                    ELSE <<>>,
    plain  <- IF temporary THEN fg_reset_color ELSE fg_color,
    shown  <- fg_color

ShowsLastLines == Term!Spec

(* No character cell is drawn outside the console's part of the screen, in *)
(* the rows kept free below it, or below the last row of the screen.       *)
StaysInside ==
    /\ ~outside
    /\ \A y \in DOMAIN screen : \A x \in DOMAIN screen[y] :
        screen[y][x] # "blank" => x < cols /\ y < rows - CONFIG_CONSOLE_MIN_ROWS_BELOW

(* src/include/config.def.h:14 says of CONFIG_CONSOLE_MIN_ROWS_BELOW "The   *)
(* minimum number of rows below the console before we start scrolling":     *)
(* they stay free as long as every line fits a row (LinesFit), as a line    *)
(* that wraps takes the cursor past the limit.                              *)
RowsBelow == enabled => row + CONFIG_CONSOLE_MIN_ROWS_BELOW < rows
=============================================================================
