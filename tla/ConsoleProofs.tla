---------------------------- MODULE ConsoleProofs ----------------------------
(***************************************************************************)
(* For every size of display and every output whose lines fit a row: the   *)
(* cursor stays above the free row and no cell outside is drawn.           *)
(***************************************************************************)
EXTENDS Console, SequenceTheorems, TLAPS

(* The console's geometry is one the firmware had set up.                  *)
Sized == enabled => \E d \in Boot : cols = d.cols /\ rows = d.rows

(* A line that fits never wraps: the column is the length of the line.     *)
NeverWraps == col = length

(* The console is set up before the display, and only written to after.    *)
SwitchedInOrder == ~enabled => ~framebuf_enabled /\ length = 0 /\ cols = 0 /\ rows = 0

ResetIsStored == temporary => fg_reset_color \in Colors

Inv ==
    /\ TypeOK /\ Sized /\ NeverWraps /\ SwitchedInOrder /\ ResetIsStored
    /\ RowsBelow /\ StaysInside

(* A screen with ink only where the console may draw.                      *)
Inside(s) ==
    \A y \in 0..Screen.rows - 1 : \A x \in 0..Screen.cols - 1 :
        s[y][x] # "blank" => x < cols /\ y < rows - CONFIG_CONSOLE_MIN_ROWS_BELOW

LEMMA StaysInsideByCell ==
  ASSUME screen \in Screens
  PROVE  StaysInside <=> ~outside /\ Inside(screen)
  BY DEF Screens, StaysInside, Inside

LEMMA BlankScreen == Blank \in Screens /\ Inside(Blank)
<1>1. \A y \in 0..Screen.rows - 1 : Blank[y] = [x \in 0..Screen.cols - 1 |-> "blank"]
  BY DEF Blank
<1>2. Blank \in Screens
  BY DEF Blank, Screens
<1>3. Inside(Blank)
  BY <1>1 DEF Inside
<1> QED BY <1>2, <1>3

LEMMA InitInv == Init => Inv
<1> SUFFICES ASSUME Init PROVE Inv
  OBVIOUS
<1>1. screen \in Screens /\ Inside(screen)
  BY BlankScreen DEF Init
<1>2. StaysInside
  BY <1>1, StaysInsideByCell DEF Init
<1>3. Screen.cols \in Nat \ {0} /\ Screen.rows \in Nat \ {0} /\ Longest \in Nat
  BY ConsoleAssumption
<1>4. CursorOK /\ SwitchesOK
  <2>1. CursorOK
    BY <1>3 DEF Init, CursorOK
  <2>2. SwitchesOK
    BY Zenon DEF Init, SwitchesOK
  <2> QED BY <2>1, <2>2
<1>5. TypeOK
  BY <1>1, <1>4, Zenon DEF Init, TypeOK
<1> QED
  BY <1>2, <1>5 DEF Init, Inv, Sized, NeverWraps, SwitchedInOrder, ResetIsStored, RowsBelow

(* The console's part of the screen is not empty.                          *)
LEMMA Geometry ==
  ASSUME Inv, enabled
  PROVE  cols \in 1..Screen.cols /\ rows \in 2..Screen.rows
  BY ConsoleAssumption DEF Inv, Sized, CONFIG_CONSOLE_MIN_ROWS_BELOW

(* Scrolling keeps the shape of the screen, and what is inside stays so.   *)
LEMMA ScrolledInside ==
  ASSUME Inv, enabled
  PROVE  Scrolled(screen) \in Screens /\ Inside(Scrolled(screen))
<1>1. cols \in 1..Screen.cols /\ rows \in 2..Screen.rows
  BY Geometry
<1>2. screen \in Screens /\ Inside(screen)
  BY StaysInsideByCell DEF Inv, TypeOK, Screens
<1> DEFINE Row(y) == [x \in 0..Screen.cols - 1 |->
                        IF x >= cols \/ y >= rows THEN screen[y][x]
                        ELSE IF y = rows - 1 THEN "blank" ELSE screen[y + 1][x]]
<1>3. Scrolled(screen) = [y \in 0..Screen.rows - 1 |-> Row(y)]
  BY <1>2 DEF Scrolled, Screens
<1>4. ASSUME NEW y \in 0..Screen.rows - 1, NEW x \in 0..Screen.cols - 1
      PROVE  /\ Row(y)[x] \in Colors \cup {"blank"}
             /\ Row(y)[x] # "blank" => x < cols /\ y < rows - CONFIG_CONSOLE_MIN_ROWS_BELOW
  <2>1. CASE x >= cols \/ y >= rows
    <3>1. Row(y)[x] = screen[y][x]
      BY <2>1
    <3> QED BY <3>1, <1>2 DEF Screens, Inside
  <2>2. CASE x < cols /\ y = rows - 1
    <3>1. Row(y)[x] = "blank"
      BY <2>2, <1>1
    <3> QED BY <3>1
  <2>3. CASE x < cols /\ y < rows - 1
    <3>1. y + 1 \in 0..Screen.rows - 1
      BY <2>3, <1>1, ConsoleAssumption
    <3>2. Row(y)[x] = screen[y + 1][x]
      BY <2>3, <1>1
    <3>3. screen[y + 1][x] \in Colors \cup {"blank"}
      BY <3>1, <1>2 DEF Screens
    <3> QED BY <2>3, <3>2, <3>3 DEF CONFIG_CONSOLE_MIN_ROWS_BELOW
  <2> QED BY <2>1, <2>2, <2>3, <1>1, ConsoleAssumption
<1>5. \A y \in 0..Screen.rows - 1 : Row(y) \in [0..Screen.cols - 1 -> Colors \cup {"blank"}]
  BY <1>4
<1>6. Scrolled(screen) \in Screens
  BY <1>3, <1>5 DEF Screens
<1>7. Inside(Scrolled(screen))
  BY <1>3, <1>4 DEF Inside
<1> QED BY <1>6, <1>7

(* A character drawn where the cursor may be is inside.                    *)
LEMMA DrawnInside ==
  ASSUME Inv, enabled, length < Longest, LinesFit, NEW inked \in BOOLEAN
  PROVE  Drawn(screen, inked) \in Screens /\ Inside(Drawn(screen, inked))
<1>1. cols \in 1..Screen.cols /\ rows \in 2..Screen.rows
  BY Geometry
<1>2. screen \in Screens /\ Inside(screen)
  BY StaysInsideByCell DEF Inv, TypeOK, Screens
<1>3. /\ row \in 0..Screen.rows - 1 /\ row < rows - CONFIG_CONSOLE_MIN_ROWS_BELOW
      /\ col \in 0..Screen.cols - 1 /\ col < cols
  BY <1>1, ConsoleAssumption
     DEF Inv, TypeOK, CursorOK, RowsBelow, NeverWraps, Sized, LinesFit, CONFIG_CONSOLE_MIN_ROWS_BELOW
<1> DEFINE Cell == IF inked THEN fg_color ELSE "blank"
<1>4. Cell \in Colors \cup {"blank"}
  BY DEF Inv, TypeOK
<1>5. Drawn(screen, inked) = [screen EXCEPT ![row] = [screen[row] EXCEPT ![col] = Cell]]
  BY <1>2, <1>3 DEF Drawn, Screens
<1>6. [screen[row] EXCEPT ![col] = Cell] \in [0..Screen.cols - 1 -> Colors \cup {"blank"}]
  BY <1>2, <1>3, <1>4 DEF Screens
<1>7. Drawn(screen, inked) \in Screens
  BY <1>2, <1>3, <1>5, <1>6 DEF Screens
<1>8. ASSUME NEW y \in 0..Screen.rows - 1, NEW x \in 0..Screen.cols - 1
      PROVE  \/ Drawn(screen, inked)[y][x] = screen[y][x]
             \/ y = row /\ x = col
  BY <1>2, <1>3, <1>5 DEF Screens
<1>9. Inside(Drawn(screen, inked))
  BY <1>2, <1>3, <1>8 DEF Inside
<1> QED BY <1>7, <1>9

(* What a step may change and must keep for the invariant to hold after    *)
(* it, with the console set up.                                            *)
LEMMA InvAfter ==
  ASSUME Inv, enabled, UNCHANGED <<enabled, cols, rows>>,
         framebuf_enabled' \in BOOLEAN, temporary' \in BOOLEAN, outside' = FALSE,
         col' \in 0..Screen.cols - 1, length' = col', length' \in 0..Longest,
         row' \in Nat, row' + CONFIG_CONSOLE_MIN_ROWS_BELOW < rows,
         fg_color' \in Colors, fg_reset_color' \in Colors \cup {"zero"},
         temporary' => fg_reset_color' \in Colors,
         screen' \in Screens, Inside(screen')
  PROVE  Inv'
<1>1. SwitchesOK'
  BY Zenon DEF SwitchesOK, Inv, TypeOK
<1>2. CursorOK'
  BY DEF CursorOK, Inv, TypeOK
<1>3. TypeOK'
  BY <1>1, <1>2 DEF TypeOK
<1>4. Sized' /\ NeverWraps' /\ SwitchedInOrder' /\ ResetIsStored' /\ RowsBelow'
  BY DEF Inv, Sized, NeverWraps, SwitchedInOrder, ResetIsStored, RowsBelow
<1>5. StaysInside'
  BY DEF StaysInside, Screens, Inside
<1> QED BY <1>3, <1>4, <1>5 DEF Inv

LEMMA ConsoleInitInv == ASSUME Inv, NEW d \in Boot, ConsoleInit(d) PROVE Inv'
<1>1. d.cols \in 1..Screen.cols /\ d.rows \in 2..Screen.rows
  BY ConsoleAssumption DEF CONFIG_CONSOLE_MIN_ROWS_BELOW
<1>2. SwitchesOK'
  <2>1. enabled' = TRUE
    BY DEF ConsoleInit
  <2>2. framebuf_enabled' = framebuf_enabled /\ outside' = outside /\ temporary' = temporary
    BY DEF ConsoleInit, colours
  <2> QED BY <2>1, <2>2 DEF Inv, TypeOK, SwitchesOK
<1>3. CursorOK'
  BY <1>1, ConsoleAssumption DEF ConsoleInit, CursorOK, Inv, TypeOK
<1>4. TypeOK'
  <2>1. screen' = screen /\ fg_color' = fg_color /\ fg_reset_color' = fg_reset_color
    BY DEF ConsoleInit, colours
  <2> QED BY <1>2, <1>3, <2>1, Zenon DEF Inv, TypeOK
<1>5. Sized' /\ NeverWraps' /\ SwitchedInOrder' /\ ResetIsStored'
  BY DEF ConsoleInit, Inv, Sized, NeverWraps, SwitchedInOrder, ResetIsStored, colours
<1>6. RowsBelow'
  BY <1>1 DEF ConsoleInit, RowsBelow, CONFIG_CONSOLE_MIN_ROWS_BELOW
<1>7. StaysInside'
  BY ConsoleAssumption
     DEF ConsoleInit, Inv, TypeOK, SwitchedInOrder, StaysInside, Screens
<1> QED BY <1>4, <1>5, <1>6, <1>7 DEF Inv

(* A console is set up, with the cursor and the colours in their ranges.   *)
LEMMA Facts ==
  ASSUME Inv
  PROVE  /\ enabled \in BOOLEAN /\ framebuf_enabled \in BOOLEAN /\ temporary \in BOOLEAN
         /\ outside = FALSE
         /\ framebuf_enabled => enabled
         /\ col \in 0..Screen.cols - 1 /\ row \in Nat /\ length \in 0..Longest /\ col = length
         /\ enabled => row + CONFIG_CONSOLE_MIN_ROWS_BELOW < rows
         /\ fg_color \in Colors /\ fg_reset_color \in Colors \cup {"zero"}
         /\ temporary => fg_reset_color \in Colors
         /\ screen \in Screens /\ Inside(screen)
<1>1. screen \in Screens /\ Inside(screen) /\ ~outside
  BY StaysInsideByCell DEF Inv, TypeOK
<1>2. outside = FALSE
  BY <1>1, Zenon DEF Inv, TypeOK, SwitchesOK
<1> QED
  BY <1>1, <1>2 DEF Inv, TypeOK, SwitchesOK, CursorOK, NeverWraps, SwitchedInOrder,
                    ResetIsStored, RowsBelow

LEMMA ScreenOnInv == ASSUME Inv, NEW c \in Colors, ScreenOn(c) PROVE Inv'
<1>1. outside' = FALSE
  BY Facts DEF ScreenOn
<1> QED BY <1>1, Facts, BlankScreen, InvAfter DEF ScreenOn, cursor

LEMMA ColoursInv ==
  ASSUME Inv, NEW c \in Colors, SetFgColor(c) \/ SetTmpFgColor(c) \/ ResetColors
  PROVE  Inv'
<1>1. /\ UNCHANGED <<enabled, framebuf_enabled, cols, rows, col, row, length, screen, outside>>
      /\ fg_color' \in Colors /\ fg_reset_color' \in Colors \cup {"zero"}
      /\ temporary' \in BOOLEAN /\ (temporary' => fg_reset_color' \in Colors)
  <2>1. CASE SetFgColor(c)
    BY <2>1, Facts DEF SetFgColor, cursor
  <2>2. CASE SetTmpFgColor(c)
    BY <2>2, Facts DEF SetTmpFgColor, cursor
  <2>3. CASE ResetColors
    BY <2>3, Facts DEF ResetColors, cursor
  <2> QED BY <2>1, <2>2, <2>3
<1>2. CASE enabled
  BY <1>1, <1>2, Facts, InvAfter
<1>3. CASE ~enabled
  <2>1. TypeOK'
    <3>1. SwitchesOK'
      BY <1>1, Facts DEF SwitchesOK
    <3>2. CursorOK'
      BY <1>1 DEF CursorOK, Inv, TypeOK
    <3> QED BY <1>1, <3>1, <3>2, Facts DEF TypeOK
  <2>2. Sized' /\ NeverWraps' /\ SwitchedInOrder' /\ ResetIsStored' /\ RowsBelow'
    BY <1>1, <1>3 DEF Inv, Sized, NeverWraps, SwitchedInOrder, ResetIsStored, RowsBelow
  <2>3. StaysInside'
    BY <1>1 DEF Inv, StaysInside
  <2> QED BY <2>1, <2>2, <2>3 DEF Inv
<1> QED BY <1>2, <1>3

LEMMA PutCharacterInv ==
  ASSUME LinesFit, Inv, NEW inked \in BOOLEAN, PutCharacter(inked)
  PROVE  Inv'
<1>1. enabled /\ framebuf_enabled /\ length < Longest
  BY DEF PutCharacter
<1>2. cols \in 1..Screen.cols /\ rows \in 2..Screen.rows
  BY <1>1, Geometry
<1>3. col + 1 < cols
  <2>1. PICK d \in Boot : cols = d.cols
    BY <1>1 DEF Inv, Sized
  <2>2. Longest < cols
    BY <2>1 DEF LinesFit
  <2> QED BY <1>1, <1>2, <2>2, Facts, ConsoleAssumption
<1>4. row < Screen.rows
  BY <1>1, <1>2, Facts, ConsoleAssumption DEF CONFIG_CONSOLE_MIN_ROWS_BELOW
<1>5. NextPos(Drawn(screen, inked))
  BY <1>4 DEF PutCharacter
<1>6. col' = col + 1 /\ row' = row /\ screen' = Drawn(screen, inked)
  BY <1>3, <1>5 DEF NextPos
<1>7. outside' = FALSE
  <2>1. row # Screen.rows
    BY <1>4, Facts, ConsoleAssumption
  <2>2. outside' = (outside \/ row = Screen.rows) /\ outside = FALSE
    BY Facts, Zenon DEF PutCharacter
  <2> QED BY <2>1, <2>2, Zenon
<1>8. col' \in 0..Screen.cols - 1 /\ length' = col' /\ length' \in 0..Longest
  BY <1>1, <1>2, <1>3, <1>6, Facts, ConsoleAssumption DEF PutCharacter
<1>9. screen' \in Screens /\ Inside(screen')
  BY <1>1, <1>6, DrawnInside
<1>10. UNCHANGED <<enabled, framebuf_enabled, cols, rows, fg_color, fg_reset_color, temporary>>
  BY DEF PutCharacter, colours
<1> QED BY <1>1, <1>6, <1>7, <1>8, <1>9, <1>10, Facts, InvAfter

LEMMA PutNewlineInv == ASSUME Inv, PutNewline PROVE Inv'
<1>1. /\ enabled /\ framebuf_enabled /\ col' = 0 /\ length' = 0
      /\ UNCHANGED <<enabled, framebuf_enabled, cols, rows, fg_color, fg_reset_color,
                     temporary, outside>>
  BY DEF PutNewline, colours
<1>2. cols \in 1..Screen.cols /\ rows \in 2..Screen.rows
  BY <1>1, Geometry
<1>3. col' \in 0..Screen.cols - 1 /\ length' \in 0..Longest
  BY <1>1, ConsoleAssumption
<1>4. row' \in Nat /\ row' + CONFIG_CONSOLE_MIN_ROWS_BELOW < rows
  BY <1>1, <1>2, Facts, ConsoleAssumption DEF PutNewline, CONFIG_CONSOLE_MIN_ROWS_BELOW
<1>5. screen' \in Screens /\ Inside(screen')
  BY <1>1, Facts, ScrolledInside DEF PutNewline
<1>6. outside' = FALSE
  BY <1>1, Facts
<1> QED BY <1>1, <1>3, <1>4, <1>5, <1>6, Facts, InvAfter

LEMMA NextInv == ASSUME LinesFit, Inv, [Next]_vars PROVE Inv'
<1>1. ASSUME NEW d \in Boot, ConsoleInit(d) PROVE Inv'
  BY <1>1, ConsoleInitInv
<1>2. ASSUME NEW c \in Colors, ScreenOn(c) PROVE Inv'
  BY <1>2, ScreenOnInv
<1>3. ASSUME NEW c \in Colors, SetFgColor(c) \/ SetTmpFgColor(c) PROVE Inv'
  BY <1>3, ColoursInv
<1>4. CASE ResetColors
  BY <1>4, ColoursInv, Facts
<1>5. ASSUME NEW inked \in BOOLEAN, PutCharacter(inked) PROVE Inv'
  BY <1>5, PutCharacterInv
<1>6. CASE PutNewline
  BY <1>6, PutNewlineInv
<1>7. CASE UNCHANGED vars
  BY <1>7 DEF vars, cursor, colours, Inv, TypeOK, SwitchesOK, CursorOK, Sized, NeverWraps,
              SwitchedInOrder, ResetIsStored, RowsBelow, StaysInside
<1>8. CASE PutNowhere
  BY <1>7, <1>8 DEF PutNowhere
<1> QED BY <1>1, <1>2, <1>3, <1>4, <1>5, <1>6, <1>7, <1>8 DEF Next

(* Every variable keeps its type as long as lines fit a row.               *)
THEOREM TypeCorrect == ASSUME LinesFit PROVE Spec => []TypeOK
<1>1. Init => Inv
  BY InitInv
<1>2. Inv /\ [Next]_vars => Inv'
  BY NextInv
<1>3. Inv => TypeOK
  BY DEF Inv
<1> QED BY <1>1, <1>2, <1>3, PTL DEF Spec

(* With lines that fit a row, the cursor stays above the free rows that    *)
(* console_putc keeps, for every display and every output.                 *)
THEOREM RowsBelowCorrect == ASSUME LinesFit PROVE Spec => []RowsBelow
<1>1. Init => Inv
  BY InitInv
<1>2. Inv /\ [Next]_vars => Inv'
  BY NextInv
<1>3. Inv => RowsBelow
  BY DEF Inv
<1> QED BY <1>1, <1>2, <1>3, PTL DEF Spec

(* Neither drawing nor scrolling changes a cell outside the console's rows *)
(* and columns, whatever display the firmware had set up before.           *)
THEOREM StaysInsideCorrect == ASSUME LinesFit PROVE Spec => []StaysInside
<1>1. Init => Inv
  BY InitInv
<1>2. Inv /\ [Next]_vars => Inv'
  BY NextInv
<1>3. Inv => StaysInside
  BY DEF Inv
<1> QED BY <1>1, <1>2, <1>3, PTL DEF Spec

-----------------------------------------------------------------------------
(* That the console is a terminal which keeps the last lines.              *)

(* Nothing is written before the screen is on.                             *)
Unwritten == framebuf_enabled \/ (row = 0 /\ length = 0)

(* Below the line being written the display is empty.                      *)
EmptyBelow ==
    \A y \in 0..Screen.rows - 1 : \A x \in 0..Screen.cols - 1 :
        y > row => screen[y][x] = "blank"

TermInv == Inv /\ Unwritten /\ EmptyBelow

(* The terminal's variables, as the console has them.                      *)
Height == IF On THEN rows - CONFIG_CONSOLE_MIN_ROWS_BELOW ELSE 0
LineAt(y) == [x \in 1..Longest |-> screen[y][x - 1]]
Lines ==
    IF On THEN [i \in 1..row + 1 |-> LineAt(i - 1)] ELSE <<>>
Plain == IF temporary THEN fg_reset_color ELSE fg_color

(* A cell of the display after it was drawn on, and after it was scrolled. *)
LEMMA DrawnCell ==
  ASSUME Inv, row \in 0..Screen.rows - 1, NEW inked \in BOOLEAN,
         NEW y \in 0..Screen.rows - 1, NEW x \in 0..Screen.cols - 1
  PROVE  Drawn(screen, inked)[y][x] =
             IF y = row /\ x = col THEN (IF inked THEN fg_color ELSE "blank") ELSE screen[y][x]
<1>1. screen \in Screens /\ col \in 0..Screen.cols - 1
  BY Facts
<1> QED BY <1>1 DEF Drawn, Screens

LEMMA ScrolledCell ==
  ASSUME Inv, NEW y \in 0..Screen.rows - 1, NEW x \in 0..Screen.cols - 1
  PROVE  Scrolled(screen)[y][x] =
             IF x >= cols \/ y >= rows THEN screen[y][x]
             ELSE IF y = rows - 1 THEN "blank" ELSE screen[y + 1][x]
<1>1. screen \in Screens
  BY Facts
<1>2. DOMAIN screen = 0..Screen.rows - 1 /\ DOMAIN screen[y] = 0..Screen.cols - 1
  BY <1>1 DEF Screens
<1> QED BY <1>2 DEF Scrolled

LEMMA BlankCell ==
  ASSUME NEW y \in 0..Screen.rows - 1, NEW x \in 0..Screen.cols - 1
  PROVE  Blank[y][x] = "blank"
  BY DEF Blank

LEMMA InitTermInv == Init => TermInv
<1> SUFFICES ASSUME Init PROVE TermInv
  OBVIOUS
<1>1. Inv
  BY InitInv
<1>2. row = 0 /\ length = 0 /\ screen = Blank
  BY DEF Init
<1>3. EmptyBelow
  BY <1>2, BlankCell DEF EmptyBelow
<1> QED BY <1>1, <1>2, <1>3 DEF TermInv, Unwritten

(* A character is written in the line that is the last.                    *)
LEMMA PutEmptyBelow ==
  ASSUME TermInv, row \in 0..Screen.rows - 1, NEW inked \in BOOLEAN,
         row' = row, screen' = Drawn(screen, inked)
  PROVE  EmptyBelow'
<1> SUFFICES ASSUME NEW y \in 0..Screen.rows - 1, NEW x \in 0..Screen.cols - 1, y > row
             PROVE  screen'[y][x] = "blank"
  BY DEF EmptyBelow
<1>1. screen'[y][x] = screen[y][x]
  BY DrawnCell DEF TermInv
<1> QED BY <1>1 DEF TermInv, EmptyBelow

(* A new line is below the last one, or the last row comes up empty.       *)
LEMMA NewlineEmptyBelow ==
  ASSUME TermInv, PutNewline PROVE EmptyBelow'
<1>1. cols \in 1..Screen.cols /\ rows \in 2..Screen.rows /\ row \in Nat
  BY Geometry, Facts DEF TermInv, PutNewline
<1> SUFFICES ASSUME NEW y \in 0..Screen.rows - 1, NEW x \in 0..Screen.cols - 1, y > row'
             PROVE  screen'[y][x] = "blank"
  BY DEF EmptyBelow
<1>2. \A v \in 0..Screen.rows - 1 : v > row => screen[v][x] = "blank"
  BY DEF TermInv, EmptyBelow
<1>3. CASE row + 1 = rows - 1
  <2>1. row' = row /\ screen' = Scrolled(screen)
    BY <1>3 DEF PutNewline, CONFIG_CONSOLE_MIN_ROWS_BELOW
  <2>2. Inv
    BY DEF TermInv
  <2>3. y >= rows - 1 /\ y > row
    BY <1>1, <1>3, <2>1
  <2>4. screen'[y][x] = IF x >= cols \/ y >= rows THEN screen[y][x]
                        ELSE IF y = rows - 1 THEN "blank" ELSE screen[y + 1][x]
    BY <2>1, <2>2, ScrolledCell
  <2>5. screen'[y][x] = screen[y][x] \/ screen'[y][x] = "blank"
    BY <1>1, <2>3, <2>4
  <2> QED BY <1>2, <2>3, <2>5
<1>4. CASE row + 1 # rows - 1
  <2>1. row' = row + 1 /\ screen' = screen
    BY <1>4 DEF PutNewline, CONFIG_CONSOLE_MIN_ROWS_BELOW
  <2> QED BY <1>1, <1>2, <2>1
<1> QED BY <1>3, <1>4

(* What a character does where lines fit: the cursor moves within its row. *)
LEMMA PutInRow ==
  ASSUME LinesFit, Inv, NEW inked \in BOOLEAN, PutCharacter(inked)
  PROVE  /\ On /\ On' /\ row \in 0..Screen.rows - 1 /\ length < Longest
         /\ col + 1 < cols /\ length' = length + 1
         /\ row' = row /\ screen' = Drawn(screen, inked)
         /\ UNCHANGED <<cols, rows, fg_color, fg_reset_color, temporary>>
<1>1. enabled /\ framebuf_enabled /\ length < Longest
  BY DEF PutCharacter
<1>2. rows \in 2..Screen.rows
  BY <1>1, Geometry
<1>3. PICK d \in Boot : cols = d.cols
  BY <1>1 DEF Inv, Sized
<1>4. Longest < cols /\ cols \in Int /\ Longest \in Int /\ Screen.rows \in Int
  BY <1>1, <1>3, Geometry, ConsoleAssumption DEF LinesFit
<1>5. col + 1 < cols /\ row \in 0..Screen.rows - 1
  BY <1>1, <1>2, <1>4, Facts DEF CONFIG_CONSOLE_MIN_ROWS_BELOW
<1>6. row' = row /\ screen' = Drawn(screen, inked)
  BY <1>4, <1>5 DEF PutCharacter, NextPos
<1>7. /\ enabled' = enabled /\ framebuf_enabled' = framebuf_enabled /\ length' = length + 1
      /\ UNCHANGED <<cols, rows, fg_color, fg_reset_color, temporary>>
  BY DEF PutCharacter, colours
<1> QED BY <1>1, <1>5, <1>6, <1>7 DEF On

LEMMA NextTermInv == ASSUME LinesFit, TermInv, [Next]_vars PROVE TermInv'
<1>1. Inv /\ Unwritten /\ EmptyBelow
  BY DEF TermInv
<1>2. Inv'
  BY <1>1, NextInv
<1> SUFFICES Unwritten' /\ EmptyBelow'
  BY <1>2 DEF TermInv
<1>3. ASSUME NEW d \in Boot, ConsoleInit(d) PROVE Unwritten' /\ EmptyBelow'
  <2>1. row = 0 /\ length = 0
    BY <1>1, <1>3 DEF ConsoleInit, Inv, SwitchedInOrder, Unwritten
  <2>2. row' = 0 /\ length' = 0 /\ screen' = screen
    BY <1>3, <2>1 DEF ConsoleInit
  <2> QED BY <1>1, <2>1, <2>2 DEF Unwritten, EmptyBelow
<1>4. ASSUME NEW c \in Colors, ScreenOn(c) PROVE Unwritten' /\ EmptyBelow'
  <2>1. framebuf_enabled' /\ screen' = Blank
    BY <1>4 DEF ScreenOn
  <2> QED BY <2>1, BlankCell DEF Unwritten, EmptyBelow
<1>5. ASSUME UNCHANGED <<framebuf_enabled, row, length, screen>>
      PROVE  Unwritten' /\ EmptyBelow'
  BY <1>1, <1>5 DEF Unwritten, EmptyBelow
<1>6. ASSUME NEW c \in Colors, SetFgColor(c) \/ SetTmpFgColor(c) PROVE Unwritten' /\ EmptyBelow'
  BY <1>5, <1>6 DEF SetFgColor, SetTmpFgColor, cursor
<1>7. CASE ResetColors
  BY <1>5, <1>7 DEF ResetColors, cursor
<1>8. ASSUME NEW inked \in BOOLEAN, PutCharacter(inked) PROVE Unwritten' /\ EmptyBelow'
  <2>1. On' /\ row \in 0..Screen.rows - 1 /\ row' = row /\ screen' = Drawn(screen, inked)
    BY <1>1, <1>8, PutInRow
  <2>2. EmptyBelow'
    BY <2>1, PutEmptyBelow
  <2> QED BY <2>1, <2>2 DEF Unwritten, On
<1>9. CASE PutNewline
  <2>1. EmptyBelow'
    BY <1>9, NewlineEmptyBelow
  <2>2. framebuf_enabled'
    BY <1>9 DEF PutNewline
  <2> QED BY <2>1, <2>2 DEF Unwritten
<1>10. CASE UNCHANGED vars
  BY <1>5, <1>10 DEF vars, cursor
<1>11. CASE PutNowhere
  BY <1>10, <1>11 DEF PutNowhere
<1> QED BY <1>3, <1>4, <1>6, <1>7, <1>8, <1>9, <1>10, <1>11 DEF Next

(* A step in which the terminal's variables stay is none of the terminal's.*)
LEMMA TermStutter ==
  ASSUME UNCHANGED <<enabled, framebuf_enabled, cols, rows, row, length, fg_color,
                     fg_reset_color, temporary, screen>>
  PROVE  UNCHANGED Term!vars
<1>1. On' = On
  BY DEF On
<1>2. Height' = Height /\ Lines' = Lines /\ Plain' = Plain /\ length' = length
      /\ fg_color' = fg_color
  BY <1>1 DEF Height, Lines, LineAt, Plain
<1> QED BY <1>2 DEF Term!vars, Height, Lines, LineAt, Plain

(* A character is put into the last line at the cursor.                    *)
LEMMA TermPut ==
  ASSUME LinesFit, TermInv, NEW inked \in BOOLEAN, PutCharacter(inked)
  PROVE  Term!Put(inked)
<1> DEFINE cell == IF inked THEN fg_color ELSE "blank"
<1>1. Inv
  BY DEF TermInv
<1>2. /\ On /\ On' /\ row \in 0..Screen.rows - 1 /\ length < Longest
      /\ col + 1 < cols /\ length' = length + 1
      /\ row' = row /\ screen' = Drawn(screen, inked)
      /\ UNCHANGED <<cols, rows, fg_color, fg_reset_color, temporary>>
  BY <1>1, PutInRow
<1>3. /\ col = length /\ length \in 0..Longest /\ rows \in 2..Screen.rows
      /\ Longest \in Nat /\ row \in Nat /\ cols \in 1..Screen.cols /\ Screen.cols \in Nat
  BY <1>1, <1>2, Facts, Geometry, ConsoleAssumption DEF On
<1>4. Longest <= Screen.cols
  <2>1. PICK d \in Boot : cols = d.cols
    BY <1>1, <1>2 DEF Inv, Sized, On
  <2>2. Longest < cols
    BY <2>1 DEF LinesFit
  <2> QED BY <1>3, <2>2
<1>5. Lines = [i \in 1..row + 1 |-> LineAt(i - 1)]
  BY <1>2 DEF Lines
<1>6. Lines' = [i \in 1..row + 1 |-> LineAt(i - 1)']
  BY <1>2 DEF Lines, LineAt
<1>7. LineAt(row)' = [LineAt(row) EXCEPT ![length + 1] = cell]
  <2>1. ASSUME NEW x \in 1..Longest
        PROVE  screen'[row][x - 1] = IF x = length + 1 THEN cell ELSE screen[row][x - 1]
    <3>1. x - 1 \in 0..Screen.cols - 1 /\ (x - 1 = col <=> x = length + 1)
      BY <1>3, <1>4
    <3>2. screen'[row][x - 1] =
             IF row = row /\ x - 1 = col THEN (IF inked THEN fg_color ELSE "blank")
             ELSE screen[row][x - 1]
      BY <1>1, <1>2, <3>1, DrawnCell
    <3> QED BY <3>1, <3>2
  <2>2. LineAt(row)' = [x \in 1..Longest |-> screen'[row][x - 1]]
    BY <1>2 DEF LineAt
  <2>3. [LineAt(row) EXCEPT ![length + 1] = cell]
          = [x \in 1..Longest |-> IF x = length + 1 THEN cell ELSE screen[row][x - 1]]
    BY DEF LineAt
  <2> QED BY <2>1, <2>2, <2>3
<1>8. ASSUME NEW y \in 0..row, y # row PROVE LineAt(y)' = LineAt(y)
  <2>1. y \in 0..Screen.rows - 1
    BY <1>2, <1>3, ConsoleAssumption
  <2>2. ASSUME NEW x \in 1..Longest PROVE screen'[y][x - 1] = screen[y][x - 1]
    <3>1. x - 1 \in 0..Screen.cols - 1
      BY <1>3, <1>4
    <3>2. screen'[y][x - 1] =
             IF y = row /\ x - 1 = col THEN (IF inked THEN fg_color ELSE "blank")
             ELSE screen[y][x - 1]
      BY <1>1, <1>2, <2>1, <3>1, DrawnCell
    <3> QED BY <1>8, <3>2
  <2> QED BY <2>2 DEF LineAt
<1>9. Len(Lines) = row + 1 /\ Lines[row + 1] = LineAt(row)
  <2>1. row + 1 \in Nat /\ (row + 1) - 1 = row /\ row + 1 \in 1..row + 1
    BY <1>3
  <2> QED BY <1>5, <2>1
<1>10. Lines' = [Lines EXCEPT ![Len(Lines)][length + 1] = cell]
  <2> DEFINE new == [Lines EXCEPT ![Len(Lines)][length + 1] = cell]
  <2>1. new = [i \in 1..row + 1 |-> IF i = row + 1 THEN [LineAt(row) EXCEPT ![length + 1] = cell]
                                    ELSE Lines[i]]
    BY <1>5, <1>9
  <2>2. ASSUME NEW i \in 1..row + 1
        PROVE  LineAt(i - 1)' = IF i = row + 1 THEN [LineAt(row) EXCEPT ![length + 1] = cell]
                                ELSE Lines[i]
    <3>1. CASE i = row + 1
      <4>1. i - 1 = row
        BY <1>3, <3>1
      <4>2. LineAt(i - 1)' = LineAt(row)'
        BY <1>2, <4>1 DEF LineAt
      <4> QED BY <1>7, <3>1, <4>2
    <3>2. CASE i # row + 1
      <4>1. i - 1 \in 0..row /\ i - 1 # row
        BY <1>3, <3>2
      <4>2. LineAt(i - 1)' = LineAt(i - 1)
        BY <1>8, <4>1
      <4> QED BY <1>5, <3>2, <4>2
    <3> QED BY <3>1, <3>2
  <2> QED BY <1>6, <2>1, <2>2
<1>11. Height > 0 /\ Height' = Height /\ Plain' = Plain /\ fg_color' = fg_color
  BY <1>2, <1>3 DEF Height, Plain, CONFIG_CONSOLE_MIN_ROWS_BELOW
<1> QED BY <1>2, <1>10, <1>11 DEF Term!Put, Height, Lines, LineAt, Plain

(* A sequence without its first element.                                   *)
LEMMA TailElements ==
  ASSUME NEW S, NEW s \in Seq(S), s # <<>>
  PROVE  Tail(s) = [i \in 1..(Len(s) - 1) |-> s[i + 1]]
<1>1. /\ Tail(s) \in Seq(S) /\ Len(Tail(s)) = Len(s) - 1
      /\ \A i \in 1..Len(Tail(s)) : Tail(s)[i] = s[i + 1]
  BY HeadTailProperties
<1> DEFINE t == Tail(s)
<1>2. t \in Seq(S)
  BY <1>1
<1>3. t = [i \in 1..Len(t) |-> t[i]]
  <2> HIDE DEF t
  <2> QED BY <1>2
<1> QED BY <1>1, <1>3

(* A new line is added; where there are as many as are kept the first goes.*)
LEMMA TermNewLine ==
  ASSUME LinesFit, TermInv, PutNewline PROVE Term!NewLine
<1>1. /\ Inv /\ EmptyBelow /\ On /\ On' /\ length' = 0
      /\ UNCHANGED <<cols, rows, fg_color, fg_reset_color, temporary>>
  BY DEF TermInv, PutNewline, colours, On
<1>2. /\ rows \in 2..Screen.rows /\ row \in Nat /\ cols \in 1..Screen.cols
      /\ row + 1 < rows /\ Longest \in Nat /\ Screen.cols \in Nat /\ Screen.rows \in Nat
  BY <1>1, Facts, Geometry, ConsoleAssumption DEF On, CONFIG_CONSOLE_MIN_ROWS_BELOW
<1>3. Longest < cols
  <2>1. PICK d \in Boot : cols = d.cols
    BY <1>1 DEF Inv, Sized, On
  <2> QED BY <2>1 DEF LinesFit
<1>4. Lines = [i \in 1..row + 1 |-> LineAt(i - 1)] /\ Len(Lines) = row + 1
  BY <1>1, <1>2 DEF Lines
<1>5. Lines' = [i \in 1..row' + 1 |-> LineAt(i - 1)']
  BY <1>1 DEF Lines, LineAt
<1> DEFINE empty == [x \in 1..Longest |-> "blank"]
<1>6. \A x \in 1..Longest : x - 1 \in 0..Screen.cols - 1 /\ ~(x - 1 >= cols)
  BY <1>2, <1>3
<1>7. \A y \in 0..Screen.rows - 1 : y > row => LineAt(y) = empty
  <2> SUFFICES ASSUME NEW y \in 0..Screen.rows - 1, y > row PROVE LineAt(y) = empty
    OBVIOUS
  <2>1. \A x \in 1..Longest : screen[y][x - 1] = "blank"
    BY <1>1, <1>6 DEF EmptyBelow
  <2> QED BY <2>1 DEF LineAt
<1>8. CASE row + 1 = rows - 1
  <2>1. row' = row /\ screen' = Scrolled(screen)
    BY <1>8 DEF PutNewline, CONFIG_CONSOLE_MIN_ROWS_BELOW
  <2>2. ASSUME NEW y \in 0..row PROVE LineAt(y)' = LineAt(y + 1)
    <3>1. y \in 0..Screen.rows - 1 /\ ~(y >= rows) /\ y # rows - 1
      BY <1>2, <1>8
    <3>2. ASSUME NEW x \in 1..Longest PROVE screen'[y][x - 1] = screen[y + 1][x - 1]
      <4>1. screen'[y][x - 1] =
               IF x - 1 >= cols \/ y >= rows THEN screen[y][x - 1]
               ELSE IF y = rows - 1 THEN "blank" ELSE screen[y + 1][x - 1]
        BY <1>1, <1>6, <2>1, <3>1, ScrolledCell
      <4> QED BY <1>6, <3>1, <4>1
    <3> QED BY <3>2 DEF LineAt
  <2>3. LineAt(row + 1) = empty
    <3>1. row + 1 \in 0..Screen.rows - 1 /\ row + 1 > row
      BY <1>2
    <3> QED BY <1>7, <3>1
  <2>4. Lines' = [i \in 1..row + 1 |-> LineAt(i - 1)'] /\ row + 1 \in Nat
    BY <1>2, <1>5, <2>1
  <2>5. Tail(Lines) = [i \in 1..row |-> LineAt(i)]
    <3>1. Tail(Lines) = [i \in 1..(Len(Lines) - 1) |-> Lines[i + 1]]
      <4> DEFINE all == {LineAt(i - 1) : i \in 1..row + 1}
                 n == row + 1
      <4>1. n \in Nat /\ n > 0 /\ \A i \in 1..n : LineAt(i - 1) \in all
        BY <1>2
      <4>2. Lines = [i \in 1..n |-> LineAt(i - 1)]
        BY <1>4
      <4>3. Lines \in Seq(all) /\ Lines # <<>>
        <5> HIDE DEF all, n
        <5>1. Lines \in [1..n -> all]
          BY <4>1, <4>2
        <5>2. Lines \in Seq(all) /\ Len(Lines) = n
          BY <4>1, <5>1
        <5> QED BY <4>1, <5>2
      <4> HIDE DEF all
      <4> QED BY <4>3, TailElements
    <3>2. Len(Lines) - 1 = row
      BY <1>2, <1>4
    <3>3. ASSUME NEW i \in 1..row PROVE Lines[i + 1] = LineAt(i)
      <4>1. i + 1 \in 1..row + 1 /\ (i + 1) - 1 = i
        BY <1>2
      <4> QED BY <1>4, <4>1
    <3> QED BY <3>1, <3>2, <3>3
  <2>6. Append(Tail(Lines), empty) = [i \in 1..row + 1 |-> IF i = row + 1 THEN empty ELSE LineAt(i)]
    <3>1. Len(Tail(Lines)) = row
      BY <1>2, <2>5
    <3>2. Append(Tail(Lines), empty)
            = [i \in 1..(Len(Tail(Lines)) + 1) |->
                 IF i = Len(Tail(Lines)) + 1 THEN empty ELSE Tail(Lines)[i]]
      OBVIOUS
    <3>3. ASSUME NEW i \in 1..row + 1, i # row + 1 PROVE Tail(Lines)[i] = LineAt(i)
      <4>1. i \in 1..row
        BY <1>2, <3>3
      <4> QED BY <2>5, <4>1
    <3> QED BY <3>1, <3>2, <3>3
  <2>7. ASSUME NEW i \in 1..row + 1
        PROVE  LineAt(i - 1)' = IF i = row + 1 THEN empty ELSE LineAt(i)
    <3>1. i - 1 \in 0..row /\ (i - 1) + 1 = i
      BY <1>2
    <3>2. LineAt(i - 1)' = LineAt((i - 1) + 1)
      BY <2>2, <3>1
    <3>3. LineAt((i - 1) + 1) = LineAt(i)
      BY <3>1
    <3> QED BY <2>3, <3>2, <3>3
  <2>8. Lines' = Append(Tail(Lines), empty)
    BY <2>4, <2>6, <2>7
  <2>9. Height = Len(Lines) /\ Height > 0
    BY <1>1, <1>2, <1>4, <1>8 DEF Height, CONFIG_CONSOLE_MIN_ROWS_BELOW
  <2>10. Height' = Height /\ Plain' = Plain /\ fg_color' = fg_color
    BY <1>1 DEF Height, Plain
  <2> QED BY <1>1, <2>8, <2>9, <2>10
          DEF Term!NewLine, Term!EmptyLine, Height, Lines, LineAt, Plain
<1>9. CASE row + 1 # rows - 1
  <2>1. row' = row + 1 /\ screen' = screen
    BY <1>9 DEF PutNewline, CONFIG_CONSOLE_MIN_ROWS_BELOW
  <2>2. LineAt(row + 1) = empty
    <3>1. row + 1 \in 0..Screen.rows - 1 /\ row + 1 > row
      BY <1>2
    <3> QED BY <1>7, <3>1
  <2>3. Lines' = [i \in 1..row + 2 |-> LineAt(i - 1)]
    <3>1. row' + 1 = row + 2
      BY <1>2, <2>1
    <3>2. \A i \in 1..row + 2 : LineAt(i - 1)' = LineAt(i - 1)
      BY <2>1 DEF LineAt
    <3> QED BY <1>5, <3>1, <3>2
  <2>4. Append(Lines, empty) = [i \in 1..row + 2 |-> IF i = row + 2 THEN empty ELSE Lines[i]]
    <3>1. Append(Lines, empty)
            = [i \in 1..(Len(Lines) + 1) |-> IF i = Len(Lines) + 1 THEN empty ELSE Lines[i]]
      OBVIOUS
    <3>2. Len(Lines) + 1 = row + 2
      BY <1>2, <1>4
    <3> QED BY <3>1, <3>2
  <2>5. ASSUME NEW i \in 1..row + 2
        PROVE  LineAt(i - 1) = IF i = row + 2 THEN empty ELSE Lines[i]
    <3>1. CASE i = row + 2
      <4>1. i - 1 = row + 1
        BY <1>2, <3>1
      <4> QED BY <2>2, <3>1, <4>1
    <3>2. CASE i # row + 2
      <4>1. i \in 1..row + 1
        BY <1>2, <3>2
      <4> QED BY <1>4, <3>2, <4>1
    <3> QED BY <3>1, <3>2
  <2>6. Lines' = Append(Lines, empty)
    BY <2>3, <2>4, <2>5
  <2>7. Height # Len(Lines) /\ Height > 0
    BY <1>1, <1>2, <1>4, <1>9 DEF Height, CONFIG_CONSOLE_MIN_ROWS_BELOW
  <2>8. Height' = Height /\ Plain' = Plain /\ fg_color' = fg_color
    BY <1>1 DEF Height, Plain
  <2> QED BY <1>1, <2>6, <2>7, <2>8
          DEF Term!NewLine, Term!EmptyLine, Height, Lines, LineAt, Plain
<1> QED BY <1>8, <1>9

(* The screen comes on with one empty line.                                *)
LEMMA TermSwitchOn ==
  ASSUME LinesFit, TermInv, NEW c \in Colors, ScreenOn(c) PROVE Term!SwitchOn
<1>1. /\ enabled /\ ~framebuf_enabled /\ ~temporary /\ row = 0 /\ length = 0
      /\ enabled' = enabled /\ framebuf_enabled' /\ temporary' = temporary
      /\ cols' = cols /\ rows' = rows /\ row' = 0 /\ length' = 0
      /\ fg_color' = c /\ screen' = Blank
  BY DEF ScreenOn, cursor, TermInv, Unwritten
<1>2. /\ rows \in 2..Screen.rows /\ cols \in 1..Screen.cols /\ Longest \in Nat
      /\ Screen.cols \in Nat /\ Screen.rows \in Nat \ {0}
  BY <1>1, Geometry, ConsoleAssumption DEF TermInv
<1>3. Longest < cols
  <2>1. PICK d \in Boot : cols = d.cols
    BY <1>1 DEF TermInv, Inv, Sized
  <2> QED BY <2>1 DEF LinesFit
<1>4. Height = 0 /\ Height' \in Nat \ {0}
  BY <1>1, <1>2 DEF Height, On, CONFIG_CONSOLE_MIN_ROWS_BELOW
<1>5. LineAt(0)' = [x \in 1..Longest |-> "blank"]
  <2>1. ASSUME NEW x \in 1..Longest PROVE screen'[0][x - 1] = "blank"
    <3>1. x - 1 \in 0..Screen.cols - 1 /\ 0 \in 0..Screen.rows - 1
      BY <1>2, <1>3
    <3> QED BY <1>1, <3>1, BlankCell
  <2> QED BY <2>1 DEF LineAt
<1>6. Lines' = <<[x \in 1..Longest |-> "blank"]>>
  <2>1. On'
    BY <1>1 DEF On
  <2>2. Lines' = [i \in 1..1 |-> LineAt(i - 1)']
    BY <1>1, <2>1 DEF Lines, LineAt
  <2>3. \A i \in 1..1 : LineAt(i - 1)' = LineAt(0)'
    BY DEF LineAt
  <2> DEFINE e == [x \in 1..Longest |-> "blank"]
  <2>4. Lines' = [i \in 1..1 |-> e]
    BY <1>5, <2>2, <2>3
  <2>5. <<e>> = [i \in 1..1 |-> e]
    <3> HIDE DEF e
    <3> QED OBVIOUS
  <2> QED BY <2>4, <2>5
<1>7. Plain' = c /\ fg_color' = c
  BY <1>1 DEF Plain
<1> QED BY <1>1, <1>4, <1>6, <1>7 DEF Term!SwitchOn, Term!EmptyLine, Height, Lines, LineAt, Plain

(* The colours are the terminal's.                                         *)
LEMMA TermColours ==
  ASSUME TermInv, NEW c \in Colors
  PROVE  /\ SetFgColor(c) => Term!SetColor(c)
         /\ SetTmpFgColor(c) => Term!Highlight(c)
         /\ ResetColors => Term!Restore
<1>1. ASSUME UNCHANGED <<enabled, framebuf_enabled, cols, rows, row, length, screen>>
      PROVE  Height' = Height /\ Lines' = Lines /\ length' = length
  <2>1. On' = On
    BY <1>1 DEF On
  <2> QED BY <1>1, <2>1 DEF Height, Lines, LineAt
<1>2. ASSUME SetFgColor(c) PROVE Term!SetColor(c)
  <2>1. /\ ~temporary /\ temporary' = temporary /\ fg_color' = c
        /\ UNCHANGED <<enabled, framebuf_enabled, cols, rows, row, length, screen>>
    BY <1>2 DEF SetFgColor, cursor
  <2>2. Plain' = c
    BY <2>1 DEF Plain
  <2> QED BY <1>1, <2>1, <2>2 DEF Term!SetColor, Height, Lines, LineAt, Plain
<1>3. ASSUME SetTmpFgColor(c) PROVE Term!Highlight(c)
  <2>1. /\ ~temporary /\ temporary' /\ fg_color' = c /\ fg_reset_color' = fg_color
        /\ UNCHANGED <<enabled, framebuf_enabled, cols, rows, row, length, screen>>
    BY <1>3 DEF SetTmpFgColor, cursor
  <2>2. Plain' = Plain
    BY <2>1 DEF Plain
  <2> QED BY <1>1, <2>1, <2>2 DEF Term!Highlight, Height, Lines, LineAt, Plain
<1>4. ASSUME ResetColors PROVE Term!Restore
  <2>1. /\ temporary /\ ~temporary' /\ fg_color' = fg_reset_color
        /\ UNCHANGED <<enabled, framebuf_enabled, cols, rows, row, length, screen>>
    BY <1>4 DEF ResetColors, cursor
  <2>2. Plain' = Plain /\ fg_color' = Plain
    BY <2>1 DEF Plain
  <2> QED BY <1>1, <2>1, <2>2 DEF Term!Restore, Height, Lines, LineAt, Plain
<1> QED BY <1>2, <1>3, <1>4

LEMMA InitTerm == Init => Term!Init
<1> SUFFICES ASSUME Init PROVE Term!Init
  OBVIOUS
<1>1. ~On /\ ~temporary /\ length = 0 /\ fg_color \in Colors
  BY DEF Init, On
<1> QED BY <1>1 DEF Term!Init

LEMMA TermStep ==
  ASSUME LinesFit, TermInv, [Next]_vars PROVE [Term!Next]_(Term!vars)
<1>1. ASSUME NEW d \in Boot, ConsoleInit(d) PROVE UNCHANGED Term!vars
  <2>1. /\ ~enabled /\ ~framebuf_enabled /\ ~framebuf_enabled' /\ length' = length
        /\ UNCHANGED <<fg_color, fg_reset_color, temporary>>
    BY <1>1 DEF ConsoleInit, colours, TermInv, Inv, SwitchedInOrder
  <2>2. ~On /\ ~On'
    BY <2>1 DEF On
  <2>3. Height' = Height /\ Lines' = Lines /\ Plain' = Plain /\ length' = length
        /\ fg_color' = fg_color
    BY <2>1, <2>2 DEF Height, Lines, Plain
  <2> QED BY <2>3 DEF Term!vars, Height, Lines, LineAt, Plain
<1>2. ASSUME NEW c \in Colors, ScreenOn(c) \/ SetFgColor(c) \/ SetTmpFgColor(c)
      PROVE  Term!Next
  BY <1>2, TermSwitchOn, TermColours DEF Term!Next
<1>3. CASE ResetColors
  BY <1>3, Facts, TermColours DEF Term!Next, TermInv
<1>4. ASSUME NEW inked \in BOOLEAN, PutCharacter(inked) PROVE Term!Next
  BY <1>4, TermPut DEF Term!Next
<1>5. CASE PutNewline
  BY <1>5, TermNewLine DEF Term!Next
<1>6. CASE UNCHANGED vars
  BY <1>6, TermStutter DEF vars, cursor, colours
<1>7. CASE PutNowhere
  BY <1>6, <1>7 DEF PutNowhere
<1> QED BY <1>1, <1>2, <1>3, <1>4, <1>5, <1>6, <1>7 DEF Next

(* The console implements the terminal, for every display and every output *)
(* whose lines fit a row: the last lines written are on the screen, with   *)
(* the colours in force when they were written, and nothing is lost or     *)
(* left over when the screen scrolls.                                      *)
THEOREM ShowsLastLinesCorrect == ASSUME LinesFit PROVE Spec => ShowsLastLines
<1>1. Init => TermInv /\ Term!Init
  BY InitTermInv, InitTerm
<1>2. TermInv /\ [Next]_vars => TermInv' /\ [Term!Next]_(Term!vars)
  BY NextTermInv, TermStep
<1> QED BY <1>1, <1>2, PTL DEF Spec, ShowsLastLines, Term!Spec
=============================================================================
