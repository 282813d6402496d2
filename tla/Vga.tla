--------------------------------- MODULE Vga ---------------------------------
(***************************************************************************)
(* Text output: vga.c, one character of a string at a time.  A cell of the *)
(* screen is a 16-bit word, the attribute byte above the character.        *)
(*                                                                         *)
(* Characters are values of char, which is signed in this build.           *)
(*                                                                         *)
(* A definition <name>_<change> is a mutated form of <name> that some      *)
(* property refutes; the model does not use it.                            *)
(***************************************************************************)
EXTENDS Integers

CONSTANTS
  VGA_ROW_MAX,    \* vga.h: 25
  VGA_COL_MAX,    \* vga.h: 80
  VGA_TAB_SIZE,   \* vga.h: 8
  StringChars,    \* the characters of the strings
  SingleChars,    \* the ints passed as characters to vga_print_char
  Styles          \* background, foreground and blinking the callers choose

Rows == 0 .. VGA_ROW_MAX - 1
Cols == 0 .. VGA_COL_MAX - 1

ASSUME VgaAssumption ==
  /\ VGA_ROW_MAX \in Nat \ {0} /\ VGA_COL_MAX \in Nat \ {0}
  /\ VGA_TAB_SIZE \in Nat \ {0}
  /\ StringChars \subseteq -128 .. 127
  /\ SingleChars \subseteq 0 .. 255
  /\ Styles \subseteq (0 .. 7) \X (0 .. 15) \X BOOLEAN

VARIABLES
  screen,     \* the words of the video memory
  shown,      \* style and character last printed in a cell; not in the code
  printing,   \* whether vga_print_str is at work
  row, col,   \* its position
  style       \* the style its attribute was made of

vgaVars == <<screen, shown, printing, row, col, style>>

Blank == 0
NotShown == <<>>

-----------------------------------------------------------------------------

\* The conversion of an int to char.
AsChar(n) == IF n > 127 THEN n - 256 ELSE n

vga_attr_NoMask(bg, fg, blink) == bg * 8 + (fg % 16) + (IF blink THEN 128 ELSE 0)

vga_attr(bg, fg, blink) == (bg % 8) * 16 + (fg % 16) + (IF blink THEN 128 ELSE 0)

AttrOf(s) == vga_attr(s[1], s[2], s[3])

\* The character is added, sign and all.
Cell(attr, ch) == ((attr % 256) * 256 + ch) % 65536

vga_print_char(r, c, s, ch) ==
  IF r \in Rows /\ c \in Cols
  THEN /\ screen' = [screen EXCEPT ![<<r, c>>] = Cell(AttrOf(s), ch)]
       /\ shown' = [shown EXCEPT ![<<r, c>>] = <<s, ch % 256>>]
  ELSE UNCHANGED <<screen, shown>>

Printable(ch) == ch >= 32 /\ ch # 127

\* Where one character leaves the position, before the wrapping.
NextCol(ch) ==
  CASE ch = 10 -> 0
    [] ch = 9 -> (col \div VGA_TAB_SIZE + 1) * VGA_TAB_SIZE
    [] Printable(ch) -> col + 1
    [] OTHER -> col

NextRow(ch) == IF ch = 10 THEN row + 1 ELSE row

Wrapped_RowFirst(r, c) ==
  LET r2 == IF r >= VGA_ROW_MAX THEN 0 ELSE r
  IN  IF c >= VGA_COL_MAX THEN <<r2 + 1, 0>> ELSE <<r2, c>>

\* The column is wrapped first, then the row.
Wrapped(r, c) ==
  LET r2 == IF c >= VGA_COL_MAX THEN r + 1 ELSE r
  IN  <<IF r2 >= VGA_ROW_MAX THEN 0 ELSE r2, IF c >= VGA_COL_MAX THEN 0 ELSE c>>

-----------------------------------------------------------------------------

StringStarts(r, c, s) ==
  /\ ~printing
  /\ printing' = TRUE
  /\ row' = r /\ col' = c /\ style' = s
  /\ UNCHANGED <<screen, shown>>

\* One turn of the loop of vga_print_str.
StringChar(ch) ==
  /\ printing
  /\ IF Printable(ch)
     THEN vga_print_char(row, col, style, ch)
     ELSE UNCHANGED <<screen, shown>>
  /\ LET to == Wrapped(NextRow(ch), NextCol(ch)) IN row' = to[1] /\ col' = to[2]
  /\ UNCHANGED <<printing, style>>

StringEnds ==
  /\ printing
  /\ printing' = FALSE
  /\ UNCHANGED <<screen, shown, row, col, style>>

SingleChar(r, c, s, n) ==
  /\ ~printing
  /\ vga_print_char(r, c, s, AsChar(n))
  /\ UNCHANGED <<printing, row, col, style>>

VgaInit ==
  /\ screen = [p \in Rows \X Cols |-> Blank]
  /\ shown = [p \in Rows \X Cols |-> NotShown]
  /\ printing = FALSE
  /\ row = 0 /\ col = 0
  /\ style \in Styles

VgaNext ==
  \/ \E r \in Rows, c \in Cols, s \in Styles : StringStarts(r, c, s)
  \/ \E ch \in StringChars : StringChar(ch)
  \/ StringEnds
  \/ \E r \in Rows, c \in Cols, s \in Styles, n \in SingleChars : SingleChar(r, c, s, n)

VgaSpec == VgaInit /\ [][VgaNext]_vgaVars

-----------------------------------------------------------------------------
(* Properties.                                                             *)

Offset(r, c) == r * VGA_COL_MAX + c

(* "it will wrap to the next row starting at the first column" and from    *)
(* the last row to the first (vga.h:54-58): whatever mixture of tabs, line *)
(* ends and wrapping leads there, the position is on the screen; a printed *)
(* character moves it by one cell, and none by more than a row.            *)
PositionAdvances ==
  [][printing /\ printing' =>
       /\ row' \in Rows /\ col' \in Cols
       /\ LET moved == (Offset(row', col') - Offset(row, col)) % (VGA_ROW_MAX * VGA_COL_MAX)
          IN  IF shown' # shown \/ screen' # screen
              THEN moved = 1 % (VGA_ROW_MAX * VGA_COL_MAX)
              ELSE moved <= VGA_COL_MAX]_vgaVars

(* "Set the two bytes (attribute + character) in the video memory"         *)
(* (vga.c:26): each cell reads as the colours and the character that were  *)
(* printed there, by the layout of vga.h:85-89.                            *)
CellsReadBack ==
  \A p \in Rows \X Cols :
    shown[p] # NotShown =>
      LET attr == screen[p] \div 256
      IN  shown[p] = << <<(attr \div 16) % 8, attr % 16, attr >= 128>>, screen[p] % 256 >>

=============================================================================
