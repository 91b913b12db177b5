------------------------------ MODULE Terminal ------------------------------
(***************************************************************************)
(* Terminal::tick of main.cpp after IO::tick: it compares the frame with   *)
(* lastFrame, what it believes the screen shows, draws each row from its   *)
(* first changed column to its last, and writes the status line over the   *)
(* last line of the terminal.  The screen, its cursor and its colours are  *)
(* the terminal's; they change only by what the program prints.            *)
(***************************************************************************)
EXTENDS Geo, Sequences

CONSTANTS
  BoardSize,           \* the size of the board
  Sizes,               \* the sizes the terminal may have when the game starts
  Pictures,            \* what render may draw: a glyph for each cell of the board
  StatusSize           \* the length of the status

FrameSize == Pt(2 * BoardSize.x, BoardSize.y)

kNone == 255

kWide == 65280         \* 0xff00, the wide space

(* Glyphs: the one a Glyph is by default, and the wide ones of ASCII below *)
(* the lower case letters, to which the tables of the game keep.           *)
DefaultGlyph == [ch |-> 0, fg |-> 0, bg |-> 0]

Wide(ch, fg) == [ch |-> ch + kWide - 32, fg |-> fg, bg |-> kNone]

WideGlyph == [ch : kWide .. kWide + 63, fg : 0 .. 255, bg : 0 .. 255]

ASSUME TerminalAssumption ==
  /\ BoardSize.x \in Nat \ {0}
  /\ BoardSize.y \in Nat \ {0}
  /\ Pictures \subseteq [CellsOf(BoardSize) -> WideGlyph]
  /\ StatusSize \in Nat
  /\ Sizes \subseteq {size \in [x : Nat, y : Nat] :
                        /\ size.x >= FrameSize.x
                        /\ size.y >= FrameSize.y
                        /\ size.x > StatusSize}

VARIABLES
  frame, lastFrame,    \* IO::frame and Terminal::lastFrame
  terminalSize,        \* read once, by the constructor
  phase,               \* "idle" between two ticks, "scan" or "draw"
  row, col,            \* the loops' variables
  max_col,             \* the last column of the row to draw
  prev,                \* the glyph drawn before, for its colours
  screen,              \* what each cell of the terminal shows
  cursor,              \* where the next character goes
  pen                  \* the colours it gets

vars == <<frame, lastFrame, terminalSize, phase, row, col, max_col, prev, screen, cursor, pen>>

-----------------------------------------------------------------------------
(* The terminal.  A cell shows a character or one half of a wide one; an   *)
(* erased cell shows a space.                                              *)
Colors(glyph) == [fg |-> glyph.fg, bg |-> glyph.bg]

NoColors == [fg |-> kNone, bg |-> kNone]

Shown(ch, half, colors) == [ch |-> ch, half |-> half, fg |-> colors.fg, bg |-> colors.bg]

Blank(colors) == Shown(32, "whole", colors)

(* Printing a character of two columns; what it cuts in half is gone.      *)
PutWide(left, right) ==
  [c \in DOMAIN screen |->
     CASE c = cursor                                                       -> left
       [] c = Plus(cursor, Pt(1, 0))                                       -> right
       [] c = Minus(cursor, Pt(1, 0)) /\ screen[c].half = "left"           -> Blank(screen[c])
       [] c = Plus(cursor, Pt(2, 0)) /\ screen[c].half = "right"           -> Blank(screen[c])
       [] OTHER                                                            -> screen[c]]

(* The character that three bytes encode in UTF-8.                         *)
Decoded(bytes) == (bytes[1] % 16) * 4096 + (bytes[2] % 64) * 64 + (bytes[3] % 64)

-----------------------------------------------------------------------------
(* The program.                                                            *)
OffsetUp == Pt((terminalSize.x - FrameSize.x + 1) \div 2, (terminalSize.y - FrameSize.y + 1) \div 2)

Offset == Pt((terminalSize.x - FrameSize.x) \div 2, (terminalSize.y - FrameSize.y) \div 2)

Default(size) == [c \in CellsOf(size) |-> DefaultGlyph]

Init ==
  /\ terminalSize \in Sizes
  /\ frame = Default(FrameSize) /\ lastFrame = frame
  /\ phase = "idle"
  /\ row = 0 /\ col = 0 /\ max_col = 0 /\ prev = DefaultGlyph
  /\ screen = [c \in CellsOf(terminalSize) |-> Blank(NoColors)]
  /\ cursor = origin /\ pen = NoColors

(* getKeyInputs and IO::tick, which ends with render: the modules KeyInput *)
(* and Game.  Odd columns of the frame are never written.                  *)
Tick(picture) ==
  /\ phase = "idle"
  /\ frame' = [c \in DOMAIN frame |->
                 IF c.x % 2 = 0 THEN picture[Pt(c.x \div 2, c.y)] ELSE frame[c]]
  /\ phase' = "scan"
  /\ row' = 0
  /\ UNCHANGED <<lastFrame, terminalSize, col, max_col, prev, screen, cursor, pen>>

Changed == {x \in 0 .. FrameSize.x - 1 : lastFrame[Pt(x, row)] # frame[Pt(x, row)]}

SkipRow ==
  /\ phase = "scan"
  /\ row < FrameSize.y
  /\ Changed = {}
  /\ row' = row + 1
  /\ UNCHANGED <<frame, lastFrame, terminalSize, phase, col, max_col, prev, screen, cursor, pen>>

(* The colours are set at the start of a row whatever they were.           *)
KeepColors(glyph) == UNCHANGED pen

SetColors(glyph) == pen' = Colors(glyph)

LastColumnAll(columns) == FrameSize.x

LastColumn(columns) == CHOOSE x \in columns : \A y \in columns : y <= x

BeginRow ==
  /\ phase = "scan"
  /\ row < FrameSize.y
  /\ \E x \in Changed :
       /\ \A y \in Changed : x <= y
       /\ col' = x
       /\ cursor' = Plus(Offset, Pt(x, row))
       /\ SetColors(frame[Pt(x, row)])
       /\ prev' = frame[Pt(x, row)]
  /\ max_col' = LastColumn(Changed)
  /\ phase' = "draw"
  /\ UNCHANGED <<frame, lastFrame, terminalSize, row, screen>>

(* How far a glyph takes col.  What is printed for a wide glyph takes two  *)
(* columns; the default glyph would print a NUL, which takes none.         *)
Columns(glyph) == IF glyph.ch >= kWide THEN 2 ELSE 1

Encoded(glyph) == <<239, 188, 128 + (glyph.ch % 64)>>

Printed(glyph, colors) ==
  CASE glyph.ch = kWide -> PutWide(Blank(colors), Blank(colors))
    [] glyph.ch > kWide -> LET ch == Decoded(Encoded(glyph))
                           IN  PutWide(Shown(ch, "left", colors), Shown(ch, "right", colors))
    [] OTHER            -> screen

DrawGlyph ==
  /\ phase = "draw"
  /\ col <= max_col
  /\ \E glyph \in {MatrixGet(frame, DefaultGlyph, Pt(col, row))} :
       /\ pen' = [fg |-> IF glyph.fg # prev.fg THEN glyph.fg ELSE pen.fg,
                  bg |-> IF glyph.bg # prev.bg THEN glyph.bg ELSE pen.bg]
       /\ lastFrame' = [c \in DOMAIN lastFrame |-> IF c = Pt(col, row) THEN glyph ELSE lastFrame[c]]
       /\ prev' = glyph
       /\ screen' = Printed(glyph, pen')
       /\ cursor' = Plus(cursor, Pt(IF glyph.ch >= kWide THEN 2 ELSE 0, 0))
       /\ col' = col + Columns(glyph)
  /\ UNCHANGED <<frame, terminalSize, phase, row, max_col>>

EndRow ==
  /\ phase = "draw"
  /\ col > max_col
  /\ phase' = "scan"
  /\ row' = row + 1
  /\ UNCHANGED <<frame, lastFrame, terminalSize, col, max_col, prev, screen, cursor, pen>>

(* The status line: the last line is erased, and the status printed up to  *)
(* the last column but one.                                                *)
StatusLine == terminalSize.y - 1

StatusChar == 67       \* stands for all of them

StatusColumn == terminalSize.x - StatusSize - 1

Status ==
  /\ phase = "scan"
  /\ row = FrameSize.y
  /\ phase' = "idle"
  /\ pen' = NoColors
  /\ screen' = [c \in DOMAIN screen |->
                  IF c.y # StatusLine
                  THEN screen[c]
                  ELSE IF c.x \in StatusColumn .. StatusColumn + StatusSize - 1
                       THEN Shown(StatusChar, "whole", NoColors)
                       ELSE Blank(NoColors)]
  /\ cursor' = Pt(StatusColumn + StatusSize, StatusLine)
  /\ UNCHANGED <<frame, lastFrame, terminalSize, row, col, max_col, prev>>

Next ==
  \/ \E picture \in Pictures : Tick(picture)
  \/ SkipRow
  \/ BeginRow
  \/ DrawGlyph
  \/ EndRow
  \/ Status

Spec == Init /\ [][Next]_vars

-----------------------------------------------------------------------------
Cell == [ch : {32, StatusChar} \cup (kWide .. kWide + 63), half : {"whole", "left", "right"},
         fg : 0 .. 255, bg : 0 .. 255]

TypeOK ==
  /\ terminalSize \in Sizes
  /\ frame \in [CellsOf(FrameSize) -> WideGlyph \cup {DefaultGlyph}]
  /\ lastFrame \in [CellsOf(FrameSize) -> WideGlyph \cup {DefaultGlyph}]
  /\ phase \in {"idle", "scan", "draw"}
  /\ row \in 0 .. FrameSize.y
  /\ col \in 0 .. FrameSize.x
  /\ max_col \in 0 .. FrameSize.x - 1
  /\ prev \in WideGlyph \cup {DefaultGlyph}
  /\ screen \in [CellsOf(terminalSize) -> Cell]
  /\ cursor.x \in 0 .. terminalSize.x /\ cursor.y \in 0 .. terminalSize.y - 1
  /\ pen \in [fg : 0 .. 255, bg : 0 .. 255]

(* What the screen should show for the glyph of the frame's column c.      *)
Shows(c, glyph) ==
  LET at    == Plus(Offset, c)
      cell  == screen[at]
      other == screen[Plus(at, Pt(1, 0))]
  IN  IF glyph.ch = kWide
      THEN cell = Blank(glyph) /\ other = Blank(glyph)
      ELSE cell = Shown(glyph.ch, "left", glyph) /\ other = Shown(glyph.ch, "right", glyph)

(* The cells of the board that are on the screen: all of them, if the      *)
(* terminal has a line more than the board for the status; else the status *)
(* line takes the last row (main.cpp:84).                                  *)
Visible ==
  {c \in CellsOf(FrameSize) :
     c.x % 2 = 0 /\ (terminalSize.y > FrameSize.y \/ c.y < FrameSize.y - 1)}

(* lastFrame is what the screen shows, at every moment, in the middle of a *)
(* row too: characters in both columns and with the colours of the glyph.  *)
(* Otherwise tick would leave a stale cell for ever (main.cpp:47).  It     *)
(* takes that runs only ever draw from the columns with a wide glyph.      *)
ShowsLastFrame ==
  \A c \in Visible : lastFrame[c] # DefaultGlyph => Shows(c, lastFrame[c])

(* After every tick the screen shows the frame: what changed was drawn,    *)
(* nothing that did not was disturbed, and the status line is elsewhere.   *)
ScreenShowsFrame ==
  phase = "idle" => \A c \in Visible : frame[c] # DefaultGlyph => Shows(c, frame[c])
=============================================================================
