--------------------------- MODULE TerminalProofs ---------------------------
(***************************************************************************)
(* Theorems about Terminal, for a board and a terminal of any size and for *)
(* any pictures: lastFrame is at every moment what the screen shows, and   *)
(* after each tick the screen shows the frame.                             *)
(***************************************************************************)
EXTENDS Terminal, GeoProofs

-----------------------------------------------------------------------------
(* The frame.  Odd columns are never written, in either matrix, so a run   *)
(* begins and ends on an even column; during a tick every even column has  *)
(* a glyph of two columns.                                                 *)
FrameInv ==
  /\ \A c \in CellsOf(FrameSize) :
       c.x % 2 = 1 => frame[c] = DefaultGlyph /\ lastFrame[c] = DefaultGlyph
  /\ phase # "idle" => \A c \in CellsOf(FrameSize) : c.x % 2 = 0 => frame[c] \in WideGlyph

(* The progress of a tick.  The rows before row are drawn, and in row the  *)
(* columns outside of col .. max_col; the cursor is where col is, and the  *)
(* pen has the colours of the glyph before.                                *)
DrawInv ==
  /\ row < FrameSize.y
  /\ col % 2 = 0 /\ max_col % 2 = 0 /\ col <= max_col + 2
  /\ cursor = Plus(Offset, Pt(col, row))
  /\ pen = Colors(prev)
  /\ \A c \in CellsOf(FrameSize) :
       c.y = row /\ (c.x < col \/ c.x > max_col) => lastFrame[c] = frame[c]

TickInv ==
  /\ phase = "idle" => lastFrame = frame
  /\ phase # "idle" => \A c \in CellsOf(FrameSize) : c.y < row => lastFrame[c] = frame[c]
  /\ phase = "draw" => DrawInv

TerminalInv == TypeOK /\ FrameInv /\ TickInv /\ ShowsLastFrame

-----------------------------------------------------------------------------
(* Cells and sizes.                                                        *)
LEMMA CellIs ==
  ASSUME NEW size, size.x \in Int, size.y \in Int, NEW c \in CellsOf(size)
  PROVE  c = Pt(c.x, c.y) /\ c.x \in 0 .. size.x - 1 /\ c.y \in 0 .. size.y - 1
  BY DEF CellsOf, Pt

LEMMA IsCell ==
  ASSUME NEW size, NEW x \in 0 .. size.x - 1, NEW y \in 0 .. size.y - 1
  PROVE  Pt(x, y) \in CellsOf(size)
  BY DEF CellsOf

LEMMA PtFields ==
  ASSUME NEW x, NEW y
  PROVE  Pt(x, y).x = x /\ Pt(x, y).y = y
  BY DEF Pt

LEMMA PtEqual ==
  ASSUME NEW x, NEW y, NEW u, NEW v
  PROVE  Pt(x, y) = Pt(u, v) <=> x = u /\ y = v
  BY DEF Pt

LEMMA FrameFacts ==
  /\ FrameSize.x \in Nat \ {0} /\ FrameSize.y \in Nat \ {0}
  /\ FrameSize.x % 2 = 0
<1>1. FrameSize.x = 2 * BoardSize.x /\ FrameSize.y = BoardSize.y
  BY DEF FrameSize, Pt
<1>2. BoardSize.x \in Nat \ {0} /\ BoardSize.y \in Nat \ {0}
  BY TerminalAssumption
<1> QED BY <1>1, <1>2

(* The frame is inside the terminal, and above its last line if it can be. *)
LEMMA OffsetFacts ==
  ASSUME terminalSize \in Sizes
  PROVE  /\ terminalSize.x \in Nat /\ terminalSize.y \in Nat
         /\ terminalSize.x > StatusSize /\ StatusSize \in Nat
         /\ Offset.x \in Nat /\ Offset.y \in Nat
         /\ Offset.x + FrameSize.x <= terminalSize.x
         /\ Offset.y + FrameSize.y <= terminalSize.y
         /\ terminalSize.y > FrameSize.y => Offset.y + FrameSize.y < terminalSize.y
<1>1. /\ terminalSize.x \in Nat /\ terminalSize.y \in Nat
      /\ terminalSize.x >= FrameSize.x /\ terminalSize.y >= FrameSize.y
      /\ terminalSize.x > StatusSize /\ StatusSize \in Nat
  BY TerminalAssumption
<1>2. /\ Offset.x = (terminalSize.x - FrameSize.x) \div 2
      /\ Offset.y = (terminalSize.y - FrameSize.y) \div 2
  BY DEF Offset, Pt
<1> QED BY <1>1, <1>2, FrameFacts

(* Where the columns c and c + 1 of the frame are on the screen.           *)
At(c) == Plus(Offset, c)

LEMMA AtFacts ==
  ASSUME terminalSize \in Sizes, NEW c \in CellsOf(FrameSize), c.x % 2 = 0
  PROVE  /\ At(c) = Pt(Offset.x + c.x, Offset.y + c.y)
         /\ Plus(At(c), Pt(1, 0)) = Pt(Offset.x + c.x + 1, Offset.y + c.y)
         /\ At(c) \in CellsOf(terminalSize)
         /\ Plus(At(c), Pt(1, 0)) \in CellsOf(terminalSize)
<1>1. c.x \in 0 .. FrameSize.x - 1 /\ c.y \in 0 .. FrameSize.y - 1
  BY FrameFacts, CellIs
<1>2. /\ terminalSize.x \in Nat /\ terminalSize.y \in Nat
      /\ Offset.x \in Nat /\ Offset.y \in Nat
      /\ Offset.x + FrameSize.x <= terminalSize.x
      /\ Offset.y + FrameSize.y <= terminalSize.y
  BY OffsetFacts
<1>3. At(c) = Pt(Offset.x + c.x, Offset.y + c.y)
  BY DEF At, Plus
<1>4. Plus(At(c), Pt(1, 0)) = Pt(Offset.x + c.x + 1, Offset.y + c.y)
  BY <1>1, <1>2, <1>3 DEF Plus, Pt
<1>5. /\ Offset.x + c.x \in 0 .. terminalSize.x - 1
      /\ Offset.x + c.x + 1 \in 0 .. terminalSize.x - 1
      /\ Offset.y + c.y \in 0 .. terminalSize.y - 1
  BY <1>1, <1>2, FrameFacts
<1> QED BY <1>3, <1>4, <1>5, IsCell

(* A nonempty set of columns has a last one.                               *)
LEMMA LastColumnIs ==
  ASSUME NEW n \in Nat, NEW S, S \subseteq 0 .. n, S # {}
  PROVE  LastColumn(S) \in S /\ \A y \in S : y <= LastColumn(S)
<1> DEFINE T == {n - x : x \in S}
<1>1. T \subseteq Nat /\ T # {}
  OBVIOUS
<1>2. PICK t \in T : \A k \in T : t <= k
  BY <1>1, LeastNatural
<1>3. PICK x \in S : t = n - x
  OBVIOUS
<1>4. ASSUME NEW y \in S PROVE y <= x
  <2>1. n - y \in T
    OBVIOUS
  <2>2. t <= n - y
    BY <1>2, <2>1
  <2> QED BY <1>3, <2>2
<1>5. \E z \in S : \A y \in S : y <= z
  BY <1>4
<1> HIDE DEF T
<1> QED BY <1>5 DEF LastColumn

-----------------------------------------------------------------------------
(* Glyphs.  The three bytes that are printed for a glyph stand for its     *)
(* character.                                                              *)
LEMMA DefaultIsNotWide == DefaultGlyph \notin WideGlyph
  BY DEF DefaultGlyph, WideGlyph, kWide

LEMMA DecodedEncoded ==
  ASSUME NEW glyph \in WideGlyph
  PROVE  Decoded(Encoded(glyph)) = glyph.ch
<1>1. glyph.ch \in kWide .. kWide + 63
  BY DEF WideGlyph
<1> DEFINE n == glyph.ch
<1>2. n \in 65280 .. 65343
  BY <1>1 DEF kWide
<1>3. (n % 64) = n - 65280
  BY <1>2
<1>4. (128 + (n % 64)) % 64 = n - 65280
  BY <1>2, <1>3
<1>5. Decoded(Encoded(glyph)) = (239 % 16) * 4096 + (188 % 64) * 64 + ((128 + (n % 64)) % 64)
  BY DEF Decoded, Encoded
<1> QED BY <1>2, <1>4, <1>5

(* What the two cells of a glyph show.                                     *)
LeftCell(glyph) ==
  IF glyph.ch = kWide THEN Blank(glyph) ELSE Shown(glyph.ch, "left", glyph)

RightCell(glyph) ==
  IF glyph.ch = kWide THEN Blank(glyph) ELSE Shown(glyph.ch, "right", glyph)

LEMMA CellsOfGlyph ==
  ASSUME NEW glyph \in WideGlyph
  PROVE  /\ LeftCell(glyph) \in Cell /\ RightCell(glyph) \in Cell
         /\ LeftCell(glyph).half # "right"
         /\ RightCell(glyph).half # "left"
  BY DEF LeftCell, RightCell, Cell, WideGlyph, Blank, Shown, kWide

LEMMA ShowsIs ==
  ASSUME NEW c, NEW glyph
  PROVE  Shows(c, glyph) <=> /\ screen[At(c)] = LeftCell(glyph)
                             /\ screen[Plus(At(c), Pt(1, 0))] = RightCell(glyph)
  BY DEF Shows, At, LeftCell, RightCell

(* What DrawGlyph does, given the invariant.                               *)
LEMMA DrawGlyphDoes ==
  ASSUME TerminalInv, DrawGlyph, NEW p, NEW glyph, p = Pt(col, row), glyph = frame[p]
  PROVE  /\ p \in CellsOf(FrameSize) /\ p.x = col /\ p.y = row /\ col % 2 = 0
         /\ glyph \in WideGlyph
         /\ col \in Nat /\ max_col \in Nat
         /\ col <= max_col /\ max_col + 2 <= FrameSize.x /\ col' = col + 2
         /\ cursor = At(p) /\ cursor' = Pt(Offset.x + (col + 2), Offset.y + row)
         /\ prev' = glyph /\ pen' = Colors(glyph)
         /\ lastFrame' = [c \in CellsOf(FrameSize) |-> IF c = p THEN glyph ELSE lastFrame[c]]
         /\ screen' = PutWide(LeftCell(glyph), RightCell(glyph))
         /\ phase = "draw" /\ phase' = "draw"
         /\ UNCHANGED <<frame, terminalSize, row, max_col>>
<1>1. /\ phase = "draw" /\ col <= max_col
      /\ UNCHANGED <<frame, terminalSize, phase, row, max_col>>
  BY DEF DrawGlyph
<1>2. /\ frame \in [CellsOf(FrameSize) -> WideGlyph \cup {DefaultGlyph}]
      /\ lastFrame \in [CellsOf(FrameSize) -> WideGlyph \cup {DefaultGlyph}]
      /\ row \in 0 .. FrameSize.y /\ col \in 0 .. FrameSize.x
      /\ max_col \in 0 .. FrameSize.x - 1 /\ terminalSize \in Sizes
  BY DEF TerminalInv, TypeOK
<1>3. DrawInv
  BY <1>1 DEF TerminalInv, TickInv
<1>4. max_col + 2 <= FrameSize.x /\ col \in 0 .. FrameSize.x - 1 /\ row \in 0 .. FrameSize.y - 1
  BY <1>1, <1>2, <1>3, FrameFacts DEF DrawInv
<1>5. p \in CellsOf(FrameSize) /\ p.x = col /\ p.y = row
  BY <1>4, IsCell, PtFields
<1>6. glyph \in WideGlyph
  BY <1>1, <1>3, <1>5 DEF TerminalInv, FrameInv, DrawInv
<1>7. glyph = MatrixGet(frame, DefaultGlyph, Pt(col, row))
  BY <1>2, <1>5 DEF MatrixGet
<1>8. /\ pen' = [fg |-> IF glyph.fg # prev.fg THEN glyph.fg ELSE pen.fg,
                 bg |-> IF glyph.bg # prev.bg THEN glyph.bg ELSE pen.bg]
      /\ lastFrame' = [c \in DOMAIN lastFrame |-> IF c = Pt(col, row) THEN glyph ELSE lastFrame[c]]
      /\ prev' = glyph
      /\ screen' = Printed(glyph, pen')
      /\ cursor' = Plus(cursor, Pt(IF glyph.ch >= kWide THEN 2 ELSE 0, 0))
      /\ col' = col + Columns(glyph)
  BY <1>7 DEF DrawGlyph
<1>9. glyph.ch \in Nat /\ glyph.ch >= kWide
  BY <1>6 DEF WideGlyph, kWide
<1>10. pen' = Colors(glyph)
  BY <1>3, <1>8 DEF DrawInv, Colors
<1>11. col' = col + 2
  BY <1>8, <1>9 DEF Columns
<1>12. cursor = At(p) /\ cursor' = Pt(Offset.x + (col + 2), Offset.y + row)
  <2>1. cursor = At(p)
    BY <1>3 DEF DrawInv, At
  <2>2. cursor = Pt(Offset.x + col, Offset.y + row)
    BY <1>5, <2>1 DEF At, Plus
  <2>3. cursor' = Plus(cursor, Pt(2, 0))
    BY <1>8, <1>9
  <2>4. cursor' = Pt(cursor.x + 2, cursor.y + 0)
    BY <2>3 DEF Plus, Pt
  <2>5. Offset.x \in Nat /\ Offset.y \in Nat
    BY <1>2, OffsetFacts
  <2> QED BY <1>2, <2>1, <2>2, <2>4, <2>5, PtFields
<1>13. screen' = PutWide(LeftCell(glyph), RightCell(glyph))
  <2>1. /\ Blank(pen') = Blank(glyph)
        /\ \A ch, half : Shown(ch, half, pen') = Shown(ch, half, glyph)
    BY <1>10 DEF Blank, Shown, Colors
  <2>2. CASE glyph.ch = kWide
    <3>1. Printed(glyph, pen') = PutWide(Blank(pen'), Blank(pen'))
      <4>1. ~(glyph.ch > kWide)
        BY <1>9, <2>2 DEF kWide
      <4> QED BY <2>2, <4>1 DEF Printed
    <3> QED BY <1>8, <2>1, <2>2, <3>1 DEF LeftCell, RightCell
  <2>3. CASE glyph.ch > kWide
    <3>1. glyph.ch # kWide
      BY <1>9, <2>3 DEF kWide
    <3>2. Printed(glyph, pen')
            = PutWide(Shown(glyph.ch, "left", pen'), Shown(glyph.ch, "right", pen'))
      BY <1>6, <2>3, <3>1, DecodedEncoded DEF Printed
    <3> QED BY <1>8, <2>1, <3>1, <3>2 DEF LeftCell, RightCell
  <2> QED BY <1>9, <2>2, <2>3 DEF kWide
<1>14. lastFrame' = [c \in CellsOf(FrameSize) |-> IF c = p THEN glyph ELSE lastFrame[c]]
  BY <1>2, <1>8
<1> QED BY <1>1, <1>2, <1>3, <1>4, <1>5, <1>6, <1>8, <1>10, <1>11, <1>12, <1>13, <1>14 DEF DrawInv

(* A glyph that is drawn is shown, and no other that was shown is cut: the *)
(* cell before the cursor is a right half or blank, the one after the two  *)
(* drawn a left half or blank.                                             *)
LEMMA DrawGlyphShows ==
  ASSUME TerminalInv, DrawGlyph
  PROVE  ShowsLastFrame' /\ screen' \in [CellsOf(terminalSize) -> Cell]
<1> DEFINE p == Pt(col, row)
           glyph == frame[p]
<1>1. /\ p \in CellsOf(FrameSize) /\ p.x = col /\ p.y = row /\ col % 2 = 0
      /\ glyph \in WideGlyph
      /\ cursor = At(p)
      /\ lastFrame' = [c \in CellsOf(FrameSize) |-> IF c = p THEN glyph ELSE lastFrame[c]]
      /\ screen' = PutWide(LeftCell(glyph), RightCell(glyph))
      /\ UNCHANGED <<frame, terminalSize, row, max_col>>
  BY DrawGlyphDoes
<1>2. /\ terminalSize \in Sizes /\ screen \in [CellsOf(terminalSize) -> Cell]
      /\ lastFrame \in [CellsOf(FrameSize) -> WideGlyph \cup {DefaultGlyph}]
  BY DEF TerminalInv, TypeOK
<1>3. Offset.x \in Nat /\ Offset.y \in Nat /\ Offset' = Offset
  BY <1>1, <1>2, OffsetFacts DEF Offset
<1> HIDE DEF p, glyph
<1>4. /\ cursor = Pt(Offset.x + p.x, Offset.y + p.y)
      /\ cursor.x = Offset.x + p.x /\ cursor.y = Offset.y + p.y
      /\ cursor \in CellsOf(terminalSize)
      /\ Plus(cursor, Pt(1, 0)) = Pt(Offset.x + p.x + 1, Offset.y + p.y)
      /\ Plus(cursor, Pt(1, 0)) \in CellsOf(terminalSize)
  BY <1>1, <1>2, AtFacts, PtFields
<1>5. p.x \in Nat /\ p.y \in Nat /\ p = Pt(p.x, p.y)
  BY <1>1, FrameFacts, CellIs
<1>6. /\ Minus(cursor, Pt(1, 0)) = Pt(Offset.x + p.x - 1, Offset.y + p.y)
      /\ Plus(cursor, Pt(2, 0)) = Pt(Offset.x + p.x + 2, Offset.y + p.y)
  BY <1>3, <1>4, <1>5 DEF Plus, Minus, Pt
<1>7. /\ screen' \in [CellsOf(terminalSize) -> Cell]
      /\ DOMAIN screen' = CellsOf(terminalSize)
  <2>1. LeftCell(glyph) \in Cell /\ RightCell(glyph) \in Cell
    BY <1>1, CellsOfGlyph
  <2>2. \A c \in CellsOf(terminalSize) : screen[c] \in Cell /\ Blank(screen[c]) \in Cell
    BY <1>2 DEF Cell, Blank, Shown
  <2> QED BY <1>1, <1>2, <2>1, <2>2 DEF PutWide
<1>8. screen'[cursor] = LeftCell(glyph) /\ screen'[Plus(cursor, Pt(1, 0))] = RightCell(glyph)
  <2>1. /\ cursor # Plus(cursor, Pt(1, 0))
        /\ cursor # Minus(cursor, Pt(1, 0)) /\ cursor # Plus(cursor, Pt(2, 0))
        /\ Plus(cursor, Pt(1, 0)) # Minus(cursor, Pt(1, 0))
        /\ Plus(cursor, Pt(1, 0)) # Plus(cursor, Pt(2, 0))
    BY <1>3, <1>4, <1>5, <1>6 DEF Pt
  <2>2. cursor \in DOMAIN screen /\ Plus(cursor, Pt(1, 0)) \in DOMAIN screen
    BY <1>2, <1>4
  <2> QED BY <1>1, <2>1, <2>2 DEF PutWide
<1>9. ASSUME NEW q \in CellsOf(terminalSize), q # cursor, q # Plus(cursor, Pt(1, 0)),
             q = Minus(cursor, Pt(1, 0)) => screen[q].half # "left",
             q = Plus(cursor, Pt(2, 0)) => screen[q].half # "right"
      PROVE  screen'[q] = screen[q]
  <2>1. q \in DOMAIN screen
    BY <1>2
  <2> QED BY <1>1, <1>9, <2>1 DEF PutWide
<1>10. ASSUME NEW c \in Visible, lastFrame'[c] # DefaultGlyph
       PROVE  /\ screen'[At(c)] = LeftCell(lastFrame'[c])
              /\ screen'[Plus(At(c), Pt(1, 0))] = RightCell(lastFrame'[c])
  <2>1. c \in CellsOf(FrameSize) /\ c.x % 2 = 0
    BY DEF Visible
  <2>2. c.x \in Nat /\ c.y \in Nat /\ c = Pt(c.x, c.y)
    BY <2>1, FrameFacts, CellIs
  <2>3. CASE c = p
    BY <1>1, <1>8, <2>1, <2>3
  <2>4. CASE c # p
    <3>1. lastFrame'[c] = lastFrame[c] /\ lastFrame[c] \in WideGlyph
      BY <1>1, <1>2, <1>10, <2>1, <2>4
    <3>2. /\ screen[At(c)] = LeftCell(lastFrame[c])
          /\ screen[Plus(At(c), Pt(1, 0))] = RightCell(lastFrame[c])
      BY <1>10, <3>1, ShowsIs DEF TerminalInv, ShowsLastFrame
    <3>3. screen[At(c)].half # "right" /\ screen[Plus(At(c), Pt(1, 0))].half # "left"
      BY <3>1, <3>2, CellsOfGlyph
    <3>4. /\ At(c) = Pt(Offset.x + c.x, Offset.y + c.y)
          /\ Plus(At(c), Pt(1, 0)) = Pt(Offset.x + c.x + 1, Offset.y + c.y)
          /\ At(c) \in CellsOf(terminalSize)
          /\ Plus(At(c), Pt(1, 0)) \in CellsOf(terminalSize)
      BY <1>2, <2>1, AtFacts
    <3>5. c.x # p.x \/ c.y # p.y
      BY <1>5, <2>2, <2>4
    <3>6. /\ At(c) # cursor /\ At(c) # Plus(cursor, Pt(1, 0))
          /\ At(c) # Minus(cursor, Pt(1, 0))
      BY <1>1, <1>3, <1>4, <1>5, <1>6, <2>1, <2>2, <3>4, <3>5, PtEqual
    <3>7. /\ Plus(At(c), Pt(1, 0)) # cursor
          /\ Plus(At(c), Pt(1, 0)) # Plus(cursor, Pt(1, 0))
          /\ Plus(At(c), Pt(1, 0)) # Plus(cursor, Pt(2, 0))
      BY <1>1, <1>3, <1>4, <1>5, <1>6, <2>1, <2>2, <3>4, <3>5, PtEqual
    <3>8. screen'[At(c)] = screen[At(c)]
      BY <1>9, <3>3, <3>4, <3>6
    <3>9. screen'[Plus(At(c), Pt(1, 0))] = screen[Plus(At(c), Pt(1, 0))]
      BY <1>9, <3>3, <3>4, <3>7
    <3> QED BY <3>1, <3>2, <3>8, <3>9
  <2> QED BY <2>3, <2>4
<1>11. Visible' = Visible /\ \A c : At(c)' = At(c)
  BY <1>1, <1>3 DEF Visible, At
<1>12. ASSUME NEW c \in Visible, lastFrame'[c] # DefaultGlyph PROVE Shows(c, lastFrame[c])'
  BY <1>10, <1>11, <1>12, <1>3 DEF Shows, At, LeftCell, RightCell
<1> QED BY <1>7, <1>11, <1>12 DEF ShowsLastFrame

-----------------------------------------------------------------------------
LEMMA TerminalInit ==
  ASSUME Init
  PROVE  TerminalInv
<1>1. /\ terminalSize \in Sizes
      /\ frame = [c \in CellsOf(FrameSize) |-> DefaultGlyph] /\ lastFrame = frame
      /\ phase = "idle" /\ row = 0 /\ col = 0 /\ max_col = 0 /\ prev = DefaultGlyph
      /\ screen = [c \in CellsOf(terminalSize) |-> Blank(NoColors)]
      /\ cursor = Pt(0, 0) /\ pen = NoColors
  BY DEF Init, Default, origin
<1>2. FrameSize.x \in Nat \ {0} /\ FrameSize.y \in Nat \ {0}
  BY FrameFacts
<1>3. /\ terminalSize.x \in Nat /\ terminalSize.y \in Nat \ {0}
      /\ cursor.x = 0 /\ cursor.y = 0
  BY <1>1, <1>2, OffsetFacts DEF Pt
<1>4. Blank(NoColors) \in Cell /\ NoColors \in [fg : 0 .. 255, bg : 0 .. 255]
  BY DEF Blank, Shown, NoColors, kNone, Cell, kWide
<1>5. TypeOK
  BY <1>1, <1>2, <1>3, <1>4 DEF TypeOK
<1>6. FrameInv /\ TickInv
  BY <1>1 DEF FrameInv, TickInv
<1>7. ShowsLastFrame
  BY <1>1 DEF ShowsLastFrame, Visible
<1> QED BY <1>5, <1>6, <1>7 DEF TerminalInv

(* The steps that change neither lastFrame nor the screen.                 *)
LEMMA ShowsKept ==
  ASSUME ShowsLastFrame, UNCHANGED <<lastFrame, terminalSize, screen>>
  PROVE  ShowsLastFrame'
<1>1. Visible' = Visible /\ Offset' = Offset
  BY DEF Visible, Offset
<1> QED BY <1>1 DEF ShowsLastFrame, Shows

LEMMA TickKeeps ==
  ASSUME TerminalInv, NEW picture \in Pictures, Tick(picture)
  PROVE  TerminalInv'
<1>1. /\ phase = "idle" /\ phase' = "scan" /\ row' = 0
      /\ frame' = [c \in DOMAIN frame |->
                     IF c.x % 2 = 0 THEN picture[Pt(c.x \div 2, c.y)] ELSE frame[c]]
      /\ UNCHANGED <<lastFrame, terminalSize, col, max_col, prev, screen, cursor, pen>>
  BY DEF Tick
<1>2. frame \in [CellsOf(FrameSize) -> WideGlyph \cup {DefaultGlyph}]
  BY DEF TerminalInv, TypeOK
<1>3. ASSUME NEW c \in CellsOf(FrameSize)
      PROVE  /\ c.x % 2 = 0 => frame'[c] \in WideGlyph
             /\ c.x % 2 = 1 => frame'[c] = frame[c]
             /\ frame'[c] \in WideGlyph \cup {DefaultGlyph}
             /\ c.y \in Nat
  <2>1. c.x \in 0 .. FrameSize.x - 1 /\ c.y \in 0 .. FrameSize.y - 1
    BY FrameFacts, CellIs
  <2>2. FrameSize.x = 2 * BoardSize.x /\ FrameSize.y = BoardSize.y
    BY DEF FrameSize, Pt
  <2>3. BoardSize.x \in Nat /\ BoardSize.y \in Nat
    BY TerminalAssumption
  <2>4. c.x \div 2 \in 0 .. BoardSize.x - 1 /\ c.y \in 0 .. BoardSize.y - 1
    BY <2>1, <2>2, <2>3
  <2>5. Pt(c.x \div 2, c.y) \in CellsOf(BoardSize)
    BY <2>4, IsCell
  <2>6. picture[Pt(c.x \div 2, c.y)] \in WideGlyph
    BY <2>5, TerminalAssumption
  <2>7. frame'[c] = IF c.x % 2 = 0 THEN picture[Pt(c.x \div 2, c.y)] ELSE frame[c]
    BY <1>1, <1>2
  <2> QED BY <1>2, <2>1, <2>6, <2>7
<1>4. frame' \in [CellsOf(FrameSize) -> WideGlyph \cup {DefaultGlyph}]
  BY <1>1, <1>2, <1>3
<1>5. TypeOK'
  <2>1. row' \in 0 .. FrameSize.y
    BY <1>1, FrameFacts
  <2> QED BY <1>1, <1>4, <2>1 DEF TerminalInv, TypeOK
<1>6. FrameInv'
  BY <1>1, <1>3 DEF TerminalInv, FrameInv
<1>7. TickInv'
  BY <1>1, <1>3 DEF TickInv
<1>8. ShowsLastFrame'
  BY <1>1, ShowsKept DEF TerminalInv
<1> QED BY <1>5, <1>6, <1>7, <1>8 DEF TerminalInv

LEMMA SkipRowKeeps ==
  ASSUME TerminalInv, SkipRow
  PROVE  TerminalInv'
<1>1. /\ phase = "scan" /\ row < FrameSize.y /\ Changed = {} /\ row' = row + 1
      /\ UNCHANGED <<frame, lastFrame, terminalSize, phase, col, max_col, prev, screen, cursor, pen>>
  BY DEF SkipRow
<1>2. row \in 0 .. FrameSize.y - 1 /\ row' \in 0 .. FrameSize.y
  BY <1>1, FrameFacts DEF TerminalInv, TypeOK
<1>3. TypeOK'
  BY <1>1, <1>2 DEF TerminalInv, TypeOK
<1>4. FrameInv'
  BY <1>1 DEF TerminalInv, FrameInv
<1>5. ASSUME NEW c \in CellsOf(FrameSize), c.y < row' PROVE lastFrame'[c] = frame'[c]
  <2>1. c.x \in 0 .. FrameSize.x - 1 /\ c.y \in 0 .. FrameSize.y - 1 /\ c = Pt(c.x, c.y)
    BY FrameFacts, CellIs
  <2>2. CASE c.y < row
    BY <1>1, <2>2 DEF TerminalInv, TickInv
  <2>3. CASE c.y = row
    BY <1>1, <2>1, <2>3 DEF Changed
  <2> QED BY <1>1, <1>2, <1>5, <2>1, <2>2, <2>3
<1>6. TickInv'
  BY <1>1, <1>5 DEF TickInv
<1>7. ShowsLastFrame'
  BY <1>1, ShowsKept DEF TerminalInv
<1> QED BY <1>3, <1>4, <1>6, <1>7 DEF TerminalInv

LEMMA BeginRowKeeps ==
  ASSUME TerminalInv, BeginRow
  PROVE  TerminalInv'
<1>1. /\ phase = "scan" /\ row < FrameSize.y /\ phase' = "draw"
      /\ max_col' = LastColumn(Changed)
      /\ UNCHANGED <<frame, lastFrame, terminalSize, row, screen>>
  BY DEF BeginRow
<1>2. PICK x \in Changed : /\ \A y \in Changed : x <= y
                           /\ col' = x
                           /\ cursor' = Plus(Offset, Pt(x, row))
                           /\ pen' = Colors(frame[Pt(x, row)])
                           /\ prev' = frame[Pt(x, row)]
  BY DEF BeginRow, SetColors
<1>3. /\ row \in 0 .. FrameSize.y - 1 /\ terminalSize \in Sizes
      /\ frame \in [CellsOf(FrameSize) -> WideGlyph \cup {DefaultGlyph}]
  BY <1>1, FrameFacts DEF TerminalInv, TypeOK
<1>4. ASSUME NEW y \in Changed
      PROVE  /\ y \in 0 .. FrameSize.x - 1 /\ y % 2 = 0
             /\ Pt(y, row) \in CellsOf(FrameSize)
             /\ frame[Pt(y, row)] \in WideGlyph
  <2>1. y \in 0 .. FrameSize.x - 1 /\ lastFrame[Pt(y, row)] # frame[Pt(y, row)]
    BY DEF Changed
  <2>2. Pt(y, row) \in CellsOf(FrameSize) /\ Pt(y, row).x = y
    BY <1>3, <2>1, IsCell, PtFields
  <2>3. y % 2 # 1
    BY <2>1, <2>2 DEF TerminalInv, FrameInv
  <2>4. y % 2 = 0
    BY <2>1, <2>3
  <2> QED BY <1>1, <2>1, <2>2, <2>4 DEF TerminalInv, FrameInv
<1>5. max_col' \in Changed /\ \A y \in Changed : y <= max_col'
  <2>1. FrameSize.x - 1 \in Nat /\ Changed \subseteq 0 .. FrameSize.x - 1 /\ Changed # {}
    BY FrameFacts, <1>2, <1>4
  <2> QED BY <1>1, <2>1, LastColumnIs
<1>6. /\ x \in 0 .. FrameSize.x - 1 /\ x % 2 = 0 /\ frame[Pt(x, row)] \in WideGlyph
      /\ max_col' \in 0 .. FrameSize.x - 1 /\ max_col' % 2 = 0 /\ x <= max_col'
  BY <1>2, <1>4, <1>5
<1>7. /\ cursor'.x = Offset.x + x /\ cursor'.y = Offset.y + row /\ Offset' = Offset
      /\ cursor' = Plus(Offset, Pt(x, row))
  BY <1>1, <1>2 DEF Plus, Pt, Offset
<1>8. TypeOK'
  <2>1. cursor'.x \in 0 .. terminalSize'.x /\ cursor'.y \in 0 .. terminalSize'.y - 1
    <3>1. /\ Offset.x \in Nat /\ Offset.y \in Nat
          /\ terminalSize.x \in Nat /\ terminalSize.y \in Nat
          /\ Offset.x + FrameSize.x <= terminalSize.x
          /\ Offset.y + FrameSize.y <= terminalSize.y
      BY <1>3, OffsetFacts
    <3> QED BY <1>1, <1>3, <1>6, <1>7, <3>1, FrameFacts
  <2>2. pen' \in [fg : 0 .. 255, bg : 0 .. 255] /\ prev' \in WideGlyph
    BY <1>2, <1>6 DEF Colors, WideGlyph
  <2>3. col' \in 0 .. FrameSize.x
    BY <1>2, <1>6, FrameFacts
  <2> QED BY <1>1, <1>6, <2>1, <2>2, <2>3 DEF TerminalInv, TypeOK
<1>9. FrameInv'
  BY <1>1 DEF TerminalInv, FrameInv
<1>10. TickInv'
  <2>1. ASSUME NEW c \in CellsOf(FrameSize), c.y = row, c.x < x \/ c.x > max_col'
        PROVE  lastFrame[c] = frame[c]
    <3>1. c.x \in 0 .. FrameSize.x - 1 /\ c = Pt(c.x, row)
      BY <2>1, FrameFacts, CellIs
    <3>2. c.x \notin Changed
      BY <1>2, <1>5, <1>6, <2>1, <3>1
    <3> QED BY <3>1, <3>2 DEF Changed
  <2>2. DrawInv'
    <3>1. pen' = Colors(prev)'
      BY <1>2 DEF Colors
    <3>2. col' % 2 = 0 /\ max_col' % 2 = 0 /\ col' <= max_col' + 2
      <4>1. x \in Nat /\ max_col' \in Nat
        BY <1>6, FrameFacts
      <4>2. \A m, n \in Nat : m <= n => m <= n + 2
        OBVIOUS
      <4>3. x <= max_col' + 2
        BY <1>6, <4>1, <4>2
      <4> QED BY <1>2, <1>6, <4>3
    <3>3. cursor' = Plus(Offset', Pt(col', row'))
      BY <1>1, <1>2, <1>7
    <3> QED BY <1>1, <1>2, <2>1, <3>1, <3>2, <3>3 DEF DrawInv
  <2>3. \A c \in CellsOf(FrameSize) : c.y < row => lastFrame[c] = frame[c]
    BY <1>1 DEF TerminalInv, TickInv
  <2> QED BY <1>1, <2>2, <2>3 DEF TickInv
<1>11. ShowsLastFrame'
  BY <1>1, ShowsKept DEF TerminalInv
<1> QED BY <1>8, <1>9, <1>10, <1>11 DEF TerminalInv

LEMMA DrawGlyphKeeps ==
  ASSUME TerminalInv, DrawGlyph
  PROVE  TerminalInv'
<1> DEFINE p == Pt(col, row)
           glyph == frame[p]
<1>1. /\ p \in CellsOf(FrameSize) /\ p.x = col /\ p.y = row /\ col % 2 = 0
      /\ glyph \in WideGlyph
      /\ col \in Nat /\ max_col \in Nat
      /\ col <= max_col /\ max_col + 2 <= FrameSize.x /\ col' = col + 2
      /\ cursor' = Pt(Offset.x + (col + 2), Offset.y + row)
      /\ prev' = glyph /\ pen' = Colors(glyph)
      /\ lastFrame' = [c \in CellsOf(FrameSize) |-> IF c = p THEN glyph ELSE lastFrame[c]]
      /\ phase = "draw" /\ phase' = "draw"
      /\ UNCHANGED <<frame, terminalSize, row, max_col>>
  BY DrawGlyphDoes
<1>2. ShowsLastFrame' /\ screen' \in [CellsOf(terminalSize) -> Cell]
  BY DrawGlyphShows
<1>3. /\ row \in 0 .. FrameSize.y - 1 /\ terminalSize \in Sizes /\ DrawInv
      /\ lastFrame \in [CellsOf(FrameSize) -> WideGlyph \cup {DefaultGlyph}]
  BY <1>1, FrameFacts DEF TerminalInv, TypeOK, TickInv, DrawInv
<1> HIDE DEF p
<1>4. \A c \in CellsOf(FrameSize) : lastFrame'[c] = IF c = p THEN frame[c] ELSE lastFrame[c]
  BY <1>1
<1>5. TypeOK'
  <2>1. cursor'.x \in 0 .. terminalSize'.x /\ cursor'.y \in 0 .. terminalSize'.y - 1
    <3>1. /\ Offset.x \in Nat /\ Offset.y \in Nat
          /\ terminalSize.x \in Nat /\ terminalSize.y \in Nat
          /\ Offset.x + FrameSize.x <= terminalSize.x
          /\ Offset.y + FrameSize.y <= terminalSize.y
      BY <1>3, OffsetFacts
    <3>2. cursor'.x = Offset.x + (col + 2) /\ cursor'.y = Offset.y + row
      BY <1>1, PtFields
    <3> QED BY <1>1, <1>3, <3>1, <3>2, FrameFacts
  <2>2. pen' \in [fg : 0 .. 255, bg : 0 .. 255]
    BY <1>1 DEF Colors, WideGlyph
  <2>3. col' \in 0 .. FrameSize.x
    BY <1>1, FrameFacts
  <2>4. lastFrame' \in [CellsOf(FrameSize) -> WideGlyph \cup {DefaultGlyph}]
    BY <1>1, <1>3
  <2> HIDE DEF glyph
  <2> QED BY <1>1, <1>2, <2>1, <2>2, <2>3, <2>4 DEF TerminalInv, TypeOK
<1>6. FrameInv'
  <2>1. \A c \in CellsOf(FrameSize) : c.x % 2 = 1 => lastFrame'[c] = DefaultGlyph
    BY <1>1, <1>4 DEF TerminalInv, FrameInv
  <2> QED BY <1>1, <2>1 DEF TerminalInv, FrameInv
<1>7. TickInv'
  <2>1. ASSUME NEW c \in CellsOf(FrameSize), c.y < row PROVE lastFrame'[c] = frame[c]
    BY <1>1, <1>4, <2>1 DEF TerminalInv, TickInv
  <2>2. ASSUME NEW c \in CellsOf(FrameSize), c.y = row, c.x < col + 2 \/ c.x > max_col
        PROVE  lastFrame'[c] = frame[c]
    <3>1. c.x \in Nat /\ c = Pt(c.x, c.y)
      BY FrameFacts, CellIs
    <3>2. CASE c = p
      BY <1>4, <3>2
    <3>3. CASE c # p
      <4>1. c.x # col
        BY <2>2, <3>1, <3>3 DEF p
      <4>2. CASE c.x < col \/ c.x > max_col
        BY <1>3, <1>4, <2>2, <3>3, <4>2 DEF DrawInv
      <4>3. CASE c.x = col + 1
        <5>1. c.x % 2 = 1
          BY <1>1, <4>3
        <5>2. lastFrame[c] = frame[c]
          BY <5>1 DEF TerminalInv, FrameInv
        <5> QED BY <1>4, <3>3, <5>2
      <4> QED BY <1>1, <2>2, <3>1, <4>1, <4>2, <4>3
    <3> QED BY <3>2, <3>3
  <2>3. DrawInv'
    <3>1. pen' = Colors(prev)'
      BY <1>1 DEF Colors
    <3>2. col' % 2 = 0 /\ max_col' % 2 = 0 /\ col' <= max_col' + 2
      <4>1. max_col % 2 = 0
        BY <1>3 DEF DrawInv
      <4>2. (col + 2) % 2 = 0 /\ col + 2 <= max_col + 2
        BY <1>1
      <4> QED BY <1>1, <4>1, <4>2
    <3>3. cursor' = Plus(Offset', Pt(col', row'))
      <4>1. Offset' = Offset
        BY <1>1 DEF Offset
      <4>2. Plus(Offset, Pt(col + 2, row)) = Pt(Offset.x + (col + 2), Offset.y + row)
        BY PtFields DEF Plus
      <4> QED BY <1>1, <4>1, <4>2
    <3>4. row' < FrameSize.y
      BY <1>1, <1>3 DEF DrawInv
    <3> HIDE DEF glyph
    <3> QED BY <1>1, <2>2, <3>1, <3>2, <3>3, <3>4 DEF DrawInv
  <2> HIDE DEF glyph
  <2> QED BY <1>1, <2>1, <2>3 DEF TickInv
<1> QED BY <1>2, <1>5, <1>6, <1>7 DEF TerminalInv

LEMMA EndRowKeeps ==
  ASSUME TerminalInv, EndRow
  PROVE  TerminalInv'
<1>1. /\ phase = "draw" /\ col > max_col /\ phase' = "scan" /\ row' = row + 1
      /\ UNCHANGED <<frame, lastFrame, terminalSize, col, max_col, prev, screen, cursor, pen>>
  BY DEF EndRow
<1>2. DrawInv /\ row \in 0 .. FrameSize.y - 1 /\ row' \in 0 .. FrameSize.y
  BY <1>1, FrameFacts DEF TerminalInv, TypeOK, TickInv, DrawInv
<1>3. TypeOK'
  BY <1>1, <1>2 DEF TerminalInv, TypeOK
<1>4. FrameInv'
  BY <1>1 DEF TerminalInv, FrameInv
<1>5. ASSUME NEW c \in CellsOf(FrameSize), c.y < row' PROVE lastFrame'[c] = frame'[c]
  <2>1. c.x \in 0 .. FrameSize.x - 1 /\ c.y \in 0 .. FrameSize.y - 1
    BY FrameFacts, CellIs
  <2>2. CASE c.y < row
    BY <1>1, <2>2 DEF TerminalInv, TickInv
  <2>3. CASE c.y = row
    <3>1. c.x < col \/ c.x > max_col
      BY <1>1, <2>1, FrameFacts DEF TerminalInv, TypeOK
    <3> QED BY <1>1, <1>2, <2>3, <3>1 DEF DrawInv
  <2> QED BY <1>1, <1>2, <1>5, <2>1, <2>2, <2>3
<1>6. TickInv'
  BY <1>1, <1>5 DEF TickInv
<1>7. ShowsLastFrame'
  BY <1>1, ShowsKept DEF TerminalInv
<1> QED BY <1>3, <1>4, <1>6, <1>7 DEF TerminalInv

(* The status is written over a line that no visible cell is on.           *)
LEMMA StatusKeeps ==
  ASSUME TerminalInv, Status
  PROVE  TerminalInv'
<1>1. /\ phase = "scan" /\ row = FrameSize.y /\ phase' = "idle" /\ pen' = NoColors
      /\ screen' = [c \in DOMAIN screen |->
                      IF c.y # StatusLine
                      THEN screen[c]
                      ELSE IF c.x \in StatusColumn .. StatusColumn + StatusSize - 1
                           THEN Shown(StatusChar, "whole", NoColors)
                           ELSE Blank(NoColors)]
      /\ cursor' = Pt(StatusColumn + StatusSize, StatusLine)
      /\ UNCHANGED <<frame, lastFrame, terminalSize, row, col, max_col, prev>>
  BY DEF Status
<1>2. /\ terminalSize \in Sizes /\ screen \in [CellsOf(terminalSize) -> Cell]
      /\ lastFrame \in [CellsOf(FrameSize) -> WideGlyph \cup {DefaultGlyph}]
      /\ frame \in [CellsOf(FrameSize) -> WideGlyph \cup {DefaultGlyph}]
  BY DEF TerminalInv, TypeOK
<1>3. /\ terminalSize.x \in Nat /\ terminalSize.y \in Nat
      /\ terminalSize.x > StatusSize /\ StatusSize \in Nat
      /\ Offset.x \in Nat /\ Offset.y \in Nat
      /\ Offset.y + FrameSize.y <= terminalSize.y
      /\ terminalSize.y > FrameSize.y => Offset.y + FrameSize.y < terminalSize.y
      /\ FrameSize.y \in Nat \ {0}
  BY <1>2, OffsetFacts, FrameFacts
<1>4. TypeOK'
  <2>1. cursor'.x \in 0 .. terminalSize'.x /\ cursor'.y \in 0 .. terminalSize'.y - 1
    <3>1. cursor'.x = terminalSize.x - StatusSize - 1 + StatusSize
      BY <1>1, PtFields DEF StatusColumn
    <3>2. cursor'.y = terminalSize.y - 1
      BY <1>1, PtFields DEF StatusLine
    <3> QED BY <1>1, <1>3, <3>1, <3>2
  <2>2. /\ pen' \in [fg : 0 .. 255, bg : 0 .. 255]
        /\ Blank(NoColors) \in Cell /\ Shown(StatusChar, "whole", NoColors) \in Cell
    BY <1>1 DEF NoColors, kNone, Blank, Shown, Cell, StatusChar, kWide
  <2>3. screen' \in [CellsOf(terminalSize) -> Cell]
    BY <1>1, <1>2, <2>2
  <2> QED BY <1>1, <2>1, <2>2, <2>3 DEF TerminalInv, TypeOK
<1>5. FrameInv'
  BY <1>1 DEF TerminalInv, FrameInv
<1>6. TickInv'
  <2>1. ASSUME NEW c \in CellsOf(FrameSize) PROVE lastFrame[c] = frame[c]
    <3>1. c.y \in Nat /\ c.y < row
      BY <1>1, FrameFacts, CellIs
    <3> QED BY <1>1, <3>1 DEF TerminalInv, TickInv
  <2>2. lastFrame = frame
    BY <1>2, <2>1
  <2> QED BY <1>1, <2>2 DEF TickInv
<1>7. ShowsLastFrame'
  <2>1. Visible' = Visible /\ Offset' = Offset
    BY <1>1 DEF Visible, Offset
  <2>2. ASSUME NEW c \in Visible
        PROVE  /\ screen'[At(c)] = screen[At(c)]
               /\ screen'[Plus(At(c), Pt(1, 0))] = screen[Plus(At(c), Pt(1, 0))]
    <3>1. /\ c \in CellsOf(FrameSize) /\ c.x % 2 = 0
          /\ terminalSize.y > FrameSize.y \/ c.y < FrameSize.y - 1
      BY DEF Visible
    <3>2. /\ At(c) = Pt(Offset.x + c.x, Offset.y + c.y)
          /\ Plus(At(c), Pt(1, 0)) = Pt(Offset.x + c.x + 1, Offset.y + c.y)
          /\ At(c) \in CellsOf(terminalSize)
          /\ Plus(At(c), Pt(1, 0)) \in CellsOf(terminalSize)
      BY <1>2, <3>1, AtFacts
    <3>3. At(c).y = Offset.y + c.y /\ Plus(At(c), Pt(1, 0)).y = Offset.y + c.y
      BY <3>2, PtFields
    <3>4. Offset.y + c.y # StatusLine
      <4>1. c.y \in 0 .. FrameSize.y - 1
        BY <3>1, FrameFacts, CellIs
      <4> QED BY <1>3, <3>1, <4>1 DEF StatusLine
    <3> QED BY <1>1, <1>2, <3>2, <3>3, <3>4
  <2> QED BY <1>1, <2>1, <2>2 DEF TerminalInv, ShowsLastFrame, Shows, At
<1> QED BY <1>4, <1>5, <1>6, <1>7 DEF TerminalInv

-----------------------------------------------------------------------------
LEMMA TerminalInvHolds == Spec => []TerminalInv
<1>1. ASSUME TerminalInv, [Next]_vars PROVE TerminalInv'
  <2>1. CASE UNCHANGED vars
    <3>1. ShowsLastFrame'
      BY <1>1, <2>1, ShowsKept DEF TerminalInv, vars
    <3>2. Offset' = Offset
      BY <2>1 DEF vars, Offset
    <3> QED BY <1>1, <2>1, <3>1, <3>2 DEF TerminalInv, vars, TypeOK, FrameInv, TickInv, DrawInv
  <2> QED BY <1>1, <2>1, TickKeeps, SkipRowKeeps, BeginRowKeeps, DrawGlyphKeeps, EndRowKeeps,
             StatusKeeps DEF Next
<1>2. Init => TerminalInv
  BY TerminalInit
<1>3. TerminalInv /\ [Next]_vars => TerminalInv'
  BY <1>1
<1> QED BY <1>2, <1>3, PTL DEF Spec

(* Types; in particular the cursor never leaves the terminal.              *)
THEOREM TerminalTypes == Spec => []TypeOK
<1>1. TerminalInv => TypeOK
  BY DEF TerminalInv
<1> QED BY <1>1, TerminalInvHolds, PTL

(* lastFrame, by which the next tick decides what to draw, is at every     *)
(* moment what the screen shows.                                           *)
THEOREM LastFrameIsShown == Spec => []ShowsLastFrame
<1>1. TerminalInv => ShowsLastFrame
  BY DEF TerminalInv
<1> QED BY <1>1, TerminalInvHolds, PTL

(* After every tick the screen shows the frame.                            *)
THEOREM FrameIsShown == Spec => []ScreenShowsFrame
<1>1. TerminalInv => ScreenShowsFrame
  BY DEF TerminalInv, TickInv, ShowsLastFrame, ScreenShowsFrame
<1> QED BY <1>1, TerminalInvHolds, PTL
=============================================================================
