------------------------------ MODULE WorldGen ------------------------------
(***************************************************************************)
(* initBoard of game.cpp and the loop of State::State that repeats it: two *)
(* runs of a cellular automaton, for the trees and for the tall grass,     *)
(* each a random fill and three passes over the cells in row order, then   *)
(* the tiles are set, until the player's start is free.  The board has no  *)
(* entity yet, so that setTile dirties nothing.                            *)
(***************************************************************************)
EXTENDS Sight, FiniteSets

CONSTANTS
  Size,                \* the size of the board
  Fills,               \* the sets of cells whose draw is below 45
  GoodFills            \* some of them that leave the start free

Cells == CellsOf(Size)

Start == Pt(Size.x \div 2, Size.y \div 2)

ASSUME WorldAssumption ==
  /\ Size.x \in Nat \ {0, 1, 2}
  /\ Size.y \in Nat \ {0, 1, 2}
  /\ Fills \subseteq SUBSET Cells

VARIABLES
  m_map,               \* the tile of each cell
  stage,               \* "fill", "pass", "paint", "check" or "done"
  walls, grass,        \* the two results, as the sets of cells that are true
  result, next,        \* the automaton's two matrices, as sets too
  i,                   \* its pass
  p                    \* the cell its loops have come to

vars == <<m_map, stage, walls, grass, result, next, i, p>>

None == {}

Init ==
  /\ m_map = [c \in Cells |-> "grass"]
  /\ stage = "fill"
  /\ walls = None /\ grass = None /\ result = None /\ next = None
  /\ i = 0 /\ p = origin

-----------------------------------------------------------------------------
(* The automaton.  Its loops leave out the border, which is always true.   *)
Interior == {Pt(x, y) : x \in 1 .. Size.x - 2, y \in 1 .. Size.y - 2}

Border == {c : c \in Cells \ Interior}

FirstCell == Pt(1, 1)

LastCell == Pt(Size.x - 2, Size.y - 2)

RowEndLate(c) == c.x = Size.x - 1

RowEnd(c) == c.x = LastCell.x

NextCell(c) == IF RowEnd(c) THEN Pt(FirstCell.x, c.y + 1) ELSE Pt(c.x + 1, c.y)

(* The true cells around c: next to it, and up to two away save corners.   *)
Adjacent1(cells, c) == {q \in cells : lenWalking(Minus(q, c)) = 1}

Adjacent2(cells, c) ==
  {q \in cells : LET d == Minus(q, c)
                 IN  lenWalking(d) \in 1 .. 2 /\ Smaller(Abs(d.x), Abs(d.y)) # 2}

Blocked(cells, c, pass) ==
  \/ Cardinality(Adjacent1(cells, c)) >= 5
  \/ pass < 2 /\ Cardinality(Adjacent2(cells, c)) <= 1

(* The matrix a pass counts in.                                            *)
ReadsNext == next

Reads == result

FillWith(drawn) ==
  /\ stage = "fill"
  /\ stage' = "pass"
  /\ result' = Border \cup drawn
  /\ next' = result'
  /\ i' = 0
  /\ p' = FirstCell
  /\ UNCHANGED <<m_map, walls, grass>>

(* One cell of a pass; at its end next becomes result, and the first of    *)
(* the two runs is followed by the second.                                 *)
UpdateCell ==
  /\ stage = "pass"
  /\ i < 3
  /\ p.y <= LastCell.y
  /\ next' = IF Blocked(Reads, p, i) THEN next \cup {p} ELSE next \ {p}
  /\ p' = NextCell(p)
  /\ UNCHANGED <<m_map, stage, walls, grass, result, i>>

EndPass ==
  /\ stage = "pass"
  /\ i < 3
  /\ p.y > LastCell.y
  /\ result' = next
  /\ i' = i + 1
  /\ p' = FirstCell
  /\ UNCHANGED <<m_map, stage, walls, grass, next>>

ReturnWalls ==
  /\ stage = "pass"
  /\ i = 3
  /\ walls = None
  /\ walls' = result
  /\ stage' = "fill"
  /\ UNCHANGED <<m_map, grass, result, next, i, p>>

ReturnGrass ==
  /\ stage = "pass"
  /\ i = 3
  /\ walls # None
  /\ grass' = result
  /\ stage' = "paint"
  /\ UNCHANGED <<m_map, walls, result, next, i, p>>

-----------------------------------------------------------------------------
(* Every true cell of walls becomes a tree, every other one of grass tall  *)
(* grass; the rest is what clearAllTiles left.                             *)
Paint ==
  /\ stage = "paint"
  /\ m_map' = [c \in Cells |->
                 IF c \in walls THEN "tree" ELSE IF c \in grass THEN "tallGrass" ELSE m_map[c]]
  /\ stage' = "check"
  /\ UNCHANGED <<walls, grass, result, next, i, p>>

StartIsFree == ~FlagBlocked(TileAt(m_map, Start))

(* The next attempt begins with clearAllTiles.                             *)
ClearNothing == m_map

ClearTrees == [c \in Cells |-> IF m_map[c] = "tree" THEN "grass" ELSE m_map[c]]

ClearedTiles == [c \in Cells |-> "grass"]

Retry ==
  /\ stage = "check"
  /\ ~StartIsFree
  /\ m_map' = ClearedTiles
  /\ stage' = "fill"
  /\ walls' = None /\ grass' = None /\ result' = None /\ next' = None
  /\ i' = 0 /\ p' = origin

Accept ==
  /\ stage = "check"
  /\ StartIsFree
  /\ stage' = "done"
  /\ UNCHANGED <<m_map, walls, grass, result, next, i, p>>

(* The world is made; State::State goes on.                                *)
Rest == stage = "done" /\ UNCHANGED vars

Compute == UpdateCell \/ EndPass \/ ReturnWalls \/ ReturnGrass \/ Paint \/ Retry \/ Accept

Next == (\E drawn \in Fills : FillWith(drawn)) \/ Compute \/ Rest

Spec == Init /\ [][Next]_vars

(* A whole pass of the automaton at once.                                  *)
Automaton(cells, pass) == Border \cup {c \in Interior : Blocked(cells, c, pass)}

(* The good fills: three passes leave no tree on the start.                *)
ASSUME GoodFillsAssumption ==
  /\ GoodFills # {}
  /\ GoodFills \subseteq Fills
  /\ \A drawn \in GoodFills :
       \E first \in {Automaton(Border \cup drawn, 0)} :
         \E second \in {Automaton(first, 1)} : Start \notin Automaton(second, 2)

(* A fill that leaves the start free is drawn at last if fills are drawn   *)
(* again and again: every attempt seeds the generator anew.                *)
FairSpec ==
  /\ Spec
  /\ WF_vars(\E drawn \in Fills : FillWith(drawn))
  /\ WF_vars(Compute)
  /\ SF_vars(walls = None /\ \E drawn \in GoodFills : FillWith(drawn))

-----------------------------------------------------------------------------
TypeOK ==
  /\ m_map \in [Cells -> Tile]
  /\ stage \in {"fill", "pass", "paint", "check", "done"}
  /\ {walls, grass, result, next} \subseteq SUBSET Cells
  /\ i \in 0 .. 3
  /\ p \in Interior \cup {origin, Pt(FirstCell.x, LastCell.y + 1)}

(* A pass is one simultaneous step of the automaton: what its loops leave  *)
(* in next after going over the cells one by one is the rule applied to    *)
(* the cells as they were before the pass.                                 *)
PassIsSynchronous == [][i' = i + 1 => result' = Automaton(result, i)]_vars

(* The world that is kept is the one the last two runs made, with nothing  *)
(* left from the attempts before it; the start is free in it, and trees    *)
(* stand all around, whatever was drawn.                                   *)
WorldIsFresh ==
  stage = "done" =>
    /\ Start \notin walls
    /\ \A c \in Cells \ Interior : m_map[c] = "tree"
    /\ \A c \in Cells : m_map[c] = "tree" <=> c \in walls
    /\ \A c \in Cells : m_map[c] = "tallGrass" <=> c \in grass \ walls

(* State::State's loop ends.                                               *)
GetsAWorld == <>(stage = "done")
=============================================================================
