--------------------------- MODULE WorldGenProofs ---------------------------
(***************************************************************************)
(* Theorems about WorldGen, for a board of any size and any fills: each    *)
(* pass of the automaton is one simultaneous step, and the world kept is   *)
(* what the last attempt painted, with trees all around and a free start.  *)
(***************************************************************************)
EXTENDS WorldGen, TLAPS

-----------------------------------------------------------------------------
(* The cells that a pass has gone over when it has come to c.              *)
Before(c) == {q \in Interior : q.y < c.y \/ (q.y = c.y /\ q.x < c.x)}

PassInv ==
  /\ p \in Interior \cup {Pt(FirstCell.x, LastCell.y + 1)}
  /\ Border \subseteq result /\ Border \subseteq next
  /\ \A c \in Before(p) : c \in next <=> Blocked(result, c, i)

Painted == [c \in Cells |->
              IF c \in walls THEN "tree" ELSE IF c \in grass THEN "tallGrass" ELSE "grass"]

WorldInv ==
  /\ TypeOK
  /\ stage = "pass" => PassInv
  /\ walls # None => Border \subseteq walls
  /\ stage \in {"fill", "pass", "paint"} => m_map = [c \in Cells |-> "grass"]
  /\ stage \in {"paint", "check", "done"} => walls # None
  /\ stage \in {"check", "done"} => m_map = Painted
  /\ stage = "done" => StartIsFree

-----------------------------------------------------------------------------
(* The shape of the board.                                                 *)
LEMMA Shape ==
  /\ Size.x \in Nat /\ Size.y \in Nat /\ Size.x >= 3 /\ Size.y >= 3
  /\ FirstCell.x = 1 /\ FirstCell.y = 1
  /\ LastCell.x = Size.x - 2 /\ LastCell.y = Size.y - 2
  BY WorldAssumption DEF FirstCell, LastCell, Pt

LEMMA InteriorCells ==
  ASSUME NEW c
  PROVE  /\ c \in Interior => /\ c \in Cells /\ c = Pt(c.x, c.y)
                              /\ c.x \in 1 .. Size.x - 2 /\ c.y \in 1 .. Size.y - 2
         /\ \A x \in 1 .. Size.x - 2, y \in 1 .. Size.y - 2 : Pt(x, y) \in Interior
<1>1. ASSUME c \in Interior
      PROVE  /\ c \in Cells /\ c = Pt(c.x, c.y)
             /\ c.x \in 1 .. Size.x - 2 /\ c.y \in 1 .. Size.y - 2
  <2>1. PICK x \in 1 .. Size.x - 2, y \in 1 .. Size.y - 2 : c = Pt(x, y)
    BY <1>1 DEF Interior
  <2>2. c.x = x /\ c.y = y
    BY <2>1 DEF Pt
  <2>3. x \in 0 .. Size.x - 1 /\ y \in 0 .. Size.y - 1
    BY Shape
  <2>4. c \in Cells
    BY <2>1, <2>3 DEF Cells, CellsOf
  <2> QED BY <2>1, <2>2, <2>4
<1>2. \A x \in 1 .. Size.x - 2, y \in 1 .. Size.y - 2 : Pt(x, y) \in Interior
  BY DEF Interior
<1> QED BY <1>1, <1>2

LEMMA BorderCells ==
  /\ Border = Cells \ Interior
  /\ Border # {}
<1>1. Border = Cells \ Interior
  BY DEF Border
<1>2. Pt(0, 0) \in Cells
  BY Shape DEF Cells, CellsOf
<1>3. Pt(0, 0) \notin Interior
  <2>1. Pt(0, 0).x = 0
    BY DEF Pt
  <2> QED BY <2>1, InteriorCells
<1> QED BY <1>1, <1>2, <1>3

LEMMA StartIsCell == Start \in Cells
<1>1. /\ Size.x \div 2 \in 0 .. Size.x - 1
      /\ Size.y \div 2 \in 0 .. Size.y - 1
  <2>1. \A s \in Nat : s >= 3 => s \div 2 \in 0 .. s - 1
    OBVIOUS
  <2> QED BY <2>1, Shape
<1> QED BY <1>1 DEF Start, Cells, CellsOf

(* The loops go over the interior cells one after the other.               *)
LEMMA NextCellFollows ==
  ASSUME NEW c \in Interior
  PROVE  /\ NextCell(c) \in Interior \cup {Pt(FirstCell.x, LastCell.y + 1)}
         /\ Before(NextCell(c)) = Before(c) \cup {c}
         /\ c \notin Before(c)
<1> DEFINE X == Size.x - 2
           Y == Size.y - 2
           N == NextCell(c)
<1>1. X \in Nat /\ Y \in Nat /\ X >= 1 /\ Y >= 1 /\ FirstCell.x = 1 /\ LastCell.x = X /\ LastCell.y = Y
  BY Shape
<1>2. \A q \in Interior : q = Pt(q.x, q.y) /\ q.x \in 1 .. X /\ q.y \in 1 .. Y
  BY InteriorCells
<1>3. \A x \in 1 .. X, y \in 1 .. Y : Pt(x, y) \in Interior
  BY InteriorCells
<1>4. \A u, v : Pt(u, v).x = u /\ Pt(u, v).y = v
  BY DEF Pt
<1> HIDE DEF X, Y
<1>5. c \notin Before(c)
  BY <1>1, <1>2 DEF Before
<1>6. CASE c.x = X
  <2>1. N = Pt(1, c.y + 1)
    BY <1>1, <1>6 DEF NextCell, RowEnd
  <2>2. N \in Interior \cup {Pt(FirstCell.x, LastCell.y + 1)}
    <3>1. CASE c.y = Y
      BY <1>1, <2>1, <3>1
    <3>2. CASE c.y # Y
      <4>1. 1 \in 1 .. X /\ c.y + 1 \in 1 .. Y
        BY <1>1, <1>2, <3>2
      <4> QED BY <1>3, <2>1, <4>1
    <3> QED BY <3>1, <3>2
  <2>3. N.x = 1 /\ N.y = c.y + 1
    BY <1>4, <2>1
  <2>4. ASSUME NEW q \in Interior
        PROVE  q \in Before(N) <=> q \in Before(c) \/ q = c
    <3>1. q.y < N.y \/ (q.y = N.y /\ q.x < N.x) <=>
            (q.y < c.y \/ (q.y = c.y /\ q.x < c.x)) \/ (q.x = c.x /\ q.y = c.y)
      BY <1>1, <1>2, <1>6, <2>3
    <3>2. q = c <=> q.x = c.x /\ q.y = c.y
      BY <1>2
    <3> HIDE DEF N
    <3> QED BY <3>1, <3>2, Zenon DEF Before
  <2>5. Before(N) = Before(c) \cup {c}
    <3> HIDE DEF N
    <3>1. Before(N) \subseteq Interior /\ Before(c) \subseteq Interior
      BY DEF Before
    <3> QED BY <2>4, <3>1
  <2> QED BY <1>5, <2>2, <2>5
<1>7. CASE c.x # X
  <2>1. N = Pt(c.x + 1, c.y)
    BY <1>1, <1>7 DEF NextCell, RowEnd
  <2>2. N \in Interior
    <3>1. c.x + 1 \in 1 .. X /\ c.y \in 1 .. Y
      BY <1>1, <1>2, <1>7
    <3> QED BY <1>3, <2>1, <3>1
  <2>3. N.x = c.x + 1 /\ N.y = c.y
    BY <1>4, <2>1
  <2>4. ASSUME NEW q \in Interior
        PROVE  q \in Before(N) <=> q \in Before(c) \/ q = c
    <3>1. q.y < N.y \/ (q.y = N.y /\ q.x < N.x) <=>
            (q.y < c.y \/ (q.y = c.y /\ q.x < c.x)) \/ (q.x = c.x /\ q.y = c.y)
      BY <1>1, <1>2, <1>7, <2>3
    <3>2. q = c <=> q.x = c.x /\ q.y = c.y
      BY <1>2
    <3> HIDE DEF N
    <3> QED BY <3>1, <3>2, Zenon DEF Before
  <2>5. Before(N) = Before(c) \cup {c}
    <3> HIDE DEF N
    <3>1. Before(N) \subseteq Interior /\ Before(c) \subseteq Interior
      BY DEF Before
    <3> QED BY <2>4, <3>1
  <2> QED BY <1>5, <2>2, <2>5
<1> QED BY <1>6, <1>7

LEMMA PassEnds ==
  /\ Before(FirstCell) = {}
  /\ FirstCell \in Interior
  /\ Before(Pt(FirstCell.x, LastCell.y + 1)) = Interior
<1>1. FirstCell = Pt(1, 1)
  BY DEF FirstCell
<1>2. 1 \in 1 .. Size.x - 2 /\ 1 \in 1 .. Size.y - 2
  BY Shape
<1>3. FirstCell \in Interior
  BY <1>1, <1>2, InteriorCells
<1>4. \A q \in Interior : q.x \in 1 .. Size.x - 2 /\ q.y \in 1 .. Size.y - 2
  BY InteriorCells
<1>5. Before(FirstCell) = {}
  BY <1>4, Shape DEF Before
<1>6. Pt(FirstCell.x, LastCell.y + 1).y = Size.y - 1
  BY Shape DEF Pt
<1>7. Before(Pt(FirstCell.x, LastCell.y + 1)) = Interior
  BY <1>4, <1>6, Shape DEF Before
<1> QED BY <1>3, <1>5, <1>7

-----------------------------------------------------------------------------
(* One cell of a pass.                                                     *)
LEMMA UpdateKeepsPass ==
  ASSUME TypeOK, PassInv, UpdateCell
  PROVE  /\ PassInv'
         /\ next' \in SUBSET Cells
         /\ p' \in Interior \cup {Pt(FirstCell.x, LastCell.y + 1)}
<1>1. /\ p.y <= LastCell.y /\ p' = NextCell(p)
      /\ next' = IF Blocked(result, p, i) THEN next \cup {p} ELSE next \ {p}
      /\ result' = result /\ i' = i
  BY DEF UpdateCell, Reads
<1>2. p \in Interior
  <2>1. p \in Interior \cup {Pt(FirstCell.x, LastCell.y + 1)}
    BY DEF PassInv
  <2>2. Pt(FirstCell.x, LastCell.y + 1).y = LastCell.y + 1 /\ LastCell.y \in Int
    BY Shape DEF Pt
  <2> QED BY <1>1, <2>1, <2>2
<1>3. /\ p' \in Interior \cup {Pt(FirstCell.x, LastCell.y + 1)}
      /\ Before(p') = Before(p) \cup {p}
      /\ p \notin Before(p)
  BY <1>1, <1>2, NextCellFollows
<1>4. p \in Cells /\ p \notin Border
  BY <1>2, InteriorCells, BorderCells
<1>5. next \in SUBSET Cells
  BY DEF TypeOK
<1>6. next' \in SUBSET Cells
  BY <1>1, <1>4, <1>5
<1>7. Border \subseteq result /\ Border \subseteq next
      /\ \A c \in Before(p) : c \in next <=> Blocked(result, c, i)
  BY DEF PassInv
<1>8. Border \subseteq next'
  BY <1>1, <1>4, <1>7
<1>9. \A c \in Before(p') : c \in next' <=> Blocked(result, c, i)
  <2> SUFFICES ASSUME NEW c \in Before(p') PROVE c \in next' <=> Blocked(result, c, i)
    OBVIOUS
  <2>1. CASE c = p
    <3>1. CASE Blocked(result, p, i)
      BY <1>1, <2>1, <3>1
    <3>2. CASE ~Blocked(result, p, i)
      <4>1. p \notin next'
        BY <1>1, <3>2
      <4> QED BY <2>1, <3>2, <4>1
    <3> QED BY <3>1, <3>2
  <2>2. CASE c # p
    <3>1. c \in Before(p)
      BY <1>3, <2>2
    <3>2. c \in next' <=> c \in next
      BY <1>1, <2>2
    <3> QED BY <1>7, <3>1, <3>2
  <2> QED BY <2>1, <2>2
<1>10. \A c \in Before(p') : c \in next' <=> Blocked(result', c, i')
  BY <1>1, <1>9
<1>11. PassInv'
  BY <1>1, <1>3, <1>7, <1>8, <1>10 DEF PassInv, Border, Cells, CellsOf, Interior, FirstCell, LastCell, Before, Pt
<1> QED BY <1>3, <1>6, <1>11

(* The end of a pass: every interior cell has been gone over.              *)
LEMMA PassAtEnd ==
  ASSUME TypeOK, PassInv, EndPass
  PROVE  /\ next = Automaton(result, i)
         /\ result' = next /\ next' = next /\ i' = i + 1 /\ p' = FirstCell
         /\ i \in 0 .. 2
<1>1. p.y > LastCell.y /\ result' = next /\ next' = next /\ i' = i + 1 /\ p' = FirstCell /\ i < 3
  BY DEF EndPass
<1>2. p = Pt(FirstCell.x, LastCell.y + 1)
  <2>1. p \in Interior \cup {Pt(FirstCell.x, LastCell.y + 1)}
    BY DEF PassInv
  <2>2. p \in Interior => p.y \in 1 .. Size.y - 2
    BY InteriorCells
  <2> QED BY <1>1, <2>1, <2>2, Shape
<1>3. Before(p) = Interior
  BY <1>2, PassEnds
<1>4. \A c \in Interior : c \in next <=> Blocked(result, c, i)
  BY <1>3 DEF PassInv
<1>5. Border \subseteq next /\ next \subseteq Cells
  BY DEF PassInv, TypeOK
<1>6. next = Border \cup {c \in Interior : Blocked(result, c, i)}
  <2>1. ASSUME NEW c \in next PROVE c \in Border \cup {d \in Interior : Blocked(result, d, i)}
    BY <1>4, <1>5, BorderCells
  <2>2. ASSUME NEW c \in Border \cup {d \in Interior : Blocked(result, d, i)} PROVE c \in next
    BY <1>4, <1>5
  <2> QED BY <2>1, <2>2
<1>7. i \in 0 .. 2
  BY <1>1 DEF TypeOK
<1> QED BY <1>1, <1>6, <1>7 DEF Automaton

(* A pass begins with nothing gone over.                                   *)
LEMMA PassStarts ==
  ASSUME p' = FirstCell, Border \subseteq result', Border \subseteq next'
  PROVE  PassInv'
<1>1. Before(p') = {} /\ p' \in Interior
  BY PassEnds
<1> QED BY <1>1 DEF PassInv, Border, Cells, CellsOf, Interior, FirstCell, LastCell, Before, Pt

LEMMA FillDraws ==
  ASSUME NEW drawn \in Fills
  PROVE  Border \cup drawn \in SUBSET Cells
  BY WorldAssumption, BorderCells

LEMMA WorldInit == Init => WorldInv
<1> SUFFICES ASSUME Init PROVE WorldInv
  OBVIOUS
<1>1. /\ m_map = [c \in Cells |-> "grass"] /\ stage = "fill"
      /\ walls = {} /\ grass = {} /\ result = {} /\ next = {} /\ i = 0 /\ p = origin
  BY DEF Init, None
<1>2. TypeOK
  BY <1>1 DEF TypeOK, Tile
<1> QED BY <1>1, <1>2 DEF WorldInv, None

LEMMA WorldNext == WorldInv /\ [Next]_vars => WorldInv'
<1> SUFFICES ASSUME WorldInv, [Next]_vars PROVE WorldInv'
  OBVIOUS
<1>1. TypeOK
  BY DEF WorldInv
<1>2. /\ m_map \in [Cells -> Tile] /\ walls \in SUBSET Cells /\ grass \in SUBSET Cells
      /\ result \in SUBSET Cells /\ next \in SUBSET Cells
      /\ i \in 0 .. 3
      /\ p \in Interior \cup {origin, Pt(FirstCell.x, LastCell.y + 1)}
      /\ stage \in {"fill", "pass", "paint", "check", "done"}
  BY <1>1 DEF TypeOK
<1>3. /\ stage = "pass" => PassInv
      /\ walls # {} => Border \subseteq walls
      /\ stage \in {"fill", "pass", "paint"} => m_map = [c \in Cells |-> "grass"]
      /\ stage \in {"paint", "check", "done"} => walls # {}
      /\ stage \in {"check", "done"} => m_map = Painted
      /\ stage = "done" => StartIsFree
  BY DEF WorldInv, None
<1>4. ASSUME NEW drawn \in Fills, FillWith(drawn) PROVE WorldInv'
  <2>1. /\ stage = "fill" /\ stage' = "pass" /\ result' = Border \cup drawn /\ next' = result'
        /\ i' = 0 /\ p' = FirstCell /\ UNCHANGED <<m_map, walls, grass>>
    BY <1>4 DEF FillWith
  <2>2. result' \in SUBSET Cells /\ next' \in SUBSET Cells
    BY <2>1, FillDraws
  <2>3. PassInv'
    BY <2>1, PassStarts
  <2>4. TypeOK'
    BY <1>2, <2>1, <2>2, PassEnds DEF TypeOK
  <2> QED BY <1>3, <2>1, <2>3, <2>4 DEF WorldInv, None
<1>5. CASE UpdateCell
  <2>1. stage = "pass" /\ UNCHANGED <<m_map, stage, walls, grass, result, i>>
    BY <1>5 DEF UpdateCell
  <2>2. /\ PassInv' /\ next' \in SUBSET Cells
        /\ p' \in Interior \cup {Pt(FirstCell.x, LastCell.y + 1)}
    BY <1>1, <1>3, <1>5, <2>1, UpdateKeepsPass
  <2>3. TypeOK'
    BY <1>2, <2>1, <2>2 DEF TypeOK
  <2> QED BY <1>3, <2>1, <2>2, <2>3 DEF WorldInv, None
<1>6. CASE EndPass
  <2>1. stage = "pass" /\ UNCHANGED <<m_map, stage, walls, grass>>
    BY <1>6 DEF EndPass
  <2>2. result' = next /\ next' = next /\ i' = i + 1 /\ p' = FirstCell /\ i \in 0 .. 2
    BY <1>1, <1>3, <1>6, <2>1, PassAtEnd
  <2>3. Border \subseteq next
    BY <1>3, <2>1 DEF PassInv
  <2>4. PassInv'
    BY <2>2, <2>3, PassStarts
  <2>5. TypeOK'
    <3>1. i' \in 0 .. 3
      BY <2>2
    <3> QED BY <1>2, <2>1, <2>2, <3>1, PassEnds DEF TypeOK
  <2> QED BY <1>3, <2>1, <2>4, <2>5 DEF WorldInv, None
<1>7. CASE ReturnWalls
  <2>1. /\ stage = "pass" /\ stage' = "fill" /\ walls' = result
        /\ UNCHANGED <<m_map, grass, result, next, i, p>>
    BY <1>7 DEF ReturnWalls
  <2>2. Border \subseteq walls'
    BY <1>3, <2>1 DEF PassInv
  <2>3. TypeOK'
    BY <1>2, <2>1 DEF TypeOK
  <2> QED BY <1>3, <2>1, <2>2, <2>3 DEF WorldInv, None
<1>8. CASE ReturnGrass
  <2>1. /\ stage = "pass" /\ walls # {} /\ stage' = "paint" /\ grass' = result
        /\ UNCHANGED <<m_map, walls, result, next, i, p>>
    BY <1>8 DEF ReturnGrass, None
  <2>2. TypeOK'
    BY <1>2, <2>1 DEF TypeOK
  <2> QED BY <1>3, <2>1, <2>2 DEF WorldInv, None
<1>9. CASE Paint
  <2>1. /\ stage = "paint" /\ stage' = "check"
        /\ m_map' = [c \in Cells |-> IF c \in walls THEN "tree"
                                     ELSE IF c \in grass THEN "tallGrass" ELSE m_map[c]]
        /\ UNCHANGED <<walls, grass, result, next, i, p>>
    BY <1>9 DEF Paint
  <2>2. m_map' = Painted
    BY <1>3, <2>1 DEF Painted
  <2>3. Painted' = Painted
    BY <2>1 DEF Painted
  <2>4. Painted \in [Cells -> Tile]
    BY DEF Painted, Tile
  <2>5. TypeOK'
    BY <1>2, <2>1, <2>2, <2>4 DEF TypeOK
  <2> HIDE DEF Painted
  <2>6. walls' # {}
    BY <1>3, <2>1
  <2> QED BY <1>3, <2>1, <2>2, <2>3, <2>5, <2>6 DEF WorldInv, None
<1>10. CASE Retry
  <2>1. /\ stage' = "fill" /\ m_map' = [c \in Cells |-> "grass"]
        /\ walls' = {} /\ grass' = {} /\ result' = {} /\ next' = {} /\ i' = 0 /\ p' = origin
    BY <1>10 DEF Retry, ClearedTiles, None
  <2>2. TypeOK'
    BY <2>1 DEF TypeOK, Tile
  <2> QED BY <2>1, <2>2 DEF WorldInv, None
<1>11. CASE Accept
  <2>1. /\ stage = "check" /\ stage' = "done" /\ StartIsFree
        /\ UNCHANGED <<m_map, walls, grass, result, next, i, p>>
    BY <1>11 DEF Accept
  <2>2. TypeOK'
    BY <1>2, <2>1 DEF TypeOK
  <2>3. StartIsFree'
    BY <2>1 DEF StartIsFree
  <2>4. Painted' = Painted
    BY <2>1 DEF Painted
  <2> QED BY <1>3, <2>1, <2>2, <2>3, <2>4 DEF WorldInv, None
<1>12. CASE UNCHANGED vars
  <2>1. UNCHANGED <<m_map, stage, walls, grass, result, next, i, p>>
    BY <1>12 DEF vars
  <2> QED BY <2>1 DEF WorldInv, TypeOK, PassInv, Painted, StartIsFree, Before, None
<1>13. CASE Rest
  BY <1>12, <1>13 DEF Rest
<1> QED BY <1>4, <1>5, <1>6, <1>7, <1>8, <1>9, <1>10, <1>11, <1>12, <1>13 DEF Next, Compute

LEMMA WorldAlways == Spec => []WorldInv
<1>1. Init => WorldInv
  BY WorldInit
<1>2. WorldInv /\ [Next]_vars => WorldInv'
  BY WorldNext
<1> QED BY <1>1, <1>2, PTL DEF Spec

-----------------------------------------------------------------------------
(* The automaton's loops keep within the board.                            *)
THEOREM WorldTypes == Spec => []TypeOK
<1>1. WorldInv => TypeOK
  BY DEF WorldInv
<1> QED BY <1>1, WorldAlways, PTL

(* A pass of initBoard's automaton, which goes over the cells one by one,  *)
(* applies the rule to all of them at once: it reads result and writes     *)
(* next.                                                                   *)
THEOREM PassesAreSynchronous == Spec => PassIsSynchronous
<1> DEFINE Synchronous == i' = i + 1 => result' = Automaton(result, i)
<1>1. WorldInv /\ [Next]_vars => [Synchronous]_vars
  <2> SUFFICES ASSUME WorldInv, Next, i' = i + 1 PROVE result' = Automaton(result, i)
    OBVIOUS
  <2>1. TypeOK /\ (stage = "pass" => PassInv) /\ i \in 0 .. 3
    BY DEF WorldInv, TypeOK
  <2>2. i' # i /\ i' # 0
    BY <2>1
  <2>3. EndPass
    BY <2>2 DEF Next, Compute, FillWith, UpdateCell, ReturnWalls, ReturnGrass, Paint, Retry, Accept, Rest, vars
  <2>4. stage = "pass"
    BY <2>3 DEF EndPass
  <2> QED BY <2>1, <2>3, <2>4, PassAtEnd
<1>2. PassIsSynchronous <=> [][Synchronous]_vars
  BY DEF PassIsSynchronous
<1> HIDE DEF Synchronous
<1> QED BY <1>1, <1>2, WorldAlways, PTL DEF Spec

(* The world that State::State keeps is what the last attempt painted; its *)
(* start is free and trees stand on its border.  Game assumes no more of a *)
(* world than that the start is free.                                      *)
THEOREM WorldIsAlwaysFresh == Spec => []WorldIsFresh
<1>1. WorldInv => WorldIsFresh
  <2> SUFFICES ASSUME WorldInv, stage = "done"
               PROVE  /\ Start \notin walls
                      /\ \A c \in Cells \ Interior : m_map[c] = "tree"
                      /\ \A c \in Cells : m_map[c] = "tree" <=> c \in walls
                      /\ \A c \in Cells : m_map[c] = "tallGrass" <=> c \in grass \ walls
    BY DEF WorldIsFresh
  <2>1. m_map = Painted /\ StartIsFree /\ Border \subseteq walls
    BY DEF WorldInv
  <2>2. \A c \in Cells : m_map[c] = IF c \in walls THEN "tree"
                                    ELSE IF c \in grass THEN "tallGrass" ELSE "grass"
    BY <2>1 DEF Painted
  <2>3. m_map[Start] # "tree"
    <3>1. TileAt(m_map, Start) = m_map[Start]
      BY <2>1, StartIsCell DEF TileAt, MatrixGet, Painted
    <3> QED BY <2>1, <3>1 DEF StartIsFree, FlagBlocked
  <2>4. Start \notin walls
    BY <2>2, <2>3, StartIsCell
  <2>5. \A c \in Cells \ Interior : c \in walls
    BY <2>1, BorderCells
  <2>6. \A c \in Cells \ Interior : m_map[c] = "tree"
    BY <2>2, <2>5
  <2>7. \A c \in Cells : m_map[c] = "tree" <=> c \in walls
    BY <2>2
  <2>8. \A c \in Cells : m_map[c] = "tallGrass" <=> c \in grass \ walls
    BY <2>2
  <2> QED BY <2>4, <2>6, <2>7, <2>8
<1> QED BY <1>1, WorldAlways, PTL

-----------------------------------------------------------------------------
(* What the first n passes make of a draw.                                 *)
After(drawn, n) ==
  CASE n = 0 -> Border \cup drawn
    [] n = 1 -> Automaton(Border \cup drawn, 0)
    [] n = 2 -> Automaton(Automaton(Border \cup drawn, 0), 1)
    [] n = 3 -> Automaton(Automaton(Automaton(Border \cup drawn, 0), 1), 2)

Grown(drawn) == After(drawn, 3)

GrownInv ==
  /\ stage = "pass" => \E d \in Fills : result = After(d, i)
  /\ walls # None => \E d \in Fills : walls = Grown(d)
  /\ stage \in {"paint", "check", "done"} => \E d \in Fills : grass = Grown(d)

(* The world that is kept is a function of two of the draws: three whole   *)
(* passes over the one are its trees, three over the other its tall grass. *)
WorldIsGrown ==
  stage = "done" =>
    \E first, second \in Fills :
      /\ Start \notin Grown(first)
      /\ m_map = [c \in Cells |-> IF c \in Grown(first) THEN "tree"
                                  ELSE IF c \in Grown(second) THEN "tallGrass" ELSE "grass"]

(* An attempt is thrown away for its trees only, never one whose trees     *)
(* come from a good fill.                                                  *)
RetriesAreDue ==
  [][stage = "check" /\ stage' = "fill" =>
       \E d \in Fills \ GoodFills : walls = Grown(d) /\ Start \in walls]_vars

LEMMA AfterOnePass ==
  ASSUME NEW drawn, NEW n \in 0 .. 2
  PROVE  After(drawn, n + 1) = Automaton(After(drawn, n), n)
<1>1. CASE n = 0
  BY <1>1 DEF After
<1>2. CASE n = 1
  BY <1>2 DEF After
<1>3. CASE n = 2
  BY <1>3 DEF After
<1> QED BY <1>1, <1>2, <1>3

LEMMA GrownNext == WorldInv /\ GrownInv /\ [Next]_vars => GrownInv'
<1> SUFFICES ASSUME WorldInv, GrownInv, [Next]_vars PROVE GrownInv'
  OBVIOUS
<1>1. /\ stage = "pass" => \E d \in Fills : result = After(d, i)
      /\ walls # {} => \E d \in Fills : walls = Grown(d)
      /\ stage \in {"paint", "check", "done"} => \E d \in Fills : grass = Grown(d)
  BY DEF GrownInv, None
<1>2. ASSUME NEW drawn \in Fills, FillWith(drawn) PROVE GrownInv'
  <2>1. /\ stage' = "pass" /\ result' = Border \cup drawn /\ i' = 0
        /\ UNCHANGED <<walls, grass>>
    BY <1>2 DEF FillWith
  <2>2. result' = After(drawn, i')
    BY <2>1 DEF After
  <2> QED BY <1>1, <2>1, <2>2 DEF GrownInv, None
<1>3. CASE UpdateCell
  <2>1. UNCHANGED <<stage, walls, grass, result, i>>
    BY <1>3 DEF UpdateCell
  <2> QED BY <1>1, <2>1 DEF GrownInv, None
<1>4. CASE EndPass
  <2>1. stage = "pass" /\ UNCHANGED <<stage, walls, grass>>
    BY <1>4 DEF EndPass
  <2>2. TypeOK /\ PassInv
    BY <2>1 DEF WorldInv
  <2>3. result' = Automaton(result, i) /\ i' = i + 1 /\ i \in 0 .. 2
    BY <1>4, <2>2, PassAtEnd
  <2>4. PICK d \in Fills : result = After(d, i)
    BY <1>1, <2>1
  <2>5. result' = After(d, i')
    BY <2>3, <2>4, AfterOnePass
  <2> QED BY <1>1, <2>1, <2>5 DEF GrownInv, None
<1>5. CASE ReturnWalls
  <2>1. stage = "pass" /\ i = 3 /\ stage' = "fill" /\ walls' = result
    BY <1>5 DEF ReturnWalls
  <2>2. PICK d \in Fills : result = Grown(d)
    BY <1>1, <2>1 DEF Grown
  <2> QED BY <2>1, <2>2 DEF GrownInv
<1>6. CASE ReturnGrass
  <2>1. stage = "pass" /\ i = 3 /\ stage' = "paint" /\ grass' = result /\ walls' = walls
    BY <1>6 DEF ReturnGrass
  <2>2. PICK d \in Fills : result = Grown(d)
    BY <1>1, <2>1 DEF Grown
  <2> QED BY <1>1, <2>1, <2>2 DEF GrownInv, None
<1>7. CASE Paint
  <2>1. stage = "paint" /\ stage' = "check" /\ UNCHANGED <<walls, grass>>
    BY <1>7 DEF Paint
  <2> QED BY <1>1, <2>1 DEF GrownInv, None
<1>8. CASE Retry
  <2>1. stage' = "fill" /\ walls' = {}
    BY <1>8 DEF Retry, None
  <2> QED BY <2>1 DEF GrownInv, None
<1>9. CASE Accept
  <2>1. stage = "check" /\ stage' = "done" /\ UNCHANGED <<walls, grass>>
    BY <1>9 DEF Accept
  <2> QED BY <1>1, <2>1 DEF GrownInv, None
<1>10. CASE UNCHANGED vars
  <2>1. UNCHANGED <<stage, walls, grass, result, i>>
    BY <1>10 DEF vars
  <2> QED BY <1>1, <2>1 DEF GrownInv, None
<1>11. CASE Rest
  BY <1>10, <1>11 DEF Rest
<1> QED BY <1>2, <1>3, <1>4, <1>5, <1>6, <1>7, <1>8, <1>9, <1>10, <1>11 DEF Next, Compute

LEMMA GrownAlways == Spec => [](WorldInv /\ GrownInv)
<1>1. Init => WorldInv /\ GrownInv
  BY WorldInit DEF Init, GrownInv, None
<1>2. WorldInv /\ GrownInv /\ [Next]_vars => (WorldInv /\ GrownInv)'
  BY WorldNext, GrownNext
<1> QED BY <1>1, <1>2, PTL DEF Spec

(* The start is free in the painted world when no tree was put on it.      *)
LEMMA FreeStart ==
  ASSUME m_map = Painted
  PROVE  StartIsFree <=> Start \notin walls
<1>1. TileAt(m_map, Start) = m_map[Start]
  BY StartIsCell DEF TileAt, MatrixGet, Painted
<1>2. m_map[Start] = IF Start \in walls THEN "tree"
                     ELSE IF Start \in grass THEN "tallGrass" ELSE "grass"
  BY StartIsCell DEF Painted
<1>3. StartIsFree <=> m_map[Start] # "tree"
  BY <1>1 DEF StartIsFree, FlagBlocked
<1> QED BY <1>2, <1>3

(* initBoard is a function of its draws: whatever was left in the board,   *)
(* the matrices and the counters by earlier attempts, the world kept is    *)
(* the automaton's closed form applied to two draws.                       *)
THEOREM WorldsAreGrown == Spec => []WorldIsGrown
<1>1. WorldInv /\ GrownInv => WorldIsGrown
  <2> SUFFICES ASSUME WorldInv, GrownInv, stage = "done"
               PROVE  \E first, second \in Fills :
                        /\ Start \notin Grown(first)
                        /\ m_map = [c \in Cells |->
                                      IF c \in Grown(first) THEN "tree"
                                      ELSE IF c \in Grown(second) THEN "tallGrass" ELSE "grass"]
    BY DEF WorldIsGrown
  <2>1. m_map = Painted /\ StartIsFree /\ walls # None
    BY DEF WorldInv
  <2>2. PICK first \in Fills : walls = Grown(first)
    BY <2>1 DEF GrownInv
  <2>3. PICK second \in Fills : grass = Grown(second)
    BY DEF GrownInv
  <2>4. Start \notin Grown(first)
    BY <2>1, <2>2, FreeStart
  <2>5. m_map = [c \in Cells |-> IF c \in Grown(first) THEN "tree"
                                 ELSE IF c \in Grown(second) THEN "tallGrass" ELSE "grass"]
    BY <2>1, <2>2, <2>3 DEF Painted
  <2> QED BY <2>4, <2>5
<1> QED BY <1>1, GrownAlways, PTL

(* State::State repeats initBoard only when a tree stands on the start,    *)
(* and the draw the trees grew from is to blame: a good fill is never      *)
(* drawn in vain.                                                          *)
THEOREM OnlyBadFillsAreRetried == Spec => RetriesAreDue
<1>1. ASSUME WorldInv, GrownInv, Next, stage = "check", stage' = "fill"
      PROVE  \E d \in Fills \ GoodFills : walls = Grown(d) /\ Start \in walls
  <2>1. Retry
    BY <1>1 DEF Next, Compute, FillWith, UpdateCell, EndPass, ReturnWalls, ReturnGrass, Paint,
                Accept, Rest, vars
  <2>2. m_map = Painted /\ walls # None
    BY <1>1 DEF WorldInv
  <2>3. PICK d \in Fills : walls = Grown(d)
    BY <1>1, <2>2 DEF GrownInv
  <2>4. Start \in walls
    BY <2>1, <2>2, FreeStart DEF Retry
  <2>5. d \notin GoodFills
    <3>1. d \in GoodFills => Start \notin Automaton(Automaton(Automaton(Border \cup d, 0), 1), 2)
      BY GoodFillsAssumption
    <3> QED BY <2>3, <2>4, <3>1 DEF Grown, After
  <2> QED BY <2>3, <2>4, <2>5
<1>2. WorldInv /\ GrownInv /\ [Next]_vars =>
        [stage = "check" /\ stage' = "fill" =>
           \E d \in Fills \ GoodFills : walls = Grown(d) /\ Start \in walls]_vars
  BY <1>1
<1> QED BY <1>2, GrownAlways, PTL DEF Spec, RetriesAreDue

-----------------------------------------------------------------------------
(* How long an attempt takes.  The steps of a pass, one for each interior  *)
(* cell and its end; of a run, the fill, three passes and the return; and  *)
(* the place of a cell in the order of the loops.                          *)
Columns == Size.x - 2

PassSteps == Columns * (Size.y - 2) + 1

RunSteps == 3 * PassSteps + 2

PositionOf(c) == (c.y - 1) * Columns + (c.x - 1)

RunLeft == (3 - i) * PassSteps - PositionOf(p) + 1

(* What is left of the attempt, to the end of State::State's loop if the   *)
(* start turns out free.                                                   *)
AttemptLeft ==
  CASE stage = "fill"  -> (IF walls = None THEN 2 * RunSteps ELSE RunSteps) + 2
    [] stage = "pass"  -> (IF walls = None THEN RunSteps ELSE 0) + RunLeft + 2
    [] stage = "paint" -> 2
    [] stage = "check" -> 1
    [] stage = "done"  -> 0

(* Every step brings the attempt exactly one step nearer to its end, save  *)
(* the one that throws it away, and the next attempt is as long again.     *)
AttemptRunsDown ==
  [][\/ AttemptLeft \in 1 .. 2 * RunSteps + 2 /\ AttemptLeft' = AttemptLeft - 1
     \/ stage = "check" /\ stage' = "fill" /\ AttemptLeft' = 2 * RunSteps + 2]_vars

AtStart == stage = "pass" /\ i = 3 => p = FirstCell

LEMMA StepCounts ==
  /\ Columns \in Nat /\ Columns >= 1
  /\ PassSteps \in Nat /\ PassSteps >= 2
  /\ RunSteps \in Nat /\ RunSteps = 3 * PassSteps + 2
  /\ RunSteps' = RunSteps
<1> DEFINE Y == Size.y - 2
<1>1. Columns \in Nat /\ Columns >= 1 /\ Y \in Nat /\ Y >= 1
  BY Shape DEF Columns
<1>2. Columns * Y \in Nat /\ Columns * Y >= 1
  <2> HIDE DEF Y
  <2> QED BY <1>1
<1>3. PassSteps = Columns * Y + 1
  BY DEF PassSteps
<1>4. PassSteps \in Nat /\ PassSteps >= 2
  <2> HIDE DEF Y
  <2> QED BY <1>2, <1>3
<1>5. RunSteps = 3 * PassSteps + 2 /\ RunSteps' = RunSteps
  BY DEF RunSteps, PassSteps, Columns
<1> QED BY <1>1, <1>4, <1>5

LEMMA PositionAt ==
  ASSUME NEW u, NEW v
  PROVE  PositionOf(Pt(u, v)) = (v - 1) * Columns + (u - 1)
  BY DEF PositionOf, Pt

(* The loops visit the cells at their positions 0, 1, ... and the position *)
(* after the last one is their number.                                     *)
LEMMA Positions ==
  /\ PositionOf(FirstCell) = 0
  /\ PositionOf(Pt(FirstCell.x, LastCell.y + 1)) = PassSteps - 1
  /\ \A c \in Interior : /\ PositionOf(c) \in 0 .. PassSteps - 2
                         /\ PositionOf(NextCell(c)) = PositionOf(c) + 1
<1> DEFINE X == Columns
           Y == Size.y - 2
<1>1. X \in Nat /\ X >= 1 /\ Y \in Nat /\ Y >= 1 /\ PassSteps = X * Y + 1
  BY Shape DEF Columns, PassSteps
<1>3. FirstCell = Pt(1, 1) /\ FirstCell.x = 1 /\ LastCell.x = X /\ LastCell.y = Y
  BY Shape DEF FirstCell, Columns
<1>4. \A c \in Interior : c = Pt(c.x, c.y) /\ c.x \in 1 .. X /\ c.y \in 1 .. Y
  BY InteriorCells DEF Columns
<1>5. \A c \in Interior : PositionOf(c) = (c.y - 1) * X + (c.x - 1)
  BY DEF PositionOf
<1> HIDE DEF X, Y
<1>6. PositionOf(FirstCell) = 0
  <2>1. PositionOf(FirstCell) = (1 - 1) * X + (1 - 1)
    BY <1>3, PositionAt DEF X
  <2> QED BY <1>1, <2>1
<1>7. PositionOf(Pt(FirstCell.x, LastCell.y + 1)) = PassSteps - 1
  <2>1. PositionOf(Pt(1, Y + 1)) = ((Y + 1) - 1) * X + (1 - 1)
    BY PositionAt DEF X
  <2>2. (Y + 1) - 1 = Y /\ Y * X = X * Y /\ X * Y \in Nat
    BY <1>1
  <2> QED BY <1>1, <1>3, <2>1, <2>2
<1>8. ASSUME NEW c \in Interior
      PROVE  /\ PositionOf(c) \in 0 .. PassSteps - 2
             /\ PositionOf(NextCell(c)) = PositionOf(c) + 1
  <2> DEFINE u == c.x
             v == c.y
             P == PositionOf(c)
             N == PositionOf(NextCell(c))
  <2>1. c = Pt(u, v) /\ u \in 1 .. X /\ v \in 1 .. Y /\ P = (v - 1) * X + (u - 1)
    BY <1>4, <1>5
  <2>2. IF u = X THEN N = ((v + 1) - 1) * X + (1 - 1) ELSE N = (v - 1) * X + ((u + 1) - 1)
    <3>1. CASE u = X
      <4>1. NextCell(c) = Pt(1, v + 1)
        BY <1>3, <3>1 DEF NextCell, RowEnd
      <4>2. PositionOf(Pt(1, v + 1)) = ((v + 1) - 1) * X + (1 - 1)
        BY PositionAt DEF X
      <4> QED BY <3>1, <4>1, <4>2
    <3>2. CASE u # X
      <4>1. NextCell(c) = Pt(u + 1, v)
        BY <1>3, <3>2 DEF NextCell, RowEnd
      <4>2. PositionOf(Pt(u + 1, v)) = (v - 1) * X + ((u + 1) - 1)
        BY PositionAt DEF X
      <4> QED BY <3>2, <4>1, <4>2
    <3> QED BY <3>1, <3>2
  <2> HIDE DEF u, v, P, N
  <2>3. /\ (v - 1) * X \in Nat /\ v * X = (v - 1) * X + X
        /\ (Y - v) * X \in Nat /\ Y * X = v * X + (Y - v) * X /\ Y * X = X * Y
    BY <1>1, <2>1
  <2>4. P \in 0 .. PassSteps - 2
    BY <1>1, <2>1, <2>3
  <2>5. N = P + 1
    <3>1. (v + 1) - 1 = v /\ (u + 1) - 1 = u
      BY <2>1, <1>1
    <3> QED BY <1>1, <2>1, <2>2, <2>3, <3>1
  <2> QED BY <2>4, <2>5 DEF P, N
<1> QED BY <1>6, <1>7, <1>8

LEMMA AtStartNext == WorldInv /\ AtStart /\ [Next]_vars => AtStart'
<1> SUFFICES ASSUME WorldInv, AtStart, [Next]_vars, stage' = "pass", i' = 3
             PROVE  p' = FirstCell
  BY DEF AtStart, FirstCell, Pt
<1>1. i \in 0 .. 3
  BY DEF WorldInv, TypeOK
<1>2. CASE UNCHANGED vars
  BY <1>2 DEF AtStart, vars
<1>3. CASE UpdateCell
  BY <1>1, <1>3 DEF UpdateCell
<1>4. CASE EndPass
  BY <1>4 DEF EndPass
<1>5. CASE \E drawn \in Fills : FillWith(drawn)
  BY <1>5 DEF FillWith
<1>6. CASE ReturnWalls \/ ReturnGrass \/ Paint \/ Retry \/ Accept
  BY <1>6 DEF ReturnWalls, ReturnGrass, Paint, Retry, Accept
<1>7. CASE Rest
  BY <1>2, <1>7 DEF Rest
<1> QED BY <1>2, <1>3, <1>4, <1>5, <1>6, <1>7 DEF Next, Compute

LEMMA AtStartAlways == Spec => [](WorldInv /\ AtStart)
<1>1. Init => WorldInv /\ AtStart
  BY WorldInit DEF Init, AtStart
<1>2. WorldInv /\ AtStart /\ [Next]_vars => (WorldInv /\ AtStart)'
  BY WorldNext, AtStartNext
<1> QED BY <1>1, <1>2, PTL DEF Spec

(* What is left of a run, in whole numbers.                                *)
LEMMA RunLeftParts ==
  /\ i = 0 => RunLeft = 3 * PassSteps - PositionOf(p) + 1
  /\ i = 1 => RunLeft = 2 * PassSteps - PositionOf(p) + 1
  /\ i = 2 => RunLeft = 1 * PassSteps - PositionOf(p) + 1
  /\ i = 3 => RunLeft = 0 * PassSteps - PositionOf(p) + 1
<1>1. 3 - 0 = 3 /\ 3 - 1 = 2 /\ 3 - 2 = 1 /\ 3 - 3 = 0
  OBVIOUS
<1> QED BY <1>1 DEF RunLeft

LEMMA RunLeftPartsNext ==
  /\ i' = 0 => RunLeft' = 3 * PassSteps - PositionOf(p') + 1
  /\ i' = 1 => RunLeft' = 2 * PassSteps - PositionOf(p') + 1
  /\ i' = 2 => RunLeft' = 1 * PassSteps - PositionOf(p') + 1
  /\ i' = 3 => RunLeft' = 0 * PassSteps - PositionOf(p') + 1
<1>1. 3 - 0 = 3 /\ 3 - 1 = 2 /\ 3 - 2 = 1 /\ 3 - 3 = 0
  OBVIOUS
<1>2. RunLeft' = (3 - i') * PassSteps - PositionOf(p') + 1
  BY DEF RunLeft, PassSteps, PositionOf, Columns
<1> QED BY <1>1, <1>2

LEMMA RunLeftBounded ==
  ASSUME WorldInv, AtStart, stage = "pass"
  PROVE  RunLeft \in 1 .. RunSteps - 1
<1>1. i \in 0 .. 3 /\ PassInv
  BY DEF WorldInv, TypeOK
<1>2. p \in Interior \cup {Pt(FirstCell.x, LastCell.y + 1)}
  BY <1>1 DEF PassInv
<1>3. PositionOf(p) \in 0 .. PassSteps - 1
  BY <1>2, Positions, StepCounts
<1>4. i = 3 => PositionOf(p) = 0
  BY Positions DEF AtStart
<1> QED BY <1>1, <1>3, <1>4, RunLeftParts, StepCounts

(* initBoard's loops end, and the attempt takes exactly the steps its      *)
(* bounds promise: the safety half of GetsAWorld, which only has to hope   *)
(* for a good draw.                                                        *)
THEOREM AttemptsEnd == Spec => AttemptRunsDown
<1>1. ASSUME WorldInv, AtStart, Next, ~UNCHANGED vars
      PROVE  \/ AttemptLeft \in 1 .. 2 * RunSteps + 2 /\ AttemptLeft' = AttemptLeft - 1
             \/ stage = "check" /\ stage' = "fill" /\ AttemptLeft' = 2 * RunSteps + 2
  <2> DEFINE Ahead == IF walls = {} THEN RunSteps ELSE 0
  <2>1. /\ stage = "fill" => AttemptLeft = (IF walls = {} THEN 2 * RunSteps ELSE RunSteps) + 2
        /\ stage = "pass" => AttemptLeft = Ahead + RunLeft + 2
        /\ stage = "paint" => AttemptLeft = 2
        /\ stage = "check" => AttemptLeft = 1
    BY DEF AttemptLeft, None
  <2>2. /\ stage' = "fill" => AttemptLeft' = (IF walls' = {} THEN 2 * RunSteps ELSE RunSteps) + 2
        /\ stage' = "pass" => AttemptLeft' = (IF walls' = {} THEN RunSteps ELSE 0) + RunLeft' + 2
        /\ stage' = "paint" => AttemptLeft' = 2
        /\ stage' = "check" => AttemptLeft' = 1
        /\ stage' = "done" => AttemptLeft' = 0
    BY StepCounts DEF AttemptLeft, None
  <2>3. RunSteps \in Nat /\ RunSteps = 3 * PassSteps + 2 /\ PassSteps \in Nat /\ PassSteps >= 2
    BY StepCounts
  <2>4. Ahead \in {0, RunSteps}
    OBVIOUS
  <2>5. stage = "pass" => RunLeft \in 1 .. RunSteps - 1 /\ PassInv
    BY <1>1, RunLeftBounded DEF WorldInv
  <2>6. i \in 0 .. 3
    BY <1>1 DEF WorldInv, TypeOK
  <2> HIDE DEF Ahead
  <2>7. stage = "pass" => AttemptLeft \in 1 .. 2 * RunSteps + 2
    BY <2>1, <2>3, <2>4, <2>5
  <2>8. ASSUME NEW drawn \in Fills, FillWith(drawn)
        PROVE  AttemptLeft \in 1 .. 2 * RunSteps + 2 /\ AttemptLeft' = AttemptLeft - 1
    <3>1. stage = "fill" /\ stage' = "pass" /\ i' = 0 /\ p' = FirstCell /\ walls' = walls
      BY <2>8 DEF FillWith
    <3>2. RunLeft' = 3 * PassSteps - 0 + 1
      BY <3>1, RunLeftPartsNext, Positions
    <3>3. CASE walls = {}
      <4>1. AttemptLeft = 2 * RunSteps + 2 /\ AttemptLeft' = RunSteps + RunLeft' + 2
        BY <2>1, <2>2, <3>1, <3>3
      <4> QED BY <2>3, <3>2, <4>1
    <3>4. CASE walls # {}
      <4>1. AttemptLeft = RunSteps + 2 /\ AttemptLeft' = 0 + RunLeft' + 2
        BY <2>1, <2>2, <3>1, <3>4
      <4> QED BY <2>3, <3>2, <4>1
    <3> QED BY <3>3, <3>4
  <2>9. ASSUME stage = "pass", stage' = "pass", walls' = walls, RunLeft' = RunLeft - 1
        PROVE  AttemptLeft \in 1 .. 2 * RunSteps + 2 /\ AttemptLeft' = AttemptLeft - 1
    <3>1. AttemptLeft' = Ahead + RunLeft' + 2
      BY <2>2, <2>9 DEF Ahead
    <3> QED BY <2>1, <2>3, <2>4, <2>5, <2>7, <2>9, <3>1
  <2>10. CASE UpdateCell
    <3>1. stage = "pass" /\ stage' = "pass" /\ walls' = walls /\ i' = i /\ p' = NextCell(p)
          /\ p.y <= LastCell.y
      BY <2>10 DEF UpdateCell
    <3>2. p \in Interior
      <4>1. p \in Interior \cup {Pt(FirstCell.x, LastCell.y + 1)}
        BY <2>5, <3>1 DEF PassInv
      <4>2. Pt(FirstCell.x, LastCell.y + 1).y = LastCell.y + 1 /\ LastCell.y \in Int
        BY Shape DEF Pt
      <4> QED BY <3>1, <4>1, <4>2
    <3>3. PositionOf(p) \in Int /\ PositionOf(p') = PositionOf(p) + 1
      BY <2>3, <3>1, <3>2, Positions
    <3>4. RunLeft' = RunLeft - 1
      BY <2>3, <2>6, <3>1, <3>3, RunLeftParts, RunLeftPartsNext
    <3> QED BY <2>9, <3>1, <3>4
  <2>11. CASE EndPass
    <3>1. stage = "pass" /\ stage' = "pass" /\ walls' = walls /\ i < 3 /\ i' = i + 1 /\ p' = FirstCell
          /\ p.y > LastCell.y
      BY <2>11 DEF EndPass
    <3>2. p = Pt(FirstCell.x, LastCell.y + 1)
      <4>1. p \in Interior \cup {Pt(FirstCell.x, LastCell.y + 1)}
        BY <2>5, <3>1 DEF PassInv
      <4>2. p \in Interior => p.y \in 1 .. Size.y - 2
        BY InteriorCells
      <4> QED BY <3>1, <4>1, <4>2, Shape
    <3>3. PositionOf(p) = PassSteps - 1 /\ PositionOf(p') = 0
      BY <3>1, <3>2, Positions
    <3>4. RunLeft' = RunLeft - 1
      BY <2>3, <2>6, <3>1, <3>3, RunLeftParts, RunLeftPartsNext
    <3> QED BY <2>9, <3>1, <3>4
  <2>12. ASSUME stage = "pass", i = 3 PROVE RunLeft = 1
    BY <1>1, <2>3, <2>12, RunLeftParts, Positions DEF AtStart
  <2>13. CASE ReturnWalls
    <3>1. stage = "pass" /\ i = 3 /\ walls = {} /\ stage' = "fill" /\ walls' = result
      BY <2>13 DEF ReturnWalls, None
    <3>2. result # {}
      BY <2>5, <3>1, BorderCells DEF PassInv
    <3>3. AttemptLeft = RunSteps + 1 + 2 /\ AttemptLeft' = RunSteps + 2
      BY <2>1, <2>2, <2>12, <3>1, <3>2 DEF Ahead
    <3> QED BY <2>3, <3>3
  <2>14. CASE ReturnGrass
    <3>1. stage = "pass" /\ i = 3 /\ walls # {} /\ stage' = "paint"
      BY <2>14 DEF ReturnGrass, None
    <3>2. AttemptLeft = 0 + 1 + 2 /\ AttemptLeft' = 2
      BY <2>1, <2>2, <2>12, <3>1 DEF Ahead
    <3> QED BY <2>3, <3>2
  <2>15. CASE Paint
    <3>1. stage = "paint" /\ stage' = "check"
      BY <2>15 DEF Paint
    <3> QED BY <2>1, <2>2, <2>3, <3>1
  <2>16. CASE Retry
    <3>1. stage = "check" /\ stage' = "fill" /\ walls' = {}
      BY <2>16 DEF Retry, None
    <3> QED BY <2>2, <3>1
  <2>17. CASE Accept
    <3>1. stage = "check" /\ stage' = "done"
      BY <2>17 DEF Accept
    <3> QED BY <2>1, <2>2, <2>3, <3>1
  <2> QED BY <1>1, <2>8, <2>10, <2>11, <2>13, <2>14, <2>15, <2>16, <2>17 DEF Next, Compute, Rest
<1>2. WorldInv /\ AtStart /\ [Next]_vars =>
        [\/ AttemptLeft \in 1 .. 2 * RunSteps + 2 /\ AttemptLeft' = AttemptLeft - 1
         \/ stage = "check" /\ stage' = "fill" /\ AttemptLeft' = 2 * RunSteps + 2]_vars
  BY <1>1
<1> QED BY <1>2, AtStartAlways, PTL DEF Spec, AttemptRunsDown
=============================================================================
