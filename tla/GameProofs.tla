----------------------------- MODULE GameProofs -----------------------------
(***************************************************************************)
(* The invariants of Board and of Game, for boards of every size, any      *)
(* number of entities, both radii, and every set of worlds and speed, and  *)
(* that Game implements PlayerCommands up to liveness.                     *)
(***************************************************************************)
EXTENDS Game, GeoProofs, FiniteSetTheorems

-----------------------------------------------------------------------------
(* Board.  The lemmas are about its operations, so that they also serve    *)
(* the game.                                                               *)

(* Two facts the invariants need to be inductive: only listed entities     *)
(* have a vision, and the index is zero while there is no entity.          *)
OnlyListedSee == \A e \in Entity : m_vision[e] # NoVision => e \in Listed

IndexStartsAtZero == m_entities = <<>> => m_entityIndex = 0

BoardInv ==
  /\ BoardTypeOK
  /\ OwnersMatchPositions
  /\ QueueInOrder
  /\ OnlyListedSee
  /\ IndexStartsAtZero
  /\ CleanVisionIsCurrent

-----------------------------------------------------------------------------
LEMMA CellsArePoints == Cells \subseteq Point
<1>1. Size.x \in Int /\ Size.y \in Int
  BY BoardAssumption DEF Point
<1> QED BY <1>1 DEF Cells, CellsOf, Pt, Point

LEMMA ListedEntities ==
  ASSUME BoardTypeOK
  PROVE  /\ Listed \subseteq Entity
         /\ m_entities = <<>> => Listed = {}
  BY DEF BoardTypeOK, Listed

(* A free cell is on the board, is no tree and has no owner.               *)
LEMMA FreeCells ==
  ASSUME BoardTypeOK, NEW p \in Point, getStatus(p) = "Free"
  PROVE  p \in Cells /\ m_entityAtPos[p] = NoEntity /\ ~FlagBlocked(m_map[p])
<1>1. ~FlagBlocked(TileAt(m_map, p)) /\ EntityAt(p) = NoEntity
  BY DEF getStatus
<1>2. DOMAIN m_map = Cells /\ DOMAIN m_entityAtPos = Cells
  BY DEF BoardTypeOK, TileMap
<1>3. p \in Cells
  BY <1>1, <1>2 DEF TileAt, MatrixGet, FlagBlocked
<1> QED BY <1>1, <1>2, <1>3 DEF TileAt, MatrixGet, EntityAt

-----------------------------------------------------------------------------
LEMMA InitBoard == Init => BoardInv
<1> SUFFICES ASSUME Init PROVE BoardInv
  OBVIOUS
<1>1. origin \in Point
  BY DEF origin, Pt, Point
<1>2. BoardTypeOK
  BY <1>1 DEF Init, BoardTypeOK, TileMap, Tile
<1>3. Listed = {}
  BY <1>2, ListedEntities DEF Init
<1>4. OwnersMatchPositions
  BY <1>3 DEF Init, OwnersMatchPositions
<1>5. QueueInOrder
  BY DEF Init, QueueInOrder
<1>6. OnlyListedSee /\ IndexStartsAtZero /\ CleanVisionIsCurrent
  BY DEF Init, OnlyListedSee, IndexStartsAtZero, CleanVisionIsCurrent
<1> QED BY <1>2, <1>4, <1>5, <1>6 DEF BoardInv

LEMMA UnchangedBoard ==
  ASSUME BoardInv, UNCHANGED boardVars
  PROVE  BoardInv'
  BY DEF boardVars, BoardInv, BoardTypeOK, OwnersMatchPositions, QueueInOrder,
         OnlyListedSee, IndexStartsAtZero, CleanVisionIsCurrent, Listed

LEMMA ClearPreserves ==
  ASSUME BoardInv, m_entities = <<>>, clearAllTiles
  PROVE  BoardInv'
<1>1. Listed = {} /\ Listed' = {}
  BY ListedEntities DEF BoardInv, BoardTypeOK, clearAllTiles, Listed
<1>2. BoardTypeOK'
  BY DEF BoardInv, BoardTypeOK, clearAllTiles, TileMap, Tile
<1>3. OwnersMatchPositions'
  BY <1>1 DEF BoardInv, OwnersMatchPositions, clearAllTiles
<1>4. QueueInOrder' /\ OnlyListedSee' /\ IndexStartsAtZero'
  BY <1>1 DEF BoardInv, QueueInOrder, OnlyListedSee, IndexStartsAtZero, clearAllTiles
<1>5. CleanVisionIsCurrent'
  BY <1>1, <1>4 DEF CleanVisionIsCurrent, OnlyListedSee
<1> QED BY <1>2, <1>3, <1>4, <1>5 DEF BoardInv

LEMMA AddPreserves ==
  ASSUME BoardInv, NEW e \in Entity, NEW p \in Cells, getStatus(p) = "Free", addEntity(e, p)
  PROVE  BoardInv'
<1>1. /\ e \notin Listed
      /\ m_entities' = Append(m_entities, e)
      /\ m_entityAtPos' = [m_entityAtPos EXCEPT ![p] = e]
      /\ pos' = [pos EXCEPT ![e] = p]
      /\ UNCHANGED <<m_map, m_entityIndex, m_vision>>
  BY DEF addEntity
<1>2. BoardTypeOK
  BY DEF BoardInv
<1>3. p \in Point /\ m_entityAtPos[p] = NoEntity
  BY <1>2, CellsArePoints, FreeCells
<1>4. BoardTypeOK'
  BY <1>1, <1>2, <1>3 DEF BoardTypeOK
<1>5. Listed' = Listed \cup {e} /\ Listed \subseteq Entity
  BY <1>1, <1>2 DEF BoardTypeOK, Listed
<1>6. OwnersMatchPositions'
  <2>1. ASSUME NEW f \in Listed' PROVE (pos[f] \in Cells /\ m_entityAtPos[pos[f]] = f)'
    <3>1. CASE f = e
      BY <1>1, <1>2, <3>1 DEF BoardTypeOK
    <3>2. CASE f # e
      <4>1. f \in Listed /\ f # NoEntity
        BY <1>5, <2>1, <3>2, BoardAssumption
      <4>2. pos[f] \in Cells /\ m_entityAtPos[pos[f]] = f
        BY <4>1 DEF BoardInv, OwnersMatchPositions
      <4>3. pos'[f] = pos[f] /\ pos[f] # p
        BY <1>1, <1>2, <1>3, <1>5, <3>2, <4>1, <4>2 DEF BoardTypeOK
      <4> QED BY <1>1, <1>2, <4>2, <4>3 DEF BoardTypeOK
    <3> QED BY <3>1, <3>2
  <2>2. ASSUME NEW c \in Cells, m_entityAtPos'[c] # NoEntity
        PROVE  (m_entityAtPos[c] \in Listed /\ pos[m_entityAtPos[c]] = c)'
    <3>1. CASE c = p
      BY <1>1, <1>2, <1>5, <3>1 DEF BoardTypeOK
    <3>2. CASE c # p
      <4>1. m_entityAtPos'[c] = m_entityAtPos[c]
        BY <1>1, <1>2, <3>2 DEF BoardTypeOK
      <4>2. m_entityAtPos[c] \in Listed /\ pos[m_entityAtPos[c]] = c
        BY <2>2, <4>1 DEF BoardInv, OwnersMatchPositions
      <4>3. pos'[m_entityAtPos[c]] = pos[m_entityAtPos[c]]
        BY <1>1, <1>2, <1>5, <4>2 DEF BoardTypeOK
      <4> QED BY <1>5, <4>1, <4>2, <4>3
    <3> QED BY <3>1, <3>2
  <2> QED BY <2>1, <2>2 DEF OwnersMatchPositions
<1>7. QueueInOrder' /\ IndexStartsAtZero'
  <2>1. m_entityIndex < Len(m_entities) \/ m_entityIndex = 0
    BY DEF BoardInv, QueueInOrder, IndexStartsAtZero
  <2>2. \A k, l \in 1 .. Len(m_entities) : m_entities[k] = m_entities[l] => k = l
    BY DEF BoardInv, QueueInOrder
  <2>3. /\ Len(m_entities') = Len(m_entities) + 1 /\ Len(m_entities) \in Nat
        /\ \A k \in 1 .. Len(m_entities) : m_entities'[k] = m_entities[k] /\ m_entities[k] # e
        /\ m_entities'[Len(m_entities) + 1] = e
    BY <1>1, <1>2 DEF BoardTypeOK, Listed
  <2>4. m_entities' # <<>> /\ m_entityIndex' < Len(m_entities')
    BY <1>1, <1>2, <2>1, <2>3 DEF BoardTypeOK
  <2>5. \A k, l \in 1 .. Len(m_entities') : m_entities'[k] = m_entities'[l] => k = l
    BY <2>2, <2>3
  <2> QED BY <2>4, <2>5 DEF QueueInOrder, IndexStartsAtZero
<1>8. OnlyListedSee'
  BY <1>1, <1>5 DEF BoardInv, OnlyListedSee
<1>9. CleanVisionIsCurrent'
  <2> SUFFICES ASSUME NEW f \in Entity, m_vision'[f] # NoVision, ~m_vision'[f].dirty
               PROVE  /\ m_vision'[f].offset = Minus(Centre, pos'[f])
                      /\ IsView(m_map', pos'[f], m_vision'[f].visibility)
    BY DEF CleanVisionIsCurrent
  <2>1. m_vision'[f] = m_vision[f] /\ m_map' = m_map /\ f \in Listed
    BY <1>1 DEF BoardInv, OnlyListedSee
  <2>2. pos'[f] = pos[f]
    BY <1>1, <1>2, <2>1 DEF BoardTypeOK
  <2> QED BY <2>1, <2>2 DEF BoardInv, CleanVisionIsCurrent
<1> QED BY <1>4, <1>6, <1>7, <1>8, <1>9 DEF BoardInv

LEMMA MovePreserves ==
  ASSUME BoardInv, NEW e \in Listed, NEW to \in Cells, getStatus(to) = "Free",
         moveEntity(e, to)
  PROVE  BoardInv'
<1>1. /\ m_entityAtPos' = [m_entityAtPos EXCEPT ![pos[e]] = NoEntity, ![to] = e]
      /\ pos' = [pos EXCEPT ![e] = to]
      /\ m_vision' = [m_vision EXCEPT ![e] = DirtyVision(@)]
      /\ UNCHANGED <<m_map, m_entities, m_entityIndex>>
  BY DEF moveEntity
<1>2. BoardTypeOK /\ Listed \subseteq Entity /\ e \in Entity /\ Listed' = Listed
  BY <1>1, ListedEntities DEF BoardInv, Listed
<1>3. to \in Point /\ m_entityAtPos[to] = NoEntity
  BY <1>2, CellsArePoints, FreeCells
<1>4. pos[e] \in Cells /\ m_entityAtPos[pos[e]] = e /\ e # NoEntity
  BY <1>2, BoardAssumption DEF BoardInv, OwnersMatchPositions
<1>5. DirtyVision(m_vision[e]) \in Vision \cup {NoVision}
  <2>1. m_vision[e] \in Vision \cup {NoVision}
    BY <1>2 DEF BoardTypeOK
  <2> QED BY <2>1 DEF DirtyVision, Dirty, Vision
<1>6. BoardTypeOK'
  BY <1>1, <1>2, <1>3, <1>4, <1>5 DEF BoardTypeOK
<1>7. OwnersMatchPositions'
  <2>1. ASSUME NEW f \in Listed' PROVE (pos[f] \in Cells /\ m_entityAtPos[pos[f]] = f)'
    <3>1. CASE f = e
      BY <1>1, <1>2, <3>1 DEF BoardTypeOK
    <3>2. CASE f # e
      <4>1. pos[f] \in Cells /\ m_entityAtPos[pos[f]] = f /\ f # NoEntity
        BY <1>2, <2>1, BoardAssumption DEF BoardInv, OwnersMatchPositions
      <4>2. pos'[f] = pos[f] /\ pos[f] # to /\ pos[f] # pos[e]
        BY <1>1, <1>2, <1>3, <1>4, <3>2, <4>1 DEF BoardTypeOK
      <4> QED BY <1>1, <1>2, <4>1, <4>2 DEF BoardTypeOK
    <3> QED BY <3>1, <3>2
  <2>2. ASSUME NEW c \in Cells, m_entityAtPos'[c] # NoEntity
        PROVE  (m_entityAtPos[c] \in Listed /\ pos[m_entityAtPos[c]] = c)'
    <3>1. CASE c = to
      BY <1>1, <1>2, <3>1 DEF BoardTypeOK
    <3>2. CASE c # to
      <4>1. c # pos[e] /\ m_entityAtPos'[c] = m_entityAtPos[c]
        BY <1>1, <1>2, <2>2, <3>2 DEF BoardTypeOK
      <4>2. m_entityAtPos[c] \in Listed /\ pos[m_entityAtPos[c]] = c
        BY <2>2, <4>1 DEF BoardInv, OwnersMatchPositions
      <4>3. pos'[m_entityAtPos[c]] = pos[m_entityAtPos[c]]
        BY <1>1, <1>2, <4>1, <4>2 DEF BoardTypeOK
      <4> QED BY <1>2, <4>1, <4>2, <4>3
    <3> QED BY <3>1, <3>2
  <2> QED BY <2>1, <2>2 DEF OwnersMatchPositions
<1>8. QueueInOrder' /\ IndexStartsAtZero'
  BY <1>1 DEF BoardInv, QueueInOrder, IndexStartsAtZero
<1>9. OnlyListedSee'
  <2> SUFFICES ASSUME NEW f \in Entity, m_vision'[f] # NoVision PROVE f \in Listed
    BY <1>2 DEF OnlyListedSee
  <2>1. CASE f = e
    BY <2>1
  <2>2. CASE f # e
    BY <1>1, <1>2, <2>2 DEF BoardInv, BoardTypeOK, OnlyListedSee
  <2> QED BY <2>1, <2>2
<1>10. CleanVisionIsCurrent'
  <2> SUFFICES ASSUME NEW f \in Entity, m_vision'[f] # NoVision, ~m_vision'[f].dirty
               PROVE  /\ m_vision'[f].offset = Minus(Centre, pos'[f])
                      /\ IsView(m_map', pos'[f], m_vision'[f].visibility)
    BY DEF CleanVisionIsCurrent
  <2>1. f # e
    <3> SUFFICES ASSUME f = e PROVE FALSE
      OBVIOUS
    <3>1. m_vision'[e] = DirtyVision(m_vision[e])
      BY <1>1, <1>2 DEF BoardTypeOK
    <3>2. m_vision[e] # NoVision
      BY <3>1 DEF DirtyVision
    <3>3. m_vision[e] \in Vision
      BY <1>2, <3>2 DEF BoardTypeOK
    <3>4. m_vision'[e].dirty = TRUE
      BY <3>1, <3>2, <3>3 DEF DirtyVision, Dirty, Vision
    <3> QED BY <3>4
  <2>2. m_vision'[f] = m_vision[f] /\ pos'[f] = pos[f] /\ m_map' = m_map
    BY <1>1, <1>2, <2>1 DEF BoardTypeOK
  <2> QED BY <2>2 DEF BoardInv, CleanVisionIsCurrent
<1> QED BY <1>6, <1>7, <1>8, <1>9, <1>10 DEF BoardInv

LEMMA AdvancePreserves ==
  ASSUME BoardInv, advanceEntity
  PROVE  BoardInv'
<1>1. /\ m_entities # <<>>
      /\ m_entityIndex' = NextIndex(m_entityIndex)
      /\ UNCHANGED <<m_map, m_entities, m_entityAtPos, m_vision, pos>>
  BY DEF advanceEntity
<1>2. Len(m_entities) \in Nat /\ Len(m_entities) > 0 /\ m_entityIndex \in Nat
  BY <1>1 DEF BoardInv, BoardTypeOK
<1>3. m_entityIndex' \in Nat /\ m_entityIndex' < Len(m_entities)
  BY <1>1, <1>2 DEF NextIndex
<1>4. Listed' = Listed
  BY <1>1 DEF Listed
<1>5. BoardTypeOK' /\ QueueInOrder' /\ IndexStartsAtZero'
  BY <1>1, <1>3 DEF BoardInv, BoardTypeOK, QueueInOrder, IndexStartsAtZero
<1>6. OwnersMatchPositions' /\ OnlyListedSee' /\ CleanVisionIsCurrent'
  BY <1>1, <1>4 DEF BoardInv, OwnersMatchPositions, OnlyListedSee, CleanVisionIsCurrent
<1> QED BY <1>5, <1>6 DEF BoardInv

(* The vision getVision returns is the field of vision of its entity now.  *)
LEMMA VisionOfIsCurrent ==
  ASSUME BoardInv, NEW e \in Listed
  PROVE  /\ VisionOf(e) \in Vision
         /\ VisionOf(e).offset = Minus(Centre, pos[e])
         /\ IsView(m_map, pos[e], VisionOf(e).visibility)
<1>1. e \in Entity /\ pos[e] \in Cells /\ pos[e] \in Point /\ m_map \in TileMap
  BY ListedEntities, CellsArePoints DEF BoardInv, BoardTypeOK, OwnersMatchPositions
<1>2. CASE m_vision[e] # NoVision /\ ~m_vision[e].dirty
  <2>1. m_vision[e] \in Vision
    BY <1>1, <1>2 DEF BoardInv, BoardTypeOK
  <2>2. VisionOf(e) = m_vision[e]
    BY <1>2, Zenon DEF VisionOf
  <2>3. /\ m_vision[e].offset = Minus(Centre, pos[e])
        /\ IsView(m_map, pos[e], m_vision[e].visibility)
    BY <1>1, <1>2 DEF BoardInv, CleanVisionIsCurrent
  <2> QED BY <2>1, <2>2, <2>3
<1>3. CASE ~(m_vision[e] # NoVision /\ ~m_vision[e].dirty)
  <2> DEFINE V == View(m_map, pos[e])
  <2>1. VisionOf(e) = [offset |-> Minus(Centre, pos[e]), dirty |-> FALSE, visibility |-> V]
    BY <1>3, Zenon DEF VisionOf
  <2>2. IsView(m_map, pos[e], V)
    BY <1>1, ViewAssumption
  <2>3. V \in [VisionCells -> Int]
    BY <2>2 DEF IsView
  <2>4. Minus(Centre, pos[e]) \in Point
    BY <1>1, RadiusAssumption DEF Minus, Centre, Pt, Point
  <2> HIDE DEF V
  <2>5. VisionOf(e) \in Vision
    BY <2>1, <2>3, <2>4 DEF Vision
  <2> QED BY <2>1, <2>2, <2>5
<1> QED BY <1>2, <1>3

LEMMA GetVisionPreserves ==
  ASSUME BoardInv, NEW e \in Listed, getVision(e)
  PROVE  BoardInv'
<1>1. /\ m_vision' = [m_vision EXCEPT ![e] = VisionOf(e)]
      /\ UNCHANGED <<m_map, m_entities, m_entityIndex, m_entityAtPos, pos>>
  BY DEF getVision
<1>2. BoardTypeOK /\ e \in Entity /\ Listed' = Listed
  BY <1>1, ListedEntities DEF BoardInv, Listed
<1>3. BoardTypeOK'
  BY <1>1, <1>2, VisionOfIsCurrent DEF BoardTypeOK
<1>4. OwnersMatchPositions' /\ QueueInOrder' /\ IndexStartsAtZero'
  BY <1>1, <1>2 DEF BoardInv, OwnersMatchPositions, QueueInOrder, IndexStartsAtZero
<1>5. m_vision'[e] = VisionOf(e) /\ \A f \in Entity \ {e} : m_vision'[f] = m_vision[f]
  BY <1>1, <1>2 DEF BoardTypeOK
<1>6. OnlyListedSee'
  BY <1>2, <1>5 DEF BoardInv, OnlyListedSee
<1>7. CleanVisionIsCurrent'
  <2> SUFFICES ASSUME NEW f \in Entity, m_vision'[f] # NoVision, ~m_vision'[f].dirty
               PROVE  /\ m_vision'[f].offset = Minus(Centre, pos'[f])
                      /\ IsView(m_map', pos'[f], m_vision'[f].visibility)
    BY DEF CleanVisionIsCurrent
  <2>1. CASE f = e
    BY <1>1, <1>5, <2>1, VisionOfIsCurrent
  <2>2. CASE f # e
    BY <1>1, <1>5, <2>2 DEF BoardInv, CleanVisionIsCurrent
  <2> QED BY <2>1, <2>2
<1> QED BY <1>3, <1>4, <1>6, <1>7 DEF BoardInv

LEMMA SetTilePreserves ==
  ASSUME BoardInv, NEW p \in Cells, NEW tile \in Tile, setTile(p, tile)
  PROVE  BoardInv'
<1>1. /\ m_map' = [m_map EXCEPT ![p] = tile]
      /\ m_vision' = [e \in Entity |->
                        IF e \in Listed /\ ~SameFlags(m_map[p], tile)
                        THEN DirtyIfSeen(m_vision[e], p)
                        ELSE m_vision[e]]
      /\ UNCHANGED <<m_entities, m_entityIndex, m_entityAtPos, pos>>
  BY DEF setTile
<1>2. BoardTypeOK /\ Listed' = Listed /\ Listed \subseteq Entity /\ p \in Point
  BY <1>1, ListedEntities, CellsArePoints DEF BoardInv, Listed
<1>3. ASSUME NEW e \in Entity
      PROVE  /\ m_vision'[e] \in {m_vision[e], Dirty(m_vision[e])}
             /\ m_vision[e] = NoVision <=> m_vision'[e] = NoVision
             /\ m_vision'[e] \in Vision \cup {NoVision}
  <2>1. m_vision[e] \in Vision \cup {NoVision}
    BY <1>2 DEF BoardTypeOK
  <2>2. m_vision'[e] = m_vision[e] \/ (m_vision[e] # NoVision /\ m_vision'[e] = Dirty(m_vision[e]))
    BY <1>1, Zenon DEF DirtyIfSeen
  <2>3. m_vision[e] \in Vision => Dirty(m_vision[e]) \in Vision
    BY DEF Dirty, Vision
  <2>4. NoVision \notin Vision
    BY DEF NoVision, Vision
  <2> QED BY <2>1, <2>2, <2>3, <2>4, Zenon
<1>4. BoardTypeOK'
  <2>1. m_map' \in TileMap
    BY <1>1, <1>2 DEF BoardTypeOK, TileMap
  <2>2. m_vision' \in [Entity -> Vision \cup {NoVision}]
    BY <1>1, <1>3
  <2> QED BY <1>1, <1>2, <2>1, <2>2 DEF BoardTypeOK
<1>5. OwnersMatchPositions' /\ QueueInOrder' /\ IndexStartsAtZero'
  BY <1>1, <1>2 DEF BoardInv, OwnersMatchPositions, QueueInOrder, IndexStartsAtZero
<1>6. OnlyListedSee'
  BY <1>2, <1>3 DEF BoardInv, OnlyListedSee
<1>7. CleanVisionIsCurrent'
  <2> SUFFICES ASSUME NEW e \in Entity, m_vision'[e] # NoVision, ~m_vision'[e].dirty
               PROVE  /\ m_vision'[e].offset = Minus(Centre, pos'[e])
                      /\ IsView(m_map', pos'[e], m_vision'[e].visibility)
    BY DEF CleanVisionIsCurrent
  <2> DEFINE vision == m_vision[e]
  <2>1. vision # NoVision /\ vision \in Vision /\ e \in Listed
    BY <1>2, <1>3 DEF BoardInv, BoardTypeOK, OnlyListedSee
  <2>2. m_vision'[e] = vision
    <3>1. Dirty(vision).dirty
      BY <2>1 DEF Dirty, Vision
    <3> QED BY <1>3, <3>1, Zenon
  <2>3. ~vision.dirty
    BY <2>2, Zenon
  <2>4. vision.offset = Minus(Centre, pos[e]) /\ IsView(m_map, pos[e], vision.visibility)
    BY <2>1, <2>3, Zenon DEF BoardInv, CleanVisionIsCurrent
  <2>5. SameFlags(m_map[p], tile) \/ ~canSee(vision, p)
    <3> SUFFICES ASSUME ~SameFlags(m_map[p], tile), canSee(vision, p) PROVE FALSE
      OBVIOUS
    <3>1. m_vision'[e] = Dirty(vision)
      BY <1>1, <2>1, <2>3, Zenon DEF DirtyIfSeen
    <3>2. Dirty(vision).dirty
      BY <2>1 DEF Dirty, Vision
    <3> QED BY <3>1, <3>2, Zenon
  <2>6. SameFlags(m_map[p], tile) \/ MatrixGet(vision.visibility, -1, Plus(p, Minus(Centre, pos[e]))) < 0
    <3>1. vision.visibility \in [VisionCells -> Int]
      BY <2>1 DEF Vision
    <3>2. MatrixGet(vision.visibility, -1, Plus(p, vision.offset)) \in Int
      BY <3>1 DEF MatrixGet
    <3> QED BY <2>4, <2>5, <3>2 DEF canSee, visibilityAt
  <2>7. ASSUME NEW q \in Point
        PROVE  \/ q = p /\ MatrixGet(vision.visibility, -1, Plus(p, Minus(Centre, pos[e]))) < 0
               \/ /\ FlagBlocked(TileAt(m_map, q)) = FlagBlocked(TileAt(m_map', q))
                  /\ FlagObscure(TileAt(m_map, q)) = FlagObscure(TileAt(m_map', q))
    <3>1. m_map \in [Cells -> Tile] /\ m_map' \in [Cells -> Tile]
      BY <1>2, <1>4 DEF BoardTypeOK, TileMap
    <3>2. CASE q # p
      BY <1>1, <3>1, <3>2 DEF TileAt, MatrixGet
    <3>3. CASE q = p
      <4>1. TileAt(m_map, q) = m_map[p] /\ TileAt(m_map', q) = tile
        BY <1>1, <3>1, <3>3 DEF TileAt, MatrixGet
      <4> QED BY <2>6, <3>3, <4>1, Zenon DEF SameFlags
    <3> QED BY <3>2, <3>3
  <2>8. pos[e] \in Point
    BY <1>2 DEF BoardTypeOK
  <2> HIDE DEF vision
  <2>9. IsView(m_map', pos[e], vision.visibility)
    BY <1>2, <2>4, <2>7, <2>8, HiddenChangesDoNotMatter
  <2>10. pos' = pos
    BY <1>1
  <2> QED BY <2>2, <2>4, <2>9, <2>10, Zenon
<1> QED BY <1>4, <1>5, <1>6, <1>7 DEF BoardInv

-----------------------------------------------------------------------------
(* The timers stay integers, whatever is charged.                          *)
TimersTyped == move_timer \in [Entity -> Int] /\ turn_timer \in [Entity -> Int]

LEMMA ActiveIsListed ==
  ASSUME BoardInv, m_entities # <<>>
  PROVE  ActiveEntity \in Listed /\ ActiveEntity \in Entity
<1>1. /\ m_entities \in Seq(Entity) /\ m_entityIndex \in Nat
      /\ m_entityIndex < Len(m_entities)
  BY DEF BoardInv, BoardTypeOK, QueueInOrder
<1>2. m_entityIndex + 1 \in 1 .. Len(m_entities)
  BY <1>1
<1> QED BY <1>1, <1>2 DEF ActiveEntity, Listed

LEMMA AdvanceTimers ==
  ASSUME BoardInv, TimersTyped, advanceEntity
  PROVE  TimersTyped'
<1>1. /\ m_entities # <<>>
      /\ move_timer' = Charged(move_timer, ActiveEntity)
      /\ turn_timer' = Charged(turn_timer, ActiveEntity)
  BY DEF advanceEntity
<1>2. ActiveEntity \in Entity
  BY <1>1, ActiveIsListed
<1>3. Charge[ActiveEntity] \in Int
  BY <1>2, BoardAssumption
<1> QED BY <1>1, <1>2, <1>3 DEF TimersTyped, Charged

LEMMA NextPreserves == (BoardInv /\ TimersTyped) /\ [Next]_vars => (BoardInv /\ TimersTyped)'
<1> SUFFICES ASSUME BoardInv, TimersTyped, [Next]_vars PROVE BoardInv' /\ TimersTyped'
  OBVIOUS
<1>1. ASSUME UNCHANGED timers PROVE TimersTyped'
  BY <1>1 DEF timers, TimersTyped
<1>2. CASE ClearAllTiles
  BY <1>1, <1>2, ClearPreserves DEF ClearAllTiles
<1>3. CASE SetTile
  BY <1>1, <1>3, SetTilePreserves DEF SetTile
<1>4. CASE AddEntity
  BY <1>1, <1>4, AddPreserves DEF AddEntity
<1>5. CASE MoveEntity
  BY <1>1, <1>5, MovePreserves DEF MoveEntity
<1>6. CASE advanceEntity
  BY <1>6, AdvancePreserves, AdvanceTimers
<1>7. CASE GetVision
  BY <1>1, <1>7, GetVisionPreserves DEF GetVision
<1>8. CASE UNCHANGED vars
  BY <1>1, <1>8, UnchangedBoard DEF vars
<1> QED BY <1>2, <1>3, <1>4, <1>5, <1>6, <1>7, <1>8 DEF Next

LEMMA Invariance == Spec => [](BoardInv /\ TimersTyped)
<1>1. Init => BoardInv /\ TimersTyped
  BY InitBoard DEF Init, TimersTyped
<1> QED BY <1>1, NextPreserves, PTL DEF Spec

(* The board keeps its types, for every size and every set of entities.    *)
THEOREM BoardTypeCorrect == Spec => []TypeOK
<1>1. BoardInv /\ TimersTyped => TypeOK
  BY DEF BoardInv, TimersTyped, TypeOK
<1> QED BY <1>1, Invariance, PTL

(* The asserts of addEntity and moveEntity hold: the owner map and the     *)
(* entities' own positions always agree.                                   *)
THEOREM OwnersAlwaysMatch == Spec => []OwnersMatchPositions
<1>1. BoardInv => OwnersMatchPositions
  BY DEF BoardInv
<1> QED BY <1>1, Invariance, PTL

(* The assert of getActiveEntity holds and the queue holds nobody twice.   *)
THEOREM QueueStaysInOrder == Spec => []QueueInOrder
<1>1. BoardInv => QueueInOrder
  BY DEF BoardInv
<1> QED BY <1>1, Invariance, PTL

(* The cache of visions is coherent: dirtyVision's rule, to dirty only the *)
(* visions that see the tile being set, misses no write that matters, for  *)
(* every board and both radii.                                             *)
THEOREM VisionCacheIsCoherent == Spec => []CleanVisionIsCurrent
<1>1. BoardInv => CleanVisionIsCurrent
  BY DEF BoardInv
<1> QED BY <1>1, Invariance, PTL

-----------------------------------------------------------------------------
(* Game.                                                                   *)

(* The inductive invariant.  Besides the board's own, the player is first  *)
(* in the queue and, until the first tick, the active entity; in a phase   *)
(* where the loop is not running the player is active and ready.           *)
GameTypes ==
  /\ phase \in {"setup", "idle", "turns", "render"}
  /\ tries \in 0 .. kPokemon
  /\ input \in Point \cup {NoAction}
  /\ inputs \in Seq(Key)
  /\ frame \in [FrameCells -> Glyph]
  /\ turns \in [Entity -> Nat]

PlayerFirst == m_entities # <<>> /\ m_entities[1] = player

OnFreeTiles == \A e \in Listed : ~FlagBlocked(TileAt(m_map, pos[e]))

SetupState ==
  phase = "setup" => m_entityIndex = 0 /\ turn_timer[player] = 0 /\ input = NoAction

PlayersTurn ==
  phase \in {"idle", "render"} =>
    ActiveEntity = player /\ turn_timer[player] <= 0 /\ input = NoAction

GameInv ==
  /\ BoardInv
  /\ TimersTyped
  /\ GameTypes
  /\ PlayerFirst
  /\ OnFreeTiles
  /\ TimersBounded
  /\ SetupState
  /\ PlayersTurn

-----------------------------------------------------------------------------
LEMMA ConstantFacts ==
  /\ player \in Entity
  /\ kTurnTimer \in Nat /\ kPokemon \in Nat
  /\ \A e \in Entity : Charge[e] \in Nat /\ 1 <= Charge[e] /\ Charge[e] <= kTurnTimer
  /\ NoAction \notin Point
  BY GameAssumption

LEMMA PlayerIsListed ==
  ASSUME BoardTypeOK, PlayerFirst
  PROVE  player \in Listed
  BY DEF BoardTypeOK, PlayerFirst, Listed

(* The start is on the board: outside there are only trees.                *)
LEMMA StartIsFree ==
  ASSUME NEW m \in Worlds
  PROVE  m \in TileMap /\ Start \in Cells /\ ~FlagBlocked(m[Start])
<1>1. m \in TileMap /\ ~FlagBlocked(TileAt(m, Start))
  BY GameAssumption
<1> QED BY <1>1 DEF TileMap, TileAt, MatrixGet, FlagBlocked

LEMMA InitGame == GameInit => GameInv
<1> SUFFICES ASSUME GameInit PROVE GameInv
  OBVIOUS
<1>1. m_map \in TileMap /\ Start \in Cells /\ Start \in Point /\ ~FlagBlocked(m_map[Start])
  BY StartIsFree, CellsArePoints DEF GameInit
<1>2. origin \in Point
  BY DEF origin, Pt, Point
<1>3. BoardTypeOK
  BY <1>1, <1>2, ConstantFacts DEF GameInit, BoardTypeOK
<1>4. Listed = {player}
  BY DEF GameInit, Listed
<1>5. OwnersMatchPositions
  BY <1>1, <1>4, ConstantFacts, BoardAssumption DEF GameInit, OwnersMatchPositions
<1>6. QueueInOrder /\ IndexStartsAtZero
  BY DEF GameInit, QueueInOrder, IndexStartsAtZero
<1>7. OnlyListedSee /\ CleanVisionIsCurrent
  BY DEF GameInit, OnlyListedSee, CleanVisionIsCurrent
<1>8. BoardInv
  BY <1>3, <1>5, <1>6, <1>7 DEF BoardInv
<1>9. GameTypes
  BY ConstantFacts DEF GameInit, GameTypes, Glyph
<1>10. PlayerFirst /\ SetupState /\ PlayersTurn
  BY ConstantFacts DEF GameInit, PlayerFirst, SetupState, PlayersTurn
<1>11. OnFreeTiles
  BY <1>1, <1>4, ConstantFacts DEF GameInit, OnFreeTiles, TileAt, MatrixGet, TileMap
<1>12. TimersTyped /\ TimersBounded
  BY ConstantFacts DEF GameInit, TimersTyped, TimersBounded
<1> QED BY <1>8, <1>9, <1>10, <1>11, <1>12 DEF GameInv

-----------------------------------------------------------------------------
LEMMA AddKeepsFree ==
  ASSUME BoardInv, OnFreeTiles, PlayerFirst,
         NEW e \in Entity, NEW p \in Cells, getStatus(p) = "Free", addEntity(e, p)
  PROVE  OnFreeTiles' /\ PlayerFirst'
<1>1. /\ e \notin Listed
      /\ m_entities' = Append(m_entities, e)
      /\ pos' = [pos EXCEPT ![e] = p]
      /\ m_map' = m_map
  BY DEF addEntity
<1>2. BoardTypeOK /\ p \in Point
  BY CellsArePoints DEF BoardInv
<1>3. Listed' = Listed \cup {e} /\ Listed \subseteq Entity
  BY <1>1, <1>2 DEF BoardTypeOK, Listed
<1>4. ~FlagBlocked(TileAt(m_map, p))
  BY <1>2 DEF getStatus
<1>5. OnFreeTiles'
  BY <1>1, <1>2, <1>3, <1>4 DEF OnFreeTiles, BoardTypeOK
<1>6. PlayerFirst'
  BY <1>1, <1>2 DEF PlayerFirst, BoardTypeOK
<1> QED BY <1>5, <1>6

LEMMA StepPreserves ==
  ASSUME BoardInv, OnFreeTiles, NEW e \in Listed, NEW step \in Point, Step(e, step)
  PROVE  BoardInv' /\ OnFreeTiles' /\ m_entities' = m_entities /\ m_entityIndex' = m_entityIndex
<1>1. CASE UNCHANGED boardVars
  BY <1>1, UnchangedBoard DEF boardVars, OnFreeTiles, Listed
<1>2. CASE step # origin /\ CanStep(e, step) /\ moveEntity(e, Plus(pos[e], step))
  <2> DEFINE to == Plus(pos[e], step)
  <2>1. BoardTypeOK /\ e \in Entity /\ Listed \subseteq Entity
    BY ListedEntities DEF BoardInv
  <2>2. to \in Point
    BY <2>1 DEF BoardTypeOK, Plus, Pt, Point
  <2>3. getStatus(to) = "Free"
    BY <1>2 DEF CanStep
  <2>4. to \in Cells
    BY <2>1, <2>2, <2>3, FreeCells
  <2>5. BoardInv'
    BY <1>2, <2>3, <2>4, MovePreserves
  <2>6. m_map' = m_map /\ m_entities' = m_entities /\ m_entityIndex' = m_entityIndex
        /\ pos' = [pos EXCEPT ![e] = to]
    BY <1>2 DEF moveEntity
  <2>7. ~FlagBlocked(TileAt(m_map, to))
    BY <2>3 DEF getStatus
  <2> HIDE DEF to
  <2>8. OnFreeTiles'
    BY <2>1, <2>6, <2>7 DEF OnFreeTiles, Listed, BoardTypeOK
  <2> QED BY <2>5, <2>6, <2>8
<1> QED BY <1>1, <1>2 DEF Step

(* A turn is taken when the timer has run out, so paying for it keeps the  *)
(* timer in range.                                                         *)
LEMMA WaitBounds ==
  ASSUME TimersTyped, TimersBounded, NEW e \in Entity, turnReady(e), wait(e)
  PROVE  TimersTyped' /\ TimersBounded'
<1>1. turn_timer' = [turn_timer EXCEPT ![e] = @ + kTurnTimer] /\ move_timer' = move_timer
  BY DEF wait
<1>2. turn_timer[e] \in Int /\ turn_timer[e] <= 0 /\ -Charge[e] < turn_timer[e]
  BY DEF TimersTyped, TimersBounded, turnReady
<1>3. TimersTyped'
  BY <1>1, <1>2, ConstantFacts DEF TimersTyped
<1>4. turn_timer'[e] = turn_timer[e] + kTurnTimer
      /\ \A f \in Entity \ {e} : turn_timer'[f] = turn_timer[f]
  BY <1>1 DEF TimersTyped
<1>5. -Charge[e] < turn_timer'[e] /\ turn_timer'[e] <= kTurnTimer
  BY <1>2, <1>4, ConstantFacts
<1>6. TimersBounded'
  BY <1>1, <1>4, <1>5 DEF TimersBounded
<1> QED BY <1>3, <1>6

LEMMA AdvanceBounds ==
  ASSUME BoardInv, TimersTyped, TimersBounded, advanceEntity
  PROVE  TimersTyped' /\ TimersBounded'
<1> DEFINE e == ActiveEntity
<1>1. /\ m_entities # <<>>
      /\ move_timer' = Charged(move_timer, e)
      /\ turn_timer' = Charged(turn_timer, e)
  BY DEF advanceEntity
<1>2. e \in Entity
  BY <1>1, ActiveIsListed
<1>3. TimersTyped'
  BY AdvanceTimers
<1> HIDE DEF e
<1>4. move_timer' = move_timer
  BY <1>1, <1>2 DEF TimersBounded, Charged
<1>5. \A f \in Entity \ {e} : turn_timer'[f] = turn_timer[f]
  BY <1>1 DEF TimersTyped, Charged
<1>6. turn_timer'[e] = IF turn_timer[e] > 0 THEN turn_timer[e] - Charge[e] ELSE turn_timer[e]
  BY <1>1, <1>2 DEF TimersTyped, Charged
<1>7. turn_timer[e] \in Int /\ turn_timer[e] <= kTurnTimer /\ -Charge[e] < turn_timer[e]
  BY <1>2 DEF TimersTyped, TimersBounded
<1>8. -Charge[e] < turn_timer'[e] /\ turn_timer'[e] <= kTurnTimer
  BY <1>2, <1>6, <1>7, ConstantFacts
<1>9. TimersBounded'
  BY <1>4, <1>5, <1>8 DEF TimersBounded
<1> QED BY <1>3, <1>9

(* Taking a key leaves keys and yields a step or nothing.                  *)
LEMMA TakeKeyTypes ==
  ASSUME inputs \in Seq(Key), TakeKeyFrom(inputs)
  PROVE  inputs' \in Seq(Key) /\ input' \in Point \cup {NoAction}
<1>1. CASE Known(inputs) = {}
  BY <1>1 DEF TakeKeyFrom
<1>2. CASE Known(inputs) # {}
  <2> DEFINE n == FirstKnown(inputs)
  <2>1. Known(inputs) \subseteq Nat
    BY DEF Known
  <2>2. \E k \in Known(inputs) : \A l \in Known(inputs) : k <= l
    BY <1>2, <2>1, LeastNatural
  <2>3. n \in Known(inputs)
    BY <2>2 DEF FirstKnown
  <2>4. n \in 1 .. Len(inputs) /\ inputs[n] \in DOMAIN Dir
    BY <2>3 DEF Known
  <2>5. inputs' = SubSeq(inputs, n + 1, Len(inputs)) /\ input' = Dir[inputs[n]]
    BY <1>2 DEF TakeKeyFrom
  <2> HIDE DEF n
  <2>6. input' \in Point
    BY <2>4, <2>5, GameAssumption
  <2>7. inputs' \in Seq(Key)
    BY <2>4, <2>5
  <2> QED BY <2>6, <2>7
<1> QED BY <1>1, <1>2

(* Every cell of the frame that render writes gets a glyph.                *)
LEMMA DrawnGlyphs ==
  ASSUME BoardTypeOK, NEW c \in FrameCells, NEW vision
  PROVE  DrawnAt(Pt(c.x \div 2, c.y), vision) \in Glyph
<1>1. Size.x \in Int /\ Size.y \in Int
  BY BoardAssumption DEF Point
<1>2. c.x \in 0 .. 2 * Size.x - 1 /\ c.y \in 0 .. Size.y - 1
  BY <1>1 DEF FrameCells, CellsOf, Pt
<1>3. c.x \div 2 \in 0 .. Size.x - 1
  BY <1>1, <1>2
<1> DEFINE p == Pt(c.x \div 2, c.y)
<1>4. p \in Cells
  BY <1>2, <1>3 DEF Cells, CellsOf
<1>5. m_map[p] \in Glyph
  BY <1>4 DEF BoardTypeOK, TileMap, Glyph
<1> HIDE DEF p
<1>6. \A e : GlyphOf(e) \in Glyph
  BY DEF GlyphOf, Glyph
<1> QED BY <1>5, <1>6, Zenon DEF DrawnAt, Glyph, p

-----------------------------------------------------------------------------
LEMMA PlacePreserves ==
  ASSUME GameInv, PlacePokemon
  PROVE  GameInv'
<1>1. /\ phase = "setup" /\ tries < kPokemon /\ tries' = tries + 1
      /\ UNCHANGED <<timers, phase, input, inputs, frame, turns>>
  BY DEF PlacePokemon, MorePokemon
<1>2. BoardInv' /\ OnFreeTiles' /\ PlayerFirst' /\ m_entityIndex' = m_entityIndex
  <2>1. CASE UNCHANGED boardVars
    BY <2>1, UnchangedBoard DEF GameInv, boardVars, OnFreeTiles, PlayerFirst, Listed
  <2>2. ASSUME NEW e \in Entity \ {player}, NEW p \in Cells, getStatus(p) = "Free", addEntity(e, p)
        PROVE  BoardInv' /\ OnFreeTiles' /\ PlayerFirst' /\ m_entityIndex' = m_entityIndex
    <3>1. m_entityIndex' = m_entityIndex
      BY <2>2 DEF addEntity
    <3> QED BY <2>2, <3>1, AddPreserves, AddKeepsFree DEF GameInv
  <2> QED BY <2>1, <2>2 DEF PlacePokemon
<1>3. GameTypes'
  BY <1>1, ConstantFacts DEF GameInv, GameTypes
<1>4. TimersTyped' /\ TimersBounded'
  BY <1>1 DEF GameInv, TimersTyped, TimersBounded, timers
<1>5. SetupState' /\ PlayersTurn'
  BY <1>1, <1>2 DEF GameInv, SetupState, PlayersTurn, timers
<1> QED BY <1>2, <1>3, <1>4, <1>5 DEF GameInv

(* The steps that touch neither the board nor the timers.                  *)
LEMMA BoardUntouched ==
  ASSUME GameInv, UNCHANGED vars
  PROVE  /\ BoardInv' /\ TimersTyped' /\ PlayerFirst' /\ OnFreeTiles' /\ TimersBounded'
         /\ m_entityIndex' = m_entityIndex /\ ActiveEntity' = ActiveEntity
         /\ turn_timer' = turn_timer
<1>1. UNCHANGED boardVars /\ UNCHANGED timers
  BY DEF vars
<1>2. BoardInv'
  BY <1>1, UnchangedBoard DEF GameInv
<1> QED BY <1>1, <1>2 DEF GameInv, boardVars, timers, TimersTyped, PlayerFirst, OnFreeTiles,
                          TimersBounded, ActiveEntity, Listed

LEMMA EndSetupPreserves ==
  ASSUME GameInv, EndSetup
  PROVE  GameInv'
<1>1. phase = "setup" /\ phase' = "idle" /\ UNCHANGED <<vars, tries, input, inputs, frame, turns>>
  BY DEF EndSetup
<1>2. ActiveEntity = player /\ turn_timer[player] <= 0 /\ input = NoAction
  BY <1>1 DEF GameInv, SetupState, PlayerFirst, ActiveEntity
<1>3. GameTypes' /\ SetupState'
  BY <1>1 DEF GameInv, GameTypes, SetupState
<1>4. PlayersTurn'
  BY <1>1, <1>2, BoardUntouched DEF PlayersTurn
<1> QED BY <1>1, <1>3, <1>4, BoardUntouched DEF GameInv

LEMMA PressPreserves ==
  ASSUME GameInv, NEW key \in Key, Press(key)
  PROVE  GameInv'
<1>1. /\ phase = "idle" /\ inputs' = Append(inputs, key)
      /\ UNCHANGED <<vars, phase, tries, input, frame, turns>>
  BY DEF Press
<1>2. GameTypes'
  BY <1>1 DEF GameInv, GameTypes
<1>3. SetupState' /\ PlayersTurn'
  BY <1>1, BoardUntouched DEF GameInv, SetupState, PlayersTurn
<1> QED BY <1>1, <1>2, <1>3, BoardUntouched DEF GameInv

LEMMA BeginTickPreserves ==
  ASSUME GameInv, BeginTick
  PROVE  GameInv'
<1>1. phase' = "turns" /\ UNCHANGED <<vars, tries, frame, turns>>
  BY DEF BeginTick
<1>2. inputs' \in Seq(Key) /\ input' \in Point \cup {NoAction}
  <2>1. CASE ActiveEntity = player /\ input = NoAction
    BY <2>1, TakeKeyTypes DEF GameInv, GameTypes, BeginTick
  <2>2. CASE ~(ActiveEntity = player /\ input = NoAction)
    BY <2>2 DEF GameInv, GameTypes, BeginTick
  <2> QED BY <2>1, <2>2
<1>3. GameTypes'
  BY <1>1, <1>2 DEF GameInv, GameTypes
<1>4. SetupState' /\ PlayersTurn'
  BY <1>1 DEF SetupState, PlayersTurn
<1> QED BY <1>1, <1>3, <1>4, BoardUntouched DEF GameInv

LEMMA SkipPreserves ==
  ASSUME GameInv, Skip
  PROVE  GameInv'
<1>1. phase = "turns" /\ advanceEntity /\ UNCHANGED <<phase, tries, input, inputs, frame, turns>>
  BY DEF Skip
<1>2. BoardInv' /\ TimersTyped' /\ TimersBounded'
  BY <1>1, AdvancePreserves, AdvanceBounds DEF GameInv
<1>3. GameTypes' /\ SetupState' /\ PlayersTurn'
  BY <1>1 DEF GameInv, GameTypes, SetupState, PlayersTurn
<1>4. PlayerFirst' /\ OnFreeTiles'
  BY <1>1 DEF GameInv, PlayerFirst, OnFreeTiles, advanceEntity, Listed
<1> QED BY <1>2, <1>3, <1>4 DEF GameInv

LEMMA PokemonTurnPreserves ==
  ASSUME GameInv, PokemonTurn
  PROVE  GameInv'
<1> DEFINE e == ActiveEntity
<1>1. /\ phase = "turns" /\ turnReady(e) /\ wait(e)
      /\ turns' = [turns EXCEPT ![e] = @ + 1]
      /\ UNCHANGED <<phase, tries, input, inputs, frame>>
  BY DEF PokemonTurn
<1>2. PICK step \in kSteps : Step(e, step)
  BY DEF PokemonTurn
<1>3. step \in Point
  BY DEF kSteps, Pt, Point
<1>4. e \in Listed /\ e \in Entity
  BY ActiveIsListed DEF GameInv, PlayerFirst
<1> HIDE DEF e
<1>5. BoardInv' /\ OnFreeTiles' /\ m_entities' = m_entities
  BY <1>2, <1>3, <1>4, StepPreserves DEF GameInv
<1>6. TimersTyped' /\ TimersBounded'
  BY <1>1, <1>4, WaitBounds DEF GameInv
<1>7. GameTypes' /\ SetupState' /\ PlayersTurn'
  BY <1>1, <1>4 DEF GameInv, GameTypes, SetupState, PlayersTurn
<1>8. PlayerFirst'
  BY <1>5 DEF GameInv, PlayerFirst
<1> QED BY <1>5, <1>6, <1>7, <1>8 DEF GameInv

LEMMA PlayerTurnPreserves ==
  ASSUME GameInv, PlayerTurn
  PROVE  GameInv'
<1>1. /\ phase = "turns" /\ turnReady(player) /\ wait(player)
      /\ input # NoAction /\ Step(player, input)
      /\ input' = NoAction /\ turns' = [e \in Entity |-> 0]
      /\ UNCHANGED <<phase, tries, inputs, frame>>
  BY DEF PlayerTurn
<1>2. input \in Point /\ player \in Listed /\ player \in Entity
  BY <1>1, PlayerIsListed, ConstantFacts DEF GameInv, GameTypes, BoardInv
<1>3. BoardInv' /\ OnFreeTiles' /\ m_entities' = m_entities
  BY <1>1, <1>2, StepPreserves DEF GameInv
<1>4. TimersTyped' /\ TimersBounded'
  BY <1>1, <1>2, WaitBounds DEF GameInv
<1>5. GameTypes' /\ SetupState' /\ PlayersTurn'
  BY <1>1 DEF GameInv, GameTypes, SetupState, PlayersTurn
<1>6. PlayerFirst'
  BY <1>3 DEF GameInv, PlayerFirst
<1> QED BY <1>3, <1>4, <1>5, <1>6 DEF GameInv

LEMMA BreakPreserves ==
  ASSUME GameInv, PlayerWaits \/ PlayerBumps
  PROVE  GameInv'
<1>1. /\ phase' = "render" /\ ActiveEntity = player /\ turnReady(player)
      /\ input' = NoAction
      /\ UNCHANGED <<vars, tries, inputs, frame, turns>>
  BY DEF PlayerWaits, PlayerBumps, ResetAction
<1>2. GameTypes' /\ SetupState'
  BY <1>1 DEF GameInv, GameTypes, SetupState
<1>3. PlayersTurn'
  BY <1>1, BoardUntouched DEF PlayersTurn, turnReady
<1> QED BY <1>1, <1>2, <1>3, BoardUntouched DEF GameInv

LEMMA RenderPreserves ==
  ASSUME GameInv, Render
  PROVE  GameInv'
<1>1. /\ phase = "render" /\ phase' = "idle" /\ getVision(player)
      /\ UNCHANGED <<timers, tries, input, inputs, turns>>
  BY DEF Render
<1>2. player \in Listed
  BY PlayerIsListed DEF GameInv, BoardInv
<1>3. BoardInv'
  BY <1>1, <1>2, GetVisionPreserves DEF GameInv
<1>4. UNCHANGED <<m_map, m_entities, m_entityIndex, pos>>
  BY <1>1 DEF getVision
<1>5. frame' \in [FrameCells -> Glyph]
  <2>1. \A c \in FrameCells : DrawnAt(Pt(c.x \div 2, c.y), VisionOf(player)) \in Glyph
    BY DrawnGlyphs DEF GameInv, BoardInv
  <2>2. frame \in [FrameCells -> Glyph]
    BY DEF GameInv, GameTypes
  <2> QED BY <2>1, <2>2 DEF Render
<1>6. GameTypes'
  BY <1>1, <1>5 DEF GameInv, GameTypes
<1>7. PlayerFirst' /\ OnFreeTiles' /\ SetupState' /\ PlayersTurn'
  BY <1>1, <1>4
  DEF GameInv, PlayerFirst, OnFreeTiles, SetupState, PlayersTurn, Listed, ActiveEntity, timers
<1>8. TimersTyped' /\ TimersBounded'
  BY <1>1 DEF GameInv, TimersTyped, TimersBounded, timers
<1> QED BY <1>3, <1>6, <1>7, <1>8 DEF GameInv

LEMMA GameNextPreserves == GameInv /\ [GameNext]_gameVars => GameInv'
<1> SUFFICES ASSUME GameInv, [GameNext]_gameVars PROVE GameInv'
  OBVIOUS
<1>1. ASSUME NEW key \in Key, Press(key) PROVE GameInv'
  BY <1>1, PressPreserves
<1>2. CASE Tick
  BY <1>2, BeginTickPreserves, SkipPreserves, PokemonTurnPreserves, PlayerTurnPreserves,
     BreakPreserves, RenderPreserves DEF Tick
<1>3. CASE UNCHANGED gameVars
  <2>1. UNCHANGED <<vars, phase, tries, input, inputs, frame, turns>>
    BY <1>3 DEF gameVars
  <2>2. GameTypes' /\ SetupState' /\ PlayersTurn'
    BY <2>1, BoardUntouched DEF GameInv, GameTypes, SetupState, PlayersTurn
  <2> QED BY <2>1, <2>2, BoardUntouched DEF GameInv
<1> QED BY <1>1, <1>2, <1>3, PlacePreserves, EndSetupPreserves DEF GameNext

LEMMA GameInvariance == GameSpec => []GameInv
<1> QED BY InitGame, GameNextPreserves, PTL DEF GameSpec

-----------------------------------------------------------------------------
(* The game keeps its types.                                               *)
THEOREM GameTypeCorrect == GameSpec => []GameTypeOK
<1>1. GameInv => GameTypeOK
  BY DEF GameInv, GameTypes, GameTypeOK, TypeOK, BoardInv, TimersTyped
<1> QED BY <1>1, GameInvariance, PTL

(* Every tick ends with the player active, ready and without an action, so *)
(* the next tick reads keys.                                               *)
THEOREM TicksEndWithPlayer == GameSpec => []TickEndsWithPlayer
<1>1. GameInv => TickEndsWithPlayer
  BY DEF GameInv, PlayersTurn, TickEndsWithPlayer, turnReady
<1> QED BY <1>1, GameInvariance, PTL

(* The timers of charge and wait stay within one charge below zero and one *)
(* turn above, for all speeds up to one turn per charge.                   *)
THEOREM TimersStayBounded == GameSpec => []TimersBounded
<1>1. GameInv => TimersBounded
  BY DEF GameInv
<1> QED BY <1>1, GameInvariance, PTL

(* No entity stands on a tree, outside of the board or on another entity.  *)
THEOREM EntitiesAlwaysStandFree == GameSpec => []EntitiesStandFree
<1>1. GameInv => EntitiesStandFree
  <2> SUFFICES ASSUME GameInv PROVE EntitiesStandFree
    OBVIOUS
  <2>1. \A k \in 1 .. Len(m_entities) : m_entities[k] \in Listed
    BY DEF Listed
  <2>2. \A k \in 1 .. Len(m_entities) : ~FlagBlocked(TileAt(m_map, pos[m_entities[k]]))
    BY <2>1 DEF GameInv, OnFreeTiles
  <2>3. \A k, l \in 1 .. Len(m_entities) : pos[m_entities[k]] = pos[m_entities[l]] => k = l
    BY <2>1 DEF GameInv, BoardInv, OwnersMatchPositions, QueueInOrder
  <2> QED BY <2>2, <2>3 DEF EntitiesStandFree
<1> QED BY <1>1, GameInvariance, PTL

-----------------------------------------------------------------------------
(* The frame: no vision before the first tick, and render draws the world. *)
Unseen == phase = "setup" => m_vision[player] = NoVision

FrameInv == Unseen /\ FrameIsCurrent

(* The entity drawn on a cell is the cell's owner.                         *)
LEMMA OwnerIsDrawn ==
  ASSUME BoardInv, NEW p \in Cells
  PROVE  /\ EntitiesOn(p) = {} <=> EntityAt(p) = NoEntity
         /\ EntitiesOn(p) # {} =>
              m_entities[CHOOSE k \in EntitiesOn(p) : \A l \in EntitiesOn(p) : l <= k] = EntityAt(p)
<1>1. EntityAt(p) = m_entityAtPos[p]
  BY DEF BoardInv, BoardTypeOK, EntityAt, MatrixGet
<1>2. ASSUME NEW k \in EntitiesOn(p)
      PROVE  k \in 1 .. Len(m_entities) /\ m_entities[k] = EntityAt(p) /\ EntityAt(p) # NoEntity
  <2>1. k \in 1 .. Len(m_entities) /\ pos[m_entities[k]] = p /\ m_entities[k] \in Listed
    BY DEF EntitiesOn, Listed
  <2>2. m_entities[k] \in Entity /\ m_entities[k] # NoEntity
    BY <2>1, ListedEntities, BoardAssumption DEF BoardInv
  <2> QED BY <1>1, <2>1, <2>2 DEF BoardInv, OwnersMatchPositions
<1>3. ASSUME EntityAt(p) # NoEntity PROVE EntitiesOn(p) # {}
  BY <1>1, <1>3 DEF BoardInv, OwnersMatchPositions, EntitiesOn, Listed
<1>4. ASSUME NEW k \in EntitiesOn(p), NEW l \in EntitiesOn(p) PROVE l <= k
  <2>1. k = l /\ k \in Int
    BY <1>2 DEF BoardInv, QueueInOrder
  <2> QED BY <2>1
<1>5. ASSUME EntitiesOn(p) # {}
      PROVE  (CHOOSE k \in EntitiesOn(p) : \A l \in EntitiesOn(p) : l <= k) \in EntitiesOn(p)
  BY <1>4, <1>5
<1> QED BY <1>2, <1>3, <1>5

(* What render draws on a cell, with the vision it has just asked for.     *)
LEMMA DrawnIsCurrent ==
  ASSUME BoardInv, player \in Listed, NEW p \in Cells
  PROVE  DrawnAt(p, VisionOf(player)) =
           IF MatrixGet(View(m_map, pos[player]), -1, Plus(Minus(p, pos[player]), Centre)) < 0
           THEN "empty"
           ELSE IF EntityAt(p) = NoEntity THEN m_map[p] ELSE GlyphOf(EntityAt(p))
<1> DEFINE V == View(m_map, pos[player])
           c == Plus(Minus(p, pos[player]), Centre)
<1>1. /\ VisionOf(player).offset = Minus(Centre, pos[player])
      /\ IsView(m_map, pos[player], VisionOf(player).visibility)
  BY VisionOfIsCurrent
<1>2. m_map \in TileMap /\ pos[player] \in Cells /\ pos[player] \in Point /\ p \in Point
  BY CellsArePoints DEF BoardInv, BoardTypeOK, OwnersMatchPositions
<1>3. IsView(m_map, pos[player], V)
  BY <1>2, ViewAssumption
<1>4. VisionOf(player).visibility = V
  BY <1>1, <1>2, <1>3, ViewIsUnique
<1>5. Plus(p, Minus(Centre, pos[player])) = c
  <2>1. Centre.x = kFOVRadius /\ Centre.y = kFOVRadius /\ kFOVRadius \in Int
    BY RadiusAssumption DEF Centre, Pt
  <2>2. /\ p.x \in Int /\ p.y \in Int
        /\ pos[player].x \in Int /\ pos[player].y \in Int
    BY <1>2 DEF Point
  <2> QED BY <2>1, <2>2 DEF Plus, Minus, Pt
<1>6. MatrixGet(V, -1, c) \in Int
  BY <1>3 DEF IsView, MatrixGet
<1> HIDE DEF V, c
<1>7. canSee(VisionOf(player), p) <=> ~(MatrixGet(V, -1, c) < 0)
  BY <1>1, <1>4, <1>5, <1>6 DEF canSee, visibilityAt
<1>8. DrawnAt(p, VisionOf(player)) =
        IF MatrixGet(V, -1, c) < 0
        THEN "empty"
        ELSE IF EntityAt(p) = NoEntity THEN m_map[p] ELSE GlyphOf(EntityAt(p))
  <2>1. CASE MatrixGet(V, -1, c) < 0
    BY <1>7, <2>1 DEF DrawnAt
  <2>2. CASE ~(MatrixGet(V, -1, c) < 0) /\ EntitiesOn(p) = {}
    BY <1>7, <2>2, OwnerIsDrawn DEF DrawnAt
  <2>3. CASE ~(MatrixGet(V, -1, c) < 0) /\ EntitiesOn(p) # {}
    BY <1>7, <2>3, OwnerIsDrawn DEF DrawnAt
  <2> QED BY <2>1, <2>2, <2>3
<1> QED BY <1>8 DEF V, c

LEMMA FrameUntouched ==
  ASSUME FrameIsCurrent, UNCHANGED <<vars, phase, frame>>
  PROVE  FrameIsCurrent'
  BY Zenon DEF FrameIsCurrent, vars, boardVars, EntityAt

LEMMA RenderIsCurrent ==
  ASSUME GameInv, Render
  PROVE  FrameIsCurrent'
<1>1. /\ getVision(player)
      /\ frame' = [c \in FrameCells |->
                     IF c.x % 2 = 0
                     THEN DrawnAt(Pt(c.x \div 2, c.y), VisionOf(player))
                     ELSE frame[c]]
  BY DEF Render
<1>2. UNCHANGED <<m_map, m_entityAtPos, pos>>
  BY <1>1 DEF getVision
<1>3. player \in Listed
  BY PlayerIsListed DEF GameInv, BoardInv
<1>4. ASSUME NEW p \in Cells
      PROVE  frame'[Pt(2 * p.x, p.y)] = DrawnAt(p, VisionOf(player))
  <2> DEFINE c == Pt(2 * p.x, p.y)
  <2>1. Size.x \in Int /\ Size.y \in Int
    BY BoardAssumption DEF Point
  <2>2. p.x \in 0 .. Size.x - 1 /\ p.y \in 0 .. Size.y - 1 /\ p = Pt(p.x, p.y)
    BY <2>1 DEF Cells, CellsOf, Pt
  <2>3. 2 * p.x \in 0 .. 2 * Size.x - 1 /\ (2 * p.x) % 2 = 0 /\ (2 * p.x) \div 2 = p.x
    BY <2>1, <2>2
  <2>4. c \in FrameCells /\ c.x = 2 * p.x /\ c.y = p.y
    BY <2>2, <2>3 DEF FrameCells, CellsOf, Pt
  <2> HIDE DEF c
  <2>5. frame'[c] = DrawnAt(Pt(c.x \div 2, c.y), VisionOf(player))
    BY <1>1, <2>3, <2>4
  <2> QED BY <2>2, <2>3, <2>4, <2>5 DEF c
<1>5. ASSUME NEW p \in Cells
      PROVE  frame'[Pt(2 * p.x, p.y)] =
               IF MatrixGet(View(m_map, pos[player]), -1, Plus(Minus(p, pos[player]), Centre)) < 0
               THEN "empty"
               ELSE IF EntityAt(p) = NoEntity THEN m_map[p] ELSE GlyphOf(EntityAt(p))
  BY <1>3, <1>4, DrawnIsCurrent DEF GameInv
<1> QED BY <1>2, <1>5, Zenon DEF FrameIsCurrent, EntityAt

LEMMA FrameNextPreserves == GameInv /\ FrameInv /\ [GameNext]_gameVars => FrameInv'
<1> SUFFICES ASSUME GameInv, FrameInv, [GameNext]_gameVars PROVE FrameInv'
  OBVIOUS
<1>1. CASE PlacePokemon
  <2>1. phase = "setup" /\ phase' = "setup"
    BY <1>1 DEF PlacePokemon
  <2>2. m_vision' = m_vision
    BY <1>1 DEF PlacePokemon, addEntity, boardVars
  <2> QED BY <2>1, <2>2 DEF FrameInv, Unseen, FrameIsCurrent
<1>2. CASE EndSetup
  <2>1. phase = "setup" /\ phase' = "idle" /\ m_vision' = m_vision
    BY <1>2 DEF EndSetup, vars, boardVars
  <2> QED BY <2>1 DEF FrameInv, Unseen, FrameIsCurrent
<1>3. CASE Render
  BY <1>3, RenderIsCurrent DEF FrameInv, Unseen, Render
<1>4. CASE BeginTick \/ Skip \/ PokemonTurn \/ PlayerTurn \/ PlayerWaits \/ PlayerBumps
  <2>1. phase' \in {"turns", "render"}
    BY <1>4 DEF BeginTick, Skip, PokemonTurn, PlayerTurn, PlayerWaits, PlayerBumps
  <2> QED BY <2>1 DEF FrameInv, Unseen, FrameIsCurrent
<1>5. CASE UNCHANGED <<vars, phase, frame>>
  <2>1. Unseen'
    BY <1>5 DEF FrameInv, Unseen, vars, boardVars
  <2> QED BY <1>5, <2>1, FrameUntouched DEF FrameInv
<1>6. ASSUME NEW key \in Key, Press(key) PROVE FrameInv'
  BY <1>5, <1>6 DEF Press
<1>7. CASE UNCHANGED gameVars
  BY <1>5, <1>7 DEF gameVars
<1> QED BY <1>1, <1>2, <1>3, <1>4, <1>6, <1>7 DEF GameNext, Tick

(* Between ticks the frame is exactly what a fresh field of vision from    *)
(* the player's cell sees of the world as it is, although render draws     *)
(* from a cached vision: for every board and both radii.                   *)
THEOREM FrameIsAlwaysCurrent == GameSpec => []FrameIsCurrent
<1>1. GameInit => FrameInv
  BY ConstantFacts DEF GameInit, FrameInv, Unseen, FrameIsCurrent
<1>2. FrameInv => FrameIsCurrent
  BY DEF FrameInv
<1> QED BY <1>1, <1>2, FrameNextPreserves, GameInvariance, PTL DEF GameSpec

-----------------------------------------------------------------------------
(* Turns and charges.  The player has been charged n times since its last  *)
(* turn, which its timer has room for, and each Pokemon has had no more    *)
(* turns than its timer and the charges of n rounds have paid for; those   *)
(* from the index on have still to be charged in the last round.           *)
RoundsAt(k, n) == IF m_entityIndex # 0 /\ k - 1 >= m_entityIndex THEN n - 1 ELSE n

PaidFor(k, n) ==
  turns[m_entities[k]] * kTurnTimer
    <= turn_timer[m_entities[k]] + (Charge[m_entities[k]] - 1) + RoundsAt(k, n) * Charge[m_entities[k]]

Charges(n) ==
  /\ turn_timer[player] + n * Charge[player] <= kTurnTimer
  /\ \A k \in 2 .. Len(m_entities) : PaidFor(k, n)

OnlyPokemonCount ==
  \A e \in Entity : (e = player \/ e \notin Listed) => turns[e] = 0

SpeedInv == OnlyPokemonCount /\ \E n \in 0 .. Rounds : Charges(n)

LEMMA Products ==
  ASSUME NEW n \in Int, NEW c \in Int
  PROVE  /\ n * c \in Int
         /\ (n + 1) * c = n * c + c
         /\ (n - 1) * c = n * c - c
         /\ 0 * c = 0
  OBVIOUS

LEMMA ProductGrows ==
  ASSUME NEW c \in Nat, NEW m \in Int, NEW n \in Int, m <= n
  PROVE  m * c <= n * c
<1>1. (n - m) * c >= 0
  <2>1. n - m \in Nat
    OBVIOUS
  <2>2. \A a, b \in Nat : a * b >= 0
    OBVIOUS
  <2> QED BY <2>1, <2>2
<1>2. (n - m) * c = n * c - m * c
  OBVIOUS
<1>3. n * c \in Int /\ m * c \in Int
  OBVIOUS
<1> QED BY <1>1, <1>2, <1>3

(* There is room for one more charge as long as the timer is positive.     *)
LEMMA RoundsSuffice ==
  /\ Rounds \in Nat
  /\ \A n \in Nat : n * Charge[player] < kTurnTimer => n + 1 <= Rounds
<1> DEFINE T == kTurnTimer
           P == Charge[player]
<1>1. T \in Nat /\ P \in Nat \ {0}
  BY ConstantFacts
<1>2. Rounds = (T + P - 1) \div P
  BY DEF Rounds
<1> HIDE DEF T, P
<1>3. Rounds \in Int /\ T + P - 1 < P * Rounds + P
  BY <1>1, <1>2, DivBounds
<1>4. T - 1 < P * Rounds /\ P * Rounds \in Int
  BY <1>1, <1>3
<1>5. ASSUME NEW n \in Int, n * P < T PROVE n + 1 <= Rounds
  <2> SUFFICES ASSUME Rounds <= n PROVE FALSE
    BY <1>3
  <2>1. Rounds * P <= n * P
    BY <1>1, <1>3, ProductGrows
  <2>2. Rounds * P = P * Rounds /\ n * P \in Int
    BY <1>1, <1>3
  <2> QED BY <1>1, <1>4, <1>5, <2>1, <2>2
<1>6. Rounds \in Nat
  <2>1. (0 - 1) * P = 0 - P
    BY <1>1
  <2>2. (0 - 1) * P < T
    BY <1>1, <2>1
  <2>3. (0 - 1) + 1 <= Rounds
    BY <1>5, <2>2
  <2> QED BY <1>3, <2>3
<1> QED BY <1>5, <1>6 DEF T, P

(* The facts about an entity of the queue that the arithmetic needs.       *)
LEMMA QueueFacts ==
  ASSUME GameInv, NEW k \in 1 .. Len(m_entities)
  PROVE  /\ m_entities[k] \in Entity
         /\ Charge[m_entities[k]] \in Nat /\ 1 <= Charge[m_entities[k]]
         /\ turn_timer[m_entities[k]] \in Int
         /\ -Charge[m_entities[k]] < turn_timer[m_entities[k]]
         /\ turn_timer[m_entities[k]] <= kTurnTimer
         /\ turns[m_entities[k]] \in Nat
         /\ m_entities[k] = player <=> k = 1
         /\ \A l \in 1 .. Len(m_entities) : m_entities[k] = m_entities[l] => k = l
<1>1. m_entities \in Seq(Entity) /\ m_entities # <<>> /\ m_entities[1] = player
  BY DEF GameInv, BoardInv, BoardTypeOK, PlayerFirst
<1>2. m_entities[k] \in Entity /\ 1 \in 1 .. Len(m_entities)
  BY <1>1
<1>3. \A l \in 1 .. Len(m_entities) : m_entities[k] = m_entities[l] => k = l
  BY DEF GameInv, BoardInv, QueueInOrder
<1>4. m_entities[k] = player <=> k = 1
  BY <1>1, <1>2, <1>3
<1>5. /\ turn_timer[m_entities[k]] \in Int
      /\ -Charge[m_entities[k]] < turn_timer[m_entities[k]]
      /\ turn_timer[m_entities[k]] <= kTurnTimer
      /\ turns[m_entities[k]] \in Nat
  BY <1>2 DEF GameInv, TimersTyped, TimersBounded, GameTypes
<1> QED BY <1>2, <1>3, <1>4, <1>5, ConstantFacts

LEMMA IndexFacts ==
  ASSUME GameInv
  PROVE  /\ Len(m_entities) \in Nat /\ m_entityIndex \in Nat
         /\ m_entityIndex + 1 \in 1 .. Len(m_entities)
         /\ ActiveEntity = player <=> m_entityIndex = 0
<1>1. /\ m_entities \in Seq(Entity) /\ m_entities # <<>> /\ m_entityIndex \in Nat
      /\ m_entityIndex < Len(m_entities)
  BY DEF GameInv, BoardInv, BoardTypeOK, PlayerFirst, QueueInOrder
<1>2. Len(m_entities) \in Nat /\ m_entityIndex + 1 \in 1 .. Len(m_entities)
  BY <1>1
<1>3. m_entities[m_entityIndex + 1] = player <=> m_entityIndex + 1 = 1
  BY <1>2, QueueFacts
<1> QED BY <1>1, <1>2, <1>3 DEF ActiveEntity

-----------------------------------------------------------------------------
LEMMA InitSpeed == GameInit => SpeedInv
<1> SUFFICES ASSUME GameInit PROVE SpeedInv
  OBVIOUS
<1>1. OnlyPokemonCount
  BY DEF GameInit, OnlyPokemonCount
<1>2. turn_timer[player] + 0 * Charge[player] <= kTurnTimer
  BY ConstantFacts DEF GameInit
<1>3. Len(m_entities) = 1
  BY DEF GameInit
<1>4. Charges(0)
  BY <1>2, <1>3 DEF Charges
<1>5. 0 \in 0 .. Rounds
  BY RoundsSuffice
<1> QED BY <1>1, <1>4, <1>5 DEF SpeedInv

(* Nothing that the account speaks of changes.                             *)
LEMMA SpeedUntouched ==
  ASSUME SpeedInv, UNCHANGED <<m_entities, m_entityIndex, turn_timer, turns>>
  PROVE  SpeedInv'
<1>1. OnlyPokemonCount'
  BY DEF SpeedInv, OnlyPokemonCount, Listed
<1>2. PICK n \in 0 .. Rounds : Charges(n)
  BY DEF SpeedInv
<1>3. Charges(n)'
  BY <1>2 DEF Charges, PaidFor, RoundsAt
<1> QED BY <1>1, <1>2, <1>3 DEF SpeedInv

(* An entity that joins has taken no turn, and its timer is not a whole    *)
(* charge below zero.                                                      *)
LEMMA NoTurnsArePaidFor ==
  ASSUME NEW t \in Int, NEW c \in Nat, NEW n \in Nat, -c < t
  PROVE  0 * kTurnTimer <= t + (c - 1) + n * c
<1>1. kTurnTimer \in Int
  BY ConstantFacts
<1>2. 0 * kTurnTimer = 0
  BY <1>1
<1>3. n * c >= 0 /\ n * c \in Int
  BY ProductGrows, Products
<1> QED BY <1>2, <1>3

LEMMA PlaceSpeed ==
  ASSUME GameInv, SpeedInv, PlacePokemon
  PROVE  SpeedInv'
<1>1. phase = "setup" /\ UNCHANGED <<turn_timer, turns>>
  BY DEF PlacePokemon, timers
<1>2. CASE UNCHANGED boardVars
  BY <1>1, <1>2, SpeedUntouched DEF boardVars
<1>3. ASSUME NEW e \in Entity \ {player}, NEW p \in Cells, addEntity(e, p)
      PROVE  SpeedInv'
  <2>1. m_entities' = Append(m_entities, e) /\ m_entityIndex' = m_entityIndex /\ e \notin Listed
    BY <1>3 DEF addEntity
  <2>2. m_entities \in Seq(Entity) /\ m_entityIndex = 0
    BY <1>1 DEF GameInv, BoardInv, BoardTypeOK, SetupState
  <2>3. /\ Len(m_entities) \in Nat /\ Len(m_entities') = Len(m_entities) + 1
        /\ \A k \in 1 .. Len(m_entities) : m_entities'[k] = m_entities[k]
        /\ m_entities'[Len(m_entities) + 1] = e
        /\ Listed \subseteq Listed'
    BY <2>1, <2>2 DEF Listed
  <2>4. OnlyPokemonCount'
    BY <1>1, <2>3 DEF SpeedInv, OnlyPokemonCount
  <2>5. PICK n \in 0 .. Rounds : Charges(n)
    BY DEF SpeedInv
  <2>6. ASSUME NEW k \in 2 .. Len(m_entities') PROVE PaidFor(k, n)'
    <3>1. RoundsAt(k, n)' = n /\ RoundsAt(k, n) = n
      BY <2>1, <2>2 DEF RoundsAt
    <3>2. CASE k \in 2 .. Len(m_entities)
      <4>1. m_entities'[k] = m_entities[k] /\ PaidFor(k, n)
        BY <2>3, <2>5, <3>2 DEF Charges
      <4> QED BY <1>1, <3>1, <4>1 DEF PaidFor
    <3>3. CASE k = Len(m_entities) + 1
      <4>1. m_entities'[k] = e
        BY <2>3, <3>3
      <4>2. turns[e] = 0
        BY <2>1 DEF SpeedInv, OnlyPokemonCount
      <4>3. turn_timer[e] \in Int /\ -Charge[e] < turn_timer[e] /\ Charge[e] \in Nat
        BY ConstantFacts DEF GameInv, TimersTyped, TimersBounded
      <4>4. n \in Nat
        BY RoundsSuffice
      <4>5. 0 * kTurnTimer <= turn_timer[e] + (Charge[e] - 1) + n * Charge[e]
        BY <4>3, <4>4, NoTurnsArePaidFor
      <4> QED BY <1>1, <3>1, <4>1, <4>2, <4>5 DEF PaidFor
    <3> QED BY <2>3, <3>2, <3>3
  <2>7. Charges(n)'
    BY <1>1, <2>5, <2>6 DEF Charges
  <2> QED BY <2>4, <2>5, <2>7 DEF SpeedInv
<1> QED BY <1>2, <1>3 DEF PlacePokemon

(* The active entity is charged and the queue moves on.                    *)
LEMMA SkipSpeed ==
  ASSUME GameInv, SpeedInv, Skip
  PROVE  SpeedInv'
<1> DEFINE a == m_entityIndex + 1
           e == m_entities[a]
<1>1. /\ ~(turn_timer[e] <= 0) /\ turns' = turns
      /\ m_entities' = m_entities
      /\ m_entityIndex' = NextIndex(m_entityIndex)
      /\ turn_timer' = Charged(turn_timer, e)
  BY DEF Skip, turnReady, advanceEntity, ActiveEntity
<1>2. /\ Len(m_entities) \in Nat /\ m_entityIndex \in Nat
      /\ a \in 1 .. Len(m_entities)
      /\ e = player <=> m_entityIndex = 0
  BY IndexFacts DEF ActiveEntity
<1>3. /\ e \in Entity /\ Charge[e] \in Nat /\ turn_timer[e] \in Int /\ turns[e] \in Nat
      /\ \A l \in 1 .. Len(m_entities) : e = m_entities[l] => a = l
  BY <1>2, QueueFacts
<1>4. /\ turn_timer'[e] = turn_timer[e] - Charge[e]
      /\ \A f \in Entity \ {e} : turn_timer'[f] = turn_timer[f]
  BY <1>1, <1>3 DEF GameInv, TimersTyped, Charged
<1>5. OnlyPokemonCount'
  BY <1>1 DEF SpeedInv, OnlyPokemonCount, Listed
<1>6. PICK n \in 0 .. Rounds : Charges(n)
  BY DEF SpeedInv
<1>7. n \in Nat /\ Rounds \in Nat /\ kTurnTimer \in Nat /\ player \in Entity
  BY RoundsSuffice, ConstantFacts
<1>8. CASE m_entityIndex = 0
  <2>1. e = player /\ a = 1
    BY <1>2, <1>8
  <2>2. turn_timer[player] + n * Charge[player] <= kTurnTimer
    BY <1>6 DEF Charges
  <2>3. n * Charge[player] \in Int /\ (n + 1) * Charge[player] = n * Charge[player] + Charge[player]
    BY <1>3, <1>7, <2>1, Products
  <2>4. turn_timer'[player] = turn_timer[player] - Charge[player]
        /\ turn_timer[player] \in Int /\ turn_timer[player] > 0 /\ Charge[player] \in Nat
    BY <1>1, <1>3, <1>4, <2>1
  <2>5. n + 1 \in 0 .. Rounds
    <3>1. n * Charge[player] < kTurnTimer
      BY <1>7, <2>2, <2>3, <2>4
    <3>2. n + 1 <= Rounds
      BY <1>7, <3>1, RoundsSuffice
    <3> QED BY <1>7, <3>2
  <2>6. turn_timer'[player] + (n + 1) * Charge[player] <= kTurnTimer
    BY <1>7, <2>2, <2>3, <2>4
  <2>7. ASSUME NEW k \in 2 .. Len(m_entities) PROVE PaidFor(k, n + 1)'
    <3>1. k \in 1 .. Len(m_entities) /\ m_entities[k] # player /\ m_entities[k] \in Entity
      BY <1>2, QueueFacts
    <3>2. turn_timer'[m_entities[k]] = turn_timer[m_entities[k]]
      BY <1>4, <2>1, <3>1
    <3>3. m_entityIndex' = 1
      BY <1>1, <1>2, <1>8 DEF NextIndex
    <3>4. RoundsAt(k, n + 1)' = (n + 1) - 1
      BY <3>3 DEF RoundsAt
    <3>5. RoundsAt(k, n) = n
      BY <1>8 DEF RoundsAt
    <3>6. (n + 1) - 1 = n
      BY <1>7
    <3>7. PaidFor(k, n)
      BY <1>6 DEF Charges
    <3> QED BY <1>1, <3>2, <3>4, <3>5, <3>6, <3>7 DEF PaidFor
  <2>8. Charges(n + 1)'
    BY <1>1, <2>6, <2>7 DEF Charges
  <2> QED BY <1>5, <2>5, <2>8 DEF SpeedInv
<1>9. CASE m_entityIndex # 0
  <2>1. e # player
    BY <1>2, <1>9
  <2>2. turn_timer'[player] + n * Charge[player] <= kTurnTimer
    <3>1. turn_timer'[player] = turn_timer[player]
      BY <1>4, <1>7, <2>1
    <3> QED BY <1>6, <3>1 DEF Charges
  <2>3. ASSUME NEW k \in 2 .. Len(m_entities) PROVE PaidFor(k, n)'
    <3>1. k \in 1 .. Len(m_entities) /\ m_entities[k] \in Entity
      BY <1>2, QueueFacts
    <3>2. PaidFor(k, n)
      BY <1>6 DEF Charges
    <3>3. CASE k = a
      <4>1. RoundsAt(k, n) = n - 1
        BY <1>2, <1>9, <3>3 DEF RoundsAt
      <4>2. RoundsAt(k, n)' = n
        BY <1>1, <1>2, <3>3 DEF RoundsAt, NextIndex
      <4>3. (n - 1) * Charge[e] = n * Charge[e] - Charge[e] /\ n * Charge[e] \in Int
        BY <1>3, <1>7, Products
      <4>4. turns[e] * kTurnTimer <= turn_timer[e] + (Charge[e] - 1) + (n - 1) * Charge[e]
        BY <3>2, <3>3, <4>1 DEF PaidFor
      <4>5. turns[e] * kTurnTimer \in Int
        BY <1>3, <1>7, Products
      <4> HIDE DEF e
      <4>6. turns[e] * kTurnTimer <= turn_timer'[e] + (Charge[e] - 1) + n * Charge[e]
        BY <1>3, <1>4, <4>3, <4>4, <4>5
      <4> QED BY <1>1, <3>3, <4>2, <4>6 DEF PaidFor, e
    <3>4. CASE k # a
      <4>1. m_entities[k] # e
        BY <1>3, <3>1, <3>4
      <4>2. turn_timer'[m_entities[k]] = turn_timer[m_entities[k]]
        BY <1>4, <3>1, <4>1
      <4>3. RoundsAt(k, n)' = RoundsAt(k, n)
        BY <1>1, <1>2, <1>9, <3>1, <3>4 DEF RoundsAt, NextIndex
      <4> QED BY <1>1, <3>2, <4>2, <4>3 DEF PaidFor
    <3> QED BY <3>3, <3>4
  <2>4. Charges(n)'
    BY <1>1, <2>2, <2>3 DEF Charges
  <2> QED BY <1>5, <1>6, <2>4 DEF SpeedInv
<1> QED BY <1>8, <1>9

(* A turn is paid for when it is taken.                                    *)
LEMMA PokemonTurnSpeed ==
  ASSUME GameInv, SpeedInv, PokemonTurn
  PROVE  SpeedInv'
<1> DEFINE a == m_entityIndex + 1
           e == m_entities[a]
<1>1. /\ turns' = [turns EXCEPT ![e] = @ + 1]
      /\ turn_timer' = [turn_timer EXCEPT ![e] = @ + kTurnTimer]
      /\ e # player
  BY DEF PokemonTurn, wait, ActiveEntity
<1>2. m_entities' = m_entities /\ m_entityIndex' = m_entityIndex
  BY DEF PokemonTurn, Step, moveEntity, boardVars
<1>3. Len(m_entities) \in Nat /\ a \in 1 .. Len(m_entities)
  BY IndexFacts
<1>4. /\ e \in Entity /\ Charge[e] \in Nat /\ turn_timer[e] \in Int /\ turns[e] \in Nat
      /\ \A l \in 1 .. Len(m_entities) : e = m_entities[l] => a = l
  BY <1>3, QueueFacts
<1>5. /\ turn_timer'[e] = turn_timer[e] + kTurnTimer
      /\ turns'[e] = turns[e] + 1
      /\ \A f \in Entity \ {e} : turn_timer'[f] = turn_timer[f] /\ turns'[f] = turns[f]
  BY <1>1, <1>4 DEF GameInv, TimersTyped, GameTypes
<1>6. OnlyPokemonCount'
  <2>1. e \in Listed /\ Listed' = Listed
    BY <1>2, <1>3 DEF Listed
  <2> QED BY <1>1, <1>5, <2>1 DEF SpeedInv, OnlyPokemonCount
<1>7. PICK n \in 0 .. Rounds : Charges(n)
  BY DEF SpeedInv
<1>8. n \in Nat /\ kTurnTimer \in Nat /\ player \in Entity
  BY RoundsSuffice, ConstantFacts
<1>9. turn_timer'[player] + n * Charge[player] <= kTurnTimer
  BY <1>1, <1>5, <1>7, <1>8 DEF Charges
<1>10. ASSUME NEW k \in 2 .. Len(m_entities) PROVE PaidFor(k, n)'
  <2>1. k \in 1 .. Len(m_entities) /\ m_entities[k] \in Entity
    BY <1>3, QueueFacts
  <2>2. PaidFor(k, n) /\ RoundsAt(k, n)' = RoundsAt(k, n)
    BY <1>2, <1>7 DEF Charges, RoundsAt
  <2>3. CASE k = a
    <3> DEFINE s == RoundsAt(k, n) * Charge[e]
    <3>1. RoundsAt(k, n) \in Int
      BY <1>8 DEF RoundsAt
    <3>2. s \in Int
      BY <1>4, <3>1, Products
    <3>3. turns[e] * kTurnTimer <= turn_timer[e] + (Charge[e] - 1) + s
      BY <2>2, <2>3 DEF PaidFor
    <3>4. (turns[e] + 1) * kTurnTimer = turns[e] * kTurnTimer + kTurnTimer
          /\ turns[e] * kTurnTimer \in Int
      BY <1>4, <1>8, Products
    <3> HIDE DEF e, s
    <3>5. turns'[e] * kTurnTimer <= turn_timer'[e] + (Charge[e] - 1) + s
      <4>1. \A x, t, c, T, z \in Int : x <= t + (c - 1) + z => x + T <= (t + T) + (c - 1) + z
        OBVIOUS
      <4> DEFINE x == turns[e] * kTurnTimer
                 t == turn_timer[e]
                 c == Charge[e]
      <4>2. x \in Int /\ t \in Int /\ c \in Int /\ kTurnTimer \in Int /\ x <= t + (c - 1) + s
        BY <1>4, <1>8, <3>3, <3>4
      <4> HIDE DEF x, t, c
      <4>3. x + kTurnTimer <= (t + kTurnTimer) + (c - 1) + s
        BY <3>2, <4>1, <4>2
      <4> QED BY <1>5, <3>4, <4>3 DEF x, t, c
    <3> QED BY <1>2, <2>2, <2>3, <3>5 DEF PaidFor, e, s
  <2>4. CASE k # a
    <3>1. m_entities[k] # e
      BY <1>4, <2>1, <2>4
    <3>2. turn_timer'[m_entities[k]] = turn_timer[m_entities[k]] /\ turns'[m_entities[k]] = turns[m_entities[k]]
      BY <1>5, <2>1, <3>1
    <3> QED BY <1>2, <2>2, <3>2 DEF PaidFor
  <2> QED BY <2>3, <2>4
<1>11. Charges(n)'
  BY <1>2, <1>9, <1>10 DEF Charges
<1> QED BY <1>6, <1>7, <1>11 DEF SpeedInv

(* The account begins anew with a turn of the player.                      *)
LEMMA PlayerTurnSpeed ==
  ASSUME GameInv, SpeedInv, PlayerTurn
  PROVE  SpeedInv'
<1>1. /\ turns' = [e \in Entity |-> 0]
      /\ turn_timer' = [turn_timer EXCEPT ![player] = @ + kTurnTimer]
      /\ turn_timer[player] <= 0
  BY DEF PlayerTurn, wait, turnReady
<1>2. m_entities' = m_entities /\ m_entityIndex' = 0 /\ Len(m_entities) \in Nat
  BY IndexFacts DEF PlayerTurn, Step, moveEntity, boardVars
<1>3. /\ player \in Entity /\ turn_timer[player] \in Int /\ kTurnTimer \in Nat
      /\ Charge[player] \in Nat
  BY ConstantFacts DEF GameInv, TimersTyped
<1>4. /\ turn_timer'[player] = turn_timer[player] + kTurnTimer
      /\ \A f \in Entity \ {player} : turn_timer'[f] = turn_timer[f]
  BY <1>1, <1>3 DEF GameInv, TimersTyped
<1>5. OnlyPokemonCount'
  BY <1>1 DEF OnlyPokemonCount
<1>6. turn_timer'[player] + 0 * Charge[player] <= kTurnTimer
  <2>1. 0 * Charge[player] = 0
    BY <1>3, Products
  <2> QED BY <1>1, <1>3, <1>4, <2>1
<1>7. ASSUME NEW k \in 2 .. Len(m_entities) PROVE PaidFor(k, 0)'
  <2> DEFINE e == m_entities[k]
  <2>1. k \in 1 .. Len(m_entities)
    BY <1>2
  <2>2. /\ e \in Entity /\ e # player /\ turn_timer[e] \in Int /\ Charge[e] \in Nat
        /\ -Charge[e] < turn_timer[e]
    BY <2>1, QueueFacts
  <2>3. RoundsAt(k, 0)' = 0
    BY <1>2 DEF RoundsAt
  <2>4. turns'[e] = 0 /\ turn_timer'[e] = turn_timer[e]
    BY <1>1, <1>4, <2>2
  <2>5. 0 * kTurnTimer <= turn_timer[e] + (Charge[e] - 1) + 0 * Charge[e]
    BY <2>2, NoTurnsArePaidFor
  <2> QED BY <1>2, <2>3, <2>4, <2>5 DEF PaidFor
<1>8. Charges(0)'
  BY <1>2, <1>6, <1>7 DEF Charges
<1>9. 0 \in 0 .. Rounds
  BY RoundsSuffice
<1> QED BY <1>5, <1>8, <1>9 DEF SpeedInv

LEMMA SpeedNextPreserves == GameInv /\ SpeedInv /\ [GameNext]_gameVars => SpeedInv'
<1> SUFFICES ASSUME GameInv, SpeedInv, [GameNext]_gameVars PROVE SpeedInv'
  OBVIOUS
<1>1. CASE UNCHANGED <<m_entities, m_entityIndex, turn_timer, turns>>
  BY <1>1, SpeedUntouched
<1>2. CASE EndSetup \/ BeginTick \/ PlayerWaits \/ PlayerBumps
  BY <1>1, <1>2 DEF EndSetup, BeginTick, PlayerWaits, PlayerBumps, vars, boardVars, timers
<1>3. CASE Render
  BY <1>1, <1>3 DEF Render, getVision, timers
<1>4. ASSUME NEW key \in Key, Press(key) PROVE SpeedInv'
  BY <1>1, <1>4 DEF Press, vars, boardVars, timers
<1>5. CASE UNCHANGED gameVars
  BY <1>1, <1>5 DEF gameVars, vars, boardVars, timers
<1> QED BY <1>2, <1>3, <1>4, <1>5, PlaceSpeed, SkipSpeed, PokemonTurnSpeed, PlayerTurnSpeed
        DEF GameNext, Tick

(* The speeds are fair: between two turns of the player no entity gets     *)
(* more turns than its speed gives it over the rounds of the queue, plus   *)
(* at most one; for all speeds, however they divide the turn, and however  *)
(* late the timers of charge and wait run out.                             *)
THEOREM SpeedAlwaysBoundsTurns == GameSpec => []SpeedBoundsTurns
<1>1. ASSUME GameInv, SpeedInv, NEW e \in Entity
      PROVE  (turns[e] - 1) * kTurnTimer < (Rounds + 1) * Charge[e]
  <2>1. /\ turns[e] \in Nat /\ kTurnTimer \in Nat /\ Charge[e] \in Nat /\ 1 <= Charge[e]
        /\ Rounds \in Nat
    BY <1>1, ConstantFacts, RoundsSuffice DEF GameInv, GameTypes
  <2>2. /\ turns[e] * kTurnTimer \in Int /\ Rounds * Charge[e] \in Int
        /\ (turns[e] - 1) * kTurnTimer = turns[e] * kTurnTimer - kTurnTimer
        /\ (Rounds + 1) * Charge[e] = Rounds * Charge[e] + Charge[e]
    BY <2>1, Products
  <2>3. CASE e = player \/ e \notin Listed
    <3>1. turns[e] = 0
      BY <1>1, <2>3 DEF SpeedInv, OnlyPokemonCount
    <3>2. turns[e] * kTurnTimer = 0
      BY <2>1, <3>1
    <3>3. Rounds * Charge[e] >= 0
      <4>1. 0 * Charge[e] <= Rounds * Charge[e] /\ 0 * Charge[e] = 0
        BY <2>1, ProductGrows, Products
      <4> QED BY <4>1
    <3> QED BY <2>1, <2>2, <3>2, <3>3
  <2>4. CASE e # player /\ e \in Listed
    <3>1. PICK k \in 1 .. Len(m_entities) : e = m_entities[k]
      BY <2>4 DEF Listed
    <3>2. k \in 2 .. Len(m_entities)
      BY <1>1, <2>4, <3>1, QueueFacts, IndexFacts
    <3>3. PICK n \in 0 .. Rounds : Charges(n)
      BY <1>1 DEF SpeedInv
    <3> DEFINE s == RoundsAt(k, n)
    <3>4. s \in Int /\ s <= Rounds
      BY <2>1, <3>3 DEF RoundsAt
    <3>5. turns[e] * kTurnTimer <= turn_timer[e] + (Charge[e] - 1) + s * Charge[e]
      BY <3>1, <3>2, <3>3 DEF Charges, PaidFor
    <3>6. turn_timer[e] \in Int /\ turn_timer[e] <= kTurnTimer
      BY <1>1, <3>1, QueueFacts
    <3> HIDE DEF s
    <3>7. s * Charge[e] <= Rounds * Charge[e] /\ s * Charge[e] \in Int
      BY <2>1, <3>4, ProductGrows, Products
    <3>8. \A x, t, c, y, z, T \in Int :
            x <= t + (c - 1) + y /\ t <= T /\ y <= z => x - T < z + c
      OBVIOUS
    <3> DEFINE x == turns[e] * kTurnTimer
               y == s * Charge[e]
               z == Rounds * Charge[e]
               t == turn_timer[e]
               c == Charge[e]
    <3>9. /\ x \in Int /\ y \in Int /\ z \in Int /\ t \in Int /\ c \in Int /\ kTurnTimer \in Int
          /\ x <= t + (c - 1) + y /\ t <= kTurnTimer /\ y <= z
      BY <2>1, <2>2, <3>5, <3>6, <3>7
    <3> HIDE DEF x, y, z, t, c
    <3>10. x - kTurnTimer < z + c
      BY <3>8, <3>9
    <3> QED BY <2>2, <3>10 DEF x, z, c
  <2> QED BY <2>3, <2>4
<1>2. GameInv /\ SpeedInv => SpeedBoundsTurns
  BY <1>1 DEF SpeedBoundsTurns
<1> QED BY <1>2, InitSpeed, SpeedNextPreserves, GameInvariance, PTL DEF GameSpec

-----------------------------------------------------------------------------
(* Commands.  Known keys are counted: the nth has rank n.                  *)
LEMMA KnownKeys ==
  ASSUME NEW keys \in Seq(Key)
  PROVE  /\ Known(keys) \subseteq 1 .. Len(keys)
         /\ Known(keys) \subseteq Nat
         /\ IsFiniteSet(Known(keys))
         /\ Cardinality(Known(keys)) \in Nat
         /\ \A k \in Nat : IsFiniteSet({l \in Known(keys) : l <= k}) /\ Rank(keys, k) \in Nat
<1>1. Len(keys) \in Nat
  OBVIOUS
<1>2. Known(keys) \subseteq 1 .. Len(keys) /\ Known(keys) \subseteq Nat
  BY <1>1 DEF Known
<1>3. IsFiniteSet(1 .. Len(keys))
  BY <1>1, FS_Interval
<1>4. IsFiniteSet(Known(keys))
  BY <1>2, <1>3, FS_Subset
<1>5. Cardinality(Known(keys)) \in Nat
  BY <1>4, FS_CardinalityType
<1>6. ASSUME NEW k \in Nat
      PROVE  IsFiniteSet({l \in Known(keys) : l <= k}) /\ Rank(keys, k) \in Nat
  <2>1. IsFiniteSet({l \in Known(keys) : l <= k})
    BY <1>4, FS_Subset
  <2> QED BY <2>1, FS_CardinalityType DEF Rank
<1> QED BY <1>2, <1>4, <1>5, <1>6

LEMMA RankSteps ==
  ASSUME NEW keys \in Seq(Key)
  PROVE  /\ Rank(keys, 0) = 0
         /\ \A k \in Nat : Rank(keys, k + 1) = IF k + 1 \in Known(keys)
                                               THEN Rank(keys, k) + 1
                                               ELSE Rank(keys, k)
         /\ Rank(keys, Len(keys)) = Cardinality(Known(keys))
<1> DEFINE Upto(k) == {l \in Known(keys) : l <= k}
<1>1. Len(keys) \in Nat
  OBVIOUS
<1>2. Upto(0) = {} /\ Upto(Len(keys)) = Known(keys)
  BY <1>1, KnownKeys
<1>3. Rank(keys, 0) = 0 /\ Rank(keys, Len(keys)) = Cardinality(Known(keys))
  BY <1>2, FS_EmptySet DEF Rank
<1>4. ASSUME NEW k \in Nat
      PROVE  Rank(keys, k + 1) = IF k + 1 \in Known(keys) THEN Rank(keys, k) + 1 ELSE Rank(keys, k)
  <2>1. IsFiniteSet(Upto(k)) /\ k + 1 \notin Upto(k)
    BY KnownKeys
  <2>2. CASE k + 1 \in Known(keys)
    <3>1. Upto(k + 1) = Upto(k) \cup {k + 1}
      BY <2>2, KnownKeys
    <3>2. Cardinality(Upto(k) \cup {k + 1}) = Cardinality(Upto(k)) + 1
      BY <2>1, FS_AddElement
    <3> QED BY <2>2, <3>1, <3>2 DEF Rank
  <2>3. CASE k + 1 \notin Known(keys)
    <3>1. Upto(k + 1) = Upto(k)
      BY <2>3, KnownKeys
    <3> QED BY <2>3, <3>1 DEF Rank
  <2> QED BY <2>2, <2>3
<1> QED BY <1>3, <1>4

LEMMA RankGrows ==
  ASSUME NEW keys \in Seq(Key), NEW k \in Known(keys), NEW l \in Known(keys), k < l
  PROVE  Rank(keys, k) < Rank(keys, l)
<1> DEFINE Upto(j) == {i \in Known(keys) : i <= j}
<1>1. k \in Nat /\ l \in Nat /\ Known(keys) \subseteq Nat
  BY KnownKeys
<1>2. IsFiniteSet(Upto(l)) /\ Rank(keys, k) \in Nat /\ Rank(keys, l) \in Nat
  BY <1>1, KnownKeys
<1>3. Upto(k) \subseteq Upto(l) /\ l \in Upto(l) /\ l \notin Upto(k)
  BY <1>1
<1>4. Cardinality(Upto(k)) <= Cardinality(Upto(l)) /\ Cardinality(Upto(l)) # Cardinality(Upto(k))
  BY <1>2, <1>3, FS_Subset
<1> QED BY <1>2, <1>4 DEF Rank

(* There is exactly one place for each rank: the first with the rank.      *)
LEMMA PlaceOfRank ==
  ASSUME NEW keys \in Seq(Key), NEW n \in 1 .. Cardinality(Known(keys))
  PROVE  /\ Place(keys, n) \in Known(keys)
         /\ Rank(keys, Place(keys, n)) = n
         /\ \A k \in Known(keys) : Rank(keys, k) = n => k = Place(keys, n)
<1> DEFINE S == {k \in Nat : Rank(keys, k) >= n}
<1>1. n \in Nat /\ n >= 1 /\ n <= Cardinality(Known(keys)) /\ Len(keys) \in Nat
  BY KnownKeys
<1>2. Len(keys) \in S
  BY <1>1, RankSteps
<1>3. PICK k \in S : \A j \in S : k <= j
  <2> HIDE DEF S
  <2>1. S \subseteq Nat
    BY DEF S
  <2> QED BY <1>2, <2>1, LeastNatural
<1>4. k \in Nat /\ Rank(keys, k) >= n /\ k # 0
  BY <1>1, <1>3, RankSteps
<1>5. k - 1 \in Nat /\ k - 1 \notin S /\ k = (k - 1) + 1
  BY <1>3, <1>4
<1>6. Rank(keys, k - 1) \in Nat /\ Rank(keys, k - 1) < n /\ Rank(keys, k) \in Nat
  <2>1. Rank(keys, k - 1) \in Nat /\ Rank(keys, k) \in Nat
    BY <1>4, <1>5, KnownKeys
  <2>2. ~(Rank(keys, k - 1) >= n)
    BY <1>5
  <2> QED BY <1>1, <2>1, <2>2
<1>7. Rank(keys, k) = IF k \in Known(keys) THEN Rank(keys, k - 1) + 1 ELSE Rank(keys, k - 1)
  BY <1>5, RankSteps
<1>8. k \in Known(keys) /\ Rank(keys, k) = n
  BY <1>1, <1>4, <1>6, <1>7
<1>9. Place(keys, n) \in Known(keys) /\ Rank(keys, Place(keys, n)) = n
  BY <1>8 DEF Place
<1>10. ASSUME NEW j \in Known(keys), Rank(keys, j) = n
       PROVE  j = Place(keys, n)
  <2> DEFINE q == Place(keys, n)
  <2>1. q \in Nat /\ j \in Nat /\ q \in Known(keys) /\ Rank(keys, q) = n
    BY <1>9, KnownKeys
  <2> HIDE DEF q
  <2>2. ~(j < q) /\ ~(q < j)
    BY <1>1, <1>10, <2>1, RankGrows
  <2>3. j = q
    BY <2>1, <2>2
  <2> QED BY <2>3 DEF q
<1> QED BY <1>9, <1>10

LEMMA DirectionsShape ==
  ASSUME NEW keys \in Seq(Key)
  PROVE  /\ Directions(keys) \in Seq(Point)
         /\ Len(Directions(keys)) = Cardinality(Known(keys))
         /\ \A n \in 1 .. Cardinality(Known(keys)) :
              Directions(keys)[n] = Dir[keys[Place(keys, n)]]
<1>1. Cardinality(Known(keys)) \in Nat
  BY KnownKeys
<1>2. \A n \in 1 .. Cardinality(Known(keys)) : Dir[keys[Place(keys, n)]] \in Point
  BY PlaceOfRank, GameAssumption DEF Known
<1>3. Directions(keys) \in Seq(Point)
  BY <1>1, <1>2 DEF Directions
<1>4. Len(Directions(keys)) = Cardinality(Known(keys))
  BY <1>1 DEF Directions
<1> QED BY <1>3, <1>4 DEF Directions

LEMMA SameSequence ==
  ASSUME NEW S, NEW s \in Seq(S), NEW t \in Seq(S), Len(s) = Len(t),
         \A n \in 1 .. Len(s) : s[n] = t[n]
  PROVE  s = t
  OBVIOUS

(* A key that is appended appends its direction, if it has one.            *)
LEMMA DirectionsAppend ==
  ASSUME NEW keys \in Seq(Key), NEW key \in Key
  PROVE  Directions(Append(keys, key)) =
           IF key \in DOMAIN Dir THEN Append(Directions(keys), Dir[key]) ELSE Directions(keys)
<1> DEFINE more == Append(keys, key)
           L == Len(keys)
           C == Cardinality(Known(keys))
           D == Cardinality(Known(more))
<1>1. /\ more \in Seq(Key) /\ L \in Nat /\ Len(more) = L + 1
      /\ more[L + 1] = key
      /\ \A k \in 1 .. L : more[k] = keys[k]
  OBVIOUS
<1>2. \A k \in 1 .. L : k \in Known(more) <=> k \in Known(keys)
  BY <1>1 DEF Known
<1>3. L + 1 \in Known(more) <=> key \in DOMAIN Dir
  BY <1>1 DEF Known
<1>4. C \in Nat /\ D \in Nat /\ Known(keys) \subseteq 1 .. L /\ Known(more) \subseteq 1 .. L + 1
  BY <1>1, KnownKeys
<1> HIDE DEF more, L, C, D
<1>5. ASSUME NEW k \in 0 .. L
      PROVE  Rank(more, k) = Rank(keys, k)
  <2>1. {l \in Known(more) : l <= k} = {l \in Known(keys) : l <= k}
    BY <1>1, <1>2, <1>4
  <2> QED BY <2>1 DEF Rank
<1>6. Rank(keys, L) = C /\ Rank(more, L + 1) = D
  BY <1>1, RankSteps DEF C, D, L
<1>7. D = IF L + 1 \in Known(more) THEN C + 1 ELSE C
  <2>1. Rank(more, L) = C
    BY <1>1, <1>5, <1>6
  <2> QED BY <1>1, <1>6, <2>1, RankSteps
<1>8. ASSUME NEW n \in 1 .. C
      PROVE  Directions(more)[n] = Directions(keys)[n]
  <2> DEFINE k == Place(keys, n)
  <2>1. k \in Known(keys) /\ Rank(keys, k) = n /\ Directions(keys)[n] = Dir[keys[k]]
    BY PlaceOfRank, DirectionsShape DEF C
  <2> HIDE DEF k
  <2>2. k \in 1 .. L
    BY <1>4, <2>1
  <2>3. k \in Known(more) /\ Rank(more, k) = n /\ more[k] = keys[k]
    BY <1>1, <1>2, <1>5, <2>1, <2>2
  <2>4. n \in 1 .. D
    BY <1>4, <1>7
  <2>5. k = Place(more, n) /\ Directions(more)[n] = Dir[more[Place(more, n)]]
    BY <1>1, <2>3, <2>4, PlaceOfRank, DirectionsShape DEF D
  <2> QED BY <2>1, <2>3, <2>5
<1>9. /\ Directions(more) \in Seq(Point) /\ Len(Directions(more)) = D
      /\ Directions(keys) \in Seq(Point) /\ Len(Directions(keys)) = C
  BY <1>1, DirectionsShape DEF C, D
<1>10. CASE key \in DOMAIN Dir
  <2>1. D = C + 1 /\ L + 1 \in Known(more)
    BY <1>3, <1>7, <1>10
  <2>2. D \in 1 .. D /\ Rank(more, L + 1) = D
    BY <1>4, <1>6, <2>1
  <2>3. L + 1 = Place(more, D) /\ Directions(more)[D] = Dir[more[Place(more, D)]]
    BY <1>1, <2>1, <2>2, PlaceOfRank, DirectionsShape DEF D
  <2>4. Directions(more)[C + 1] = Dir[key]
    BY <1>1, <2>1, <2>3
  <2>5. Dir[key] \in Point
    BY <1>10, GameAssumption
  <2> DEFINE t == Append(Directions(keys), Dir[key])
  <2>6. /\ t \in Seq(Point) /\ Len(t) = C + 1 /\ t[C + 1] = Dir[key]
        /\ \A n \in 1 .. C : t[n] = Directions(keys)[n]
    BY <1>4, <1>9, <2>5
  <2> HIDE DEF t
  <2>7. \A n \in 1 .. C + 1 : Directions(more)[n] = t[n]
    <3> TAKE n \in 1 .. C + 1
    <3>1. n \in 1 .. C \/ n = C + 1
      BY <1>4
    <3> QED BY <1>8, <2>4, <2>6, <3>1
  <2>8. Directions(more) = t
    BY <1>9, <2>1, <2>6, <2>7, SameSequence
  <2> QED BY <1>10, <2>8 DEF t, more
<1>11. CASE key \notin DOMAIN Dir
  <2>1. D = C
    BY <1>3, <1>7, <1>11
  <2>2. Directions(more) = Directions(keys)
    BY <1>8, <1>9, <2>1, SameSequence
  <2> QED BY <1>11, <2>2 DEF more
<1> QED BY <1>10, <1>11

(* Keys without a direction before the first that has one are dropped, and *)
(* that one comes first.                                                   *)
LEMMA DirectionsTake ==
  ASSUME NEW keys \in Seq(Key), Known(keys) # {},
         NEW f \in Known(keys), \A k \in Known(keys) : f <= k
  PROVE  /\ SubSeq(keys, f + 1, Len(keys)) \in Seq(Key)
         /\ Dir[keys[f]] \in Point
         /\ Directions(keys) = <<Dir[keys[f]]>> \o Directions(SubSeq(keys, f + 1, Len(keys)))
<1> DEFINE rest == SubSeq(keys, f + 1, Len(keys))
           L == Len(keys)
           C == Cardinality(Known(keys))
           D == Cardinality(Known(rest))
<1>1. L \in Nat /\ f \in 1 .. L /\ keys[f] \in DOMAIN Dir /\ Known(keys) \subseteq 1 .. L
  BY DEF Known
<1>2. rest \in Seq(Key) /\ Len(rest) = L - f /\ \A k \in 1 .. L - f : rest[k] = keys[k + f]
  BY <1>1
<1>3. \A k \in 1 .. L - f : k + f \in 1 .. L
  BY <1>1
<1>4. \A k \in 1 .. L - f : k \in Known(rest) <=> k + f \in Known(keys)
  BY <1>2, <1>3 DEF Known
<1>5. C \in Nat /\ D \in Nat /\ Known(rest) \subseteq 1 .. L - f
  BY <1>2, KnownKeys
<1>6. Dir[keys[f]] \in Point
  BY <1>1, GameAssumption
<1>7. \A k \in Nat : Rank(keys, k) \in Nat /\ Rank(rest, k) \in Nat
  BY <1>2, KnownKeys
<1> HIDE DEF rest, L, C, D
<1>8. Rank(keys, f) = 1 /\ Rank(rest, 0) = 0
  <2>1. {l \in Known(keys) : l <= f} = {f}
    BY <1>1
  <2>2. Rank(keys, f) = 1
    BY <2>1, FS_Singleton DEF Rank
  <2> QED BY <1>2, <2>2, RankSteps
<1>9. \A k \in 0 .. L - f : Rank(keys, k + f) = Rank(rest, k) + 1
  <2> DEFINE Bad == {k \in 0 .. L - f : Rank(keys, k + f) # Rank(rest, k) + 1}
  <2> SUFFICES ASSUME Bad # {} PROVE FALSE
    OBVIOUS
  <2>1. PICK b \in Bad : \A k \in Bad : b <= k
    <3>1. Bad \subseteq Nat
      BY <1>1
    <3> HIDE DEF Bad
    <3> QED BY <3>1, LeastNatural
  <2>2. b \in 0 .. L - f /\ Rank(keys, b + f) # Rank(rest, b) + 1 /\ b # 0
    BY <1>1, <1>8, <2>1
  <2>3. b - 1 \in 0 .. L - f /\ b - 1 \notin Bad
    BY <1>1, <2>1, <2>2
  <2> DEFINE a == b - 1
  <2>4. a \in Nat /\ a + 1 = b /\ a + f \in Nat /\ (a + f) + 1 = b + f
    BY <1>1, <2>2
  <2>5. Rank(keys, a + f) = Rank(rest, a) + 1
    BY <2>3
  <2>6. b \in Known(rest) <=> b + f \in Known(keys)
    BY <1>1, <1>4, <2>2
  <2> HIDE DEF a
  <2>7. Rank(keys, b + f) = IF b + f \in Known(keys) THEN Rank(keys, a + f) + 1 ELSE Rank(keys, a + f)
    BY <2>4, RankSteps
  <2>8. Rank(rest, b) = IF b \in Known(rest) THEN Rank(rest, a) + 1 ELSE Rank(rest, a)
    BY <1>2, <2>4, RankSteps
  <2>9. Rank(rest, a) \in Nat
    BY <1>7, <2>4
  <2> QED BY <2>2, <2>5, <2>6, <2>7, <2>8, <2>9
<1>10. C = D + 1
  <2>1. Rank(keys, L) = C /\ Rank(rest, L - f) = D
    BY <1>2, RankSteps DEF C, D, L
  <2>2. L - f \in 0 .. L - f /\ (L - f) + f = L
    BY <1>1
  <2> QED BY <1>9, <2>1, <2>2
<1>11. /\ Directions(keys) \in Seq(Point) /\ Len(Directions(keys)) = C
       /\ Directions(rest) \in Seq(Point) /\ Len(Directions(rest)) = D
  BY <1>2, DirectionsShape DEF C, D
<1>12. Directions(keys)[1] = Dir[keys[f]]
  <2>1. 1 \in 1 .. C
    BY <1>5, <1>10
  <2> QED BY <1>8, <2>1, PlaceOfRank, DirectionsShape DEF C
<1>13. ASSUME NEW n \in 1 .. D
       PROVE  Directions(keys)[n + 1] = Directions(rest)[n]
  <2> DEFINE k == Place(rest, n)
  <2>1. k \in Known(rest) /\ Rank(rest, k) = n /\ Directions(rest)[n] = Dir[rest[k]]
    BY <1>2, PlaceOfRank, DirectionsShape DEF D
  <2> HIDE DEF k
  <2>2. k \in 1 .. L - f /\ k \in 0 .. L - f
    BY <1>5, <2>1
  <2>3. k + f \in Known(keys) /\ Rank(keys, k + f) = n + 1 /\ rest[k] = keys[k + f]
    BY <1>2, <1>4, <1>9, <2>1, <2>2
  <2>4. n + 1 \in 1 .. C
    BY <1>5, <1>10
  <2>5. k + f = Place(keys, n + 1) /\ Directions(keys)[n + 1] = Dir[keys[Place(keys, n + 1)]]
    BY <2>3, <2>4, PlaceOfRank, DirectionsShape DEF C
  <2> QED BY <2>1, <2>3, <2>5
<1> DEFINE t == <<Dir[keys[f]]>> \o Directions(rest)
<1>14. /\ t \in Seq(Point) /\ Len(t) = D + 1 /\ t[1] = Dir[keys[f]]
       /\ \A n \in 1 .. D : t[n + 1] = Directions(rest)[n]
  BY <1>5, <1>6, <1>11
<1> HIDE DEF t
<1>15. \A n \in 1 .. D + 1 : Directions(keys)[n] = t[n]
  <2> TAKE n \in 1 .. D + 1
  <2>1. n = 1 \/ (n - 1 \in 1 .. D /\ n = (n - 1) + 1)
    BY <1>5
  <2> QED BY <1>12, <1>13, <1>14, <2>1
<1>16. Directions(keys) = t
  BY <1>10, <1>11, <1>14, <1>15, SameSequence
<1> QED BY <1>2, <1>6, <1>16 DEF t, rest, L

LEMMA NothingTyped ==
  ASSUME Pending' = Pending, pos'[player] = pos[player]
  PROVE  Commands!CommandNext
  BY DEF Commands!CommandNext, Commands!WorldChanges

(* A key that is no direction changes no command.                          *)
LEMMA PressTypes ==
  ASSUME GameInv, NEW key \in Key, Press(key)
  PROVE  Commands!CommandNext
<1>1. /\ inputs' = Append(inputs, key) /\ input' = input
      /\ m_map' = m_map /\ m_entityAtPos' = m_entityAtPos /\ pos' = pos
  BY DEF Press, vars, boardVars
<1>2. inputs \in Seq(Key) /\ input \in Point \cup {NoAction}
  BY DEF GameInv, GameTypes
<1>3. Directions(inputs') =
        IF key \in DOMAIN Dir THEN Append(Directions(inputs), Dir[key]) ELSE Directions(inputs)
  BY <1>1, <1>2, DirectionsAppend
<1>4. CASE key \in DOMAIN Dir
  <2>1. Directions(inputs) \in Seq(Point) /\ Dir[key] \in Point
    BY <1>2, <1>4, DirectionsShape, GameAssumption
  <2>2. \A s \in Seq(Point) : s \o Append(Directions(inputs), Dir[key]) = Append(s \o Directions(inputs), Dir[key])
    BY <2>1
  <2>3. (IF input = NoAction THEN <<>> ELSE <<input>>) \in Seq(Point)
    BY <1>2
  <2>4. Pending' = Append(Pending, Dir[key])
    BY <1>1, <1>3, <1>4, <2>2, <2>3 DEF Pending
  <2>5. {p \in Cells : getStatus(p) = "Free"}' = {p \in Cells : getStatus(p) = "Free"}
    BY <1>1 DEF getStatus, EntityAt
  <2>6. Commands!Type(Dir[key])
    BY <1>1, <2>4, <2>5 DEF Commands!Type
  <2> QED BY <1>4, <2>6 DEF Commands!CommandNext
<1>5. CASE key \notin DOMAIN Dir
  BY <1>1, <1>3, <1>5, NothingTyped DEF Pending
<1> QED BY <1>4, <1>5

(* Reading keys moves the first command from inputs to input.              *)
LEMMA BeginTickKeepsCommands ==
  ASSUME GameInv, BeginTick
  PROVE  Commands!CommandNext
<1>1. pos' = pos
  BY DEF BeginTick, vars, boardVars
<1>2. inputs \in Seq(Key) /\ NoAction \notin Point
  BY GameAssumption DEF GameInv, GameTypes
<1>3. CASE UNCHANGED <<input, inputs>>
  BY <1>1, <1>3, NothingTyped DEF Pending
<1>4. CASE input = NoAction /\ TakeKeyFrom(inputs)
  <2>1. CASE Known(inputs) = {}
    <3>1. Directions(inputs) = <<>>
      <4>1. Len(Directions(inputs)) = 0 /\ Directions(inputs) \in Seq(Point)
        BY <1>2, <2>1, DirectionsShape, FS_EmptySet
      <4> QED BY <4>1
    <3>2. inputs' = <<>> /\ input' = NoAction
      BY <1>4, <2>1 DEF TakeKeyFrom
    <3>3. Known(<<>>) = {}
      BY DEF Known
    <3>4. Directions(<<>>) = <<>>
      <4>1. <<>> \in Seq(Key)
        OBVIOUS
      <4>2. Len(Directions(<<>>)) = 0 /\ Directions(<<>>) \in Seq(Point)
        BY <3>3, <4>1, DirectionsShape, FS_EmptySet
      <4> QED BY <4>2
    <3>5. Pending' = Pending
      BY <1>4, <3>1, <3>2, <3>4 DEF Pending
    <3> QED BY <1>1, <3>5, NothingTyped
  <2>2. CASE Known(inputs) # {}
    <3> DEFINE f == FirstKnown(inputs)
    <3>1. Known(inputs) \subseteq Nat
      BY DEF Known
    <3>2. \E k \in Known(inputs) : \A l \in Known(inputs) : k <= l
      BY <2>2, <3>1, LeastNatural
    <3>3. f \in Known(inputs) /\ \A l \in Known(inputs) : f <= l
      BY <3>2 DEF FirstKnown
    <3>4. inputs' = SubSeq(inputs, f + 1, Len(inputs)) /\ input' = Dir[inputs[f]]
      BY <1>4, <2>2 DEF TakeKeyFrom
    <3> HIDE DEF f
    <3>5. input' \in Point /\ inputs' \in Seq(Key) /\ Directions(inputs) = <<input'>> \o Directions(inputs')
      BY <1>2, <2>2, <3>3, <3>4, DirectionsTake
    <3>6. Directions(inputs) \in Seq(Point)
      BY <1>2, DirectionsShape
    <3>7. <<>> \o Directions(inputs) = Directions(inputs)
      BY <3>6
    <3>8. Pending' = Pending
      BY <1>2, <1>4, <3>5, <3>7 DEF Pending
    <3> QED BY <1>1, <3>8, NothingTyped
  <2> QED BY <2>1, <2>2
<1> QED BY <1>3, <1>4 DEF BeginTick

(* The player's turn executes the first command: a step leads to an open   *)
(* cell, and waiting leaves the player where it is.                        *)
LEMMA PlayerExecutes ==
  ASSUME GameInv, input # NoAction, input' = NoAction, inputs' = inputs,
         IF input # origin /\ getStatus(Plus(pos[player], input)) = "Free"
         THEN pos'[player] = Plus(pos[player], input)
         ELSE pos'[player] = pos[player]
  PROVE  Commands!CommandNext
<1>1. inputs \in Seq(Key) /\ input \in Point /\ NoAction \notin Point
  BY GameAssumption DEF GameInv, GameTypes
<1>2. BoardTypeOK /\ player \in Entity
  BY GameAssumption DEF GameInv, BoardInv
<1>3. pos[player] \in Point
  BY <1>2 DEF BoardTypeOK
<1>4. Directions(inputs) \in Seq(Point)
  BY <1>1, DirectionsShape
<1>5. Pending = <<input>> \o Directions(inputs) /\ Pending' = <<>> \o Directions(inputs)
  BY DEF Pending
<1>6. Pending # <<>> /\ Head(Pending) = input /\ Pending' = Tail(Pending)
  BY <1>1, <1>4, <1>5
<1> DEFINE to == Plus(pos[player], input)
<1>7. to \in Point /\ to = Commands!Moved(pos[player], input)
  BY <1>1, <1>3 DEF Plus, Pt, Point, Commands!Moved
<1>8. input = origin => to = pos[player]
  BY <1>3 DEF Plus, Pt, Point, origin
<1>9. to \in {p \in Cells : getStatus(p) = "Free"} <=> getStatus(to) = "Free"
  BY <1>2, <1>7, FreeCells
<1>10. pos'[player] = IF to \in {p \in Cells : getStatus(p) = "Free"} THEN to ELSE pos[player]
  BY <1>8, <1>9
<1> HIDE DEF to
<1>11. Commands!Execute
  BY <1>6, <1>7, <1>10 DEF Commands!Execute
<1> QED BY <1>11 DEF Commands!CommandNext

LEMMA OthersDoNotMovePlayer ==
  ASSUME GameInv, NEW e \in Entity \ {player}, NEW p, pos' = [pos EXCEPT ![e] = p]
  PROVE  pos'[player] = pos[player]
  BY GameAssumption DEF GameInv, BoardInv, BoardTypeOK

LEMMA CommandStep == GameInv /\ [GameNext]_gameVars => [Commands!CommandNext]_(Commands!commandVars)
<1> SUFFICES ASSUME GameInv, [GameNext]_gameVars
             PROVE  Commands!CommandNext \/ UNCHANGED Commands!commandVars
  OBVIOUS
<1>1. CASE PlacePokemon
  <2>1. input' = input /\ inputs' = inputs
    BY <1>1 DEF PlacePokemon
  <2>2. pos'[player] = pos[player]
    BY <1>1, OthersDoNotMovePlayer DEF PlacePokemon, addEntity, boardVars
  <2> QED BY <2>1, <2>2, NothingTyped DEF Pending
<1>2. ASSUME UNCHANGED <<input, inputs, pos>>
      PROVE  Commands!CommandNext
  BY <1>2, NothingTyped DEF Pending
<1>3. CASE EndSetup \/ Skip \/ PlayerWaits \/ Render
  BY <1>2, <1>3 DEF EndSetup, Skip, PlayerWaits, Render, vars, boardVars, advanceEntity, getVision
<1>4. CASE \E key \in Key : Press(key)
  BY <1>4, PressTypes
<1>5. CASE BeginTick
  BY <1>5, BeginTickKeepsCommands
<1>6. CASE PokemonTurn
  <2>1. ActiveEntity # player /\ input' = input /\ inputs' = inputs
    BY <1>6 DEF PokemonTurn
  <2>2. ActiveEntity \in Entity
    BY ActiveIsListed, GameAssumption DEF GameInv, PlayerFirst
  <2>3. pos'[player] = pos[player]
    BY <1>6, <2>1, <2>2, OthersDoNotMovePlayer DEF PokemonTurn, Step, moveEntity, boardVars
  <2> QED BY <2>1, <2>3, NothingTyped DEF Pending
<1>7. CASE PlayerTurn
  <2>1. input # NoAction /\ input' = NoAction /\ inputs' = inputs /\ CanStep(player, input) /\ Step(player, input)
    BY <1>7 DEF PlayerTurn
  <2>2. player \in Entity /\ pos \in [Entity -> Point]
    BY GameAssumption DEF GameInv, BoardInv, BoardTypeOK
  <2>3. CASE input = origin
    BY <2>1, <2>3, PlayerExecutes DEF Step, boardVars
  <2>4. CASE input # origin
    <3>1. getStatus(Plus(pos[player], input)) = "Free" /\ moveEntity(player, Plus(pos[player], input))
      BY <2>1, <2>4 DEF CanStep, Step
    <3>2. pos'[player] = Plus(pos[player], input)
      BY <2>2, <3>1 DEF moveEntity
    <3> QED BY <2>1, <2>4, <3>1, <3>2, PlayerExecutes
  <2> QED BY <2>3, <2>4
<1>8. CASE PlayerBumps
  <2>1. /\ input # NoAction /\ input' = NoAction /\ inputs' = inputs /\ pos' = pos
        /\ getStatus(Plus(pos[player], input)) # "Free"
    BY <1>8 DEF PlayerBumps, ResetAction, CanStep, vars, boardVars
  <2> QED BY <2>1, PlayerExecutes
<1>9. CASE UNCHANGED gameVars
  BY <1>2, <1>9 DEF gameVars, vars, boardVars
<1> QED BY <1>1, <1>3, <1>4, <1>5, <1>6, <1>7, <1>8, <1>9 DEF GameNext, Tick

(* The turn loop executes the player's commands as PlayerCommands says, up *)
(* to liveness: in order, none lost and none twice over the ticks, failing *)
(* only when the cell is not free at that moment; for every board, keys    *)
(* however many and entities however fast.                                 *)
THEOREM CommandsAreObeyed == GameSpec => Commands!CommandSafety
<1>1. GameInit => Commands!CommandInit
  <2> SUFFICES ASSUME GameInit PROVE Commands!CommandInit
    OBVIOUS
  <2>1. input = NoAction /\ inputs = <<>> /\ <<>> \in Seq(Key)
    BY DEF GameInit
  <2>2. Known(<<>>) = {}
    BY DEF Known
  <2>3. Len(Directions(<<>>)) = 0 /\ Directions(<<>>) \in Seq(Point)
    BY <2>1, <2>2, DirectionsShape, FS_EmptySet
  <2>4. Directions(<<>>) = <<>>
    BY <2>3
  <2>5. Pending = <<>>
    BY <2>1, <2>4 DEF Pending
  <2>6. pos[player] = Start
    BY GameAssumption DEF GameInit
  <2>7. Start \in [x : Nat, y : Nat]
    <3>1. Start \in Cells
      BY StartIsFree DEF GameInit
    <3>2. Size.x \in Int /\ Size.y \in Int
      BY BoardAssumption DEF Point
    <3> QED BY <3>1, <3>2 DEF Cells, CellsOf, Pt
  <2> QED BY <2>5, <2>6, <2>7 DEF Commands!CommandInit
<1> QED BY <1>1, CommandStep, GameInvariance, PTL DEF GameSpec, Commands!CommandSafety

-----------------------------------------------------------------------------
(* The turn loop ends.  What is left of it: the charges until the player   *)
(* is ready, after one more turn of kTurnTimer if it has an action; the    *)
(* places of the queue until the player's, in this round; and whether the  *)
(* active Pokemon has its turn still to take.                              *)
ChargesOf(e, timer) == IF timer <= 0 THEN 0 ELSE (timer + Charge[e] - 1) \div Charge[e]

ChargesLeft(timer) == ChargesOf(player, timer)

RoundsLeft ==
  ChargesLeft(turn_timer[player]) + (IF input = NoAction THEN 0 ELSE Rounds + 1)

PlacesLeft == IF m_entityIndex = 0 THEN 0 ELSE Len(m_entities) - m_entityIndex

TurnsLeft == IF m_entityIndex # 0 /\ turnReady(ActiveEntity) THEN 1 ELSE 0

LoopLeft == 2 * (Len(m_entities) * RoundsLeft + PlacesLeft) + TurnsLeft

(* Every iteration of updateState's loop that does not leave it lowers     *)
(* LoopLeft, which is never more than two per entity and round: a tick is  *)
(* over after that many iterations, however the Pokemon move.              *)
TurnLoopRunsDown ==
  [][phase = "turns" /\ phase' = "turns" =>
       /\ LoopLeft \in 0 .. 2 * (Len(m_entities) * (Rounds + 1))
       /\ LoopLeft' \in 0 .. LoopLeft - 1]_gameVars

(* The charges that pay for a turn of e.                                   *)
RoundsOf(e) == (kTurnTimer + Charge[e] - 1) \div Charge[e]

LEMMA ChargesOfRunDown ==
  ASSUME NEW e \in Entity, NEW t \in Int
  PROVE  /\ ChargesOf(e, t) \in Nat
         /\ t > 0 => ChargesOf(e, t - Charge[e]) = ChargesOf(e, t) - 1
         /\ t <= kTurnTimer => ChargesOf(e, t) <= RoundsOf(e)
         /\ RoundsOf(e) \in Nat
<1> DEFINE c == Charge[e]
           T == kTurnTimer
           R == RoundsOf(e)
           q == (t + c - 1) \div c
<1>1. c \in Nat \ {0} /\ T \in Nat
  BY ConstantFacts
<1>2. \A u : ChargesOf(e, u) = IF u <= 0 THEN 0 ELSE (u + c - 1) \div c
  BY DEF ChargesOf
<1>3. R = (T + c - 1) \div c
  BY DEF RoundsOf
<1> HIDE DEF c, T, R
<1>4. q \in Int /\ c * q <= t + c - 1 /\ t + c - 1 < c * q + c
  <2>1. t + c - 1 \in Int
    BY <1>1
  <2> QED BY <1>1, <2>1, DivBounds
<1>5. R \in Int /\ T + c - 1 < c * R + c
  <2>1. T + c - 1 \in Int
    BY <1>1
  <2> DEFINE u == T + c - 1
  <2> HIDE DEF u
  <2>2. u \in Int
    BY <2>1 DEF u
  <2>3. u < c * (u \div c) + c
    BY <1>1, <2>2, DivBounds
  <2>4. u \div c \in Int
    BY <1>1, <2>2, DivBounds
  <2> QED BY <1>1, <1>3, <2>3, <2>4 DEF u
<1>10. R \in Nat
  <2> SUFFICES ASSUME R <= -1 PROVE FALSE
    BY <1>5
  <2>1. R * c <= (0 - 1) * c
    <3>1. R <= 0 - 1 /\ 0 - 1 \in Int
      BY <1>5
    <3> QED BY <1>1, <1>5, <3>1, ProductGrows
  <2>2. R * c = c * R /\ c * R \in Int /\ (0 - 1) * c = 0 - c
    BY <1>1, <1>5
  <2> QED BY <1>1, <1>5, <2>1, <2>2
<1>6. ASSUME t > 0 PROVE q >= 1
  <2> SUFFICES ASSUME q <= 0 PROVE FALSE
    BY <1>4
  <2>1. c * q <= 0
    <3>1. q * c <= 0 * c
      BY <1>1, <1>4, ProductGrows
    <3>2. 0 * c = 0 /\ q * c = c * q /\ c * q \in Int
      BY <1>1, <1>4
    <3> QED BY <3>1, <3>2
  <2>2. c * q \in Int
    BY <1>1, <1>4
  <2> HIDE DEF q
  <2> QED BY <1>1, <1>4, <1>6, <2>1, <2>2
<1>7. ChargesOf(e, t) \in Nat
  <2>1. CASE t <= 0
    BY <1>2, <2>1
  <2>2. CASE t > 0
    <3>1. ChargesOf(e, t) = q
      BY <1>2, <2>2
    <3> HIDE DEF q
    <3> QED BY <1>4, <1>6, <2>2, <3>1
  <2> QED BY <2>1, <2>2
<1>8. ASSUME t > 0 PROVE ChargesOf(e, t - c) = ChargesOf(e, t) - 1
  <2>1. ChargesOf(e, t) = q
    BY <1>2, <1>8
  <2> HIDE DEF q
  <2>2. q \in Int /\ q >= 1 /\ c * q \in Int /\ c * (q - 1) = c * q - c
    BY <1>1, <1>4, <1>6, <1>8
  <2>3. CASE t - c <= 0
    <3>1. c * q < 2 * c
      BY <1>1, <1>4, <2>2, <2>3
    <3>2. q < 2
      <4> SUFFICES ASSUME 2 <= q PROVE FALSE
        BY <2>2
      <4>1. 2 * c <= q * c /\ q * c = c * q
        BY <1>1, <2>2, ProductGrows
      <4> QED BY <1>1, <2>2, <3>1, <4>1
    <3>3. q - 1 = 0
      BY <2>2, <3>2
    <3> QED BY <1>1, <1>2, <2>1, <2>3, <3>3
  <2>4. CASE t - c > 0
    <3>1. ChargesOf(e, t - c) = ((t - c) + c - 1) \div c
      BY <1>1, <1>2, <2>4
    <3> DEFINE u == (t - c) + c - 1
    <3>2. u \in Int /\ c * (q - 1) <= u /\ u < c * (q - 1) + c
      BY <1>1, <1>4, <2>2
    <3> HIDE DEF u
    <3>3. u \div c = q - 1
      <4>1. q - 1 \in Int
        BY <2>2
      <4> QED BY <1>1, <3>2, <4>1, DivUnique
    <3> QED BY <2>1, <3>1, <3>3 DEF u
  <2>5. t - c \in Int
    BY <1>1
  <2> QED BY <2>3, <2>4, <2>5
<1>9. ASSUME t <= T PROVE ChargesOf(e, t) <= R
  <2>1. CASE t <= 0
    BY <1>2, <1>10, <2>1
  <2>2. CASE t > 0
    <3>1. ChargesOf(e, t) = q
      BY <1>2, <2>2
    <3> HIDE DEF q
    <3>2. q <= R
      <4> SUFFICES ASSUME R + 1 <= q PROVE FALSE
        BY <1>1, <1>4, <1>5
      <4>1. (R + 1) * c <= q * c
        BY <1>1, <1>4, <1>5, ProductGrows
      <4>2. (R + 1) * c = c * R + c /\ q * c = c * q /\ c * q \in Int /\ c * R \in Int
        BY <1>1, <1>4, <1>5
      <4> QED BY <1>1, <1>4, <1>5, <1>9, <4>1, <4>2
    <3> QED BY <3>1, <3>2
  <2> QED BY <2>1, <2>2
<1> QED BY <1>7, <1>8, <1>9, <1>10 DEF c, T, R

LEMMA ChargesRunDown ==
  ASSUME NEW t \in Int
  PROVE  /\ ChargesLeft(t) \in Nat
         /\ t > 0 => ChargesLeft(t - Charge[player]) = ChargesLeft(t) - 1
         /\ t <= kTurnTimer => ChargesLeft(t) <= Rounds
<1>1. Rounds = RoundsOf(player) /\ player \in Entity
  BY ConstantFacts DEF Rounds, RoundsOf
<1> QED BY <1>1, ChargesOfRunDown DEF ChargesLeft

(* An action in the loop is the player's, to be executed at once.          *)
ActionIsDue ==
  phase = "turns" /\ input # NoAction => m_entityIndex = 0 /\ turn_timer[player] <= 0

LEMMA ActionDueNext == GameInv /\ ActionIsDue /\ [GameNext]_gameVars => ActionIsDue'
<1> SUFFICES ASSUME GameInv, ActionIsDue, [GameNext]_gameVars, (phase = "turns")', (input # NoAction)'
             PROVE  (m_entityIndex = 0 /\ turn_timer[player] <= 0)'
  BY DEF ActionIsDue
<1>1. ActiveEntity = player <=> m_entityIndex = 0
  BY IndexFacts
<1>2. CASE PlacePokemon \/ EndSetup \/ (\E key \in Key : Press(key)) \/ Render
  <2>1. phase \in {"setup", "idle", "render"} /\ phase' \in {phase, "idle"}
    BY <1>2 DEF PlacePokemon, EndSetup, Press, Render
  <2> QED BY <2>1
<1>3. CASE BeginTick
  <2>1. phase = "idle"
    BY <1>3 DEF BeginTick
  <2>2. ActiveEntity = player /\ turn_timer[player] <= 0
    BY <2>1 DEF GameInv, PlayersTurn
  <2> QED BY <1>1, <1>3, <2>2 DEF BeginTick, vars, boardVars, timers
<1>4. CASE Skip
  <2>1. phase = "turns" /\ input # NoAction /\ ~(turn_timer[ActiveEntity] <= 0)
    BY <1>4 DEF Skip, turnReady
  <2> QED BY <1>1, <2>1 DEF ActionIsDue
<1>5. CASE PokemonTurn
  <2>1. phase = "turns" /\ input # NoAction /\ ActiveEntity # player
    BY <1>5 DEF PokemonTurn
  <2> QED BY <1>1, <2>1 DEF ActionIsDue
<1>6. CASE PlayerTurn
  BY <1>6 DEF PlayerTurn
<1>7. CASE PlayerWaits \/ PlayerBumps
  BY <1>7 DEF PlayerWaits, PlayerBumps
<1>8. CASE UNCHANGED gameVars
  BY <1>8 DEF ActionIsDue, gameVars, vars, boardVars, timers
<1> QED BY <1>2, <1>3, <1>4, <1>5, <1>6, <1>7, <1>8 DEF GameNext, Tick

LEMMA ActionAlwaysDue == GameSpec => []ActionIsDue
<1>1. GameInit => ActionIsDue
  BY DEF GameInit, ActionIsDue
<1> QED BY <1>1, ActionDueNext, GameInvariance, PTL DEF GameSpec

(* The parts of LoopLeft and their sum.                                    *)
LEMMA LoopLeftParts ==
  ASSUME GameInv
  PROVE  /\ Len(m_entities) \in Nat \ {0} /\ m_entityIndex \in 0 .. Len(m_entities) - 1
         /\ RoundsLeft \in Nat
         /\ PlacesLeft \in 0 .. Len(m_entities) - 1
         /\ TurnsLeft \in 0 .. 1
         /\ Rounds \in Nat
         /\ turn_timer[player] \in Int /\ turn_timer[player] <= kTurnTimer
         /\ ChargesLeft(turn_timer[player]) \in 0 .. Rounds
<1>1. Len(m_entities) \in Nat /\ m_entityIndex \in Nat /\ m_entityIndex + 1 \in 1 .. Len(m_entities)
  BY IndexFacts
<1>2. Len(m_entities) \in Nat \ {0} /\ m_entityIndex \in 0 .. Len(m_entities) - 1
  BY <1>1
<1>3. turn_timer[player] \in Int /\ turn_timer[player] <= kTurnTimer
  BY ConstantFacts DEF GameInv, TimersTyped, TimersBounded
<1>4. ChargesLeft(turn_timer[player]) \in Nat /\ ChargesLeft(turn_timer[player]) <= Rounds /\ Rounds \in Nat
  BY <1>3, ChargesRunDown, RoundsSuffice
<1>5. RoundsLeft \in Nat
  BY <1>4 DEF RoundsLeft
<1>6. PlacesLeft \in 0 .. Len(m_entities) - 1
  BY <1>2 DEF PlacesLeft
<1>7. TurnsLeft \in 0 .. 1
  BY DEF TurnsLeft
<1> QED BY <1>2, <1>3, <1>4, <1>5, <1>6, <1>7

(* A sum of the three parts, each less than the weight of the one before.  *)
LEMMA PartsDecrease ==
  ASSUME NEW l \in Nat \ {0},
         NEW a \in Nat, NEW b \in 0 .. l - 1, NEW c \in 0 .. 1,
         NEW u \in Nat, NEW v \in 0 .. l - 1, NEW w \in 0 .. 1,
         \/ u < a
         \/ u = a /\ v < b
         \/ u = a /\ v = b /\ w < c
  PROVE  2 * (l * u + v) + w \in 0 .. (2 * (l * a + b) + c) - 1
<1>1. l * u \in Nat /\ l * a \in Nat
  OBVIOUS
<1>2. CASE u < a
  <2>1. (u + 1) * l <= a * l
    <3>1. u + 1 <= a
      BY <1>2
    <3> QED BY <3>1, ProductGrows
  <2>2. (u + 1) * l = l * u + l /\ a * l = l * a
    OBVIOUS
  <2> QED BY <1>1, <2>1, <2>2
<1>3. CASE u = a
  <2>1. l * u = l * a
    BY <1>3
  <2> DEFINE x == l * a
  <2>2. l * u = x /\ x \in Nat
    BY <1>1, <2>1
  <2> HIDE DEF x
  <2>3. (v < b) \/ (v = b /\ w < c)
    BY <1>3
  <2>4. 2 * (x + v) + w \in 0 .. (2 * (x + b) + c) - 1
    BY <2>2, <2>3
  <2> QED BY <2>2, <2>4 DEF x
<1> QED BY <1>2, <1>3

LEMMA LoopLeftBounded ==
  ASSUME GameInv, ActionIsDue, phase = "turns"
  PROVE  LoopLeft \in 0 .. 2 * (Len(m_entities) * (Rounds + 1))
<1> DEFINE l == Len(m_entities)
           a == RoundsLeft
           b == PlacesLeft
           c == TurnsLeft
           R == Rounds
<1>1. /\ l \in Nat \ {0} /\ a \in Nat /\ b \in 0 .. l - 1 /\ c \in 0 .. 1 /\ R \in Nat
      /\ ChargesLeft(turn_timer[player]) \in 0 .. R
  BY LoopLeftParts
<1>2. a <= R \/ (a = R + 1 /\ b = 0 /\ c = 0)
  <2>1. CASE input = NoAction
    BY <1>1, <2>1 DEF RoundsLeft
  <2>2. CASE input # NoAction
    <3>1. m_entityIndex = 0 /\ turn_timer[player] <= 0
      BY <2>2 DEF ActionIsDue
    <3>2. ChargesLeft(turn_timer[player]) = 0
      BY <3>1 DEF ChargesLeft, ChargesOf
    <3> QED BY <1>1, <2>2, <3>1, <3>2 DEF RoundsLeft, PlacesLeft, TurnsLeft
  <2> QED BY <2>1, <2>2
<1>3. LoopLeft = 2 * (l * a + b) + c
  BY DEF LoopLeft
<1> HIDE DEF l, a, b, c, R
<1>4. l * a \in Nat /\ l * (R + 1) \in Nat
  BY <1>1
<1>5. CASE a <= R
  <2>1. (a + 1) * l <= (R + 1) * l
    <3>1. a + 1 <= R + 1
      BY <1>1, <1>5
    <3> QED BY <1>1, <3>1, ProductGrows
  <2>2. (a + 1) * l = l * a + l /\ (R + 1) * l = l * (R + 1)
    BY <1>1
  <2>3. 2 * (l * a + b) + c \in 0 .. 2 * (l * (R + 1))
    BY <1>1, <1>4, <2>1, <2>2
  <2> QED BY <1>3, <2>3 DEF l, R
<1>6. CASE a = R + 1 /\ b = 0 /\ c = 0
  <2>1. 2 * (l * a + b) + c \in 0 .. 2 * (l * (R + 1))
    BY <1>1, <1>4, <1>6
  <2> QED BY <1>3, <2>1 DEF l, R
<1> QED BY <1>2, <1>5, <1>6

(* One iteration: a lexicographic step down.                               *)
LEMMA IterationRunsDown ==
  ASSUME GameInv, GameInv', phase = "turns", phase' = "turns", GameNext
  PROVE  /\ Len(m_entities') = Len(m_entities)
         /\ \/ RoundsLeft' < RoundsLeft
            \/ RoundsLeft' = RoundsLeft /\ PlacesLeft' < PlacesLeft
            \/ RoundsLeft' = RoundsLeft /\ PlacesLeft' = PlacesLeft /\ TurnsLeft' < TurnsLeft
<1> DEFINE n == Len(m_entities)
           e == ActiveEntity
<1>1. /\ n \in Nat \ {0} /\ m_entityIndex \in 0 .. n - 1
      /\ RoundsLeft \in Nat /\ Rounds \in Nat
      /\ turn_timer[player] \in Int /\ turn_timer[player] <= kTurnTimer
  BY LoopLeftParts
<1>2. /\ RoundsLeft' \in Nat /\ TurnsLeft' \in 0 .. 1
      /\ turn_timer'[player] \in Int /\ turn_timer'[player] <= kTurnTimer
      /\ ChargesLeft(turn_timer'[player]) \in Nat /\ ChargesLeft(turn_timer'[player]) <= Rounds
  <2>1. turn_timer'[player] \in Int /\ turn_timer'[player] <= kTurnTimer
    BY ConstantFacts DEF GameInv, TimersTyped, TimersBounded
  <2>2. ChargesLeft(turn_timer'[player]) \in Nat /\ ChargesLeft(turn_timer'[player]) <= Rounds
    BY <2>1, ChargesRunDown
  <2>3. RoundsLeft' = ChargesLeft(turn_timer'[player]) + (IF input' = NoAction THEN 0 ELSE Rounds + 1)
    BY DEF RoundsLeft, ChargesLeft, ChargesOf, Rounds
  <2>4. RoundsLeft' \in Nat
    BY <1>1, <2>2, <2>3
  <2> QED BY <2>1, <2>2, <2>4 DEF TurnsLeft
<1>3. e = player <=> m_entityIndex = 0
  BY IndexFacts
<1>4. e \in Entity /\ turn_timer \in [Entity -> Int] /\ player \in Entity
  <2>1. e = m_entities[m_entityIndex + 1] /\ m_entityIndex + 1 \in 1 .. n
    BY <1>1 DEF ActiveEntity
  <2>2. m_entities[m_entityIndex + 1] \in Entity
    BY <2>1, QueueFacts
  <2> QED BY <2>1, <2>2, ConstantFacts DEF GameInv, TimersTyped
<1> DEFINE Rounds1 == ChargesLeft(turn_timer'[player]) + (IF input' = NoAction THEN 0 ELSE Rounds + 1)
<1>5. RoundsLeft' = Rounds1
  BY DEF RoundsLeft, ChargesLeft, ChargesOf, Rounds
<1>6. CASE Skip
  <2>1. /\ ~(turn_timer[e] <= 0) /\ input' = input
        /\ turn_timer' = Charged(turn_timer, e) /\ m_entities' = m_entities
        /\ m_entityIndex' = NextIndex(m_entityIndex)
    BY <1>6 DEF Skip, turnReady, advanceEntity
  <2>2. turn_timer' = [turn_timer EXCEPT ![e] = @ - Charge[e]]
    <3>1. turn_timer[e] > 0
      BY <1>4, <2>1
    <3> QED BY <2>1, <3>1 DEF Charged
  <2>3. CASE m_entityIndex = 0
    <3>1. e = player
      BY <1>3, <2>3
    <3>2. turn_timer'[player] = turn_timer[player] - Charge[player] /\ turn_timer[player] > 0
      BY <1>4, <2>1, <2>2, <3>1
    <3>3. ChargesLeft(turn_timer'[player]) = ChargesLeft(turn_timer[player]) - 1
      BY <1>1, <3>2, ChargesRunDown
    <3>4. ChargesLeft(turn_timer[player]) \in Nat
      BY <1>1, ChargesRunDown
    <3>5. RoundsLeft' < RoundsLeft
      BY <1>1, <1>5, <2>1, <3>3, <3>4 DEF RoundsLeft
    <3> QED BY <2>1, <3>5
  <2>4. CASE m_entityIndex # 0
    <3>1. e # player
      BY <1>3, <2>4
    <3>2. turn_timer'[player] = turn_timer[player]
      BY <1>4, <2>2, <3>1
    <3>3. RoundsLeft' = RoundsLeft
      BY <1>5, <2>1, <3>2 DEF RoundsLeft
    <3>4. PlacesLeft = n - m_entityIndex
      BY <2>4 DEF PlacesLeft
    <3>5. PlacesLeft' = IF m_entityIndex' = 0 THEN 0 ELSE n - m_entityIndex'
      BY <2>1 DEF PlacesLeft
    <3>6. m_entityIndex' = IF m_entityIndex + 1 >= n THEN 0 ELSE m_entityIndex + 1
      BY <2>1 DEF NextIndex
    <3>7. PlacesLeft' < PlacesLeft
      <4> HIDE DEF n
      <4> QED BY <1>1, <2>4, <3>4, <3>5, <3>6
    <3> QED BY <2>1, <3>3, <3>7
  <2> QED BY <2>3, <2>4
<1>7. CASE PokemonTurn
  <2>1. /\ e # player /\ turn_timer[e] <= 0 /\ input' = input
        /\ turn_timer' = [turn_timer EXCEPT ![e] = @ + kTurnTimer]
        /\ \E step \in kSteps : Step(e, step)
    BY <1>7 DEF PokemonTurn, turnReady, wait
  <2>2. m_entities' = m_entities /\ m_entityIndex' = m_entityIndex
    BY <2>1 DEF Step, moveEntity, boardVars
  <2>3. turn_timer'[player] = turn_timer[player]
    BY <1>4, <2>1
  <2>4. RoundsLeft' = RoundsLeft
    BY <1>5, <2>1, <2>3 DEF RoundsLeft
  <2>5. PlacesLeft' = PlacesLeft
    BY <2>2 DEF PlacesLeft
  <2>6. ActiveEntity' = e
    BY <2>2 DEF ActiveEntity
  <2>7. TurnsLeft = 1
    BY <1>3, <2>1 DEF TurnsLeft, turnReady
  <2>8. TurnsLeft' = 0
    <3>1. turn_timer'[e] = turn_timer[e] + kTurnTimer
      BY <1>4, <2>1
    <3>2. -Charge[e] < turn_timer[e] /\ turn_timer[e] \in Int /\ Charge[e] \in Nat /\ Charge[e] <= kTurnTimer /\ kTurnTimer \in Nat
      BY <1>4, ConstantFacts DEF GameInv, TimersBounded
    <3>3. ~(turn_timer'[e] <= 0)
      BY <3>1, <3>2
    <3>4. ~turnReady(ActiveEntity)'
      BY <2>6, <3>3 DEF turnReady
    <3> QED BY <3>4 DEF TurnsLeft
  <2> QED BY <2>2, <2>4, <2>5, <2>7, <2>8
<1>8. CASE PlayerTurn
  <2>1. input # NoAction /\ input' = NoAction /\ Step(player, input)
    BY <1>8 DEF PlayerTurn
  <2>2. m_entities' = m_entities
    BY <2>1 DEF Step, moveEntity, boardVars
  <2>3. ChargesLeft(turn_timer[player]) \in Nat
    BY <1>1, ChargesRunDown
  <2>4. RoundsLeft = ChargesLeft(turn_timer[player]) + (Rounds + 1) /\ RoundsLeft' = ChargesLeft(turn_timer'[player]) + 0
    BY <1>5, <2>1 DEF RoundsLeft
  <2> DEFINE x == ChargesLeft(turn_timer[player])
             y == ChargesLeft(turn_timer'[player])
  <2>5. x \in Nat /\ y \in Nat /\ y <= Rounds
    BY <1>2, <2>3
  <2> HIDE DEF x, y
  <2>6. y + 0 < x + (Rounds + 1)
    BY <1>1, <2>5
  <2> QED BY <2>2, <2>4, <2>6 DEF x, y
<1> QED
  BY <1>6, <1>7, <1>8 DEF GameNext, Tick, PlacePokemon, EndSetup, Press, BeginTick, PlayerWaits, PlayerBumps, Render

(* The safety half of TickEnds, for any number of entities and all speeds: *)
(* updateState's loop takes a bounded number of iterations.  That a step   *)
(* of it is always possible and taken is left to the model checker.        *)
THEOREM TurnLoopEnds == GameSpec => TurnLoopRunsDown
<1> DEFINE Parts == /\ RoundsLeft \in Nat
                    /\ PlacesLeft \in 0 .. Len(m_entities) - 1
                    /\ TurnsLeft \in 0 .. 1
<1>1. GameInv => Parts
  BY LoopLeftParts
<1>2. GameInv' => Parts'
  BY <1>1, PTL
<1>3. ASSUME GameInv, GameInv', ActionIsDue, ActionIsDue', [GameNext]_gameVars, ~UNCHANGED gameVars,
             phase = "turns", phase' = "turns"
      PROVE  /\ LoopLeft \in 0 .. 2 * (Len(m_entities) * (Rounds + 1))
             /\ LoopLeft' \in 0 .. LoopLeft - 1
  <2>1. LoopLeft \in 0 .. 2 * (Len(m_entities) * (Rounds + 1))
    BY <1>3, LoopLeftBounded
  <2> DEFINE l == Len(m_entities)
             a == RoundsLeft
             b == PlacesLeft
             c == TurnsLeft
             u == RoundsLeft'
             v == PlacesLeft'
             w == TurnsLeft'
  <2>2. l \in Nat \ {0} /\ a \in Nat /\ b \in 0 .. l - 1 /\ c \in 0 .. 1
    BY <1>3, LoopLeftParts
  <2>3. /\ Len(m_entities') = l
        /\ (u < a) \/ (u = a /\ v < b) \/ (u = a /\ v = b /\ w < c)
    BY <1>3, IterationRunsDown
  <2>4. u \in Nat /\ v \in 0 .. Len(m_entities') - 1 /\ w \in 0 .. 1
    BY <1>3, <1>2
  <2>5. LoopLeft = 2 * (l * a + b) + c /\ LoopLeft' = 2 * (l * u + v) + w
    BY <2>3 DEF LoopLeft
  <2>6. v \in 0 .. l - 1
    BY <2>3, <2>4
  <2> HIDE DEF l, a, b, c, u, v, w
  <2>7. 2 * (l * u + v) + w \in 0 .. (2 * (l * a + b) + c) - 1
    BY <2>2, <2>3, <2>4, <2>6, PartsDecrease
  <2> QED BY <2>1, <2>5, <2>7
<1>4. GameInv /\ GameInv' /\ ActionIsDue /\ ActionIsDue' /\ [GameNext]_gameVars =>
        [phase = "turns" /\ phase' = "turns" =>
           /\ LoopLeft \in 0 .. 2 * (Len(m_entities) * (Rounds + 1))
           /\ LoopLeft' \in 0 .. LoopLeft - 1]_gameVars
  BY <1>3
<1> QED BY <1>4, GameInvariance, ActionAlwaysDue, PTL DEF GameSpec, TurnLoopRunsDown

-----------------------------------------------------------------------------
(* No Pokemon is passed over.  The places of the queue until the kth, and  *)
(* how many times the loop has still to move on before that entity acts.   *)
Ahead(k) ==
  IF k - 1 >= m_entityIndex
  THEN (k - 1) - m_entityIndex
  ELSE (k - 1) - m_entityIndex + Len(m_entities)

WaitLeft(k) ==
  Len(m_entities) * ChargesOf(m_entities[k], turn_timer[m_entities[k]]) + Ahead(k)

(* Whenever the queue moves on, every Pokemon's wait is one shorter; only  *)
(* its own turn ends it, nothing makes it longer, and when it is over the  *)
(* next step of the loop is that turn.  A wait is never longer than the    *)
(* rounds its speed takes to pay for a turn, and one more.                 *)
WaitsRunDown ==
  [][phase # "setup" =>
       \A k \in 2 .. Len(m_entities) :
         /\ WaitLeft(k) \in 0 .. Len(m_entities) * (RoundsOf(m_entities[k]) + 1) - 1
         /\ \/ m_entityIndex' # m_entityIndex /\ WaitLeft(k)' = WaitLeft(k) - 1 /\ WaitLeft(k) > 0
            \/ WaitLeft(k) = 0 /\ turns'[m_entities[k]] = turns[m_entities[k]] + 1
            \/ /\ m_entityIndex' = m_entityIndex /\ WaitLeft(k)' = WaitLeft(k)
               /\ phase = "turns" => WaitLeft(k) > 0]_gameVars

LEMMA WaitFacts ==
  ASSUME GameInv, NEW k \in 2 .. Len(m_entities)
  PROVE  /\ Len(m_entities) \in Nat /\ Len(m_entities) >= 2
         /\ m_entityIndex \in 0 .. Len(m_entities) - 1
         /\ Ahead(k) \in 0 .. Len(m_entities) - 1
         /\ Ahead(k) = 0 <=> k = m_entityIndex + 1
         /\ m_entityIndex = 0 => Ahead(k) > 0
         /\ m_entities[k] \in Entity /\ m_entities[k] # player
         /\ turn_timer[m_entities[k]] \in Int /\ turn_timer[m_entities[k]] <= kTurnTimer
         /\ k \in 1 .. Len(m_entities)
<1> DEFINE n == Len(m_entities)
           x == m_entityIndex
<1>1. n \in Nat /\ x \in Nat /\ x + 1 \in 1 .. n
  BY IndexFacts
<1>2. k \in 1 .. n /\ n >= 2 /\ x \in 0 .. n - 1
  <2> HIDE DEF n, x
  <2> QED BY <1>1 DEF n
<1>3. /\ m_entities[k] \in Entity /\ m_entities[k] # player
      /\ turn_timer[m_entities[k]] \in Int /\ turn_timer[m_entities[k]] <= kTurnTimer
  BY <1>2, QueueFacts
<1>4. Ahead(k) = IF k - 1 >= x THEN (k - 1) - x ELSE (k - 1) - x + n
  BY DEF Ahead
<1>5. k \in 2 .. n
  OBVIOUS
<1> DEFINE d == Ahead(k)
<1> HIDE DEF n, x, d
<1>6. d = IF k - 1 >= x THEN (k - 1) - x ELSE (k - 1) - x + n
  BY <1>4 DEF d
<1>7. /\ d \in 0 .. n - 1 /\ (d = 0 <=> k = x + 1) /\ (x = 0 => d > 0)
  BY <1>1, <1>2, <1>5, <1>6
<1> QED BY <1>1, <1>2, <1>3, <1>7 DEF n, x, d

LEMMA WaitBounded ==
  ASSUME GameInv, NEW k \in 2 .. Len(m_entities)
  PROVE  /\ WaitLeft(k) \in 0 .. Len(m_entities) * (RoundsOf(m_entities[k]) + 1) - 1
         /\ Ahead(k) > 0 => WaitLeft(k) > 0
         /\ Ahead(k) = 0 /\ turn_timer[m_entities[k]] <= 0 => WaitLeft(k) = 0
         /\ turn_timer[m_entities[k]] > 0 => WaitLeft(k) > 0
<1> DEFINE n == Len(m_entities)
           e == m_entities[k]
           t == turn_timer[e]
           c == ChargesOf(e, t)
           R == RoundsOf(e)
           d == Ahead(k)
<1>1. n \in Nat /\ n >= 2 /\ d \in 0 .. n - 1 /\ e \in Entity /\ t \in Int /\ t <= kTurnTimer
  BY WaitFacts
<1>2. c \in Nat /\ R \in Nat /\ c <= R
  BY <1>1, ChargesOfRunDown
<1>3. t <= 0 => c = 0
  BY DEF ChargesOf
<1>4. t > 0 => c >= 1
  <2>1. ASSUME t > 0 PROVE ChargesOf(e, t - Charge[e]) = c - 1
    BY <1>1, <2>1, ChargesOfRunDown
  <2>2. t - Charge[e] \in Int
    BY <1>1, ConstantFacts
  <2>3. ChargesOf(e, t - Charge[e]) \in Nat
    BY <1>1, <2>2, ChargesOfRunDown
  <2> HIDE DEF c, t
  <2> QED BY <1>2, <2>1, <2>3
<1>5. WaitLeft(k) = n * c + d
  BY DEF WaitLeft
<1> HIDE DEF n, e, t, c, R, d
<1>6. n * c \in Nat /\ n * (R + 1) = n * R + n /\ n * c <= n * R /\ n * R \in Nat
  <2>1. n * c = c * n /\ n * R = R * n /\ n * c \in Nat /\ n * R \in Nat /\ n * (R + 1) = n * R + n
    BY <1>1, <1>2
  <2>2. c * n <= R * n
    BY <1>1, <1>2, ProductGrows
  <2> QED BY <2>1, <2>2
<1>7. c >= 1 => n * c >= n
  <2>1. ASSUME c >= 1 PROVE 1 * n <= c * n
    BY <1>1, <1>2, <2>1, ProductGrows
  <2>2. 1 * n = n /\ c * n = n * c
    BY <1>1, <1>2
  <2> QED BY <2>1, <2>2
<1>8. c = 0 => n * c = 0
  BY <1>1
<1>9. n * c + d \in 0 .. n * (R + 1) - 1
  BY <1>1, <1>6
<1>10. d > 0 => n * c + d > 0
  BY <1>1, <1>6
<1>11. d = 0 /\ t <= 0 => n * c + d = 0
  BY <1>3, <1>8
<1>12. t > 0 => n * c + d > 0
  BY <1>1, <1>4, <1>6, <1>7
<1> QED BY <1>5, <1>9, <1>10, <1>11, <1>12 DEF n, e, t, c, R, d

(* The queue moves on by one.                                              *)
LEMMA WaitSkips ==
  ASSUME GameInv, Skip, NEW k \in 2 .. Len(m_entities)
  PROVE  m_entityIndex' # m_entityIndex /\ WaitLeft(k)' = WaitLeft(k) - 1 /\ WaitLeft(k) > 0
<1> DEFINE n == Len(m_entities)
           x == m_entityIndex
           e == m_entities[k]
           t == turn_timer[e]
           c == ChargesOf(e, t)
           d == Ahead(k)
           d1 == Ahead(k)'
           x1 == m_entityIndex'
           c1 == ChargesOf(e, turn_timer'[e])
<1>1. /\ n \in Nat /\ n >= 2 /\ x \in 0 .. n - 1 /\ d \in 0 .. n - 1 /\ k \in 1 .. n
      /\ e \in Entity /\ e # player /\ t \in Int /\ (d = 0 <=> k = x + 1)
  BY WaitFacts
<1>2. /\ ~(turn_timer[ActiveEntity] <= 0)
      /\ turn_timer' = Charged(turn_timer, ActiveEntity) /\ m_entities' = m_entities
      /\ x1 = NextIndex(x)
  BY DEF Skip, turnReady, advanceEntity
<1>3. ActiveEntity = m_entities[x + 1] /\ x + 1 \in 1 .. n
  BY <1>1 DEF ActiveEntity
<1>4. ActiveEntity \in Entity /\ turn_timer[ActiveEntity] \in Int /\ turn_timer[ActiveEntity] > 0
  BY <1>2, <1>3, QueueFacts
<1>5. turn_timer' = [turn_timer EXCEPT ![ActiveEntity] = @ - Charge[ActiveEntity]]
      /\ turn_timer \in [Entity -> Int]
  BY <1>2, <1>4 DEF Charged, GameInv, TimersTyped
<1>6. ActiveEntity = e <=> k = x + 1
  BY <1>1, <1>3, QueueFacts
<1>7. x1 = IF x + 1 >= n THEN 0 ELSE x + 1
  BY <1>2 DEF NextIndex
<1>8. /\ d = IF k - 1 >= x THEN (k - 1) - x ELSE (k - 1) - x + n
      /\ d1 = IF k - 1 >= x1 THEN (k - 1) - x1 ELSE (k - 1) - x1 + n
  BY <1>2 DEF Ahead
<1>9. WaitLeft(k) = n * c + d /\ WaitLeft(k)' = n * c1 + d1
  BY <1>2 DEF WaitLeft, ChargesOf
<1>10. c \in Nat
  BY <1>1, ChargesOfRunDown
<1>11. x1 # x
  <2> HIDE DEF n, x, x1
  <2> QED BY <1>1, <1>7
<1>12. CASE k = x + 1
  <2>1. e = ActiveEntity
    BY <1>6, <1>12
  <2>2. turn_timer'[e] = t - Charge[e] /\ t > 0
    BY <1>1, <1>4, <1>5, <2>1
  <2>3. c1 = c - 1
    BY <1>1, <2>2, ChargesOfRunDown
  <2>4. d = 0 /\ d1 = n - 1
    <3> HIDE DEF n, x, x1, d, d1
    <3> QED BY <1>1, <1>7, <1>8, <1>12
  <2>5. WaitLeft(k) > 0
    BY <2>2, WaitBounded
  <2> HIDE DEF n, c, c1, d, d1
  <2>6. n * (c - 1) = n * c - n /\ n * c \in Int
    BY <1>1, <1>10
  <2>7. n * c1 + d1 = (n * c + d) - 1
    BY <1>1, <2>3, <2>4, <2>6
  <2> QED BY <1>9, <1>11, <2>5, <2>7 DEF x, x1
<1>13. CASE k # x + 1
  <2>1. e # ActiveEntity
    BY <1>6, <1>13
  <2>2. turn_timer'[e] = t
    BY <1>1, <1>5, <2>1
  <2>3. c1 = c
    BY <2>2
  <2>4. d1 = d - 1 /\ d > 0
    <3> HIDE DEF n, x, x1, d, d1
    <3> QED BY <1>1, <1>7, <1>8, <1>13
  <2>5. WaitLeft(k) > 0
    BY <2>4, WaitBounded
  <2> HIDE DEF n, c, c1, d, d1
  <2>6. n * c \in Int /\ d \in Int
    BY <1>1, <1>10
  <2>7. n * c1 + d1 = (n * c + d) - 1
    BY <1>1, <2>3, <2>4, <2>6
  <2> QED BY <1>9, <1>11, <2>5, <2>7 DEF x, x1
<1> QED BY <1>12, <1>13

(* The queue stays where it is.                                            *)
LEMMA WaitStays ==
  ASSUME GameInv, NEW k \in 2 .. Len(m_entities),
         m_entities' = m_entities, m_entityIndex' = m_entityIndex,
         turn_timer'[m_entities[k]] = turn_timer[m_entities[k]]
  PROVE  WaitLeft(k)' = WaitLeft(k)
  BY DEF WaitLeft, Ahead, ChargesOf

(* The safety half of NoPokemonStarves, for any number of entities and all *)
(* speeds: in updateState's loop every Pokemon gets its turn after a       *)
(* bounded number of moves of the queue, however the others act.           *)
THEOREM NoPokemonIsPassedOver == GameSpec => WaitsRunDown
<1> DEFINE Waits(k) ==
      /\ WaitLeft(k) \in 0 .. Len(m_entities) * (RoundsOf(m_entities[k]) + 1) - 1
      /\ \/ m_entityIndex' # m_entityIndex /\ WaitLeft(k)' = WaitLeft(k) - 1 /\ WaitLeft(k) > 0
         \/ WaitLeft(k) = 0 /\ turns'[m_entities[k]] = turns[m_entities[k]] + 1
         \/ /\ m_entityIndex' = m_entityIndex /\ WaitLeft(k)' = WaitLeft(k)
            /\ phase = "turns" => WaitLeft(k) > 0
<1>1. ASSUME GameInv, GameNext, phase # "setup", NEW k \in 2 .. Len(m_entities)
      PROVE  Waits(k)
  <2> DEFINE e == m_entities[k]
  <2>1. WaitLeft(k) \in 0 .. Len(m_entities) * (RoundsOf(m_entities[k]) + 1) - 1
    BY <1>1, WaitBounded
  <2>2. /\ e \in Entity /\ e # player /\ turn_timer \in [Entity -> Int] /\ turns \in [Entity -> Nat]
        /\ (Ahead(k) = 0 <=> k = m_entityIndex + 1) /\ (m_entityIndex = 0 => Ahead(k) > 0)
        /\ Ahead(k) \in Nat
    BY <1>1, WaitFacts DEF GameInv, TimersTyped, GameTypes
  <2>3. ActiveEntity = player <=> m_entityIndex = 0
    BY <1>1, IndexFacts
  <2>4. ActiveEntity = player => WaitLeft(k) > 0
    BY <1>1, <2>2, <2>3, WaitBounded
  <2>5. CASE Skip
    BY <1>1, <2>1, <2>5, WaitSkips
  <2>6. CASE PokemonTurn
    <3>1. /\ ActiveEntity # player /\ turn_timer[ActiveEntity] <= 0
          /\ turn_timer' = [turn_timer EXCEPT ![ActiveEntity] = @ + kTurnTimer]
          /\ turns' = [turns EXCEPT ![ActiveEntity] = @ + 1]
          /\ \E step \in kSteps : Step(ActiveEntity, step)
      BY <2>6 DEF PokemonTurn, turnReady, wait
    <3>2. m_entities' = m_entities /\ m_entityIndex' = m_entityIndex
      BY <3>1 DEF Step, moveEntity, boardVars
    <3>3. ActiveEntity = e <=> k = m_entityIndex + 1
      <4>1. /\ ActiveEntity = m_entities[m_entityIndex + 1] /\ k \in 1 .. Len(m_entities)
            /\ m_entityIndex + 1 \in 1 .. Len(m_entities)
        BY <1>1, IndexFacts, WaitFacts DEF ActiveEntity
      <4> QED BY <1>1, <4>1, QueueFacts
    <3>4. CASE ActiveEntity = e
      <4>1. WaitLeft(k) = 0
        BY <1>1, <2>2, <3>1, <3>3, <3>4, WaitBounded
      <4>2. turns'[e] = turns[e] + 1
        BY <2>2, <3>1, <3>4
      <4> QED BY <2>1, <4>1, <4>2
    <3>5. CASE ActiveEntity # e
      <4>1. turn_timer'[e] = turn_timer[e]
        BY <2>2, <3>1, <3>5
      <4>2. WaitLeft(k)' = WaitLeft(k)
        BY <1>1, <3>2, <4>1, WaitStays
      <4>3. Ahead(k) > 0
        BY <2>2, <3>3, <3>5
      <4>4. WaitLeft(k) > 0
        BY <1>1, <4>3, WaitBounded
      <4> QED BY <2>1, <3>2, <4>2, <4>4
    <3> QED BY <3>4, <3>5
  <2>7. CASE PlayerTurn
    <3>1. /\ ActiveEntity = player /\ Step(player, input)
          /\ turn_timer' = [turn_timer EXCEPT ![player] = @ + kTurnTimer]
      BY <2>7 DEF PlayerTurn, wait
    <3>2. m_entities' = m_entities /\ m_entityIndex' = m_entityIndex
      BY <3>1 DEF Step, moveEntity, boardVars
    <3>3. turn_timer'[e] = turn_timer[e]
      BY <2>2, <3>1
    <3>4. WaitLeft(k)' = WaitLeft(k)
      BY <1>1, <3>2, <3>3, WaitStays
    <3> QED BY <2>1, <2>4, <3>1, <3>2, <3>4
  <2>8. CASE BeginTick \/ PlayerWaits \/ PlayerBumps \/ Render \/ \E key \in Key : Press(key)
    <3>1. UNCHANGED <<m_entities, m_entityIndex, turn_timer>>
      BY <2>8 DEF BeginTick, PlayerWaits, PlayerBumps, Render, Press, getVision, vars, boardVars, timers
    <3>2. WaitLeft(k)' = WaitLeft(k)
      BY <1>1, <3>1, WaitStays
    <3>3. phase = "turns" => ActiveEntity = player
      BY <2>8 DEF BeginTick, PlayerWaits, PlayerBumps, Render, Press
    <3> QED BY <2>1, <2>4, <3>1, <3>2, <3>3
  <2>9. ~PlacePokemon /\ ~EndSetup
    BY <1>1 DEF PlacePokemon, EndSetup
  <2> QED BY <1>1, <2>5, <2>6, <2>7, <2>8, <2>9 DEF GameNext, Tick
<1> DEFINE Step1 == phase # "setup" => \A k \in 2 .. Len(m_entities) : Waits(k)
<1>2. GameInv /\ [GameNext]_gameVars => [Step1]_gameVars
  <2> HIDE DEF Waits
  <2> QED BY <1>1
<1>3. WaitsRunDown <=> [][Step1]_gameVars
  BY DEF WaitsRunDown
<1> HIDE DEF Step1
<1> QED BY <1>2, <1>3, GameInvariance, PTL DEF GameSpec
=============================================================================
