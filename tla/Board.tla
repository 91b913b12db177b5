------------------------------- MODULE Board -------------------------------
(***************************************************************************)
(* struct Board of game.h and game.cpp: the tiles, the entities and where  *)
(* they stand, the round-robin index of the active entity, and the cache   *)
(* of fields of vision that writes mark dirty and getVision refreshes.     *)
(*                                                                         *)
(* The fields of an Entity that the board reads or writes are variables    *)
(* indexed by entity.  A pointer to an entity is its identity.             *)
(***************************************************************************)
EXTENDS Sight, Sequences

CONSTANTS
  Entity,              \* the entities that may be created
  NoEntity,            \* the null pointer
  Size,                \* the size of the board
  Charge,              \* what one turn of the queue pays off an entity's timers
  View(_, _)           \* the matrix getVision fills for a map and a position

Cells == CellsOf(Size)

TileMap == [Cells -> Tile]

ASSUME BoardAssumption ==
  /\ Size \in Point
  /\ NoEntity \notin Entity
  /\ Charge \in [Entity -> Nat]

(* getVision's traversal computes the field of vision: FieldOfVision.      *)
ASSUME ViewAssumption ==
  \A m \in TileMap, p \in Cells : IsView(m, p, View(m, p))

VARIABLES
  m_map,               \* the tile of each cell
  m_entities,          \* the entities, in the order they were added
  m_entityIndex,       \* the active entity's index, from 0
  m_entityAtPos,       \* the owner map: for each cell an entity or NoEntity
  m_vision,            \* for each entity its Vision or NoVision
  pos,                 \* Entity::pos
  move_timer,          \* Entity::move_timer
  turn_timer           \* Entity::turn_timer

timers == <<move_timer, turn_timer>>

boardVars == <<m_map, m_entities, m_entityIndex, m_entityAtPos, m_vision, pos>>

vars == <<boardVars, timers>>

Vision == [offset : Point, dirty : BOOLEAN, visibility : [VisionCells -> Int]]

NoVision == [none |-> TRUE]

Listed == {m_entities[k] : k \in 1 .. Len(m_entities)}

-----------------------------------------------------------------------------
(* Reads.                                                                  *)
Status == {"Free", "Blocked", "Occupied"}

(* m_entityAtPos has no entry outside the board.                           *)
EntityAt(p) == MatrixGet(m_entityAtPos, NoEntity, p)

getStatus(p) ==
  IF FlagBlocked(TileAt(m_map, p))
  THEN "Blocked"
  ELSE IF EntityAt(p) # NoEntity THEN "Occupied" ELSE "Free"

ActiveEntity == m_entities[m_entityIndex + 1]

visibilityAt(vision, p) == MatrixGet(vision.visibility, -1, Plus(p, vision.offset))

canSee(vision, p) == visibilityAt(vision, p) >= 0

-----------------------------------------------------------------------------
(* dirtyVision: without a target, or with one that the cached vision sees. *)
Dirty(vision) == [vision EXCEPT !.dirty = TRUE]

DirtyNever(vision) == vision

DirtyVision(vision) == IF vision = NoVision THEN vision ELSE Dirty(vision)

DirtyIfSeen(vision, p) ==
  IF vision = NoVision \/ vision.dirty \/ ~canSee(vision, p) THEN vision ELSE Dirty(vision)

(* Two tiles look the same to a field of vision.                           *)
SameBlockedOnly(t, u) == FlagBlocked(t) = FlagBlocked(u)

SameFlags(t, u) == FlagBlocked(t) = FlagBlocked(u) /\ FlagObscure(t) = FlagObscure(u)

-----------------------------------------------------------------------------
(* Writes.  The operations of a board leave the timers of the entities     *)
(* alone, except advanceEntity.                                            *)

(* The empty board of the constructor.                                     *)
Init ==
  /\ m_map = [p \in Cells |-> "tree"]
  /\ m_entities = <<>>
  /\ m_entityIndex = 0
  /\ m_entityAtPos = [p \in Cells |-> NoEntity]
  /\ m_vision = [e \in Entity |-> NoVision]
  /\ pos = [e \in Entity |-> origin]
  /\ move_timer = [e \in Entity |-> 0]
  /\ turn_timer = [e \in Entity |-> 0]

clearAllTiles ==
  /\ m_map' = [p \in Cells |-> "grass"]
  /\ UNCHANGED <<m_entities, m_entityIndex, m_entityAtPos, m_vision, pos>>

setTile(p, tile) ==
  /\ p \in Cells
  /\ m_map' = [m_map EXCEPT ![p] = tile]
  /\ m_vision' = [e \in Entity |->
                    IF e \in Listed /\ ~SameFlags(m_map[p], tile)
                    THEN DirtyIfSeen(m_vision[e], p)
                    ELSE m_vision[e]]
  /\ UNCHANGED <<m_entities, m_entityIndex, m_entityAtPos, pos>>

(* addEntity, of an entity whose constructor has just placed it at p.      *)
addEntity(e, p) ==
  /\ e \notin Listed
  /\ m_entities' = Append(m_entities, e)
  /\ m_entityAtPos' = [m_entityAtPos EXCEPT ![p] = e]
  /\ pos' = [pos EXCEPT ![e] = p]
  /\ UNCHANGED <<m_map, m_entityIndex, m_vision>>

moveKeepingOwner(e, to) ==
  /\ m_entityAtPos' = [m_entityAtPos EXCEPT ![to] = e]
  /\ pos' = [pos EXCEPT ![e] = to]
  /\ m_vision' = [m_vision EXCEPT ![e] = DirtyVision(@)]
  /\ UNCHANGED <<m_map, m_entities, m_entityIndex>>

moveEntity(e, to) ==
  /\ m_entityAtPos' = [m_entityAtPos EXCEPT ![pos[e]] = NoEntity, ![to] = e]
  /\ pos' = [pos EXCEPT ![e] = to]
  /\ m_vision' = [m_vision EXCEPT ![e] = DirtyVision(@)]
  /\ UNCHANGED <<m_map, m_entities, m_entityIndex>>

(* The owner map drops the entity; m_entities keeps the pointer.           *)
removeEntity(e) ==
  /\ EntityAt(pos[e]) = e
  /\ m_entityAtPos' = [m_entityAtPos EXCEPT ![pos[e]] = NoEntity]
  /\ m_vision' = [m_vision EXCEPT ![e] = NoVision]
  /\ UNCHANGED <<m_map, m_entities, m_entityIndex, pos>>

(* charge: a timer that is positive is paid off, possibly below zero.      *)
ChargedAlways(timer, e) == [timer EXCEPT ![e] = @ - Charge[e]]

ChargedNever(timer, e) == timer

Charged(timer, e) == IF timer[e] > 0 THEN [timer EXCEPT ![e] = @ - Charge[e]] ELSE timer

(* The index of the next entity in the queue.                              *)
NextIndexUnwrapped(n) == n + 1

NextIndexBackwards(n) == n - 1

NextIndexSkipsLast(n) == IF n + 2 >= Len(m_entities) THEN 0 ELSE n + 1

NextIndex(n) == IF n + 1 >= Len(m_entities) THEN 0 ELSE n + 1

advanceEntity ==
  /\ m_entities # <<>>
  /\ move_timer' = Charged(move_timer, ActiveEntity)
  /\ turn_timer' = Charged(turn_timer, ActiveEntity)
  /\ m_entityIndex' = NextIndex(m_entityIndex)
  /\ UNCHANGED <<m_map, m_entities, m_entityAtPos, m_vision, pos>>

(* The vision getVision returns: the cached one, or a new one when there   *)
(* is none or it is dirty.                                                 *)
VisionOf(e) ==
  IF m_vision[e] # NoVision /\ ~m_vision[e].dirty
  THEN m_vision[e]
  ELSE [offset |-> Minus(Centre, pos[e]), dirty |-> FALSE, visibility |-> View(m_map, pos[e])]

getVision(e) ==
  /\ m_vision' = [m_vision EXCEPT ![e] = VisionOf(e)]
  /\ UNCHANGED <<m_map, m_entities, m_entityIndex, m_entityAtPos, pos>>

-----------------------------------------------------------------------------
(* What the rest of the program may ask of a board.  The tiles are cleared *)
(* before the first entity is added (State::State); an entity is added or  *)
(* moved to a free cell (State::State, act); tiles may be set at any time. *)
(* Nothing calls removeEntity yet: it is in NextWithRemoval only.          *)
ClearAllTiles == m_entities = <<>> /\ clearAllTiles /\ UNCHANGED timers

SetTile == \E p \in Cells, tile \in Tile : setTile(p, tile) /\ UNCHANGED timers

AddEntity ==
  \E e \in Entity, p \in Cells :
    getStatus(p) = "Free" /\ addEntity(e, p) /\ UNCHANGED timers

MoveEntity ==
  \E e \in Listed, to \in Cells :
    getStatus(to) = "Free" /\ moveEntity(e, to) /\ UNCHANGED timers

GetVision == \E e \in Listed : getVision(e) /\ UNCHANGED timers

RemoveEntity == \E e \in Listed : removeEntity(e) /\ UNCHANGED timers

Next ==
  \/ ClearAllTiles
  \/ SetTile
  \/ AddEntity
  \/ MoveEntity
  \/ advanceEntity
  \/ GetVision

Spec == Init /\ [][Next]_vars

NextWithRemoval == Next \/ RemoveEntity

SpecWithRemoval == Init /\ [][NextWithRemoval]_vars

-----------------------------------------------------------------------------
BoardTypeOK ==
  /\ m_map \in TileMap
  /\ m_entities \in Seq(Entity)
  /\ m_entityIndex \in Nat
  /\ m_entityAtPos \in [Cells -> Entity \cup {NoEntity}]
  /\ m_vision \in [Entity -> Vision \cup {NoVision}]
  /\ pos \in [Entity -> Point]

TypeOK ==
  /\ BoardTypeOK
  /\ move_timer \in [Entity -> Int]
  /\ turn_timer \in [Entity -> Int]

(* The owner map and the positions kept in the entities are one relation:  *)
(* every listed entity is owned by the cell it believes it stands on and   *)
(* no other cell owns anything.  These are the asserts of addEntity and    *)
(* moveEntity, and no two entities share a cell.                           *)
OwnersMatchPositions ==
  /\ \A e \in Listed : pos[e] \in Cells /\ m_entityAtPos[pos[e]] = e
  /\ \A p \in Cells :
       m_entityAtPos[p] # NoEntity => m_entityAtPos[p] \in Listed /\ pos[m_entityAtPos[p]] = p

(* getActiveEntity's assert: the index is in range whenever there is an    *)
(* entity, and the queue holds no entity twice, so that none gets two      *)
(* turns in a round.                                                       *)
QueueInOrder ==
  /\ m_entities # <<>> => m_entityIndex < Len(m_entities)
  /\ \A k, l \in 1 .. Len(m_entities) : m_entities[k] = m_entities[l] => k = l

(* A vision that is not dirty is the field of vision from where its entity *)
(* stands now on the map as it is now: dirtyVision misses no write that    *)
(* matters, although setTile dirties only the visions that see the tile.   *)
CleanVisionIsCurrent ==
  \A e \in Entity :
    m_vision[e] # NoVision /\ ~m_vision[e].dirty =>
      /\ m_vision[e].offset = Minus(Centre, pos[e])
      /\ IsView(m_map, pos[e], m_vision[e].visibility)

(* The entity getActiveEntity returns is the one its cell owns: what the   *)
(* asserts at the top of moveEntity (game.cpp:207-208) demand of the       *)
(* entity the turn loop is about to move.                                  *)
ActiveEntityIsOwned ==
  m_entities # <<>> => EntityAt(pos[ActiveEntity]) = ActiveEntity
=============================================================================
