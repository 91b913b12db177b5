-------------------------------- MODULE Game --------------------------------
(***************************************************************************)
(* State and IO of game.h and game.cpp: the construction of a world, the   *)
(* turn loop that updateState runs on every tick over the board's queue of *)
(* entities, the player's keys, and the frame that render draws.           *)
(*                                                                         *)
(* The game is one thread.  Between two ticks (phase "idle") the terminal  *)
(* may append keys to inputs; a tick is BeginTick, some turns of the loop  *)
(* and Render.  Entity::removed is false from its constructor on, nothing  *)
(* assigns it, so the loop's test of it is left out.                       *)
(***************************************************************************)
EXTENDS Board, FiniteSets

CONSTANTS
  player,              \* the player's Trainer; every other entity is a Pokemon
  Worlds,              \* the maps initBoard may leave
  Key,                 \* the keys the terminal may deliver
  Dir,                 \* the step of each key that processInput knows
  NoAction,            \* an empty MaybeAction
  kTurnTimer,          \* 120 in game.cpp
  kPokemon,            \* how many Pokemon State::State tries to place, 5 in game.cpp
  MaxInputs            \* bound on the keys waiting in inputs

Start == Pt(Size.x \div 2, Size.y \div 2)

ASSUME GameAssumption ==
  /\ player \in Entity
  /\ Worlds \subseteq {m \in TileMap : ~FlagBlocked(TileAt(m, Start))}
  /\ DOMAIN Dir \subseteq Key
  /\ \A k \in DOMAIN Dir : Dir[k] \in Point
  /\ NoAction \notin Point
  /\ kTurnTimer \in Nat \ {0}
  /\ \A e \in Entity : Charge[e] \in 1 .. kTurnTimer
  /\ kPokemon \in Nat
  /\ MaxInputs \in Nat

VARIABLES
  phase,               \* "setup", "idle", "turns" or "render"
  tries,               \* how many Pokemon the constructor has tried to place
  input,               \* State::input: the player's next step, or NoAction
  inputs,              \* IO::inputs: the keys not processed yet
  frame,               \* IO::frame
  turns                \* history: turns of each entity since the player's last

gameVars == <<vars, phase, tries, input, inputs, frame, turns>>

kSteps == {Pt(x, y) : x \in -1 .. 1, y \in -1 .. 1} \ {origin}

-----------------------------------------------------------------------------
(* The constructor: a world whose start is free, the player on it, and up  *)
(* to kPokemon Pokemon on free cells.  A hundred random cells may all fail *)
(* to be free, so a Pokemon may be left out.                               *)
FrameCells == CellsOf(Pt(2 * Size.x, Size.y))

GameInit ==
  /\ m_map \in Worlds
  /\ m_entities = <<player>>
  /\ m_entityIndex = 0
  /\ m_entityAtPos = [p \in Cells |-> IF p = Start THEN player ELSE NoEntity]
  /\ m_vision = [e \in Entity |-> NoVision]
  /\ pos = [e \in Entity |-> IF e = player THEN Start ELSE origin]
  /\ move_timer = [e \in Entity |-> 0]
  /\ turn_timer = [e \in Entity |-> 0]
  /\ phase = "setup"
  /\ tries = 0
  /\ input = NoAction
  /\ inputs = <<>>
  /\ frame = [c \in FrameCells |-> "none"]
  /\ turns = [e \in Entity |-> 0]

MorePokemonByOne == tries <= kPokemon

MorePokemon == tries < kPokemon

PlacePokemon ==
  /\ phase = "setup"
  /\ MorePokemon
  /\ tries' = tries + 1
  /\ \/ \E e \in Entity \ {player}, p \in Cells : getStatus(p) = "Free" /\ addEntity(e, p)
     \/ UNCHANGED boardVars
  /\ UNCHANGED <<timers, phase, input, inputs, frame, turns>>

EndSetup ==
  /\ phase = "setup"
  /\ tries = kPokemon
  /\ phase' = "idle"
  /\ UNCHANGED <<vars, tries, input, inputs, frame, turns>>

-----------------------------------------------------------------------------
(* getKeyInputs, called by Terminal::tick before IO::tick.                 *)
Press(key) ==
  /\ phase = "idle"
  /\ Len(inputs) < MaxInputs
  /\ inputs' = Append(inputs, key)
  /\ UNCHANGED <<vars, phase, tries, input, frame, turns>>

(* processInput and the loop around it: keys are taken from the front      *)
(* until one of them is a direction.                                       *)
Known(keys) == {k \in 1 .. Len(keys) : keys[k] \in DOMAIN Dir}

FirstKnown(keys) == CHOOSE k \in Known(keys) : \A l \in Known(keys) : k <= l

TakeLastKey(keys) ==
  /\ inputs' = <<>>
  /\ input' = IF keys # <<>> /\ keys[Len(keys)] \in DOMAIN Dir THEN Dir[keys[Len(keys)]] ELSE NoAction

TakeKeyFrom(keys) ==
  IF Known(keys) = {}
  THEN inputs' = <<>> /\ input' = NoAction
  ELSE inputs' = SubSeq(keys, FirstKnown(keys) + 1, Len(keys)) /\ input' = Dir[keys[FirstKnown(keys)]]

BeginTick ==
  /\ phase = "idle"
  /\ phase' = "turns"
  /\ IF ActiveEntity = player /\ input = NoAction
     THEN TakeKeyFrom(inputs)
     ELSE UNCHANGED <<input, inputs>>
  /\ UNCHANGED <<vars, tries, frame, turns>>

-----------------------------------------------------------------------------
(* The turn loop.                                                          *)
turnReady(e) == turn_timer[e] <= 0

Skip ==
  /\ phase = "turns"
  /\ ~turnReady(ActiveEntity)
  /\ advanceEntity
  /\ UNCHANGED <<phase, tries, input, inputs, frame, turns>>

(* act on a MoveAction: whether it succeeds, and the board afterwards.     *)
CanStepAnywhere(e, step) == TRUE

CanStep(e, step) == step = origin \/ getStatus(Plus(pos[e], step)) = "Free"

Step(e, step) ==
  IF step # origin /\ CanStep(e, step)
  THEN moveEntity(e, Plus(pos[e], step))
  ELSE UNCHANGED boardVars

(* wait with kSuccess or kFailure: one turn, and no move of kMoveTimer.    *)
wait(e) == turn_timer' = [turn_timer EXCEPT ![e] = @ + kTurnTimer] /\ UNCHANGED move_timer

(* A Pokemon plans a random step and pays for its turn even when the step  *)
(* fails.                                                                  *)
PokemonTurnUnpaid ==
  /\ phase = "turns"
  /\ ActiveEntity # player
  /\ turnReady(ActiveEntity)
  /\ \E step \in kSteps :
       \/ CanStep(ActiveEntity, step) /\ Step(ActiveEntity, step) /\ wait(ActiveEntity)
       \/ ~CanStep(ActiveEntity, step) /\ UNCHANGED vars
  /\ turns' = [turns EXCEPT ![ActiveEntity] = @ + 1]
  /\ UNCHANGED <<phase, tries, input, inputs, frame>>

PokemonTurn ==
  /\ phase = "turns"
  /\ ActiveEntity # player
  /\ turnReady(ActiveEntity)
  /\ \E step \in kSteps : Step(ActiveEntity, step)
  /\ wait(ActiveEntity)
  /\ turns' = [turns EXCEPT ![ActiveEntity] = @ + 1]
  /\ UNCHANGED <<phase, tries, input, inputs, frame>>

(* The player's step succeeds and is paid for; the loop goes on.           *)
PlayerTurn ==
  /\ phase = "turns"
  /\ ActiveEntity = player
  /\ turnReady(player)
  /\ input # NoAction
  /\ CanStep(player, input)
  /\ Step(player, input)
  /\ wait(player)
  /\ input' = NoAction
  /\ turns' = [e \in Entity |-> 0]
  /\ UNCHANGED <<phase, tries, inputs, frame>>

(* The loop breaks without charging anything, and the player is to act     *)
(* again on the next tick: it has no action, or its step fails, which      *)
(* plan has taken out of input all the same.                               *)
PlayerWaits ==
  /\ phase = "turns"
  /\ ActiveEntity = player
  /\ turnReady(player)
  /\ input = NoAction
  /\ phase' = "render"
  /\ UNCHANGED <<vars, tries, input, inputs, frame, turns>>

KeepAction == UNCHANGED input

ResetAction == input' = NoAction

PlayerBumps ==
  /\ phase = "turns"
  /\ ActiveEntity = player
  /\ turnReady(player)
  /\ input # NoAction
  /\ ~CanStep(player, input)
  /\ ResetAction
  /\ phase' = "render"
  /\ UNCHANGED <<vars, tries, inputs, frame, turns>>

-----------------------------------------------------------------------------
(* render: every cell the player sees gets its tile, every other cell is   *)
(* emptied, and the entities it sees are drawn over, in queue order.  The  *)
(* cell p is the frame's column 2 * p.x; odd columns are never written.    *)
Glyph == {"none", "empty", "trainer", "pokemon"} \cup Tile

GlyphOf(e) == IF e = player THEN "trainer" ELSE "pokemon"

EntitiesOn(p) == {k \in 1 .. Len(m_entities) : pos[m_entities[k]] = p}

DrawnAt(p, vision) ==
  IF ~canSee(vision, p)
  THEN "empty"
  ELSE IF EntitiesOn(p) = {}
       THEN m_map[p]
       ELSE GlyphOf(m_entities[CHOOSE k \in EntitiesOn(p) : \A l \in EntitiesOn(p) : l <= k])

Render ==
  /\ phase = "render"
  /\ phase' = "idle"
  /\ getVision(player)
  /\ frame' = [c \in FrameCells |->
                 IF c.x % 2 = 0
                 THEN DrawnAt(Pt(c.x \div 2, c.y), VisionOf(player))
                 ELSE frame[c]]
  /\ UNCHANGED <<timers, tries, input, inputs, turns>>

-----------------------------------------------------------------------------
Tick == BeginTick \/ Skip \/ PokemonTurn \/ PlayerTurn \/ PlayerWaits \/ PlayerBumps \/ Render

GameNext ==
  \/ PlacePokemon
  \/ EndSetup
  \/ \E key \in Key : Press(key)
  \/ Tick

GameSpec == GameInit /\ [][GameNext]_gameVars

(* main runs tick after tick until it is interrupted.                      *)
FairGameSpec == GameSpec /\ WF_gameVars(PlacePokemon \/ EndSetup) /\ WF_gameVars(Tick)

-----------------------------------------------------------------------------
GameTypeOK ==
  /\ TypeOK
  /\ phase \in {"setup", "idle", "turns", "render"}
  /\ tries \in 0 .. kPokemon
  /\ input \in Point \cup {NoAction}
  /\ inputs \in Seq(Key)
  /\ frame \in [FrameCells -> Glyph]
  /\ turns \in [Entity -> Nat]

(* Whenever a tick is over the player is the active entity, ready, with no *)
(* action left: so the guard of updateState (game.cpp:329) is true on      *)
(* every tick, and keys are read on every tick.                            *)
TickEndsWithPlayer ==
  phase = "idle" => ActiveEntity = player /\ turnReady(player) /\ input = NoAction

(* A turn costs kTurnTimer and is taken at most one charge late: timers    *)
(* stay within one charge below zero and kTurnTimer.  So no entity ever    *)
(* takes two turns without the queue moving on.                            *)
TimersBounded ==
  \A e \in Entity : /\ -Charge[e] < turn_timer[e] /\ turn_timer[e] <= kTurnTimer
                    /\ move_timer[e] = 0

(* No entity ever stands on a tree or outside of the board, and no two     *)
(* stand on the same cell.                                                 *)
EntitiesStandFree ==
  \A k \in 1 .. Len(m_entities) :
    /\ ~FlagBlocked(TileAt(m_map, pos[m_entities[k]]))
    /\ \A l \in 1 .. Len(m_entities) : pos[m_entities[k]] = pos[m_entities[l]] => k = l

(* Between two turns of the player the queue goes round once per charge of *)
(* the player, so a Pokemon gets as many turns as its speed gives it, plus *)
(* at most one.                                                            *)
Rounds == (kTurnTimer + Charge[player] - 1) \div Charge[player]

SpeedBoundsTurns ==
  \A e \in Entity : (turns[e] - 1) * kTurnTimer < (Rounds + 1) * Charge[e]

(* Between ticks the frame shows the world as it is now: exactly what a    *)
(* fresh field of vision from the player's cell sees, entities where they  *)
(* stand, and nothing it does not see.                                     *)
FrameIsCurrent ==
  phase = "idle" /\ m_vision[player] # NoVision =>
    \A p \in Cells :
      frame[Pt(2 * p.x, p.y)] =
        IF MatrixGet(View(m_map, pos[player]), -1, Plus(Minus(p, pos[player]), Centre)) < 0
        THEN "empty"
        ELSE IF EntityAt(p) = NoEntity THEN m_map[p] ELSE GlyphOf(EntityAt(p))

(* Every tick ends: the turn loop reaches the player again.                *)
TickEnds == phase = "turns" ~> phase = "idle"

(* As long as the player keeps taking turns so does every Pokemon.         *)
NoPokemonStarves ==
  \A e \in Entity \ {player} :
    []<><<PlayerTurn>>_gameVars =>
      []<>(e \in Listed => turns[e] > 0)

-----------------------------------------------------------------------------
(* The commands not executed yet: the pending action, then the directions  *)
(* among the keys, the nth at the place up to which n keys are known.      *)
Rank(keys, k) == Cardinality({l \in Known(keys) : l <= k})

Place(keys, n) == CHOOSE k \in Known(keys) : Rank(keys, k) = n

Directions(keys) == [n \in 1 .. Cardinality(Known(keys)) |-> Dir[keys[Place(keys, n)]]]

Pending == (IF input = NoAction THEN <<>> ELSE <<input>>) \o Directions(inputs)

Commands ==
  INSTANCE PlayerCommands WITH
    Command <- {Dir[k] : k \in DOMAIN Dir}, pending <- Pending, where <- pos[player],
    open <- {p \in Cells : getStatus(p) = "Free"}

(* The turn loop executes the player's commands as PlayerCommands says: in *)
(* order, none lost and none twice over the ticks, failing only when the   *)
(* cell is not free at that moment, although unknown keys are in between   *)
(* and the other entities move too; and it never stops to.                 *)
ObeysCommands == Commands!CommandSpec
=============================================================================
