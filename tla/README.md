# A TLA+ model of tty-anim

tty-anim is a turn-based game drawn in a terminal: a trainer walks with vi keys
on a 31 x 31 board among trees, tall grass and Pidgeys, and sees only what its
field of vision reaches. The program is about 1300 lines of C++17 in eight
files at the top of the repository; `abseil-cpp/` is a vendored library.
It is one thread with no tests, which signals interrupt. What is hard to get right
in it is arithmetic on small integers (lines of sight, the visibility lost in grass,
timers), a cache of fields of vision with partial invalidation, state kept twice (an
entity's position, the screen and `lastFrame`, `used` and its ring), input that arrives
while it is being read, and the order of things in a turn loop that runs inside a
frame loop.

## 1. Inventory

| component | state | operations | correct when |
|---|---|---|---|
| Geometry: `Point`, `Matrix` (geo.h) | a matrix: size, default, data | norms, `get`, `set`, `contains`, `fill` | no two cells share an index, all indices are in range |
| Line of sight: `LOS` (geo.cpp) | error term, current point, result | one call | the line has the asserted size, ends at `b`, stays near the segment |
| Field of vision: `FOV` (geo.h) and the callback in `Board::getVision` | a trie of sight lines; a shared queue `cache`; a visibility matrix | constructor, `trieUpdate`, `fieldOfVision` | the traversal computes what the sight lines define, for every map |
| Board (game.h, game.cpp) | `m_map`, `m_entities`, `m_entityIndex`, `m_entityAtPos`, `m_vision` | `clearAllTiles`, `setTile`, `addEntity`, `moveEntity`, `removeEntity`, `advanceEntity`, `getVision`, reads | owners agree with positions, queue in order, a clean cached vision is current |
| World generation: `initBoard`, `State::State` | two cellular automata, the map | fill, three passes, retry | each pass reads the last one only, the border stays trees, the start is free |
| Turn loop: `updateState`, `processInput`, `plan`, `act`, `wait`, `charge` | `State::input`, the entities' timers, `IO::inputs` | one tick | ticks end, keys are obeyed once and in order, speeds are respected |
| Rendering: `render`, `IO::tick` | `IO::frame` | one draw | the frame shows what the player sees now, nothing else |
| Entities and species (entity.h, entity.cpp) | `pos`, timers, `removed`, glyph, speed, attacks, hit points | constructors, `match` | - (most of it is data nothing reads yet) |
| Key decoding: `Terminal::getKeyInputs` | kernel buffer, stdio buffer, the parser's place | one poll | a poll never blocks, and decodes the keys that waited |
| Terminal output: `Terminal::tick` | `lastFrame`, the screen, its cursor and colours | one diff, the status line | the screen shows `lastFrame`, and after a tick the frame |
| Pacing: `Timing` | ring of 60 frames, `used`, `index` | `block`, `start`, `end`, `stats` | `used` is the sum of the ring, frames keep their distance |
| Lifecycle: `main`, signal handlers, `initTerminal` | `g_done`, screen and modes of the tty | signals, constructor, loop, destructor | an interrupt ends the program, the tty is given back |
| Colours, glyphs, input codes (base.h) | - | - | - (data types) |

How they interact. `main` runs `Terminal::tick` until `g_done`. It appends
decoded keys to `IO::inputs`, calls `IO::tick` (`updateState`, then `render`) and
prints the difference between the frame and the last one. `updateState` hands
out turns through the board's queue; `act` moves an entity through
`Board::moveEntity`, which marks the mover's cached vision dirty; `setTile`
marks dirty the visions that see the tile. `render` asks `getVision` of the
player, which recomputes a dirty vision with `FOV::fieldOfVision`, over lines
that `FOV`'s constructor drew with `LOS`.

The hazards are listed, each at its line, under `hazards` in PROJECT.json with the
properties that address them.

## 2. Modules

| module | models | extends |
|---|---|---|
| `Geo` | points, norms, matrices, and the line of `LOS` in closed form | |
| `LineOfSight` | `LOS` as a loop, one action per iteration | Geo |
| `Sight` | what a field of vision is, declaratively: `IsView(map, pos, V)` | Geo |
| `LayeredSight` | a field of vision computed layer by layer, for model checking only | Sight |
| `FieldOfVision` | `FOV`'s constructor, trie and traversal, with the callback of `getVision` | Sight |
| `Board` | `struct Board` | Sight |
| `Game` | `State`, `IO`: construction of a world, turn loop, keys, render | Board |
| `WorldGen` | `initBoard` cell by cell, and the loop of `State::State` around it | Sight |
| `KeyInput` | `Terminal::getKeyInputs`, one action per `getchar` | |
| `Terminal` | `Terminal::tick` after `IO::tick`, and the screen it prints on | Geo |
| `Timing` | `struct Timing`: its state and its four operations | |
| `Main` | `main`, the signal handlers and `initTerminal`, calling Timing | Timing |
| `PlayerCommands` | abstract: what the game promises the person at the keyboard | |
| `MC*` | instances for TLC | |
| `*Proofs` | theorems and their proofs; `GeoProofs` is about Geo and Sight, `GameProofs` about Board and Game, `MainProofs` about Main and Timing | |

**Levels.** A line, a field of vision and a board are each described twice, and
the upper level uses the simpler description. `Line` in Geo is a formula;
`LineOfSight` is the loop; that the loop computes the formula is proved.
`IsView` in Sight says which matrices are fields of vision; `FieldOfVision` is the
traversal; that it ends in such a matrix, and that there is only one, is proved. `Board`
and `Game` take the matrix from a constant operator `View`, assumed (`ViewAssumption`) to
yield a field of vision, which is what the theorem says of the traversal; TLC
evaluates the assumption for the instance it uses. `WorldGen` is proved to leave worlds as
`Game` assumes them. `Game` in turn implements `PlayerCommands`.

**Correspondence.** Variables and operations keep the names of the code where
TLA+ allows it; `map` in PROJECT.json gives the lines. Some points need saying:

* A pointer to an entity is the entity's identity, a model value. The fields of
  `Entity` that the modelled code reads are functions on entities (`pos`,
  `move_timer`, `turn_timer`). `m_entityAtPos` is total on the cells, `NoEntity` where
  the hash map has no entry. `Entity::removed` is never assigned and is left out.
* A node of the trie is the sequence of points from the root to it; `trieUpdate`
  is a function from tries to tries and shares prefixes as the code does.
* `InDisc` is the test `lenL2() > radius - 0.5` on integers, squared and
  multiplied by four: exact for an integer radius of at least one.
* The visibility of a blocked cell is 0 and not -1: the tree itself is seen, what
  is behind it is not.
* In `Board` and `Game` one call of `getVision` is one step: nothing else runs
  during it.
* A tick in `Game` is `BeginTick`, then an action per turn of the loop (`Skip`,
  `PokemonTurn`, `PlayerTurn`, and `PlayerWaits` or `PlayerBumps` which break it),
  then `Render`. Random choices of the program are nondeterministic. `Press` stands for
  what `getKeyInputs` delivers and is only enabled between ticks, since the thread that
  polls the keyboard is the one that ticks.
* `Game` starts after the world has been made: any map of `Worlds`, on which the
  start is free. A Pokemon may fail to be placed, as after a hundred bad draws.
* `Charge[e]` is `round(kTurnTimer * speed)`: 12 for the trainer, 40 for a Pidgey.
* `turns` is a history variable: the turns each entity has had since the player's
  last one.
* `WorldGen` keeps a `Matrix<bool>` as the set of its true cells. A fill is the set of
  cells whose draw is below 45, out of the constant `Fills`. It shows what `Game` assumes
  of `Worlds`: the map that is kept leaves the start free.
* `KeyInput` has the two buffers the bytes pass through: `FIONREAD` counts the kernel's,
  `getchar` empties stdio's and then takes all the kernel has. Bytes are classes of bytes:
  `A` stands for `A` to `D`, `h` for the printable ones the parser does not look at. A key
  queues all its bytes at once, as the tty driver does. `queued`, `fresh`, `due` and
  `clean` are history variables.
* `Terminal` starts each tick with a picture that `render` may have drawn: the interface
  to `Game`, whose frame has wide glyphs in even columns and the default glyph in odd
  ones. The terminal itself is modelled from what the code prints: a wide
  character takes two cells and destroys a character it cuts in half, a NUL does
  nothing, `ESC[2K` erases with the current colours. The three bytes of a glyph are
  computed as the code does and decoded as UTF-8.
* `Main` composes `Timing` with the signals and the tty. Unsigned arithmetic is modulo
  `Word`. The time between a tick's end and the next start is the delay plus some
  `late`, which stands for all the time that passes there without being asked for.
  `g_done` is a plain `bool` written by the handler; the loop calls functions the
  compiler cannot see into, so it is read again on every turn. An interrupted sleep
  is resumed by the library. `overrun` is a history variable.

A definition whose name says how it is wrong (`OvershootsEarly`, `KeepLast`,
`DirtyNever`, ...) is a mutant of the definition below it. PROJECT.json pairs each
property with a mutant that breaks it, to show that the property depends on
the code it is about.

## 3. What is model-checked

| run | instance | shows |
|---|---|---|
| `los` | all pairs of points of a 5 x 5 square | `ReachesTheEnd`, `FollowsLine`, `NearTheSegment` |
| `los_symmetry` | the same | `SymmetricLine` is violated: finding 1 |
| `field_of_vision` | radius 3 on 81 maps of 5 x 5, from the centre and a corner | `ComputesTheView`, `NotThroughTrees`, `ReadsAreSettled` |
| `grass_field` | the game's radii 15 and 3 and its board, 16 fields of tall grass with trees, from the start and a border cell | `GrassLimitsSight` |
| `board` | 3 x 2 cells, two entities, radius 2 | `OwnersMatchPositions`, `QueueInOrder`, `CleanVisionIsCurrent` |
| `board_removal` | the same, with `removeEntity` | `ActiveEntityIsOwned` is violated: finding 2 |
| `game` | 3 x 2 cells, player and two Pidgeys, three worlds | `TickEndsWithPlayer`, `TimersBounded`, `EntitiesStandFree`, `SpeedBoundsTurns`, `FrameIsCurrent` |
| `game_commands` | player and one Pidgey, up to two keys waiting | `ObeysCommands`, `TickEnds`, `NoPokemonStarves` |
| `world_gen` | 7 x 7 cells, 17 fills of the block around the start | `PassIsSynchronous`, `WorldIsFresh`, `GetsAWorld` |
| `key_input` | seven keys, up to seven bytes waiting | `NeverBlocks`, `PollDecodesKeys`, `PollsDrain`, `PollReturns` |
| `terminal` | 3 x 2 cells, three glyphs, 54 pictures, three sizes of terminal | `ShowsLastFrame`, `ScreenShowsFrame` |
| `main_loop` | a ring of three frames, twice round | `UsedMatchesRing`, `LoadIsAtMostFull`, `FramesSpaced`, `StopsPromptly`, `GivesTheTtyBack`, `InterruptEnds` |

**Bounds and why they are enough.**

* `los`: five by five holds all eight octants, both tie cases (even and odd major
  distance), and points that coincide. The proofs below remove the bound.
* `field_of_vision`: radius 3 is the smallest at which two lines share a cell
  after parting, so the running maximum in the matrix matters, and the disc cuts
  lines short. The four varied cells lie on one side of the viewer; the lines are drawn
  the same way in all octants. From the corner the field leaves the board. A call may
  follow any other, so a queue that was not cleared would show.
* `grass_field` is at the game's own size, because the constants of `getVision` are
  tuned for it: that all cells of the board within `kVisionRadius` are seen in tall grass
  depends on both radii. One viewer stands on the border, where part of the square is off
  the board. (That no other cells are seen is proved for all radii and maps.)
* `board`: on 3 x 2 cells with radius 2 an entity sees from one side to the other. Once the
  board has been cleared `MapBound` keeps all cells grass but two, one behind the
  other seen from the left: with a tree on the nearer the farther is set unseen, and the
  vision stays clean over the write. The view `LiveState` identifies states that differ only in the matrix of a
  dirty vision, which nothing reads before `getVision` overwrites it. The wholesale
  `clearAllTiles` happens before the first entity, as in `State::State`: it dirties nothing,
  so afterwards it would leave stale visions.
* `game`: real timers and speeds (120, 12, 40), so rounding below zero happens. The
  field of vision has radius 1, so that part of the board is dark. `MaxInputs` bounds
  the keys waiting; `Keys` has two directions, the wait key and a key that
  `processInput` does not know. A tree, tall grass or nothing beside the start makes
  commands fail, sight shrink or neither.
* `world_gen`: 7 x 7 is the smallest board on which a cell has no border cell within
  two steps, so that both halves of the rule decide. Some fills end with a tree
  on the start and are tried again, after any other attempt. An attempt that fails can
  leave grass as well as trees for the next to find.
* `key_input`: `MaxBytes` is one more than the longest sequence, so a key may come before or
  after any of its bytes is read. The keys send every kind of sequence the parser tells
  apart, known, unknown and without a semicolon; Escape followed by a key makes sequences that
  are abandoned.
* `terminal`: three columns are enough for a run that starts after the first cell, ends
  before the last, or covers a cell that did not change; two rows, for colours left by
  the row before. The sizes fit exactly, with a line and an odd column more, and with room.
* `main_loop`: a ring of three has a slot that is neither the oldest nor the newest;
  `MaxFrames` is twice the ring, so that real frames are taken out of it. Ticks
  take no time, part of a frame, or more than a second. An interrupt is always possible, so
  the bound stops no run that was interrupted.
* Deadlock is checked in all runs; programs that have ended rest.

**Fairness.** `main` calls tick after tick, and a tick is a loop that only returns when
the code says so; there is no other thread. So setup and tick steps happen as
long as they are enabled: `WF(PlacePokemon \/ EndSetup)` and `WF(Tick)` in `FairGameSpec`.
There is no fairness on keys, nor on which step a Pidgey chooses. `NoPokemonStarves`
assumes that the player keeps taking turns, which is up to the keyboard. A poll runs on,
`WF(Parse)`, and `main` does, `WF(Run)`; neither keys nor signals are fair. In `WorldGen`
the program runs on, and `SF` says that among infinitely many attempts one draws a fill
that leaves the start free: every attempt seeds the generator from the clock, and such
fills are far from rare. `GoodFillsAssumption` has TLC check that they are good.

**Properties worth a second look.**

* `CleanVisionIsCurrent`. `setTile` leaves a vision alone when it does not see the
  tile. It is right because a cell that no line reaches is never read, and a line
  is reached only through cells that are seen.
* `ReadsAreSettled`. The callback reads the running maximum of the parent's cell,
  not what the parent's own node contributed. The two agree only because all nodes on
  a cell are visited before any child of it, i.e. the queue is breadth first and every
  node on a cell has the same depth.
* `TickEndsWithPlayer`. Between ticks the player is always active and ready with
  no action left, so the guard of `updateState` (game.cpp:329) is true on every tick.
* `SpeedBoundsTurns`. Timers go below zero and waits add to what is left; a Pidgey
  may get its integer share of turns between two turns of the player, and one more.
* `ObeysCommands`. Refinement of `PlayerCommands`: the pending action followed by the
  directions among the waiting keys is the abstract queue, and a command may fail only when
  the cell it leads to is not free at that moment. Safety and liveness.
* `PollDecodesKeys` and `PollsDrain`. Together they say when input can be trusted: a poll
  that finds stdio's buffer empty decodes exactly the keys that were waiting, however many
  arrive meanwhile; and the buffer is empty between polls until a key has come during a
  poll or a sequence was abandoned. After that, bytes in the buffer are not counted by
  `FIONREAD`: they are read only when as many others arrive, so keys lag behind from
  then on, and a poll may cut a sequence. Nothing in the code says otherwise,
  and no poll ever blocks (`NeverBlocks`) or stays (`PollReturns`) because of it.
* `ShowsLastFrame`. The program never reads the screen; it relies on `lastFrame` being what
  is there, colours included, which are sent only as differences from the glyph before.
* `ScreenShowsFrame` holds for the whole frame if the terminal has a line more than the
  board; on one that fits exactly the status line takes the last row.
* `LoadIsAtMostFull`. `used` and the span it is divided by are computed from different ends
  of the ring; the percentage could exceed 100 if they were about different frames.
* `FramesSpaced`. After a stall the ring's oldest frame is more than a second old and only
  the distance to the newest counts. (`kFPS` frames in any second are not promised:
  after a stall a second may hold a few more.)

**Findings.**

1. The comment on `LOS` calls the calculation symmetric. It is not: `test` is 0 where
   the start term is computed, so a tie is always broken relative to the start of the
   line, and `LOS(b, a)` may not be `LOS(a, b)` backwards. How far it is from symmetry is
   proved below (`LinesAreSymmetricSaveTies`): the lines differ at the ties, by one cell.
2. `removeEntity` leaves the entity in `m_entities`, so the queue later hands out an
   entity that has been destroyed, against the asserts of `moveEntity`. Nothing calls
   it at this commit.

## 4. What is proved

All for every value of the constants, from the named assumptions of the modules:

* `EndsAssumption`: ends of a line are points. `RadiusAssumption`: both radii are positive.
  `LookAssumption`: maps give tiles to the cells of a board, and viewers stand on it.
* `BoardAssumption`, `ViewAssumption`, `GameAssumption`: the types of the constants, that
  `View` yields a field of vision, that worlds leave the start free, and that no charge is
  zero or more than `kTurnTimer`.
* `WorldAssumption`: a board of at least 3 x 3 cells, fills of its cells.
* `KeyAssumption`: every key sends some bytes.
* `TerminalAssumption`: the terminal is at least as large as the frame, and pictures
  consist of wide glyphs, as the tables of the game do.
* `TimingAssumption`, `MainAssumption`: a ring of at least one frame that takes some time.

Three theorems have more than `Spec` on their left: `FramesAreSpaced`, `UsedIsTheRings` and
`LoadIsBounded` assume `[]ClockFits`, that the clock stays a second below the end of
its word. With 64 bits of nanoseconds that is some 580 years; a clock that wraps would
make the differences of times that the code compares meaningless. `TallGrassLimitsSight`
assumes the two radii of the game, because its claim is about them: with a `kVisionRadius`
of 13, or a `kFOVRadius` of 7, some cell at exactly `kVisionRadius` is not seen.

**Pure operators (GeoProofs).** `MatrixCellsAreDistinct`: indices are in range and unique.
The lemmas give the closed form `MinorAt` as the quotient the loop's error term keeps track
of. `HiddenChangesDoNotMatter`: if V is a field of vision on a map and a second
map differs from it only in cells that V does not see, V is one on the second map
too. By the least node on a line at which the two maps could disagree: everything before
it is the same, so it is reached, so its cell is seen, so the maps agree there.
`ViewIsUnique`: a map and a position have one field of vision at most. Of two, take a
cell nearest to the viewer in which they differ: a node's parent is one step nearer, so
what the nodes of the cell give is the same in both.

**Lines (LineOfSightProofs).** `TypeCorrect`, `LoopFollowsLine`, `LoopReachesTheEnd`,
`LoopNearTheSegment`. The inductive invariant ties the error term to the number of
minor moves so far: start term + moves x major - iterations x minor = `test`, and
`0 <= test < major`. It is what makes the number of moves a quotient, hence unique,
and at the last iteration equal to the minor distance. `LinesAreSymmetricSaveTies` compares
the quotients of a line and of its reverse: the two roundings agree unless the line passes
exactly between two cells, which it cannot when the major distance is odd. There the reverse
takes the other cell, so the two lines are the same if and only if there is no tie.

**The walk (FieldOfVisionProofs).** `WalkTypes`, `WalkComputesTheView`, `TreesHide`,
`WalkReadsSettled`, `WalkIsBounded`, `TallGrassHidesFar`, `TallGrassShowsNear`,
`TallGrassLimitsSight`. The invariant `SightInv` has two halves.
`TrieInv`: the trie holds exactly the paths of the lines to the rim points
handled so far. `WalkInv`, for a call: depths along the queue never fall and
differ by one at most from the node about to be visited (`BreadthFirst`); a cell holds the
best of what the visited nodes on it give (`HoldsBest`); the queue holds the children of the
visited nodes with sight left (`HoldsChildren`) and nothing without a visited parent
(`HasParents`). The nodes on a cell all have the depth of its distance, so the parent's cell
is final before a child reads it: `WalkReadsSettled`, and from it that the running
maximum is the value the sight lines define. When the queue has been emptied, the four parts
are `IsView`. `TallGrassHidesFar` adds up the losses along a line: the initial visibility
is too small for one more cell beyond the radius. `TallGrassShowsNear` is the other side:
through every cell of the disc there is a line that takes no more diagonal steps than the
cell's offset has (`LineThrough`, `LineStaysBetween`), all of its cells are nearer and on
the board, and the cost of a cell nearer than `kVisionRadius` leaves some sight before the
last step. `TallGrassLimitsSight` adds the cells at exactly `kVisionRadius`, for the game's
radii. `WalkIsBounded`: no node is queued twice, because a child's parent has been visited
before it and is itself in the queue only once, and the trie lists no child twice
(`OnceInv`); so the queue is never longer than there are nodes, and every step of a call takes
one off what is left.

**Board and game (GameProofs).** `BoardTypeCorrect`, `OwnersAlwaysMatch`,
`QueueStaysInOrder`, `VisionCacheIsCoherent`. The last rests on `HiddenChangesDoNotMatter`.
The inductive invariant adds that only listed entities have a vision (`setTile` visits only
those) and that the index of an empty queue is 0. `GameTypeCorrect`, `TicksEndWithPlayer`,
`TimersStayBounded`, `EntitiesAlwaysStandFree`: `GameInv` takes the board's owner and queue
invariants into the game and adds what the phases mean. On top of it:

* `FrameIsAlwaysCurrent`. After `render` the cached vision is clean, so by the cache's
  coherence it is a field of vision, and by `ViewIsUnique` the one a fresh call would
  compute; an entity is drawn where the owner map has it because positions agree.
* `SpeedAlwaysBoundsTurns`. The bound itself is not inductive. `SpeedInv` says that there is
  a number n of charges to the player, which its timer has room for, such that the turns of
  each Pokemon are paid for by its timer and n rounds of charges, or n - 1 if the queue has
  not come to it in this round.
* `CommandsAreObeyed`. The safety of the refinement of `PlayerCommands`. The directions
  among the keys are enumerated by rank (how many known keys there are up to a place); a key
  pressed appends one (`DirectionsAppend`) and `TakeKeyFrom` moves the first to `input`
  (`DirectionsTake`), so `BeginTick` changes no command, and the steps of the player are
  `Execute`.
* `TurnLoopEnds`. The variant of `updateState`'s loop counts the moves of the queue that are left
  (the rounds until the player's turn is paid for, times the queue's length, plus the places
  up to the player), each twice, and the turn of the active entity if it is still to be
  taken. Every iteration lowers it.
* `NoPokemonIsPassedOver`. A Pokemon's wait is the charges it still needs, times the length of
  the queue, plus the places ahead of it. It is one shorter whenever the queue moves on,
  and when it is zero the next iteration is the Pokemon's turn.

**World (WorldGenProofs).** `WorldTypes`, `PassesAreSynchronous`, `WorldIsAlwaysFresh`,
`WorldsAreGrown`, `OnlyBadFillsAreRetried`, `AttemptsEnd`.
Invariant: the cells of `next` that the pass has gone over follow the rule on `result`, and
both contain the border; between the stages the map is what was painted, or still clear.
`GrownInv` adds that at the start of each pass `result` is the rule applied as often to a
draw, so that the world kept is a closed form of two draws, and an attempt is thrown away
only for the trees that grew from its first one. `AttemptsEnd` counts the steps of an
attempt exactly: each takes one off, and the next attempt has as many.

**Keys (KeyInputProofs).** `KeyInputTypeCorrect`, `PollsNeverBlock`: the two buffers together
hold at least `count - i` bytes, although `FIONREAD` counted only one of them, and the
parser is inside of a sequence only while `i < count`. Every `getch` takes one byte out of
the buffers and one off the rest of the count. `PollsAlwaysDrain`: as long as nothing came
late they hold exactly that. `PollsDecodeKeys`: there are offsets at which the bytes of each
waiting key start; what is left in the buffers is the bytes from the place of the parser on,
followed by what came meanwhile, and the parser is at some key and within its
sequence as far as it has read. `PollIsBounded`: what is left of the count falls with every
step of a poll, and a key that comes meanwhile adds nothing to it.

**Terminal (TerminalProofs).** `TerminalTypes`, `LastFrameIsShown`, `FrameIsShown`. In
`TerminalInv` odd columns are never written in either matrix, a run begins and ends on an
even column, the cursor is where the run is, and the pen has the colours of the
glyph before. Without the parities a wide character could cut its neighbour in half.

**Lifecycle and pacing (MainProofs).** `TtyIsGivenBack` and `StopIsPrompt` say where in
`main` each mode of the tty is changed, and that a second tick after an interrupt would
need the test of `g_done` to be passed again. `InterruptIsPrompt`: from there the end is at most
six steps away, and every step is one towards it. `FramesAreSpaced`: what is in the ring is of
the past, so no subtraction of `block` wraps. `UsedIsTheRings` and `LoadIsBounded`: besides
the sum, the invariant says of every run of frames in time order that their durations
fit between the first start and the last end, on each side of the slot in use.

**Only model-checked.** TLAPS does not handle fairness here, so liveness stays with TLC.
Of each liveness property the part that is safety is proved, a variant that every step
lowers; what is left to TLC is that the steps happen, which is what the fairness says:

| liveness, checked by TLC | its variant, proved |
|---|---|
| `TickEnds` | `TurnLoopEnds` |
| `NoPokemonStarves` | `NoPokemonIsPassedOver` |
| `GetsAWorld` | `AttemptsEnd`, `OnlyBadFillsAreRetried` |
| `PollReturns` | `PollIsBounded` |
| `InterruptEnds` | `InterruptIsPrompt` |
| `ObeysCommands`, its liveness | `CommandsAreObeyed` (its safety), `TurnLoopEnds` |

## 5. What is not modelled

* `abseil-cpp/`, by far most of the repository's lines, is a vendored library with its own
  tests. The program uses its hash map and hash set through `base.h` (and its hash
  combinators in `geo.h`); both are taken as functions and sets. No property here is about
  the library.
* Names, attacks, hit points and individuals (entity.h, entity.cpp) are constant tables
  that nothing reads yet; `show` in base.h has no caller.
* `getSize` and a change of the window's size: the size is read once, and the terminal is
  assumed to be at least as large as the frame. On a smaller one offsets are negative and the
  cursor positions printed are not defined.
* The tty is restored to `ICANON` and `ECHO`, whatever it had before; `Main` starts from a
  shell that has both. A crash leaves it raw. Signals other than the two are not handled.
* Lower case glyphs would be printed wrongly, since the middle byte of their encoding
  differs; `WideGlyph` leaves them out, as the tables of the game do.
* The floating-point numbers of the status line, end of file on the keyboard, and overflow of
  32-bit coordinates, out of reach of a 31 x 31 board.

## 6. Plan

Done, in this order: Geo, LineOfSight, Sight, FieldOfVision, Board, Game, PlayerCommands
and their first proofs; WorldGen, KeyInput, Terminal, Timing and Main; then proofs for all of
them. With these every operation of the program's own code that changes state has its action,
and every invariant and action property of the runs has its theorem. Left:

1. For which pairs of radii `GrassLimitsSight` holds: the cells at exactly `kVisionRadius`
   depend on the line that is drawn, and only the game's pair has been settled.
2. That `Rounds` is attained: how tight the bound of `SpeedBoundsTurns` is.
3. Shorter proofs: the arithmetic on quotients in `GeoProofs` and the offsets in
   `KeyInputProofs` could share more lemmas.
