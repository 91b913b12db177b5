--------------------------- MODULE FieldOfVision ---------------------------
(***************************************************************************)
(* struct FOV of geo.h and the traversal it runs for Board::getVision: the *)
(* constructor builds a trie of sight lines, one rim point at a time, and  *)
(* fieldOfVision walks it breadth first through the shared queue cache,    *)
(* filling a visibility matrix.  A node of the trie is the sequence of     *)
(* points from the root to it.                                             *)
(***************************************************************************)
EXTENDS Sight, Sequences, SequencesExt

CONSTANTS
  Size,                \* the size of the board
  Maps,                \* the maps a field of vision is computed on
  Viewers              \* the positions it is computed from

ASSUME LookAssumption ==
  /\ Size \in Point
  /\ \A m \in Maps : DOMAIN m = CellsOf(Size) /\ \A p \in DOMAIN m : m[p] \in Tile
  /\ Viewers \subseteq CellsOf(Size)

VARIABLES
  lines,               \* how many rim points the constructor has handled
  children,            \* the trie: the children of each node, in order
  looking,             \* a call of fieldOfVision is in progress
  m_map, pos,          \* what its callback captured
  cache,               \* the queue of nodes
  i,                   \* the next node to visit, from 1
  visibility           \* the matrix the callback fills

vars == <<lines, children, looking, m_map, pos, cache, i, visibility>>

Root == <<origin>>

Dark == [c \in VisionCells |-> -1]

Init ==
  /\ lines = 0
  /\ children = [node \in {Root} |-> <<>>]
  /\ looking = FALSE
  /\ m_map = <<>>
  /\ pos = origin
  /\ cache = <<>>
  /\ i = 1
  /\ visibility = Dark

-----------------------------------------------------------------------------
(* The constructor: for i in 0..radius and j in 0..7, the bits of j choose *)
(* the axis and the two signs.                                             *)
RimPoint(n) ==
  LET d  == n \div 8
      j  == n % 8
      xa == IF j % 2 = 1 THEN kFOVRadius ELSE d
      ya == IF j % 2 = 1 THEN d ELSE kFOVRadius
  IN  Pt(IF (j \div 2) % 2 = 1 THEN xa ELSE -xa, IF j \div 4 = 1 THEN ya ELSE -ya)

NodeCount(line) ==
  CHOOSE n \in 1 .. Len(line) :
    /\ n = Len(line) \/ ~InDisc(line[n])
    /\ \A j \in 1 .. n - 1 : InDisc(line[j])

TrieUpdate(trie, line) ==
  LET n == NodeCount(line)
      path(k) == SubSeq(line, 1, k)
      old(node) == IF node \in DOMAIN trie THEN trie[node] ELSE <<>>
      add(node) == {path(k + 1) : k \in {k \in 1 .. n - 1 : path(k) = node}} \ ToSet(old(node))
  IN  [node \in DOMAIN trie \cup {path(k) : k \in 1 .. n} |-> old(node) \o SetToSeq(add(node))]

AddLine ==
  /\ lines < 8 * (kFOVRadius + 1)
  /\ children' = TrieUpdate(children, Line(origin, RimPoint(lines)))
  /\ lines' = lines + 1
  /\ UNCHANGED <<looking, m_map, pos, cache, i, visibility>>

Built == lines = 8 * (kFOVRadius + 1)

-----------------------------------------------------------------------------
(* The queue at the start of a call: cleared, then the root.               *)
StartQueue(queue) == <<Root>>

Look(m, p) ==
  /\ Built
  /\ ~looking
  /\ looking' = TRUE
  /\ m_map' = m
  /\ pos' = p
  /\ cache' = StartQueue(cache)
  /\ i' = 1
  /\ visibility' = Dark
  /\ UNCHANGED <<lines, children>>

(* The visibility the callback computes for a node.                        *)
VisibilityOf(node) ==
  IF node = Root
  THEN InitialSight
  ELSE LET p == Last(node)
           parent == node[Len(node) - 1]
       IN  SightAfter(TileAt(m_map, Plus(p, pos)), p, parent, visibility[Plus(parent, Centre)])

(* Where the children of an unblocked node go.                             *)
PushDepthFirst(queue, nodes) == SubSeq(queue, 1, i) \o nodes \o SubSeq(queue, i + 1, Len(queue))

Push(queue, nodes) == queue \o nodes

(* The matrix keeps the best visibility computed for a cell.               *)
KeepLast(old, new) == new

KeepBest(old, new) == Larger(new, old)

(* Whether the traversal goes past a node, given what is left there.       *)
AlwaysPasses(sight) == TRUE

Passes(sight) == ~(sight <= 0)

Visit ==
  /\ looking
  /\ i <= Len(cache)
  /\ LET node == cache[i]
         key == Plus(Last(node), Centre)
         sight == VisibilityOf(node)
     IN  /\ visibility' = [visibility EXCEPT ![key] = KeepBest(@, sight)]
         /\ cache' = IF Passes(sight) THEN Push(cache, children[node]) ELSE cache
  /\ i' = i + 1
  /\ UNCHANGED <<lines, children, looking, m_map, pos>>

Finished == looking /\ i > Len(cache)

Return ==
  /\ Finished
  /\ looking' = FALSE
  /\ UNCHANGED <<lines, children, m_map, pos, cache, i, visibility>>

Next ==
  \/ AddLine
  \/ \E m \in Maps, p \in Viewers : Look(m, p)
  \/ Visit
  \/ Return

Spec == Init /\ [][Next]_vars

-----------------------------------------------------------------------------
TypeOK ==
  /\ lines \in 0 .. 8 * (kFOVRadius + 1)
  /\ looking \in BOOLEAN
  /\ cache \in Seq(DOMAIN children)
  /\ i \in 1 .. Len(cache) + 1
  /\ visibility \in [VisionCells -> -1 .. InitialSight]

(* The traversal of the trie, which shares prefixes, queues nodes and      *)
(* reads a running maximum, ends with exactly the field of vision that the *)
(* sight lines define.                                                     *)
ComputesTheView == Finished => IsView(m_map, pos, visibility)

(* A cell's visibility never changes once a child has been visited that    *)
(* read it: breadth first, every node on a cell comes before every child.  *)
ReadsAreSettled ==
  [][\A c \in VisionCells :
       looking /\ visibility'[c] # visibility[c] /\ looking' =>
         \A j \in 1 .. i - 1 : Len(cache[j]) <= 1 + lenWalking(Minus(c, Centre))]_vars

(* Nothing is seen through a tree: a cell that is seen has a line on which *)
(* no earlier cell except the viewer's own is a tree.                      *)
NotThroughTrees ==
  Finished =>
    \A c \in VisionCells : visibility[c] >= 0 =>
      \E n \in NodesAt[c] :
        \A j \in 1 .. n[2] - 1 : ~FlagBlocked(TileAt(m_map, Plus(OnLine(n[1], j), pos)))

(* In tall grass only the cells within kVisionRadius, in the norm          *)
(* lenNethack, are seen, whatever trees there are: a half of the comment   *)
(* of game.cpp:267-269.                                                    *)
GrassHidesFar ==
  Finished /\ (\A p \in DOMAIN m_map : m_map[p] # "grass") =>
    \A c \in VisionCells :
      visibility[c] >= 0 => lenNethack(Minus(c, Centre)) <= kVisionRadius

(* And all of those on the board are seen when there is no tree: the       *)
(* comment entire.  That is so for the game's two radii and not for all.   *)
GrassLimitsSight ==
  /\ GrassHidesFar
  /\ Finished /\ (\A p \in DOMAIN m_map : m_map[p] = "tallGrass") =>
       \A c \in VisionCells :
         LET o == Minus(c, Centre)
         IN  lenNethack(o) <= kVisionRadius /\ Plus(o, pos) \in DOMAIN m_map =>
               visibility[c] >= 0
=============================================================================
