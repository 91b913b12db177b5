------------------------------- MODULE Sight -------------------------------
(***************************************************************************)
(* What a field of vision is, without the order in which it is computed.   *)
(* The viewer looks along the digital line from its position to each point *)
(* of the rim of a square; sight is lost crossing tall grass and ends at a *)
(* tree.  The visibility of a cell is the best that any line reaching it   *)
(* gives.  FieldOfVision models the traversal that computes it and Board   *)
(* the cache that keeps it.                                                *)
(***************************************************************************)
EXTENDS Geo

CONSTANTS
  kFOVRadius,          \* half the side of the square, 15 in game.cpp
  kVisionRadius        \* how far tall grass can be seen through, 3 in game.cpp

ASSUME RadiusAssumption ==
  /\ kFOVRadius \in Nat \ {0}
  /\ kVisionRadius \in Nat \ {0}

-----------------------------------------------------------------------------
(* The tiles of tileType: '.', '"' and '#', with the flags they carry.     *)
Tile == {"grass", "tallGrass", "tree"}

FlagBlocked(tile) == tile = "tree"

FlagObscure(tile) == tile = "tallGrass"

(* A map is a function on the cells of the board; outside there are trees. *)
TileAt(m, p) == MatrixGet(m, "tree", p)

-----------------------------------------------------------------------------
(* The cells of a visibility matrix; a point relative to the viewer is at   *)
(* its sum with Centre.                                                    *)
VisionSize == Pt(2 * kFOVRadius + 1, 2 * kFOVRadius + 1)

VisionCells == CellsOf(VisionSize)

Centre == Pt(kFOVRadius, kFOVRadius)

Box == {Pt(x, y) : x \in -kFOVRadius .. kFOVRadius, y \in -kFOVRadius .. kFOVRadius}

Rim == {r \in Box : lenWalking(r) = kFOVRadius}

(* trieUpdate goes no further than the first point outside this disc:      *)
(* lenL2 <= radius - 0.5, squared and scaled to integers.                  *)
InDisc(p) == 4 * lenL2Squared(p) <= (2 * kFOVRadius - 1) * (2 * kFOVRadius - 1)

(* The k-th point of the line to the rim point r, and whether it is a node *)
(* of the trie.                                                            *)
SightLine == [r \in Rim |-> [k \in 0 .. kFOVRadius |-> LinePoint(origin, r, k)]]

OnLine(r, k) == SightLine[r][k]

IsNode(r, k) == \A j \in 0 .. k - 1 : InDisc(OnLine(r, j))

(* The nodes on each cell, as pairs of a rim point and an index.           *)
NodesAt ==
  [c \in VisionCells |->
     {n \in Rim \X (0 .. kFOVRadius) :
        IsNode(n[1], n[2]) /\ Plus(OnLine(n[1], n[2]), Centre) = c}]

-----------------------------------------------------------------------------
(* The visibility left after a step from parent to p: all of it at the     *)
(* viewer, none on a tree, less when the tile is tall grass.               *)
InitialSight == 100 * (kVisionRadius + 1) - 95 - 46 - 25

DiagonalNever(p, parent) == FALSE

Diagonal(p, parent) == p.x # parent.x /\ p.y # parent.y

Loss(tile, p, parent) ==
  IF FlagObscure(tile) THEN 95 + (IF Diagonal(p, parent) THEN 46 ELSE 0) ELSE 0

SightGained(tile, p, parent, prev) ==
  IF FlagBlocked(tile) THEN 0 ELSE Larger(prev + Loss(tile, p, parent), 0)

SightAfter(tile, p, parent, prev) ==
  IF FlagBlocked(tile) THEN 0 ELSE Larger(prev - Loss(tile, p, parent), 0)

(* The visibility that the node n gives its cell, reading that of the cell *)
(* before it from the matrix V.                                            *)
NodeSight(m, pos, V, n) ==
  IF n[2] = 0
  THEN InitialSight
  ELSE LET p == OnLine(n[1], n[2])
           parent == OnLine(n[1], n[2] - 1)
       IN  SightAfter(TileAt(m, Plus(p, pos)), p, parent, V[Plus(parent, Centre)])

(* Sight gets as far as the node n: something is left at every node before *)
(* it on its line.                                                         *)
Reaches(m, pos, V, n) == \A j \in 0 .. n[2] - 1 : NodeSight(m, pos, V, <<n[1], j>>) > 0

(* V is the field of vision from pos on the map m: -1 on the cells sight   *)
(* does not get to, elsewhere the best of the nodes it reaches there.      *)
IsView(m, pos, V) ==
  /\ V \in [VisionCells -> Int]
  /\ \A c \in VisionCells :
       \/ V[c] = -1 /\ \A n \in NodesAt[c] : ~Reaches(m, pos, V, n)
       \/ /\ \E n \in NodesAt[c] : Reaches(m, pos, V, n) /\ V[c] = NodeSight(m, pos, V, n)
          /\ \A n \in NodesAt[c] : Reaches(m, pos, V, n) => NodeSight(m, pos, V, n) <= V[c]
=============================================================================
