-------------------------- MODULE MCFieldOfVision --------------------------
(***************************************************************************)
(* FieldOfVision on two families of maps: a small board seen from its      *)
(* centre and from a corner, with every tile on each cell of Varied; and   *)
(* fields of tall grass with and without a tree on each cell of Trees, at  *)
(* the size of the game's own board and with its two radii, seen from the  *)
(* start and from next to a corner.                                        *)
(***************************************************************************)
EXTENDS FieldOfVision

SmallBoard == Pt(5, 5)

Varied == {Pt(3, 2), Pt(3, 3), Pt(4, 2), Pt(4, 3)}

SmallMaps ==
  {[p \in CellsOf(SmallBoard) |-> IF p \in Varied THEN f[p] ELSE "grass"] :
     f \in [Varied -> Tile]}

CentreAndCorner == {Pt(2, 2), Pt(4, 4)}

-----------------------------------------------------------------------------
kMapSize == 31

GameBoard == Pt(kMapSize, kMapSize)

Trees == {Pt(16, 15), Pt(16, 16), Pt(15, 17), Pt(13, 14)}

GrassFields ==
  {[p \in CellsOf(GameBoard) |-> IF p \in T THEN "tree" ELSE "tallGrass"] :
     T \in SUBSET Trees}

StartAndBorder == {Pt(kMapSize \div 2, kMapSize \div 2), Pt(1, kMapSize - 1)}
=============================================================================
