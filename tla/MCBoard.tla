------------------------------ MODULE MCBoard ------------------------------
(***************************************************************************)
(* Board on a few cells.  LayeredView is evaluated once for each map and   *)
(* position, and ViewAssumption with it.                                   *)
(***************************************************************************)
EXTENDS Board, LayeredSight

CONSTANTS e1, e2

BoardSize == Pt(3, 2)

TwoEntities == {e1, e2}

(* Pidgey and trainer speeds, 1/3 and 1/10 of kTurnTimer = 120.            *)
Charges == [e \in TwoEntities |-> IF e = e1 THEN 12 ELSE 40]

(* The domain is written so that TLC enumerates it and keeps the table.    *)
Views == [m \in {n : n \in TileMap} |-> [p \in Cells |-> Layered(m, p)]]

LayeredView(m, p) == Views[m][p]

-----------------------------------------------------------------------------
(* The bound on the maps: after the board is cleared only two cells of the *)
(* first row change, one behind the other: a tree on the nearer one hides  *)
(* the farther one, which may then be set unseen.                          *)
Varied == {Pt(1, 0), Pt(2, 0)}

MapBound == m_map = [p \in Cells |-> "tree"] \/ \A p \in Cells \ Varied : m_map[p] = "grass"

(* The matrix of a dirty vision is dead: getVision overwrites it before    *)
(* anything reads it.  States that differ only there are identified.       *)
LiveState ==
  <<m_map, m_entities, m_entityIndex, m_entityAtPos, pos, move_timer, turn_timer,
    [e \in Entity |-> IF m_vision[e] = NoVision \/ ~m_vision[e].dirty THEN m_vision[e] ELSE "dirty"]>>
=============================================================================
