------------------------------- MODULE MCGame -------------------------------
(***************************************************************************)
(* Game with the player and the Pidgeys of Flock on a small board.         *)
(***************************************************************************)
EXTENDS Game, LayeredSight

CONSTANTS hero, p1, p2

BoardSize == Pt(3, 2)

One == {hero, p1}

Two == {hero, p1, p2}

(* round(kTurnTimer * speed): a trainer's speed is 1/10, a Pidgey's 1/3.   *)
Charges == [e \in Entity |-> IF e = hero THEN 12 ELSE 40]

(* Three of the keys processInput knows, and one it does not.              *)
Keys == {"h", "l", ".", "q"}

KeySteps == [k \in {"h", "l", "."} |->
  CASE k = "h" -> Pt(-1, 0) [] k = "l" -> Pt(1, 0) [] OTHER -> origin]

(* A world without trees, one with a tree beside the start and one with    *)
(* tall grass there.                                                       *)
World(tile) == [p \in Cells |-> IF p = Pt(0, 1) THEN tile ELSE "grass"]

SmallWorlds == {World(tile) : tile \in Tile}

TreeWorld == {World("tree")}

Views == [m \in {n : n \in TileMap} |-> [p \in Cells |-> Layered(m, p)]]

LayeredView(m, p) == Views[m][p]
=============================================================================
