---------------------------- MODULE LayeredSight ----------------------------
(***************************************************************************)
(* A field of vision computed layer by layer from the definitions of       *)
(* Sight, for the modules that need its value and not the traversal: the   *)
(* cells at walking distance d are reached from those at distance d - 1.   *)
(***************************************************************************)
EXTENDS Sight, FiniteSetsExt

Layered(m, p) ==
  LET layer[d \in 0 .. kFOVRadius] ==
        IF d = 0
        THEN [c \in VisionCells |-> IF c = Centre THEN InitialSight ELSE -1]
        ELSE LET V == layer[d - 1]
             IN  [c \in VisionCells |->
                    IF lenWalking(Minus(c, Centre)) # d
                    THEN V[c]
                    ELSE Max({-1} \cup {NodeSight(m, p, V, n) :
                               n \in {n \in NodesAt[c] : Reaches(m, p, V, n)}})]
  IN  layer[kFOVRadius]
=============================================================================
