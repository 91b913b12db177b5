--------------------------- MODULE MCLineOfSight ---------------------------
(***************************************************************************)
(* LineOfSight on every pair of points of a square: all slopes of height   *)
(* and width up to MaxCoordinate, in the eight octants.                    *)
(***************************************************************************)
EXTENDS LineOfSight

MaxCoordinate == 4

Square == [x : 0 .. MaxCoordinate, y : 0 .. MaxCoordinate]
=============================================================================
