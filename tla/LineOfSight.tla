---------------------------- MODULE LineOfSight ----------------------------
(***************************************************************************)
(* The function LOS of geo.cpp as the loop it is: one step per iteration,  *)
(* the error term test deciding when the minor coordinate moves.  A call   *)
(* is made for any two points of Ends; FOV's constructor calls it for the  *)
(* origin and every point of its rim.                                      *)
(***************************************************************************)
EXTENDS Geo, Sequences

CONSTANT Ends          \* the points a caller passes

ASSUME EndsAssumption == Ends \subseteq Point

VARIABLES
  running,             \* a call of LOS is in progress
  a, b,                \* its arguments
  i,                   \* the loop counter
  test,                \* the error term
  current,             \* the point reached
  result               \* the points pushed so far

vars == <<running, a, b, i, test, current, result>>

Init ==
  /\ running = FALSE
  /\ a = origin
  /\ b = origin
  /\ i = 0
  /\ test = 0
  /\ current = origin
  /\ result = <<>>

(* The starting error term: half of the major distance, rounded down.      *)
ErrorFull(p, q) == Major(p, q)

ErrorAtStart(p, q) == Major(p, q) \div 2

Call(p, q) ==
  /\ ~running
  /\ running' = TRUE
  /\ a' = p
  /\ b' = q
  /\ i' = 0
  /\ test' = ErrorAtStart(p, q)
  /\ current' = p
  /\ result' = <<p>>

MajorStep == IF XMajor(a, b) THEN Pt(Sign(a.x, b.x), 0) ELSE Pt(0, Sign(a.y, b.y))

MinorStep == IF XMajor(a, b) THEN Pt(0, Sign(a.y, b.y)) ELSE Pt(Sign(a.x, b.x), 0)

(* Does the minor coordinate move when the error term has dropped to t?    *)
OvershootsEarly(t) == t <= 0

OvershootsLate(t) == t < -1

Overshoots(t) == t < 0

(* One iteration of either loop; they differ only in the axis they follow. *)
Iterate ==
  /\ running
  /\ i < Major(a, b)
  /\ LET t == test - Minor(a, b)
     IN  \/ /\ Overshoots(t)
            /\ test' = t + Major(a, b)
            /\ current' = Plus(Plus(current, MajorStep), MinorStep)
         \/ /\ ~Overshoots(t)
            /\ test' = t
            /\ current' = Plus(current, MajorStep)
  /\ result' = Append(result, current')
  /\ i' = i + 1
  /\ UNCHANGED <<running, a, b>>

(* The loop condition is false: LOS asserts the size and returns; the      *)
(* caller keeps the vector.                                                *)
Finished == running /\ i = Major(a, b)

Return ==
  /\ Finished
  /\ running' = FALSE
  /\ UNCHANGED <<a, b, i, test, current, result>>

Next ==
  \/ \E p, q \in Ends : Call(p, q)
  \/ Iterate
  \/ Return

Spec == Init /\ [][Next]_vars

-----------------------------------------------------------------------------
TypeOK ==
  /\ running \in BOOLEAN
  /\ a \in Point
  /\ b \in Point
  /\ i \in Nat
  /\ test \in Nat
  /\ current \in Point
  /\ result \in Seq(Point)

(* When the loop ends the vector has the reserved size (the assert of      *)
(* geo.cpp:44), starts at a and ends exactly at b: the error term makes    *)
(* the minor coordinate move as often as it has to, never once more.       *)
ReachesTheEnd ==
  Finished => Len(result) = Major(a, b) + 1 /\ result[1] = a /\ result[Len(result)] = b

(* The points pushed so far are the first points of the closed form Line:  *)
(* the definition the field of vision is modelled with is what the loop    *)
(* computes.                                                               *)
FollowsLine ==
  running => result = [k \in 1 .. i + 1 |-> LinePoint(a, b, k - 1)]

(* How far the loop has gone along the minor axis.                         *)
MinorMoved == IF XMajor(a, b) THEN Abs(current.y - a.y) ELSE Abs(current.x - a.x)

(* Every point the loop pushes is within half a cell of the ideal segment, *)
(* measured along the minor axis and scaled by twice the major distance.   *)
NearTheSegment ==
  running => 2 * Abs(Major(a, b) * MinorMoved - i * Minor(a, b)) <= Major(a, b)

(* The line from a to b is the line from b to a backwards, as the comment  *)
(* on LOS in geo.cpp:4 ("symmetric") says.                                 *)
SymmetricLine ==
  Finished => \A k \in 1 .. Len(result) : result[k] = Line(b, a)[Len(result) + 1 - k]
=============================================================================
