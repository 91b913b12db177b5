-------------------------------- MODULE Geo --------------------------------
(***************************************************************************)
(* The pure part of geo.h and geo.cpp: points, the norms defined on them,  *)
(* the cells of a Matrix and the digital line that LOS draws, in closed    *)
(* form.  LineOfSight models the loop that computes the line.              *)
(***************************************************************************)
EXTENDS Integers

Point == [x : Int, y : Int]

Pt(x, y) == [x |-> x, y |-> y]

origin == Pt(0, 0)

Plus(p, q) == Pt(p.x + q.x, p.y + q.y)

Minus(p, q) == Pt(p.x - q.x, p.y - q.y)

Abs(n) == IF n < 0 THEN -n ELSE n

Larger(m, n) == IF m >= n THEN m ELSE n

Smaller(m, n) == IF m <= n THEN m ELSE n

lenL2Squared(p) == p.x * p.x + p.y * p.y

lenNethack(p) ==
  (46 * Smaller(Abs(p.x), Abs(p.y)) + 95 * Larger(Abs(p.x), Abs(p.y)) + 25) \div 100

lenWalking(p) == Larger(Abs(p.x), Abs(p.y))

(***************************************************************************)
(* Matrix: the points a Matrix of a given size contains, the value get     *)
(* reads (the default m_init outside), and the index of a point in m_data. *)
(***************************************************************************)
CellsOf(size) == {Pt(x, y) : x \in 0 .. size.x - 1, y \in 0 .. size.y - 1}

MatrixGet(m, init, p) == IF p \in DOMAIN m THEN m[p] ELSE init

MatrixIndex(size, p) == p.x + size.x * p.y

(***************************************************************************)
(* The line from a to b.  One coordinate, the major one, advances by one   *)
(* at each of the Major(a, b) steps; the other advances on the steps where *)
(* the loop's error term becomes negative, which by step k has happened    *)
(* MinorAt(a, b, k) times.                                                 *)
(***************************************************************************)
XDiff(a, b) == Abs(a.x - b.x)

YDiff(a, b) == Abs(a.y - b.y)

Sign(from, to) == IF to < from THEN -1 ELSE 1

XMajor(a, b) == XDiff(a, b) >= YDiff(a, b)

Major(a, b) == IF XMajor(a, b) THEN XDiff(a, b) ELSE YDiff(a, b)

Minor(a, b) == IF XMajor(a, b) THEN YDiff(a, b) ELSE XDiff(a, b)

MinorAt(a, b, k) ==
  IF Major(a, b) = 0
  THEN 0
  ELSE (k * Minor(a, b) + Major(a, b) - 1 - Major(a, b) \div 2) \div Major(a, b)

LinePoint(a, b, k) ==
  IF XMajor(a, b)
  THEN Pt(a.x + Sign(a.x, b.x) * k, a.y + Sign(a.y, b.y) * MinorAt(a, b, k))
  ELSE Pt(a.x + Sign(a.x, b.x) * MinorAt(a, b, k), a.y + Sign(a.y, b.y) * k)

Line(a, b) == [k \in 1 .. Major(a, b) + 1 |-> LinePoint(a, b, k - 1)]
=============================================================================
