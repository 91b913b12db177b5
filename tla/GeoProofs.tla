------------------------------ MODULE GeoProofs ------------------------------
(***************************************************************************)
(* Facts about the pure operators, those of Geo and of Sight, for every    *)
(* point, size, map and radius, and the facts of arithmetic that they and  *)
(* other proofs rest on.                                                   *)
(***************************************************************************)
EXTENDS Sight, TLAPS, WellFoundedInduction

-----------------------------------------------------------------------------
(* The least-number principle, from the well-foundedness of < on Nat.      *)
LEMMA LeastNatural ==
  ASSUME NEW S, S \subseteq Nat, S # {}
  PROVE  \E n \in S : \A k \in S : n <= k
<1>1. \E x \in S : \A y \in S : ~(y < x)
  <2> DEFINE R == OpToRel(<, Nat)
  <2>1. IsWellFoundedOn(R, Nat)
    BY NatLessThanWellFounded
  <2>2. \A x, y \in Nat : x < y => <<x, y>> \in R
    BY DEF OpToRel
  <2> HIDE DEF R
  <2>3. PICK x \in S : \A y \in S : ~(<<y, x>> \in R)
    BY <2>1, WFMin
  <2> QED BY <2>2, <2>3, Zenon
<1> QED BY <1>1

(* Integer division by a positive number, as a pair of bounds.             *)
LEMMA DivBounds ==
  ASSUME NEW n \in Int, NEW d \in Nat \ {0}
  PROVE  /\ n \div d \in Int
         /\ d * (n \div d) <= n
         /\ n < d * (n \div d) + d
  OBVIOUS

(* The quotient is the only number within those bounds.                    *)
LEMMA DivUnique ==
  ASSUME NEW n \in Int, NEW d \in Nat \ {0}, NEW q \in Int, d * q <= n, n < d * q + d
  PROVE  n \div d = q
<1> DEFINE r == n \div d
<1>1. r \in Int /\ d * r <= n /\ n < d * r + d
  BY DivBounds
<1>2. ASSUME q >= r + 1 PROVE FALSE
  <2>1. d * q >= d * (r + 1)
    BY <1>1, <1>2
  <2> QED BY <2>1, <1>1
<1>3. ASSUME r >= q + 1 PROVE FALSE
  <2>1. d * r >= d * (q + 1)
    BY <1>1, <1>3
  <2> QED BY <2>1, <1>1
<1> QED BY <1>1, <1>2, <1>3

(* Remainders: the range, the numbers that are their own remainder, and    *)
(* what the remainder is when the quotient is known.                       *)
LEMMA ModRange ==
  ASSUME NEW n \in Int, NEW d \in Nat \ {0}
  PROVE  /\ n % d = n - d * (n \div d)
         /\ n % d \in 0 .. d - 1
  OBVIOUS

LEMMA ModSmall ==
  ASSUME NEW n \in Int, NEW d \in Nat \ {0}, n \in 0 .. d - 1
  PROVE  n % d = n
  OBVIOUS

LEMMA ModUnique ==
  ASSUME NEW n \in Int, NEW d \in Nat \ {0}, NEW q \in Int, d * q <= n, n < d * q + d
  PROVE  n % d = n - d * q
<1>1. n \div d = q
  BY DivUnique
<1> QED BY <1>1, ModRange

(* Products with a sum of two terms and with a sign.                       *)
LEMMA ProductStep ==
  ASSUME NEW h \in Int, NEW k \in Int, NEW n \in Int, NEW d \in {0, 1},
         NEW m \in Int, NEW M \in Int
  PROVE  h - (k + 1) * m + (n + d) * M = (h - k * m + n * M) - m + d * M
  OBVIOUS

LEMMA SignStep ==
  ASSUME NEW u \in Int, NEW s \in {-1, 1}, NEW k \in Int
  PROVE  /\ u + s * (k + 1) = (u + s * k) + s
         /\ u + s * (k + 0) = (u + s * k) + 0
         /\ u + s * k \in Int
<1>1. CASE s = 1
  BY <1>1
<1>2. CASE s = -1
  BY <1>2
<1> QED BY <1>1, <1>2

-----------------------------------------------------------------------------
(* What is known of the two distances.                                     *)
LEMMA Distances ==
  ASSUME NEW p \in Point, NEW q \in Point
  PROVE  /\ XDiff(p, q) \in Nat /\ YDiff(p, q) \in Nat
         /\ Major(p, q) \in Nat
         /\ Minor(p, q) \in Nat
         /\ Minor(p, q) <= Major(p, q)
         /\ Sign(p.x, q.x) \in {-1, 1} /\ Sign(p.y, q.y) \in {-1, 1}
  BY DEF Point, XDiff, YDiff, Abs, Major, Minor, XMajor, Sign

(* The error term with which step k of the line from p to q ends, if the   *)
(* minor coordinate has moved n times.                                     *)
Error(p, q, k, n) == Major(p, q) \div 2 - k * Minor(p, q) + n * Major(p, q)

(* MinorAt is the number of moves that keeps the error term in range.      *)
LEMMA MinorAtUnique ==
  ASSUME NEW p \in Point, NEW q \in Point, NEW k \in Nat, NEW n \in Int,
         Major(p, q) > 0,
         0 <= Error(p, q, k, n), Error(p, q, k, n) < Major(p, q)
  PROVE  MinorAt(p, q, k) = n
<1> DEFINE M == Major(p, q)
           m == Minor(p, q)
           h == M \div 2
<1>1. M \in Nat /\ m \in Nat /\ h \in Int
  BY Distances, DivBounds
<1>2. k * m \in Int /\ n * M \in Int /\ n * M = M * n
  BY <1>1
<1>3. M * n <= k * m + M - 1 - h /\ k * m + M - 1 - h < M * n + M
  BY <1>1, <1>2 DEF Error
<1>4. (k * m + M - 1 - h) \div M = n
  BY <1>1, <1>2, <1>3, DivUnique
<1> QED BY <1>4, <1>1 DEF MinorAt

(* MinorAt at the start and at the end of a line.                          *)
LEMMA MinorAtEnds ==
  ASSUME NEW p \in Point, NEW q \in Point
  PROVE  MinorAt(p, q, 0) = 0 /\ MinorAt(p, q, Major(p, q)) = Minor(p, q)
<1> DEFINE M == Major(p, q)
           m == Minor(p, q)
           h == M \div 2
<1>1. M \in Nat /\ m \in Nat /\ m <= M
  BY Distances
<1>2. h \in Int /\ 2 * h <= M /\ M < 2 * h + 2
  BY <1>1, DivBounds
<1>3. CASE M = 0
  BY <1>1, <1>3 DEF MinorAt
<1>4. CASE M > 0
  <2>1. Error(p, q, 0, 0) = h
    BY <1>1, <1>2 DEF Error
  <2>2. Error(p, q, M, m) = h
    <3>1. M * m \in Int /\ M * m = m * M
      BY <1>1
    <3> QED BY <1>2, <3>1 DEF Error
  <2>3. 0 <= h /\ h < M
    BY <1>1, <1>2, <1>4
  <2> QED BY <1>1, <1>4, <2>1, <2>2, <2>3, MinorAtUnique
<1> QED BY <1>1, <1>3, <1>4

(* The minor coordinate never moves more often than the major one.         *)
LEMMA MinorAtRange ==
  ASSUME NEW p \in Point, NEW q \in Point, NEW k \in Nat
  PROVE  MinorAt(p, q, k) \in 0 .. k
<1> DEFINE M == Major(p, q)
           m == Minor(p, q)
           h == M \div 2
           N == k * m + M - 1 - h
           d == N \div M
<1>1. M \in Nat /\ m \in Nat /\ m <= M
  BY Distances
<1>2. h \in Int /\ 2 * h <= M /\ M < 2 * h + 2
  BY <1>1, DivBounds
<1>3. CASE M = 0
  BY <1>3 DEF MinorAt
<1>4. CASE M > 0
  <2> HIDE DEF M, m, h
  <2>1. k * m \in Nat /\ k * m <= k * M /\ k * M = M * k /\ M * k \in Nat
    BY <1>1
  <2>2. N \in Int /\ 0 <= N /\ N < M * k + M
    BY <1>1, <1>2, <1>4, <2>1
  <2> HIDE DEF N
  <2>3. d \in Int /\ M * d <= N /\ N < M * d + M
    BY <1>1, <1>4, <2>2, DivBounds
  <2> HIDE DEF d
  <2>4. 0 <= d
    <3>1. ASSUME d <= -1 PROVE FALSE
      <4>1. M * d <= M * (-1)
        BY <1>1, <2>3, <3>1
      <4> QED BY <1>1, <2>2, <2>3, <4>1
    <3> QED BY <2>3, <3>1
  <2>5. d <= k
    <3>1. ASSUME d >= k + 1 PROVE FALSE
      <4>1. M * d >= M * (k + 1)
        BY <1>1, <2>3, <3>1
      <4>2. M * (k + 1) = M * k + M
        BY <1>1
      <4> QED BY <1>1, <2>1, <2>2, <2>3, <4>1, <4>2
    <3> QED BY <2>3, <3>1
  <2>6. MinorAt(p, q, k) = d
    BY <1>4 DEF MinorAt, d, N, h, m, M
  <2> QED BY <2>3, <2>4, <2>5, <2>6
<1> QED BY <1>1, <1>3, <1>4

(* At each step it moves once or not at all.                               *)
LEMMA MinorAtStep ==
  ASSUME NEW p \in Point, NEW q \in Point, NEW k \in Nat
  PROVE  MinorAt(p, q, k + 1) \in {MinorAt(p, q, k), MinorAt(p, q, k) + 1}
<1> DEFINE M == Major(p, q)
           m == Minor(p, q)
           h == M \div 2
           N == k * m + M - 1 - h
           d == N \div M
<1>1. M \in Nat /\ m \in Nat /\ m <= M
  BY Distances
<1>2. h \in Int
  BY <1>1, DivBounds
<1>3. CASE M = 0
  BY <1>3 DEF MinorAt
<1>4. CASE M > 0
  <2>1. MinorAt(p, q, k) = d
    BY <1>4 DEF MinorAt
  <2>2. MinorAt(p, q, k + 1) = ((k + 1) * m + M - 1 - h) \div M
    BY <1>4 DEF MinorAt
  <2> HIDE DEF M, m, h
  <2>3. k * m \in Nat /\ (k + 1) * m = k * m + m
    BY <1>1
  <2>4. N \in Int /\ (k + 1) * m + M - 1 - h = N + m
    BY <1>1, <1>2, <2>3
  <2> HIDE DEF N
  <2>5. d \in Int /\ M * d <= N /\ N < M * d + M
    BY <1>1, <1>4, <2>4, DivBounds
  <2> HIDE DEF d
  <2>6. M * (d + 1) = M * d + M /\ M * d \in Int
    BY <1>1, <2>5
  <2>7. CASE N + m < M * d + M
    <3>1. (N + m) \div M = d
      BY <1>1, <1>4, <2>4, <2>5, <2>6, <2>7, DivUnique
    <3> QED BY <2>1, <2>2, <2>4, <3>1
  <2>8. CASE ~(N + m < M * d + M)
    <3>1. M * (d + 1) <= N + m /\ N + m < M * (d + 1) + M
      BY <1>1, <2>4, <2>5, <2>6, <2>8
    <3>2. (N + m) \div M = d + 1
      BY <1>1, <1>4, <2>4, <2>5, <3>1, DivUnique
    <3> QED BY <2>1, <2>2, <2>4, <3>2
  <2> QED BY <2>7, <2>8
<1> QED BY <1>1, <1>3, <1>4

-----------------------------------------------------------------------------
(* Matrix keeps its cells apart: for every size, the index of a cell is    *)
(* inside m_data, whose size the constructor sets to size.x * size.y, and  *)
(* no two cells share an index.                                            *)
THEOREM MatrixCellsAreDistinct ==
  ASSUME NEW size \in Point, NEW p \in CellsOf(size), NEW q \in CellsOf(size)
  PROVE  /\ MatrixIndex(size, p) \in 0 .. size.x * size.y - 1
         /\ MatrixIndex(size, p) = MatrixIndex(size, q) => p = q
<1> DEFINE X == size.x
           Y == size.y
<1>1. X \in Int /\ Y \in Int
  BY DEF Point
<1>2. /\ p.x \in 0 .. X - 1 /\ p.y \in 0 .. Y - 1
      /\ q.x \in 0 .. X - 1 /\ q.y \in 0 .. Y - 1
      /\ p = Pt(p.x, p.y) /\ q = Pt(q.x, q.y)
  BY <1>1 DEF CellsOf, Pt
<1> HIDE DEF X, Y
<1>3. p.x \in Nat /\ p.y \in Nat /\ q.x \in Nat /\ q.y \in Nat /\ X > 0
  BY <1>1, <1>2
<1>4. /\ X * p.y \in Nat /\ X * q.y \in Nat
      /\ X * p.y + X <= X * Y /\ X * Y \in Int
  <2>1. X * (p.y + 1) <= X * Y
    BY <1>1, <1>2, <1>3
  <2>2. X * (p.y + 1) = X * p.y + X
    BY <1>1, <1>3
  <2> QED BY <1>1, <1>3, <2>1, <2>2
<1>5. MatrixIndex(size, p) \in 0 .. X * Y - 1
  BY <1>1, <1>2, <1>3, <1>4 DEF MatrixIndex, X
<1>6. ASSUME MatrixIndex(size, p) = MatrixIndex(size, q) PROVE p = q
  <2>1. p.x + X * p.y = q.x + X * q.y
    BY <1>6 DEF MatrixIndex, X
  <2>2. ASSUME p.y < q.y PROVE FALSE
    <3>1. X * (p.y + 1) <= X * q.y /\ X * (p.y + 1) = X * p.y + X
      BY <1>1, <1>3, <2>2
    <3> QED BY <1>1, <1>2, <1>3, <1>4, <2>1, <3>1
  <2>3. ASSUME q.y < p.y PROVE FALSE
    <3>1. X * (q.y + 1) <= X * p.y /\ X * (q.y + 1) = X * q.y + X
      BY <1>1, <1>3, <2>3
    <3> QED BY <1>1, <1>2, <1>3, <1>4, <2>1, <3>1
  <2>4. p.y = q.y
    BY <1>3, <2>2, <2>3
  <2>5. p.x = q.x
    BY <1>3, <1>4, <2>1, <2>4
  <2> QED BY <1>2, <2>4, <2>5
<1> QED BY <1>5, <1>6 DEF X, Y

-----------------------------------------------------------------------------
(***************************************************************************)
(* Sight.  Which writes to the map can change a field of vision: only a    *)
(* change of the flags of a cell that the field of vision reaches.  This   *)
(* is what justifies that dirtyVision leaves alone the visions that do not *)
(* see the tile that is set.  And a map and a position have one field of   *)
(* vision only.                                                            *)
(***************************************************************************)
LEMMA BoxPoints ==
  ASSUME NEW r \in Box
  PROVE  /\ r \in Point
         /\ r.x \in -kFOVRadius .. kFOVRadius
         /\ r.y \in -kFOVRadius .. kFOVRadius
  BY RadiusAssumption DEF Box, Pt, Point

(* The points of the sight lines are in the box.                           *)
LEMMA LinesInBox ==
  ASSUME NEW r \in Rim, NEW k \in 0 .. kFOVRadius
  PROVE  OnLine(r, k) \in Box /\ OnLine(r, k) \in Point
<1>1. r \in Box /\ r \in Point
  BY BoxPoints DEF Rim
<1>2. origin \in Point /\ origin.x = 0 /\ origin.y = 0
  BY DEF origin, Pt, Point
<1>3. k \in Nat /\ k <= kFOVRadius /\ kFOVRadius \in Nat
  BY RadiusAssumption
<1> DEFINE n == MinorAt(origin, r, k)
<1>4. n \in 0 .. k
  BY <1>1, <1>2, <1>3, MinorAtRange
<1>5. OnLine(r, k) = LinePoint(origin, r, k)
  BY DEF OnLine, SightLine
<1>6. /\ Sign(origin.x, r.x) \in {-1, 1} /\ Sign(origin.y, r.y) \in {-1, 1}
  BY <1>1, <1>2, Distances
<1> HIDE DEF n
<1>7. /\ 0 + Sign(origin.x, r.x) * k \in -kFOVRadius .. kFOVRadius
      /\ 0 + Sign(origin.y, r.y) * k \in -kFOVRadius .. kFOVRadius
      /\ 0 + Sign(origin.x, r.x) * n \in -kFOVRadius .. kFOVRadius
      /\ 0 + Sign(origin.y, r.y) * n \in -kFOVRadius .. kFOVRadius
  BY <1>3, <1>4, <1>6
<1>8. \E u, v \in -kFOVRadius .. kFOVRadius : OnLine(r, k) = Pt(u, v)
  BY <1>2, <1>5, <1>7 DEF LinePoint, n
<1>9. OnLine(r, k) \in Box
  BY <1>8 DEF Box
<1> QED BY <1>9, BoxPoints

LEMMA BoxCells ==
  ASSUME NEW p \in Box
  PROVE  Plus(p, Centre) \in VisionCells
<1>1. kFOVRadius \in Nat
  BY RadiusAssumption
<1>2. p.x \in -kFOVRadius .. kFOVRadius /\ p.y \in -kFOVRadius .. kFOVRadius
  BY BoxPoints
<1>3. Plus(p, Centre) = Pt(p.x + kFOVRadius, p.y + kFOVRadius)
  BY DEF Plus, Centre, Pt
<1>4. /\ p.x + kFOVRadius \in 0 .. (2 * kFOVRadius + 1) - 1
      /\ p.y + kFOVRadius \in 0 .. (2 * kFOVRadius + 1) - 1
  BY <1>1, <1>2
<1>5. VisionSize.x = 2 * kFOVRadius + 1 /\ VisionSize.y = 2 * kFOVRadius + 1
  BY DEF VisionSize, Pt
<1> QED BY <1>3, <1>4, <1>5 DEF VisionCells, CellsOf

(* The nodes of the trie.                                                  *)
Nodes == {n \in Rim \X (0 .. kFOVRadius) : IsNode(n[1], n[2])}

LEMMA NodeFacts ==
  ASSUME NEW n \in Nodes
  PROVE  /\ n[1] \in Rim /\ n[2] \in 0 .. kFOVRadius /\ n = <<n[1], n[2]>>
         /\ \A j \in 0 .. n[2] - 1 : <<n[1], j>> \in Nodes
<1>1. n[1] \in Rim /\ n[2] \in 0 .. kFOVRadius /\ n = <<n[1], n[2]>> /\ IsNode(n[1], n[2])
  BY DEF Nodes
<1>2. ASSUME NEW j \in 0 .. n[2] - 1 PROVE <<n[1], j>> \in Nodes
  <2>1. j \in 0 .. kFOVRadius
    BY <1>1, RadiusAssumption
  <2>2. IsNode(n[1], j)
    BY <1>1, <2>1, RadiusAssumption DEF IsNode
  <2> QED BY <1>1, <2>1, <2>2 DEF Nodes
<1> QED BY <1>1, <1>2

LEMMA NodesAtCells ==
  ASSUME NEW c \in VisionCells
  PROVE  NodesAt[c] = {n \in Nodes : Plus(OnLine(n[1], n[2]), Centre) = c}
  BY DEF NodesAt, Nodes

(* What a node gives its cell is never negative.                           *)
LEMMA SightIsNatural ==
  ASSUME NEW m, NEW pos \in Point, NEW V \in [VisionCells -> Int], NEW n \in Nodes
  PROVE  NodeSight(m, pos, V, n) \in Nat
<1>1. n[1] \in Rim /\ n[2] \in 0 .. kFOVRadius
  BY NodeFacts
<1>2. CASE n[2] = 0
  BY <1>2, RadiusAssumption DEF NodeSight, InitialSight
<1>3. CASE n[2] # 0
  <2>1. n[2] - 1 \in 0 .. kFOVRadius
    BY <1>1, <1>3, RadiusAssumption
  <2> DEFINE p == OnLine(n[1], n[2])
             parent == OnLine(n[1], n[2] - 1)
             tile == TileAt(m, Plus(p, pos))
             prev == V[Plus(parent, Centre)]
  <2>2. prev \in Int
    BY <1>1, <2>1, LinesInBox, BoxCells
  <2>3. Loss(tile, p, parent) \in Int
    BY DEF Loss
  <2>4. SightAfter(tile, p, parent, prev) \in Nat
    <3> HIDE DEF tile, p, parent, prev
    <3> QED BY <2>2, <2>3 DEF SightAfter, Larger
  <2> QED BY <1>3, <2>4 DEF NodeSight
<1> QED BY <1>2, <1>3

-----------------------------------------------------------------------------
(* Two maps on which the nodes that sight reaches give the same visibility *)
(* have the same field of vision.  Sight reaches the same nodes on both:   *)
(* consider the first node of a line that stops it on one of them.         *)
LEMMA AgreeingMaps ==
  ASSUME NEW m1, NEW m2, NEW pos \in Point, NEW V,
         IsView(m1, pos, V),
         \A n \in Nodes : Reaches(m1, pos, V, n) =>
           NodeSight(m1, pos, V, n) = NodeSight(m2, pos, V, n)
  PROVE  IsView(m2, pos, V)
<1>1. V \in [VisionCells -> Int]
  BY DEF IsView
<1>2. ASSUME NEW n \in Nodes
      PROVE  Reaches(m1, pos, V, n) <=> Reaches(m2, pos, V, n)
  <2> DEFINE r == n[1]
             k == n[2]
             S == {j \in 0 .. k - 1 : ~(NodeSight(m1, pos, V, <<r, j>>) > 0)}
  <2>1. r \in Rim /\ k \in 0 .. kFOVRadius /\ n = <<r, k>>
    BY NodeFacts
  <2>2. \A j \in 0 .. k - 1 : <<r, j>> \in Nodes
    BY NodeFacts
  <2>3. ASSUME NEW j \in 0 .. k - 1, \A l \in 0 .. j - 1 : NodeSight(m1, pos, V, <<r, l>>) > 0
        PROVE  NodeSight(m1, pos, V, <<r, j>>) = NodeSight(m2, pos, V, <<r, j>>)
    <3>1. Reaches(m1, pos, V, <<r, j>>)
      BY <2>3 DEF Reaches
    <3> QED BY <2>2, <3>1
  <2>4. ASSUME Reaches(m1, pos, V, n) PROVE Reaches(m2, pos, V, n)
    <3>1. \A j \in 0 .. k - 1 : NodeSight(m1, pos, V, <<r, j>>) > 0
      BY <2>4 DEF Reaches
    <3>2. ASSUME NEW j \in 0 .. k - 1 PROVE NodeSight(m2, pos, V, <<r, j>>) > 0
      <4>1. \A l \in 0 .. j - 1 : l \in 0 .. k - 1
        BY <2>1, RadiusAssumption
      <4>2. NodeSight(m1, pos, V, <<r, j>>) = NodeSight(m2, pos, V, <<r, j>>)
        BY <2>3, <3>1, <4>1
      <4> QED BY <3>1, <4>2
    <3> QED BY <3>2 DEF Reaches
  <2>5. ASSUME Reaches(m2, pos, V, n), ~Reaches(m1, pos, V, n) PROVE FALSE
    <3>1. S # {} /\ S \subseteq Nat
      BY <2>5 DEF Reaches
    <3>2. PICK j \in S : \A l \in S : j <= l
      BY <3>1, LeastNatural
    <3>3. j \in 0 .. k - 1 /\ ~(NodeSight(m1, pos, V, <<r, j>>) > 0)
      BY <3>2
    <3>4. \A l \in 0 .. j - 1 : NodeSight(m1, pos, V, <<r, l>>) > 0
      <4> SUFFICES ASSUME NEW l \in 0 .. j - 1, ~(NodeSight(m1, pos, V, <<r, l>>) > 0)
                   PROVE  FALSE
        OBVIOUS
      <4>1. l \in 0 .. k - 1 /\ ~(j <= l)
        BY <2>1, <3>3, RadiusAssumption
      <4> QED BY <3>2, <4>1
    <3>5. NodeSight(m1, pos, V, <<r, j>>) = NodeSight(m2, pos, V, <<r, j>>)
      BY <2>3, <3>3, <3>4
    <3>6. NodeSight(m2, pos, V, <<r, j>>) > 0
      BY <2>5, <3>3 DEF Reaches
    <3> QED BY <3>3, <3>5, <3>6
  <2> QED BY <2>4, <2>5
<1>3. ASSUME NEW c \in VisionCells
      PROVE  \/ V[c] = -1 /\ \A n \in NodesAt[c] : ~Reaches(m2, pos, V, n)
             \/ /\ \E n \in NodesAt[c] : Reaches(m2, pos, V, n) /\ V[c] = NodeSight(m2, pos, V, n)
                /\ \A n \in NodesAt[c] :
                     Reaches(m2, pos, V, n) => NodeSight(m2, pos, V, n) <= V[c]
  <2>1. \/ V[c] = -1 /\ \A n \in NodesAt[c] : ~Reaches(m1, pos, V, n)
        \/ /\ \E n \in NodesAt[c] : Reaches(m1, pos, V, n) /\ V[c] = NodeSight(m1, pos, V, n)
           /\ \A n \in NodesAt[c] :
                Reaches(m1, pos, V, n) => NodeSight(m1, pos, V, n) <= V[c]
    BY DEF IsView
  <2>2. \A n \in NodesAt[c] : n \in Nodes
    BY NodesAtCells
  <2>3. \A n \in NodesAt[c] : /\ Reaches(m1, pos, V, n) <=> Reaches(m2, pos, V, n)
                              /\ Reaches(m1, pos, V, n) =>
                                   NodeSight(m1, pos, V, n) = NodeSight(m2, pos, V, n)
    BY <1>2, <2>2
  <2> QED BY <2>1, <2>3, Zenon
<1> QED BY <1>1, <1>3 DEF IsView

(* Maps whose tiles carry the same flags have the same field of vision.    *)
LEMMA SameFlagsSameSight ==
  ASSUME NEW m1, NEW m2, NEW pos \in Point, NEW V, NEW n \in Nodes,
         n[2] # 0 =>
           LET p == Plus(OnLine(n[1], n[2]), pos)
           IN  /\ FlagBlocked(TileAt(m1, p)) = FlagBlocked(TileAt(m2, p))
               /\ FlagObscure(TileAt(m1, p)) = FlagObscure(TileAt(m2, p))
  PROVE  NodeSight(m1, pos, V, n) = NodeSight(m2, pos, V, n)
<1>1. CASE n[2] = 0
  BY <1>1 DEF NodeSight
<1>2. CASE n[2] # 0
  BY <1>2, Zenon DEF NodeSight, SightAfter, Loss
<1> QED BY <1>1, <1>2

(* A field of vision stays what it is when the map changes in one cell q   *)
(* that it does not see, or in none of the flags.                          *)
THEOREM HiddenChangesDoNotMatter ==
  ASSUME NEW m1, NEW m2, NEW pos \in Point, NEW q \in Point, NEW V,
         IsView(m1, pos, V),
         \A p \in Point :
           \/ p = q /\ MatrixGet(V, -1, Plus(q, Minus(Centre, pos))) < 0
           \/ /\ FlagBlocked(TileAt(m1, p)) = FlagBlocked(TileAt(m2, p))
              /\ FlagObscure(TileAt(m1, p)) = FlagObscure(TileAt(m2, p))
  PROVE  IsView(m2, pos, V)
<1>0. V \in [VisionCells -> Int]
  BY DEF IsView
<1>1. ASSUME NEW n \in Nodes, Reaches(m1, pos, V, n)
      PROVE  NodeSight(m1, pos, V, n) = NodeSight(m2, pos, V, n)
  <2> DEFINE o == OnLine(n[1], n[2])
             p == Plus(o, pos)
             c == Plus(o, Centre)
  <2>1. n[1] \in Rim /\ n[2] \in 0 .. kFOVRadius
    BY NodeFacts
  <2>2. o \in Box /\ o \in Point
    BY <2>1, LinesInBox
  <2>3. c \in VisionCells
    BY <2>2, BoxCells
  <2> HIDE DEF o
  <2>4. p \in Point
    BY <2>2 DEF Plus, Pt, Point
  <2>5. ASSUME p = q PROVE ~(MatrixGet(V, -1, Plus(q, Minus(Centre, pos))) < 0)
    <3>1. Centre.x = kFOVRadius /\ Centre.y = kFOVRadius /\ kFOVRadius \in Int
      BY RadiusAssumption DEF Centre, Pt
    <3>2. o.x \in Int /\ o.y \in Int /\ pos.x \in Int /\ pos.y \in Int
      BY <2>2 DEF Point
    <3>3. Plus(q, Minus(Centre, pos)) = c
      BY <2>5, <3>1, <3>2 DEF Plus, Minus, Pt
    <3>4. MatrixGet(V, -1, c) = V[c]
      BY <1>0, <2>3 DEF MatrixGet
    <3>5. n \in NodesAt[c]
      BY <2>3, NodesAtCells DEF o
    <3>6. NodeSight(m1, pos, V, n) <= V[c]
      BY <1>1, <2>3, <3>5, Zenon DEF IsView
    <3>7. NodeSight(m1, pos, V, n) \in Nat /\ V[c] \in Int
      BY <1>0, <2>3, SightIsNatural
    <3> QED BY <3>3, <3>4, <3>6, <3>7
  <2>6. /\ FlagBlocked(TileAt(m1, p)) = FlagBlocked(TileAt(m2, p))
        /\ FlagObscure(TileAt(m1, p)) = FlagObscure(TileAt(m2, p))
    BY <2>4, <2>5, Zenon
  <2> QED BY <2>6, SameFlagsSameSight DEF o
<1> QED BY <1>1, AgreeingMaps

-----------------------------------------------------------------------------
(* The k-th point of a sight line is k steps away from the viewer: the     *)
(* lines that reach a cell reach it with the same index.                   *)
LEMMA StepsToNode ==
  ASSUME NEW r \in Rim, NEW k \in 0 .. kFOVRadius
  PROVE  lenWalking(OnLine(r, k)) = k
<1>1. r \in Point
  BY BoxPoints DEF Rim
<1>2. origin \in Point /\ origin.x = 0 /\ origin.y = 0
  BY DEF origin, Pt, Point
<1>3. k \in Nat
  BY RadiusAssumption
<1> DEFINE n == MinorAt(origin, r, k)
           sx == Sign(origin.x, r.x)
           sy == Sign(origin.y, r.y)
<1>4. n \in 0 .. k
  BY <1>1, <1>2, <1>3, MinorAtRange
<1>5. OnLine(r, k) = LinePoint(origin, r, k)
  BY DEF OnLine, SightLine
<1>6. sx \in {-1, 1} /\ sy \in {-1, 1}
  BY <1>1, <1>2, Distances
<1>7. OnLine(r, k) \in {Pt(0 + sx * k, 0 + sy * n), Pt(0 + sx * n, 0 + sy * k)}
  BY <1>2, <1>5 DEF LinePoint
<1> HIDE DEF n, sx, sy
<1>8. \A s \in {-1, 1}, j \in Nat : 0 + s * j \in Int /\ Abs(0 + s * j) = j
  BY DEF Abs
<1>9. /\ Abs(0 + sx * k) = k /\ Abs(0 + sy * n) = n
      /\ Abs(0 + sx * n) = n /\ Abs(0 + sy * k) = k
  BY <1>3, <1>4, <1>6, <1>8
<1>10. Larger(k, n) = k /\ Larger(n, k) = k
  BY <1>3, <1>4 DEF Larger
<1>11. \A u, v : lenWalking(Pt(u, v)) = Larger(Abs(u), Abs(v))
  BY DEF lenWalking, Pt
<1> QED BY <1>7, <1>9, <1>10, <1>11

(* A matrix that the view from a cell may read: the visibility of a node   *)
(* is that of the cell before it, less the loss.                           *)
CellOf(n) == Plus(OnLine(n[1], n[2]), Centre)

LEMMA NodeSightReads ==
  ASSUME NEW m, NEW pos, NEW V, NEW W, NEW n \in Nodes,
         n[2] # 0 => V[CellOf(<<n[1], n[2] - 1>>)] = W[CellOf(<<n[1], n[2] - 1>>)]
  PROVE  NodeSight(m, pos, V, n) = NodeSight(m, pos, W, n)
<1>1. CASE n[2] = 0
  BY <1>1 DEF NodeSight
<1>2. CASE n[2] # 0
  <2>1. CellOf(<<n[1], n[2] - 1>>) = Plus(OnLine(n[1], n[2] - 1), Centre)
    BY DEF CellOf
  <2> QED BY <1>2, <2>1, Zenon DEF NodeSight
<1> QED BY <1>1, <1>2

(* Nodes on one cell have one index.                                       *)
LEMMA CellHasOneIndex ==
  ASSUME NEW n \in Nodes, NEW o \in Nodes, CellOf(n) = CellOf(o)
  PROVE  n[2] = o[2]
<1> DEFINE p == OnLine(n[1], n[2])
           q == OnLine(o[1], o[2])
<1>1. p \in Point /\ q \in Point
  BY NodeFacts, LinesInBox
<1>2. lenWalking(p) = n[2] /\ lenWalking(q) = o[2]
  BY NodeFacts, StepsToNode
<1>3. Plus(p, Centre) = Plus(q, Centre)
  BY DEF CellOf
<1> HIDE DEF p, q
<1>4. Centre.x = kFOVRadius /\ Centre.y = kFOVRadius /\ kFOVRadius \in Int
  BY RadiusAssumption DEF Centre, Pt
<1>5. p.x \in Int /\ p.y \in Int /\ q.x \in Int /\ q.y \in Int
  BY <1>1 DEF Point
<1>6. p.x + kFOVRadius = q.x + kFOVRadius /\ p.y + kFOVRadius = q.y + kFOVRadius
  BY <1>3, <1>4 DEF Plus, Pt
<1>7. p.x = q.x /\ p.y = q.y
  <2>1. \A a, b, d \in Int : a + d = b + d => a = b
    OBVIOUS
  <2> QED BY <1>4, <1>5, <1>6, <2>1
<1> QED BY <1>2, <1>7 DEF lenWalking

(* A map and a position have one field of vision at most.  Consider two,   *)
(* and a cell nearest to the viewer where they differ: what its nodes give *)
(* is read from nearer cells, where they agree, so they agree there too.   *)
THEOREM ViewIsUnique ==
  ASSUME NEW m, NEW pos \in Point, NEW V, NEW W, IsView(m, pos, V), IsView(m, pos, W)
  PROVE  V = W
<1>1. V \in [VisionCells -> Int] /\ W \in [VisionCells -> Int]
  BY DEF IsView
<1> DEFINE S == {n[2] : n \in {o \in Nodes : V[CellOf(o)] # W[CellOf(o)]}}
<1>2. \A n \in Nodes : CellOf(n) \in VisionCells /\ n[2] \in Nat
  BY NodeFacts, LinesInBox, BoxCells, RadiusAssumption DEF CellOf
<1>3. S = {}
  <2> SUFFICES ASSUME S # {} PROVE FALSE
    OBVIOUS
  <2>1. S \subseteq Nat
    BY <1>2
  <2>2. PICK k \in S : \A l \in S : k <= l
    BY <2>1, LeastNatural
  <2>3. PICK n \in Nodes : V[CellOf(n)] # W[CellOf(n)] /\ n[2] = k
    BY <2>2
  <2>4. ASSUME NEW o \in Nodes, o[2] < k PROVE V[CellOf(o)] = W[CellOf(o)]
    <3>1. o[2] \in Nat /\ k \in Nat
      BY <1>2, <2>1
    <3>2. o[2] \notin S
      BY <2>2, <2>4, <3>1
    <3> QED BY <3>2
  <2> DEFINE c == CellOf(n)
  <2> HIDE DEF S
  <2>5. ASSUME NEW o \in Nodes, o[2] <= k
        PROVE  NodeSight(m, pos, V, o) = NodeSight(m, pos, W, o)
    <3>1. ASSUME o[2] # 0
          PROVE  V[CellOf(<<o[1], o[2] - 1>>)] = W[CellOf(<<o[1], o[2] - 1>>)]
      <4>1. o[2] \in Nat /\ k \in Nat
        BY <1>2, <2>1
      <4>2. o[2] - 1 \in 0 .. o[2] - 1 /\ o[2] - 1 < k
        BY <2>5, <3>1, <4>1
      <4>3. <<o[1], o[2] - 1>> \in Nodes
        BY <4>2, NodeFacts
      <4> QED BY <2>4, <4>2, <4>3
    <3> QED BY <3>1, NodeSightReads
  <2>6. ASSUME NEW o \in NodesAt[c]
        PROVE  /\ Reaches(m, pos, V, o) <=> Reaches(m, pos, W, o)
               /\ NodeSight(m, pos, V, o) = NodeSight(m, pos, W, o)
    <3>1. o \in Nodes /\ CellOf(o) = c
      BY <1>2, NodesAtCells DEF CellOf
    <3>2. o[2] = k
      BY <2>3, <3>1, CellHasOneIndex
    <3>3. k \in Nat
      BY <2>1
    <3>4. \A j \in 0 .. o[2] - 1 : <<o[1], j>> \in Nodes /\ j <= k
      BY <3>1, <3>2, <3>3, NodeFacts
    <3>5. \A j \in 0 .. o[2] - 1 : NodeSight(m, pos, V, <<o[1], j>>) = NodeSight(m, pos, W, <<o[1], j>>)
      BY <2>5, <3>4
    <3>6. NodeSight(m, pos, V, o) = NodeSight(m, pos, W, o)
      BY <2>5, <3>1, <3>2, <3>3
    <3> QED BY <3>5, <3>6 DEF Reaches
  <2>7. c \in VisionCells
    BY <1>2
  <2>8. ASSUME NEW o \in NodesAt[c] PROVE NodeSight(m, pos, V, o) \in Nat
    BY <1>1, <1>2, <2>7, NodesAtCells, SightIsNatural
  <2> HIDE DEF c
  <2>9. \/ V[c] = -1 /\ \A o \in NodesAt[c] : ~Reaches(m, pos, V, o)
        \/ /\ \E o \in NodesAt[c] : Reaches(m, pos, V, o) /\ V[c] = NodeSight(m, pos, V, o)
           /\ \A o \in NodesAt[c] : Reaches(m, pos, V, o) => NodeSight(m, pos, V, o) <= V[c]
    BY <2>7, Zenon DEF IsView
  <2>10. \/ W[c] = -1 /\ \A o \in NodesAt[c] : ~Reaches(m, pos, W, o)
         \/ /\ \E o \in NodesAt[c] : Reaches(m, pos, W, o) /\ W[c] = NodeSight(m, pos, W, o)
            /\ \A o \in NodesAt[c] : Reaches(m, pos, W, o) => NodeSight(m, pos, W, o) <= W[c]
    BY <2>7, Zenon DEF IsView
  <2>11. V[c] \in Int /\ W[c] \in Int
    BY <1>1, <2>7
  <2>12. CASE \A o \in NodesAt[c] : ~Reaches(m, pos, V, o)
    <3>1. V[c] = -1
      BY <2>9, <2>12
    <3>2. W[c] = -1
      BY <2>6, <2>10, <2>12
    <3> QED BY <2>3, <3>1, <3>2 DEF c
  <2>13. CASE ~(\A o \in NodesAt[c] : ~Reaches(m, pos, V, o))
    <3>1. PICK a \in NodesAt[c] : Reaches(m, pos, V, a) /\ V[c] = NodeSight(m, pos, V, a)
      BY <2>9, <2>13
    <3>2. PICK b \in NodesAt[c] : Reaches(m, pos, W, b) /\ W[c] = NodeSight(m, pos, W, b)
      BY <2>6, <2>10, <2>13
    <3>3. NodeSight(m, pos, V, b) <= V[c]
      BY <2>6, <2>9, <2>13, <3>2
    <3>4. NodeSight(m, pos, W, a) <= W[c]
      BY <2>6, <2>10, <2>13, <3>1
    <3>5. NodeSight(m, pos, V, a) = NodeSight(m, pos, W, a)
          /\ NodeSight(m, pos, V, b) = NodeSight(m, pos, W, b)
      BY <2>6
    <3>6. V[c] <= W[c] /\ W[c] <= V[c]
      BY <3>1, <3>2, <3>3, <3>4, <3>5
    <3>7. V[c] = W[c]
      BY <2>11, <3>6
    <3> QED BY <2>3, <3>7 DEF c
  <2> QED BY <2>12, <2>13
<1>4. ASSUME NEW c \in VisionCells PROVE V[c] = W[c]
  <2>1. CASE NodesAt[c] = {}
    <3>1. V[c] = -1 /\ W[c] = -1
      BY <2>1, Zenon DEF IsView
    <3> QED BY <3>1
  <2>2. CASE NodesAt[c] # {}
    <3>1. PICK n \in Nodes : CellOf(n) = c
      BY <2>2, NodesAtCells DEF CellOf
    <3> QED BY <1>3, <3>1
  <2> QED BY <2>1, <2>2
<1> QED BY <1>1, <1>4
=============================================================================
