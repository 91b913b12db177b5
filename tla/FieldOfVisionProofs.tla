------------------------ MODULE FieldOfVisionProofs ------------------------
(***************************************************************************)
(* Theorems about FieldOfVision, for any radii, maps and viewers: the trie *)
(* that the constructor builds holds the sight lines, and the walk through *)
(* it ends with the field of vision that Sight defines.                    *)
(***************************************************************************)
EXTENDS FieldOfVision, GeoProofs, FiniteSetTheorems

-----------------------------------------------------------------------------
(* The nodes of the trie as sequences of points: the beginnings of the     *)
(* sight lines.                                                            *)
Path(r, k) == [j \in 1 .. k + 1 |-> OnLine(r, j - 1)]

PathsTo(L) == {Path(n[1], n[2]) : n \in {o \in Nodes : o[1] \in L}}

Paths == PathsTo(Rim)

ChildrenIn(P, node) == {q \in P : Len(q) >= 2 /\ Front(q) = node}

(* The trie holds the lines to the rim points handled so far.              *)
Handled == {RimPoint(n) : n \in 0 .. lines - 1}

IsTrieOf(trie, L) ==
  /\ DOMAIN trie = {Root} \cup PathsTo(L)
  /\ \A node \in DOMAIN trie :
       /\ trie[node] \in Seq(PathsTo(L))
       /\ ToSet(trie[node]) = ChildrenIn(PathsTo(L), node)

-----------------------------------------------------------------------------
(* What the callback computes for a node, with all it reads spelled out.   *)
SightOf(m, at, V, node) ==
  IF node = Root
  THEN InitialSight
  ELSE LET o == Last(node)
           parent == node[Len(node) - 1]
       IN  SightAfter(TileAt(m, Plus(o, at)), o, parent, V[Plus(parent, Centre)])

CellAt(node) == Plus(Last(node), Centre)

(* The walk when k is the next node of the queue Q to visit.  The queue    *)
(* is breadth first.  The matrix has the best of what the nodes visited    *)
(* give, and they give what they gave when they were visited.  The queue   *)
(* holds the children of the nodes visited that sight goes past, and only  *)
(* those.                                                                  *)
BreadthFirst(Q, k) ==
  /\ \A j, l \in 1 .. Len(Q) : j <= l => Len(Q[j]) <= Len(Q[l])
  /\ k <= Len(Q) => \A l \in 1 .. Len(Q) : Len(Q[l]) <= Len(Q[k]) + 1

HoldsBest(m, at, Q, k, V) ==
  /\ \A c \in VisionCells :
       V[c] # -1 => \E j \in 1 .. k - 1 : CellAt(Q[j]) = c /\ V[c] = SightOf(m, at, V, Q[j])
  /\ \A j \in 1 .. k - 1 : SightOf(m, at, V, Q[j]) <= V[CellAt(Q[j])]

HoldsChildren(m, at, Q, k, V) ==
  \A j \in 1 .. k - 1 :
    SightOf(m, at, V, Q[j]) > 0 =>
      \A q \in ChildrenIn(Paths, Q[j]) : \E l \in 1 .. Len(Q) : Q[l] = q

HasParents(m, at, Q, k, V) ==
  \A l \in 2 .. Len(Q) :
    \E j \in 1 .. k - 1 : Front(Q[l]) = Q[j] /\ SightOf(m, at, V, Q[j]) > 0

Walks(m, at, Q, k, V) ==
  /\ Q \in Seq(Paths) /\ Len(Q) >= 1 /\ Q[1] = Root
  /\ k \in 1 .. Len(Q) + 1
  /\ V \in [VisionCells -> -1 .. InitialSight]
  /\ BreadthFirst(Q, k)
  /\ HoldsBest(m, at, Q, k, V)
  /\ HoldsChildren(m, at, Q, k, V)
  /\ HasParents(m, at, Q, k, V)

TrieInv ==
  /\ lines \in 0 .. 8 * (kFOVRadius + 1)
  /\ IsTrieOf(children, Handled)

WalkInv ==
  /\ looking \in BOOLEAN
  /\ looking = TRUE => cache # <<>>
  /\ cache = <<>> => i = 1 /\ visibility = Dark
  /\ cache # <<>> => Built /\ Walks(m_map, pos, cache, i, visibility)

SightInv == TrieInv /\ WalkInv

-----------------------------------------------------------------------------
(* Paths.                                                                  *)
LEMMA PathFacts ==
  ASSUME NEW n \in Nodes
  PROVE  /\ n[1] \in Rim /\ n[2] \in Nat /\ n[2] <= kFOVRadius
         /\ Path(n[1], n[2]) \in Seq(Point)
         /\ Len(Path(n[1], n[2])) = n[2] + 1
         /\ DOMAIN Path(n[1], n[2]) = 1 .. n[2] + 1
         /\ \A j \in 1 .. n[2] + 1 : Path(n[1], n[2])[j] = OnLine(n[1], j - 1)
<1>1. n[1] \in Rim /\ n[2] \in Nat /\ n[2] <= kFOVRadius /\ kFOVRadius \in Nat
  BY NodeFacts, RadiusAssumption
<1>2. \A j \in 1 .. n[2] + 1 : OnLine(n[1], j - 1) \in Point
  BY <1>1, LinesInBox
<1> DEFINE r == n[1]
           k == n[2]
<1> HIDE DEF r, k
<1>3. r \in Rim /\ k \in Nat /\ k <= kFOVRadius
  BY <1>1 DEF r, k
<1>4. \A j \in 1 .. k + 1 : OnLine(r, j - 1) \in Point
  BY <1>2 DEF r, k
<1>5. Path(r, k) \in [1 .. k + 1 -> Point]
  BY <1>4 DEF Path
<1>6. \A j \in 1 .. k + 1 : Path(r, k)[j] = OnLine(r, j - 1)
  BY DEF Path
<1>7. k + 1 \in Nat
  BY <1>3
<1>8. Path(r, k) \in Seq(Point) /\ Len(Path(r, k)) = k + 1 /\ DOMAIN Path(r, k) = 1 .. k + 1
  BY <1>5, <1>7
<1> QED BY <1>1, <1>6, <1>8 DEF r, k

LEMMA RootPath ==
  ASSUME NEW r \in Rim
  PROVE  /\ <<r, 0>> \in Nodes
         /\ Path(r, 0) = Root
         /\ OnLine(r, 0) = origin
<1>1. 0 \in 0 .. kFOVRadius
  BY RadiusAssumption
<1>2. IsNode(r, 0)
  BY DEF IsNode
<1>3. <<r, 0>> \in Nodes
  BY <1>1, <1>2 DEF Nodes
<1>4. r \in Point /\ origin \in Point /\ origin.x = 0 /\ origin.y = 0 /\ origin = Pt(0, 0)
  BY BoxPoints DEF Rim, origin, Pt, Point
<1>5. OnLine(r, 0) = LinePoint(origin, r, 0)
  BY <1>1 DEF OnLine, SightLine
<1>6. MinorAt(origin, r, 0) = 0
  BY <1>4, MinorAtEnds
<1>7. Sign(origin.x, r.x) \in {-1, 1} /\ Sign(origin.y, r.y) \in {-1, 1}
  BY <1>4, Distances
<1>8. \A s \in {-1, 1} : 0 + s * 0 = 0
  OBVIOUS
<1>9. OnLine(r, 0) = origin
  BY <1>4, <1>5, <1>6, <1>7, <1>8 DEF LinePoint
<1>10. Path(r, 0) \in [1 .. 1 -> {origin}]
  <2>1. \A j \in 1 .. 0 + 1 : OnLine(r, j - 1) = origin
    BY <1>9
  <2> QED BY <2>1 DEF Path
<1>11. Path(r, 0) = Root
  BY <1>10 DEF Root
<1> QED BY <1>3, <1>9, <1>11

(* The rim has points.                                                     *)
LEMMA RimIsNotEmpty == \E r \in Rim : TRUE
<1>1. Pt(kFOVRadius, 0) \in Rim
  <2>1. kFOVRadius \in Nat /\ 0 \in -kFOVRadius .. kFOVRadius /\ kFOVRadius \in -kFOVRadius .. kFOVRadius
    BY RadiusAssumption
  <2>2. Pt(kFOVRadius, 0) \in Box
    BY <2>1 DEF Box
  <2>3. lenWalking(Pt(kFOVRadius, 0)) = kFOVRadius
    BY <2>1 DEF lenWalking, Larger, Abs, Pt
  <2> QED BY <2>2, <2>3 DEF Rim
<1> QED BY <1>1

(* The parent of a path is the path of the node before.                    *)
LEMMA ParentPath ==
  ASSUME NEW n \in Nodes, n[2] # 0
  PROVE  /\ <<n[1], n[2] - 1>> \in Nodes
         /\ Front(Path(n[1], n[2])) = Path(n[1], n[2] - 1)
         /\ n[2] - 1 \in Nat
         /\ Path(n[1], n[2]) # Root
<1>1. n[2] \in Nat /\ n[2] - 1 \in 0 .. n[2] - 1 /\ n[2] - 1 \in Nat
  BY PathFacts
<1>2. <<n[1], n[2] - 1>> \in Nodes
  BY <1>1, NodeFacts
<1> DEFINE q == Path(n[1], n[2])
           k == n[2]
<1>3. q \in Seq(Point) /\ Len(q) = k + 1 /\ \A j \in 1 .. k + 1 : q[j] = OnLine(n[1], j - 1)
  BY PathFacts
<1>4. Path(n[1], k - 1) = [j \in 1 .. k |-> OnLine(n[1], j - 1)]
  <2>1. (k - 1) + 1 = k
    BY <1>1
  <2> QED BY <2>1 DEF Path
<1> HIDE DEF q, k
<1>5. k \in Nat /\ k # 0
  BY <1>1 DEF k
<1>6. Front(q) = SubSeq(q, 1, k)
  BY <1>3, <1>5 DEF Front
<1>7. SubSeq(q, 1, k) = [j \in 1 .. k |-> q[j]]
  BY <1>3, <1>5
<1>8. \A j \in 1 .. k : q[j] = OnLine(n[1], j - 1)
  BY <1>3, <1>5
<1>9. Front(q) = Path(n[1], k - 1)
  BY <1>4, <1>6, <1>7, <1>8
<1>10. q # Root
  BY <1>3, <1>5 DEF Root
<1> QED BY <1>1, <1>2, <1>9, <1>10 DEF q, k

-----------------------------------------------------------------------------
(* The line to a rim point is as long as the radius, and its beginnings    *)
(* are paths.                                                              *)
LEMMA LineIsPath ==
  ASSUME NEW r \in Rim
  PROVE  /\ Line(origin, r) = [j \in 1 .. kFOVRadius + 1 |-> OnLine(r, j - 1)]
         /\ Line(origin, r) \in Seq(Point)
         /\ Len(Line(origin, r)) = kFOVRadius + 1
         /\ \A k \in 1 .. kFOVRadius + 1 : SubSeq(Line(origin, r), 1, k) = Path(r, k - 1)
<1>1. r \in Point /\ lenWalking(r) = kFOVRadius /\ kFOVRadius \in Nat
  BY BoxPoints, RadiusAssumption DEF Rim
<1>2. Major(origin, r) = kFOVRadius
  <2>1. r.x \in Int /\ r.y \in Int /\ origin.x = 0 /\ origin.y = 0
    BY <1>1 DEF Point, origin, Pt
  <2>2. Abs(0 - r.x) = Abs(r.x) /\ Abs(0 - r.y) = Abs(r.y)
    BY <2>1 DEF Abs
  <2> QED BY <1>1, <2>1, <2>2 DEF Major, XMajor, XDiff, YDiff, lenWalking, Larger
<1>3. \A j \in 1 .. kFOVRadius + 1 : LinePoint(origin, r, j - 1) = OnLine(r, j - 1)
  <2>1. \A j \in 1 .. kFOVRadius + 1 : j - 1 \in 0 .. kFOVRadius
    BY <1>1
  <2> QED BY <2>1 DEF OnLine, SightLine
<1> DEFINE L == Line(origin, r)
<1>4. L = [j \in 1 .. kFOVRadius + 1 |-> OnLine(r, j - 1)]
  BY <1>2, <1>3 DEF Line
<1>5. \A j \in 1 .. kFOVRadius + 1 : OnLine(r, j - 1) \in Point
  BY <1>1, LinesInBox
<1> HIDE DEF L
<1>6. L \in [1 .. kFOVRadius + 1 -> Point]
  BY <1>4, <1>5
<1>7. L \in Seq(Point) /\ Len(L) = kFOVRadius + 1
  <2>1. kFOVRadius + 1 \in Nat
    BY <1>1
  <2> QED BY <1>6, <2>1
<1>8. ASSUME NEW k \in 1 .. kFOVRadius + 1
      PROVE  SubSeq(L, 1, k) = Path(r, k - 1)
  <2>1. SubSeq(L, 1, k) = [j \in 1 .. k |-> L[j]]
    BY <1>1, <1>7
  <2>2. (k - 1) + 1 = k
    BY <1>1
  <2>3. Path(r, k - 1) = [j \in 1 .. k |-> OnLine(r, j - 1)]
    BY <2>2 DEF Path
  <2>4. \A j \in 1 .. k : L[j] = OnLine(r, j - 1)
    BY <1>1, <1>4
  <2> QED BY <2>1, <2>3, <2>4
<1> QED BY <1>4, <1>7, <1>8 DEF L

(* NodeCount goes as far as the first point outside of the disc: it counts *)
(* the nodes of the line.                                                  *)
LEMMA NodeCountIs ==
  ASSUME NEW r \in Rim
  PROVE  /\ NodeCount(Line(origin, r)) \in 1 .. kFOVRadius + 1
         /\ \A k \in 1 .. kFOVRadius + 1 :
              k <= NodeCount(Line(origin, r)) <=> <<r, k - 1>> \in Nodes
<1> DEFINE L == Line(origin, r)
           Stops(n) == /\ n = Len(L) \/ ~InDisc(L[n])
                       /\ \A j \in 1 .. n - 1 : InDisc(L[j])
           Out == {n \in 1 .. Len(L) : n = Len(L) \/ ~InDisc(L[n])}
<1>1. kFOVRadius \in Nat /\ Len(L) = kFOVRadius + 1
  BY LineIsPath, RadiusAssumption
<1>2. \A j \in 1 .. kFOVRadius + 1 : L[j] = OnLine(r, j - 1)
  BY LineIsPath
<1> HIDE DEF L
<1>3. \E n \in 1 .. Len(L) : Stops(n)
  <2>1. Out # {} /\ Out \subseteq Nat
    BY <1>1
  <2>2. PICK n \in Out : \A k \in Out : n <= k
    BY <2>1, LeastNatural
  <2>3. ASSUME NEW j \in 1 .. n - 1 PROVE InDisc(L[j])
    <3>1. j \in 1 .. Len(L) /\ ~(n <= j)
      BY <1>1, <2>2
    <3> QED BY <2>2, <3>1
  <2> QED BY <2>2, <2>3
<1> DEFINE N == NodeCount(L)
<1>4. N \in 1 .. Len(L) /\ Stops(N)
  <2>1. N = CHOOSE n \in 1 .. Len(L) : Stops(n)
    BY DEF NodeCount
  <2> HIDE DEF N, Stops
  <2> QED BY <1>3, <2>1
<1> HIDE DEF N
<1>5. ASSUME NEW k \in 1 .. kFOVRadius + 1
      PROVE  k <= N <=> <<r, k - 1>> \in Nodes
  <2>1. k \in Nat /\ k - 1 \in 0 .. kFOVRadius /\ N \in Nat
    BY <1>1, <1>4
  <2>2. <<r, k - 1>> \in Nodes <=> \A j \in 0 .. k - 2 : InDisc(OnLine(r, j))
    <3>1. (k - 1) - 1 = k - 2
      BY <2>1
    <3> QED BY <2>1, <3>1 DEF Nodes, IsNode
  <2>3. ASSUME k <= N, NEW j \in 0 .. k - 2 PROVE InDisc(OnLine(r, j))
    <3>1. j + 1 \in 1 .. N - 1 /\ j + 1 \in 1 .. kFOVRadius + 1 /\ (j + 1) - 1 = j
      BY <1>1, <2>1, <2>3
    <3>2. InDisc(L[j + 1])
      BY <1>4, <3>1
    <3> QED BY <1>2, <3>1, <3>2
  <2>4. ASSUME \A j \in 0 .. k - 2 : InDisc(OnLine(r, j)), ~(k <= N) PROVE FALSE
    <3>1. N \in 1 .. kFOVRadius + 1 /\ N # Len(L) /\ N - 1 \in 0 .. k - 2
      BY <1>1, <1>4, <2>1, <2>4
    <3>2. ~InDisc(L[N])
      BY <1>4, <3>1
    <3> QED BY <1>2, <2>4, <3>1, <3>2
  <2> QED BY <2>2, <2>3, <2>4
<1> QED BY <1>1, <1>4, <1>5 DEF N, L

(* A path is a path to one line at least; its length is that of its node.  *)
LEMMA PathNode ==
  ASSUME NEW L, NEW q \in PathsTo(L)
  PROVE  \E n \in Nodes : n[1] \in L /\ q = Path(n[1], n[2]) /\ Len(q) = n[2] + 1
  BY PathFacts DEF PathsTo

(* The sequence of a set with one element at most.                         *)
LEMMA SequenceOfSmallSet ==
  ASSUME NEW S, \A x, y \in S : x = y
  PROVE  SetToSeq(S) \in Seq(S) /\ ToSet(SetToSeq(S)) = S
<1> DEFINE f == SetToSeq(S)
<1>1. CASE S = {}
  <2>1. Cardinality(S) = 0
    BY <1>1, FS_EmptySet
  <2>2. \E g \in [1 .. 0 -> S] : IsInjective(g)
    <3>1. [j \in 1 .. 0 |-> j] \in [1 .. 0 -> S] /\ IsInjective([j \in 1 .. 0 |-> j])
      BY DEF IsInjective
    <3> QED BY <3>1
  <2>3. f \in [1 .. 0 -> S]
    BY <2>1, <2>2 DEF SetToSeq
  <2> HIDE DEF f
  <2>4. f \in Seq(S)
    BY <2>3
  <2>5. ToSet(f) = {}
    BY <2>3 DEF ToSet
  <2> QED BY <1>1, <2>4, <2>5 DEF f
<1>2. CASE S # {}
  <2>1. PICK x \in S : S = {x}
    BY <1>2
  <2>2. Cardinality(S) = 1
    BY <2>1, FS_Singleton
  <2>3. \E g \in [1 .. 1 -> S] : IsInjective(g)
    <3>1. [j \in 1 .. 1 |-> x] \in [1 .. 1 -> S] /\ IsInjective([j \in 1 .. 1 |-> x])
      BY DEF IsInjective
    <3> QED BY <3>1
  <2>4. f \in [1 .. 1 -> S]
    BY <2>2, <2>3 DEF SetToSeq
  <2> HIDE DEF f
  <2>5. f \in Seq(S)
    <3>1. \E k \in Nat : f \in [1 .. k -> S]
      BY <2>4
    <3> QED BY <3>1
  <2>6. ToSet(f) = {x}
    BY <2>1, <2>4 DEF ToSet
  <2> QED BY <2>1, <2>5, <2>6 DEF f
<1> QED BY <1>1, <1>2

LEMMA SeqSubset ==
  ASSUME NEW S, NEW T, S \subseteq T, NEW s \in Seq(S)
  PROVE  s \in Seq(T)
<1>1. s \in [1 .. Len(s) -> S] /\ Len(s) \in Nat
  OBVIOUS
<1>2. s \in [1 .. Len(s) -> T]
  BY <1>1
<1> QED BY <1>1, <1>2

LEMMA ToSetConcat ==
  ASSUME NEW S, NEW s \in Seq(S), NEW t \in Seq(S)
  PROVE  s \o t \in Seq(S) /\ ToSet(s \o t) = ToSet(s) \cup ToSet(t)
<1>1. s \o t \in Seq(S) /\ Len(s \o t) = Len(s) + Len(t) /\ Len(s) \in Nat /\ Len(t) \in Nat
  OBVIOUS
<1>2. /\ DOMAIN s = 1 .. Len(s) /\ DOMAIN t = 1 .. Len(t)
      /\ DOMAIN (s \o t) = 1 .. Len(s) + Len(t)
  BY <1>1
<1>3. \A j \in 1 .. Len(s) : (s \o t)[j] = s[j]
  BY <1>1
<1>4. \A j \in 1 .. Len(t) : (s \o t)[Len(s) + j] = t[j]
  BY <1>1
<1>5. ASSUME NEW j \in 1 .. Len(s) + Len(t) PROVE (s \o t)[j] \in ToSet(s) \cup ToSet(t)
  <2>1. CASE j \in 1 .. Len(s)
    BY <1>2, <1>3, <2>1 DEF ToSet
  <2>2. CASE j \notin 1 .. Len(s)
    <3>1. j - Len(s) \in 1 .. Len(t) /\ Len(s) + (j - Len(s)) = j
      BY <1>1, <2>2
    <3> QED BY <1>2, <1>4, <3>1 DEF ToSet
  <2> QED BY <2>1, <2>2
<1>6. ASSUME NEW x \in ToSet(s) PROVE x \in ToSet(s \o t)
  <2>1. PICK j \in 1 .. Len(s) : x = s[j]
    BY <1>2, <1>6 DEF ToSet
  <2>2. j \in 1 .. Len(s) + Len(t)
    BY <1>1
  <2> QED BY <1>2, <1>3, <2>1, <2>2 DEF ToSet
<1>7. ASSUME NEW x \in ToSet(t) PROVE x \in ToSet(s \o t)
  <2>1. PICK j \in 1 .. Len(t) : x = t[j]
    BY <1>2, <1>7 DEF ToSet
  <2>2. Len(s) + j \in 1 .. Len(s) + Len(t)
    BY <1>1
  <2> QED BY <1>2, <1>4, <2>1, <2>2 DEF ToSet
<1>8. ToSet(s \o t) \subseteq ToSet(s) \cup ToSet(t)
  BY <1>2, <1>5 DEF ToSet
<1> QED BY <1>1, <1>6, <1>7, <1>8

(* A line adds its own paths to the trie, whatever it shares with others.  *)
LEMMA TrieGrows ==
  ASSUME NEW L, NEW r \in Rim, NEW trie, IsTrieOf(trie, L)
  PROVE  IsTrieOf(TrieUpdate(trie, Line(origin, r)), L \cup {r})
<1> DEFINE line == Line(origin, r)
           N == NodeCount(line)
           path(k) == SubSeq(line, 1, k)
           old(node) == IF node \in DOMAIN trie THEN trie[node] ELSE <<>>
           step(node) == {path(k + 1) : k \in {k \in 1 .. N - 1 : path(k) = node}}
           add(node) == step(node) \ ToSet(old(node))
           P == PathsTo(L)
           New == PathsTo({r})
           Both == PathsTo(L \cup {r})
           T == TrieUpdate(trie, line)
<1>1. T = [node \in DOMAIN trie \cup {path(k) : k \in 1 .. N} |->
             old(node) \o SetToSeq(add(node))]
  BY DEF TrieUpdate
<1>2. kFOVRadius \in Nat /\ N \in 1 .. kFOVRadius + 1
  BY NodeCountIs, RadiusAssumption
<1>3. \A k \in 1 .. kFOVRadius + 1 : path(k) = Path(r, k - 1)
  BY LineIsPath
<1>4. \A k \in 1 .. kFOVRadius + 1 : k <= N <=> <<r, k - 1>> \in Nodes
  BY NodeCountIs
<1> HIDE DEF N, line, path
<1>5. New = {path(k) : k \in 1 .. N}
  <2>1. ASSUME NEW q \in New PROVE \E k \in 1 .. N : q = path(k)
    <3>1. PICK n \in Nodes : n[1] = r /\ q = Path(n[1], n[2])
      BY PathNode
    <3>2. n[2] \in 0 .. kFOVRadius /\ n = <<n[1], n[2]>>
      BY NodeFacts
    <3>3. n[2] + 1 \in 1 .. kFOVRadius + 1 /\ (n[2] + 1) - 1 = n[2]
      BY <1>2, <3>2
    <3>4. n[2] + 1 <= N
      BY <1>4, <3>1, <3>2, <3>3
    <3>5. n[2] + 1 \in 1 .. N
      BY <1>2, <3>3, <3>4
    <3> QED BY <1>3, <3>1, <3>3, <3>5
  <2>2. ASSUME NEW k \in 1 .. N PROVE path(k) \in New
    <3>1. k \in 1 .. kFOVRadius + 1 /\ k <= N
      BY <1>2
    <3>2. <<r, k - 1>> \in Nodes /\ path(k) = Path(r, k - 1)
      BY <1>3, <1>4, <3>1
    <3>3. <<r, k - 1>>[1] = r /\ <<r, k - 1>>[2] = k - 1
      OBVIOUS
    <3> QED BY <3>2, <3>3 DEF PathsTo
  <2> QED BY <2>1, <2>2
<1>6. Both = P \cup New
  BY DEF PathsTo
<1>7. DOMAIN trie = {Root} \cup P
  BY DEF IsTrieOf
<1>8. DOMAIN T = {Root} \cup Both
  BY <1>1, <1>5, <1>6, <1>7
<1>9. ASSUME NEW node
      PROVE  old(node) \in Seq(P) /\ ToSet(old(node)) = ChildrenIn(P, node)
  <2>1. CASE node \in DOMAIN trie
    BY <2>1 DEF IsTrieOf
  <2>2. CASE node \notin DOMAIN trie
    <3>1. <<>> \in Seq(P) /\ ToSet(<<>>) = {}
      <4>1. <<>> \in Seq(P)
        OBVIOUS
      <4> QED BY <4>1 DEF ToSet
    <3>2. ASSUME NEW q \in P, Len(q) >= 2, Front(q) = node PROVE FALSE
      <4>1. PICK n \in Nodes : n[1] \in L /\ q = Path(n[1], n[2]) /\ Len(q) = n[2] + 1
        BY PathNode
      <4>2. n[2] # 0 /\ n[2] \in Nat
        BY <3>2, <4>1, PathFacts
      <4>3. <<n[1], n[2] - 1>> \in Nodes /\ Front(q) = Path(n[1], n[2] - 1)
        BY <4>1, <4>2, ParentPath
      <4>4. <<n[1], n[2] - 1>>[1] = n[1] /\ <<n[1], n[2] - 1>>[2] = n[2] - 1
        OBVIOUS
      <4>5. Front(q) \in P
        BY <4>1, <4>3, <4>4 DEF PathsTo
      <4> QED BY <1>7, <2>2, <3>2, <4>5
    <3>3. ChildrenIn(P, node) = {}
      BY <3>2 DEF ChildrenIn
    <3> QED BY <2>2, <3>1, <3>3
  <2> QED BY <2>1, <2>2
<1>10. ASSUME NEW k \in 1 .. N
       PROVE  /\ Len(path(k)) = k
              /\ k > 1 => Front(path(k)) = path(k - 1)
  <2>1. k \in 1 .. kFOVRadius + 1 /\ k <= N
    BY <1>2
  <2>2. <<r, k - 1>> \in Nodes /\ path(k) = Path(r, k - 1)
    BY <1>3, <1>4, <2>1
  <2>3. <<r, k - 1>>[1] = r /\ <<r, k - 1>>[2] = k - 1
    OBVIOUS
  <2>4. Len(path(k)) = (k - 1) + 1
    BY <2>2, <2>3, PathFacts
  <2>5. ASSUME k > 1 PROVE Front(path(k)) = path(k - 1)
    <3>1. k - 1 # 0 /\ k - 1 \in 1 .. kFOVRadius + 1
      BY <1>2, <2>1, <2>5
    <3>2. Front(path(k)) = Path(r, (k - 1) - 1)
      BY <2>2, <2>3, <3>1, ParentPath
    <3> QED BY <1>3, <3>1, <3>2
  <2> QED BY <1>2, <2>4, <2>5
<1>11. ASSUME NEW node
       PROVE  /\ step(node) = ChildrenIn(New, node)
              /\ \A x, y \in step(node) : x = y
  <2>1. ASSUME NEW q \in ChildrenIn(New, node) PROVE q \in step(node)
    <3>1. q \in New /\ Len(q) >= 2 /\ Front(q) = node
      BY <2>1 DEF ChildrenIn
    <3>2. PICK k \in 1 .. N : q = path(k)
      BY <1>5, <3>1
    <3>3. k > 1 /\ Front(path(k)) = path(k - 1)
      BY <1>2, <1>10, <3>1, <3>2
    <3>4. k - 1 \in 1 .. N - 1 /\ (k - 1) + 1 = k
      BY <1>2, <3>3
    <3> QED BY <3>1, <3>2, <3>3, <3>4
  <2>2. ASSUME NEW q \in step(node) PROVE q \in ChildrenIn(New, node) /\ q = path(Len(node) + 1)
    <3>1. PICK k \in 1 .. N - 1 : path(k) = node /\ q = path(k + 1)
      BY <2>2
    <3>2. k \in 1 .. N /\ k + 1 \in 1 .. N /\ k + 1 > 1 /\ (k + 1) - 1 = k /\ k + 1 >= 2
      BY <1>2
    <3>3. Len(node) = k /\ Len(q) = k + 1 /\ Front(q) = node
      BY <1>10, <3>1, <3>2
    <3>4. q \in New
      BY <1>5, <3>1, <3>2
    <3> QED BY <3>1, <3>2, <3>3, <3>4 DEF ChildrenIn
  <2> HIDE DEF step
  <2> QED BY <2>1, <2>2
<1>12. ASSUME NEW node
       PROVE  /\ SetToSeq(add(node)) \in Seq(Both)
              /\ ToSet(SetToSeq(add(node))) = ChildrenIn(New, node) \ ChildrenIn(P, node)
  <2>1. add(node) = ChildrenIn(New, node) \ ChildrenIn(P, node)
    BY <1>9, <1>11
  <2>2. \A x, y \in add(node) : x = y
    <3> HIDE DEF step
    <3> QED BY <1>11
  <2>3. add(node) \subseteq Both
    BY <1>6, <2>1 DEF ChildrenIn
  <2> HIDE DEF add
  <2>4. SetToSeq(add(node)) \in Seq(add(node)) /\ ToSet(SetToSeq(add(node))) = add(node)
    BY <2>2, SequenceOfSmallSet
  <2>5. SetToSeq(add(node)) \in Seq(Both)
    BY <2>3, <2>4, SeqSubset
  <2> QED BY <2>1, <2>4, <2>5
<1>13. ASSUME NEW node \in DOMAIN T
       PROVE  T[node] \in Seq(Both) /\ ToSet(T[node]) = ChildrenIn(Both, node)
  <2>1. T[node] = old(node) \o SetToSeq(add(node))
    BY <1>1, <1>13
  <2>2. old(node) \in Seq(P) /\ ToSet(old(node)) = ChildrenIn(P, node)
    BY <1>9
  <2>6. /\ SetToSeq(add(node)) \in Seq(Both)
        /\ ToSet(SetToSeq(add(node))) = ChildrenIn(New, node) \ ChildrenIn(P, node)
    BY <1>12
  <2> HIDE DEF old, add
  <2>3. old(node) \in Seq(Both)
    BY <1>6, <2>2, SeqSubset
  <2>4. /\ T[node] \in Seq(Both)
        /\ ToSet(T[node]) = ToSet(old(node)) \cup ToSet(SetToSeq(add(node)))
    <3> DEFINE a == old(node)
               b == SetToSeq(add(node))
    <3>1. a \in Seq(Both) /\ b \in Seq(Both) /\ T[node] = a \o b
      BY <2>1, <2>3, <2>6
    <3> HIDE DEF a, b, T, Both
    <3>2. T[node] \in Seq(Both) /\ ToSet(T[node]) = ToSet(a) \cup ToSet(b)
      BY <3>1, ToSetConcat
    <3> QED BY <3>2 DEF a, b
  <2>5. ChildrenIn(Both, node) = ChildrenIn(P, node) \cup ChildrenIn(New, node)
    BY <1>6 DEF ChildrenIn
  <2> QED BY <2>2, <2>4, <2>5, <2>6
<1> QED BY <1>8, <1>13 DEF IsTrieOf, line

-----------------------------------------------------------------------------
(* The constructor handles points of the rim, and all of them: the bits    *)
(* of j choose the axis and the signs.                                     *)
LEMMA RimPointIs ==
  ASSUME NEW d \in 0 .. kFOVRadius, NEW j \in 0 .. 7
  PROVE  /\ 8 * d + j \in 0 .. 8 * (kFOVRadius + 1) - 1
         /\ RimPoint(8 * d + j) =
              Pt(IF j \in {2, 3, 6, 7}
                 THEN (IF j \in {1, 3, 5, 7} THEN kFOVRadius ELSE d)
                 ELSE (IF j \in {1, 3, 5, 7} THEN -kFOVRadius ELSE -d),
                 IF j \in {4, 5, 6, 7}
                 THEN (IF j \in {1, 3, 5, 7} THEN d ELSE kFOVRadius)
                 ELSE (IF j \in {1, 3, 5, 7} THEN -d ELSE -kFOVRadius))
<1>1. kFOVRadius \in Nat /\ d \in Nat /\ d <= kFOVRadius
  BY RadiusAssumption
<1>2. 8 * d + j \in 0 .. 8 * (kFOVRadius + 1) - 1
  BY <1>1
<1>3. (8 * d + j) \div 8 = d /\ (8 * d + j) % 8 = j
  <2>1. 8 * d + j \in Int /\ 8 * d <= 8 * d + j /\ 8 * d + j < 8 * d + 8 /\ d \in Int /\ 8 \in Nat \ {0}
    BY <1>1
  <2>2. (8 * d + j) \div 8 = d
    BY <2>1, DivUnique
  <2>3. (8 * d + j) % 8 = (8 * d + j) - 8 * d
    BY <2>1, ModUnique
  <2> QED BY <1>1, <2>2, <2>3
<1>4. /\ j % 2 = 1 <=> j \in {1, 3, 5, 7}
      /\ (j \div 2) % 2 = 1 <=> j \in {2, 3, 6, 7}
      /\ j \div 4 = 1 <=> j \in {4, 5, 6, 7}
  OBVIOUS
<1>5. RimPoint(8 * d + j) =
        Pt(IF (j \div 2) % 2 = 1
           THEN (IF j % 2 = 1 THEN kFOVRadius ELSE d)
           ELSE -(IF j % 2 = 1 THEN kFOVRadius ELSE d),
           IF j \div 4 = 1
           THEN (IF j % 2 = 1 THEN d ELSE kFOVRadius)
           ELSE -(IF j % 2 = 1 THEN d ELSE kFOVRadius))
  BY <1>3 DEF RimPoint
<1>6. /\ -(IF j % 2 = 1 THEN kFOVRadius ELSE d) = IF j % 2 = 1 THEN -kFOVRadius ELSE -d
      /\ -(IF j % 2 = 1 THEN d ELSE kFOVRadius) = IF j % 2 = 1 THEN -d ELSE -kFOVRadius
  OBVIOUS
<1> QED BY <1>2, <1>4, <1>5, <1>6

LEMMA HandlesTheRim ==
  /\ \A n \in 0 .. 8 * (kFOVRadius + 1) - 1 : RimPoint(n) \in Rim
  /\ \A r \in Rim : \E n \in 0 .. 8 * (kFOVRadius + 1) - 1 : RimPoint(n) = r
<1>1. kFOVRadius \in Nat /\ kFOVRadius # 0
  BY RadiusAssumption
<1>2. ASSUME NEW u \in -kFOVRadius .. kFOVRadius, NEW v \in -kFOVRadius .. kFOVRadius
      PROVE  Pt(u, v) \in Rim <=> u \in {kFOVRadius, -kFOVRadius} \/ v \in {kFOVRadius, -kFOVRadius}
  <2>1. Pt(u, v) \in Box /\ lenWalking(Pt(u, v)) = Larger(Abs(u), Abs(v))
    BY DEF Box, lenWalking, Pt
  <2>2. Larger(Abs(u), Abs(v)) = kFOVRadius <=>
          u \in {kFOVRadius, -kFOVRadius} \/ v \in {kFOVRadius, -kFOVRadius}
    BY <1>1 DEF Larger, Abs
  <2> QED BY <2>1, <2>2 DEF Rim
<1>3. ASSUME NEW n \in 0 .. 8 * (kFOVRadius + 1) - 1 PROVE RimPoint(n) \in Rim
  <2> DEFINE d == n \div 8
             j == n % 8
  <2>1. n \in Int /\ 8 \in Nat \ {0}
    OBVIOUS
  <2>2. d \in Int /\ 8 * d <= n /\ n < 8 * d + 8
    BY <2>1, DivBounds
  <2>3. j = n - 8 * d /\ j \in 0 .. 8 - 1
    BY <2>1, ModRange
  <2> HIDE DEF d, j
  <2>4. d \in 0 .. kFOVRadius /\ j \in 0 .. 7 /\ n = 8 * d + j
    BY <1>1, <2>2, <2>3
  <2>5. \E u, v \in -kFOVRadius .. kFOVRadius :
          /\ RimPoint(n) = Pt(u, v)
          /\ u \in {kFOVRadius, -kFOVRadius} \/ v \in {kFOVRadius, -kFOVRadius}
    <3>1. d \in -kFOVRadius .. kFOVRadius /\ -d \in -kFOVRadius .. kFOVRadius
          /\ kFOVRadius \in -kFOVRadius .. kFOVRadius /\ -kFOVRadius \in -kFOVRadius .. kFOVRadius
      BY <1>1, <2>4
    <3>2. CASE j \in {1, 3, 5, 7}
      <4>1. \E u \in {kFOVRadius, -kFOVRadius}, v \in {d, -d} : RimPoint(n) = Pt(u, v)
        BY <2>4, <3>2, RimPointIs
      <4> QED BY <3>1, <4>1
    <3>3. CASE j \notin {1, 3, 5, 7}
      <4>1. \E u \in {d, -d}, v \in {kFOVRadius, -kFOVRadius} : RimPoint(n) = Pt(u, v)
        BY <2>4, <3>3, RimPointIs
      <4> QED BY <3>1, <4>1
    <3> QED BY <3>2, <3>3
  <2> QED BY <1>2, <2>5
<1>4. ASSUME NEW r \in Rim
      PROVE  \E n \in 0 .. 8 * (kFOVRadius + 1) - 1 : RimPoint(n) = r
  <2>1. PICK u \in -kFOVRadius .. kFOVRadius, v \in -kFOVRadius .. kFOVRadius : r = Pt(u, v)
    BY DEF Rim, Box
  <2>2. u \in {kFOVRadius, -kFOVRadius} \/ v \in {kFOVRadius, -kFOVRadius}
    BY <1>2, <2>1
  <2> SUFFICES \E d \in 0 .. kFOVRadius, j \in 0 .. 7 : RimPoint(8 * d + j) = r
    BY RimPointIs
  <2>3. CASE u \in {kFOVRadius, -kFOVRadius}
    <3> DEFINE d == Abs(v)
               j == 1 + (IF u = kFOVRadius THEN 2 ELSE 0) + (IF v < 0 THEN 0 ELSE 4)
    <3>1. d \in 0 .. kFOVRadius /\ v = IF v < 0 THEN -d ELSE d
      BY <1>1 DEF Abs
    <3>2. j \in 0 .. 7 /\ j \in {1, 3, 5, 7}
          /\ (j \in {2, 3, 6, 7} <=> u = kFOVRadius)
          /\ (j \in {4, 5, 6, 7} <=> ~(v < 0))
      OBVIOUS
    <3> HIDE DEF d, j
    <3>3. RimPoint(8 * d + j) = Pt(u, v)
      BY <1>1, <2>3, <3>1, <3>2, RimPointIs
    <3> QED BY <2>1, <3>1, <3>2, <3>3
  <2>4. CASE v \in {kFOVRadius, -kFOVRadius}
    <3> DEFINE d == Abs(u)
               j == 0 + (IF u < 0 THEN 0 ELSE 2) + (IF v = kFOVRadius THEN 4 ELSE 0)
    <3>1. d \in 0 .. kFOVRadius /\ u = IF u < 0 THEN -d ELSE d
      BY <1>1 DEF Abs
    <3>2. j \in 0 .. 7 /\ j \notin {1, 3, 5, 7}
          /\ (j \in {2, 3, 6, 7} <=> ~(u < 0))
          /\ (j \in {4, 5, 6, 7} <=> v = kFOVRadius)
      OBVIOUS
    <3> HIDE DEF d, j
    <3>3. RimPoint(8 * d + j) = Pt(u, v)
      BY <1>1, <2>4, <3>1, <3>2, RimPointIs
    <3> QED BY <2>1, <3>1, <3>2, <3>3
  <2> QED BY <2>2, <2>3, <2>4
<1> QED BY <1>3, <1>4

-----------------------------------------------------------------------------
(* Paths and the cells at their ends.                                      *)
LEMMA PathCells ==
  ASSUME NEW q \in Paths
  PROVE  /\ Len(q) \in Nat \ {0}
         /\ Len(q) = 1 <=> q = Root
         /\ CellAt(q) \in VisionCells
         /\ Last(q) \in Point
         /\ lenWalking(Last(q)) = Len(q) - 1
         /\ q # Root =>
              /\ Front(q) \in Paths
              /\ Len(Front(q)) = Len(q) - 1
              /\ CellAt(Front(q)) = Plus(q[Len(q) - 1], Centre)
<1>1. PICK n \in Nodes : n[1] \in Rim /\ q = Path(n[1], n[2]) /\ Len(q) = n[2] + 1
  BY PathNode DEF Paths
<1>2. n[2] \in Nat /\ n[2] <= kFOVRadius /\ \A j \in 1 .. n[2] + 1 : q[j] = OnLine(n[1], j - 1)
  BY <1>1, PathFacts
<1>3. n[2] \in 0 .. kFOVRadius /\ n = <<n[1], n[2]>>
  BY NodeFacts
<1>4. Last(q) = OnLine(n[1], n[2])
  <2>1. n[2] + 1 \in 1 .. n[2] + 1 /\ (n[2] + 1) - 1 = n[2]
    BY <1>2
  <2> QED BY <1>1, <1>2, <2>1 DEF Last
<1>5. Len(q) \in Nat \ {0}
  BY <1>1, <1>2
<1>6. CellAt(q) \in VisionCells /\ Last(q) \in Point
  BY <1>1, <1>3, <1>4, LinesInBox, BoxCells DEF CellAt
<1>7. lenWalking(Last(q)) = Len(q) - 1
  <2>1. lenWalking(Last(q)) = n[2]
    BY <1>1, <1>3, <1>4, StepsToNode
  <2> QED BY <1>1, <1>2, <2>1
<1>8. Len(q) = 1 => q = Root
  <2> SUFFICES ASSUME Len(q) = 1 PROVE q = Root
    OBVIOUS
  <2>1. n[2] = 0
    BY <1>1, <1>2
  <2> QED BY <1>1, <2>1, RootPath
<1>9. q = Root => Len(q) = 1
  BY DEF Root
<1>10. ASSUME q # Root
       PROVE  /\ Front(q) \in Paths
              /\ Len(Front(q)) = Len(q) - 1
              /\ CellAt(Front(q)) = Plus(q[Len(q) - 1], Centre)
  <2>1. n[2] # 0
    BY <1>1, <1>8, <1>10
  <2> DEFINE o == <<n[1], n[2] - 1>>
  <2>2. o \in Nodes /\ Front(q) = Path(n[1], n[2] - 1) /\ n[2] - 1 \in Nat
    BY <1>1, <2>1, ParentPath
  <2>3. o[1] = n[1] /\ o[2] = n[2] - 1
    OBVIOUS
  <2> HIDE DEF o
  <2>4. Front(q) \in Paths
    BY <1>1, <2>2, <2>3 DEF Paths, PathsTo
  <2>5. /\ Len(Front(q)) = (n[2] - 1) + 1
        /\ \A j \in 1 .. (n[2] - 1) + 1 : Front(q)[j] = OnLine(n[1], j - 1)
    BY <2>2, <2>3, PathFacts
  <2>6. (n[2] - 1) + 1 = n[2] /\ Len(q) - 1 = n[2] /\ n[2] \in 1 .. n[2] /\ n[2] \in 1 .. n[2] + 1
    BY <1>1, <1>2, <2>1
  <2>7. Last(Front(q)) = OnLine(n[1], n[2] - 1)
    BY <2>5, <2>6 DEF Last
  <2>8. q[Len(q) - 1] = OnLine(n[1], n[2] - 1)
    BY <1>2, <2>6
  <2> QED BY <2>4, <2>5, <2>6, <2>7, <2>8 DEF CellAt
<1> QED BY <1>5, <1>6, <1>7, <1>8, <1>9, <1>10

LEMMA LastOfPath ==
  ASSUME NEW n \in Nodes
  PROVE  Last(Path(n[1], n[2])) = OnLine(n[1], n[2])
<1> DEFINE q == Path(n[1], n[2])
<1>1. n[2] \in Nat /\ Len(q) = n[2] + 1 /\ \A j \in 1 .. n[2] + 1 : q[j] = OnLine(n[1], j - 1)
  BY PathFacts
<1>2. n[2] + 1 \in 1 .. n[2] + 1 /\ (n[2] + 1) - 1 = n[2]
  BY <1>1
<1> HIDE DEF q
<1>3. Last(q) = OnLine(n[1], n[2])
  BY <1>1, <1>2 DEF Last
<1> QED BY <1>3 DEF q

LEMMA RootIsPath == Root \in Paths
<1>1. PICK r \in Rim : TRUE
  BY RimIsNotEmpty
<1>2. <<r, 0>> \in Nodes /\ Path(r, 0) = Root
  BY RootPath
<1>3. <<r, 0>>[1] = r /\ <<r, 0>>[2] = 0
  OBVIOUS
<1> QED BY <1>2, <1>3 DEF Paths, PathsTo

(* The cell of a path, relative to the viewer again.                       *)
LEMMA FromCell ==
  ASSUME NEW q \in Paths
  PROVE  Minus(CellAt(q), Centre) = Last(q)
<1>1. Last(q) \in Point
  BY PathCells
<1>2. Last(q).x \in Int /\ Last(q).y \in Int /\ Last(q) = Pt(Last(q).x, Last(q).y)
  BY <1>1 DEF Point, Pt
<1>3. Centre.x = kFOVRadius /\ Centre.y = kFOVRadius /\ kFOVRadius \in Int
  BY RadiusAssumption DEF Centre, Pt
<1>4. (Last(q).x + kFOVRadius) - kFOVRadius = Last(q).x
      /\ (Last(q).y + kFOVRadius) - kFOVRadius = Last(q).y
  BY <1>2, <1>3
<1>5. \A u, v : Pt(u, v).x = u /\ Pt(u, v).y = v
  BY DEF Pt
<1> QED BY <1>2, <1>3, <1>4, <1>5 DEF Minus, Plus, CellAt

(* Paths that end on one cell have one length.                             *)
LEMMA CellHasOneLength ==
  ASSUME NEW p \in Paths, NEW q \in Paths, CellAt(p) = CellAt(q)
  PROVE  Len(p) = Len(q)
<1>1. Last(p) = Last(q)
  BY FromCell
<1>2. lenWalking(Last(p)) = Len(p) - 1 /\ lenWalking(Last(q)) = Len(q) - 1
  BY PathCells
<1>3. Len(p) \in Nat /\ Len(q) \in Nat
  BY PathCells
<1> QED BY <1>1, <1>2, <1>3

(* What a path gives its cell.                                             *)
LEMMA SightOfRange ==
  ASSUME NEW m, NEW at, NEW V \in [VisionCells -> -1 .. InitialSight], NEW q \in Paths
  PROVE  SightOf(m, at, V, q) \in 0 .. InitialSight
<1>1. InitialSight \in Nat
  BY RadiusAssumption DEF InitialSight
<1>2. CASE q = Root
  BY <1>1, <1>2 DEF SightOf
<1>3. CASE q # Root
  <2> DEFINE parent == q[Len(q) - 1]
             tile == TileAt(m, Plus(Last(q), at))
             prev == V[Plus(parent, Centre)]
  <2>1. prev \in -1 .. InitialSight
    BY <1>3, PathCells
  <2>2. Loss(tile, Last(q), parent) \in Nat
    BY DEF Loss
  <2>3. SightAfter(tile, Last(q), parent, prev) \in 0 .. InitialSight
    <3> HIDE DEF tile, parent, prev
    <3> QED BY <1>1, <2>1, <2>2 DEF SightAfter, Larger
  <2> QED BY <1>3, <2>3 DEF SightOf
<1> QED BY <1>2, <1>3

LEMMA SightOfReads ==
  ASSUME NEW m, NEW at, NEW V, NEW W, NEW q \in Paths,
         q # Root => V[CellAt(Front(q))] = W[CellAt(Front(q))]
  PROVE  SightOf(m, at, V, q) = SightOf(m, at, W, q)
<1>1. CASE q = Root
  BY <1>1 DEF SightOf
<1>2. CASE q # Root
  <2>1. V[Plus(q[Len(q) - 1], Centre)] = W[Plus(q[Len(q) - 1], Centre)]
    BY <1>2, PathCells
  <2> QED BY <1>2, <2>1, Zenon DEF SightOf
<1> QED BY <1>1, <1>2

LEMMA SightOfNode ==
  ASSUME NEW m, NEW at, NEW V, NEW n \in Nodes
  PROVE  /\ Path(n[1], n[2]) \in Paths
         /\ CellAt(Path(n[1], n[2])) = CellOf(n)
         /\ SightOf(m, at, V, Path(n[1], n[2])) = NodeSight(m, at, V, n)
<1> DEFINE q == Path(n[1], n[2])
<1>1. /\ n[1] \in Rim /\ n[2] \in Nat /\ Len(q) = n[2] + 1
      /\ \A j \in 1 .. n[2] + 1 : q[j] = OnLine(n[1], j - 1)
  BY PathFacts
<1>2. q \in Paths
  BY <1>1 DEF Paths, PathsTo
<1>3. Last(q) = OnLine(n[1], n[2])
  <2>1. n[2] + 1 \in 1 .. n[2] + 1 /\ (n[2] + 1) - 1 = n[2]
    BY <1>1
  <2> HIDE DEF q
  <2> QED BY <1>1, <2>1 DEF Last
<1>4. CellAt(q) = CellOf(n)
  BY <1>3 DEF CellAt, CellOf
<1>5. SightOf(m, at, V, q) = NodeSight(m, at, V, n)
  <2>1. CASE n[2] = 0
    <3>1. q = Root
      BY <1>1, <2>1, RootPath
    <3> QED BY <2>1, <3>1 DEF SightOf, NodeSight
  <2>2. CASE n[2] # 0
    <3>1. q # Root
      BY <2>2, ParentPath
    <3>2. Len(q) - 1 = n[2] /\ n[2] \in 1 .. n[2] + 1
      BY <1>1, <2>2
    <3>3. q[Len(q) - 1] = OnLine(n[1], n[2] - 1)
      BY <1>1, <3>2
    <3> HIDE DEF q
    <3> QED BY <1>3, <2>2, <3>1, <3>3, Zenon DEF SightOf, NodeSight
  <2> QED BY <2>1, <2>2
<1> QED BY <1>2, <1>4, <1>5

-----------------------------------------------------------------------------
(* The walk.                                                               *)
LEMMA WalkStarts ==
  ASSUME NEW m, NEW at
  PROVE  Walks(m, at, <<Root>>, 1, Dark)
<1> DEFINE Q == <<Root>>
<1>1. Q \in Seq(Paths) /\ Len(Q) = 1 /\ Q[1] = Root
  BY RootIsPath
<1>2. Dark \in [VisionCells -> -1 .. InitialSight] /\ \A c \in VisionCells : Dark[c] = -1
  <2>1. -1 \in -1 .. InitialSight
    BY RadiusAssumption DEF InitialSight
  <2> QED BY <2>1 DEF Dark
<1>3. Len(Q[1]) \in Nat
  BY <1>1, RootIsPath, PathCells
<1> HIDE DEF Q
<1>4. 1 .. 1 - 1 = {} /\ 2 .. Len(Q) = {} /\ 1 \in 1 .. Len(Q) + 1 /\ \A j \in 1 .. Len(Q) : j = 1
  BY <1>1
<1>5. BreadthFirst(Q, 1)
  BY <1>1, <1>3, <1>4 DEF BreadthFirst
<1>6. HoldsBest(m, at, Q, 1, Dark)
  BY <1>2, <1>4 DEF HoldsBest
<1>7. HoldsChildren(m, at, Q, 1, Dark)
  BY <1>4 DEF HoldsChildren
<1>8. HasParents(m, at, Q, 1, Dark)
  BY <1>4 DEF HasParents
<1>9. Walks(m, at, Q, 1, Dark)
  BY <1>1, <1>2, <1>4, <1>5, <1>6, <1>7, <1>8 DEF Walks
<1> QED BY <1>9 DEF Q

(* What a visit does to the matrix and to the queue.                       *)
MatrixAfter(m, at, Q, k, V) ==
  [V EXCEPT ![CellAt(Q[k])] = KeepBest(@, SightOf(m, at, V, Q[k]))]

QueueAfter(m, at, Q, k, V, kids) ==
  IF Passes(SightOf(m, at, V, Q[k])) THEN Push(Q, kids) ELSE Q

(* A visit writes a cell that no node visited before has read: the parent  *)
(* of such a node is nearer to the viewer.                                 *)
LEMMA VisitChangesNoSight ==
  ASSUME NEW m, NEW at, NEW Q, NEW k, NEW V, Walks(m, at, Q, k, V), k <= Len(Q),
         NEW j \in 1 .. k
  PROVE  SightOf(m, at, MatrixAfter(m, at, Q, k, V), Q[j]) = SightOf(m, at, V, Q[j])
<1> DEFINE W == MatrixAfter(m, at, Q, k, V)
<1>1. /\ Q \in Seq(Paths) /\ k \in 1 .. Len(Q) + 1 /\ V \in [VisionCells -> -1 .. InitialSight]
      /\ BreadthFirst(Q, k)
  BY DEF Walks
<1>2. Len(Q) \in Nat /\ k \in 1 .. Len(Q) /\ j \in 1 .. Len(Q) /\ j <= k
  BY <1>1
<1>3. Q[j] \in Paths /\ Q[k] \in Paths
  BY <1>1, <1>2
<1>4. Len(Q[j]) <= Len(Q[k]) /\ Len(Q[j]) \in Nat /\ Len(Q[k]) \in Nat
  BY <1>1, <1>2, <1>3, PathCells DEF BreadthFirst
<1>5. ASSUME Q[j] # Root PROVE W[CellAt(Front(Q[j]))] = V[CellAt(Front(Q[j]))]
  <2> DEFINE f == Front(Q[j])
  <2>1. f \in Paths /\ Len(f) = Len(Q[j]) - 1 /\ CellAt(f) \in VisionCells
    BY <1>3, <1>5, PathCells
  <2> HIDE DEF f
  <2>2. Len(f) # Len(Q[k])
    BY <1>4, <2>1
  <2>3. CellAt(f) # CellAt(Q[k])
    BY <1>3, <2>1, <2>2, CellHasOneLength
  <2>4. W[CellAt(f)] = V[CellAt(f)]
    BY <1>1, <2>1, <2>3 DEF MatrixAfter
  <2> QED BY <2>4 DEF f
<1> QED BY <1>3, <1>5, SightOfReads

(* R is the queue Q, followed by the elements of C if s is positive.       *)
Extends(R, Q, s, C) ==
  /\ R \in Seq(Paths) /\ Len(R) \in Nat /\ Len(R) >= Len(Q)
  /\ \A j \in 1 .. Len(Q) : R[j] = Q[j]
  /\ \A l \in 1 .. Len(R) : l \in 1 .. Len(Q) \/ (s > 0 /\ R[l] \in C)
  /\ s > 0 => \A q \in C : \E l \in 1 .. Len(R) : R[l] = q

LEMMA QueueAfterVisit ==
  ASSUME NEW m, NEW at, NEW Q \in Seq(Paths), NEW k \in 1 .. Len(Q), NEW V,
         NEW kids \in Seq(Paths), ToSet(kids) = ChildrenIn(Paths, Q[k]),
         NEW s \in Nat, s = SightOf(m, at, V, Q[k]),
         NEW R, R = QueueAfter(m, at, Q, k, V, kids)
  PROVE  Extends(R, Q, s, ChildrenIn(Paths, Q[k]))
<1>1. Len(Q) \in Nat /\ Len(kids) \in Nat
  OBVIOUS
<1>2. CASE ~(s > 0)
  <2>1. ~Passes(s)
    BY <1>2 DEF Passes
  <2>2. R = Q
    BY <2>1 DEF QueueAfter
  <2>3. R \in Seq(Paths) /\ Len(R) \in Nat /\ Len(R) >= Len(Q)
    BY <1>1, <2>2
  <2>4. \A j \in 1 .. Len(Q) : R[j] = Q[j]
    BY <2>2
  <2>5. \A l \in 1 .. Len(R) : l \in 1 .. Len(Q)
    BY <2>2
  <2> QED BY <1>2, <2>3, <2>4, <2>5, Zenon DEF Extends
<1>3. CASE s > 0
  <2>1. Passes(s)
    BY <1>3 DEF Passes
  <2>2. R = Q \o kids
    BY <2>1 DEF QueueAfter, Push
  <2>3. R \in Seq(Paths) /\ Len(R) = Len(Q) + Len(kids)
    BY <2>2
  <2>4. \A j \in 1 .. Len(Q) : R[j] = Q[j]
    BY <1>1, <2>2
  <2>5. \A j \in 1 .. Len(kids) : R[Len(Q) + j] = kids[j]
    BY <1>1, <2>2
  <2>6. /\ \A j \in 1 .. Len(kids) : kids[j] \in ChildrenIn(Paths, Q[k])
        /\ \A q \in ChildrenIn(Paths, Q[k]) : \E j \in 1 .. Len(kids) : kids[j] = q
    <3>1. DOMAIN kids = 1 .. Len(kids)
      OBVIOUS
    <3> QED BY <3>1 DEF ToSet
  <2>7. ASSUME NEW l \in 1 .. Len(R), l \notin 1 .. Len(Q)
        PROVE  R[l] \in ChildrenIn(Paths, Q[k])
    <3>1. l - Len(Q) \in 1 .. Len(kids) /\ Len(Q) + (l - Len(Q)) = l
      BY <1>1, <2>3, <2>7
    <3> QED BY <2>5, <2>6, <3>1
  <2>8. ASSUME NEW q \in ChildrenIn(Paths, Q[k]) PROVE \E l \in 1 .. Len(R) : R[l] = q
    <3>1. PICK j \in 1 .. Len(kids) : kids[j] = q
      BY <2>6
    <3>2. Len(Q) + j \in 1 .. Len(R)
      BY <1>1, <2>3
    <3> QED BY <2>5, <3>1, <3>2
  <2>9. Len(R) \in Nat /\ Len(R) >= Len(Q)
    BY <1>1, <2>3
  <2> QED BY <1>3, <2>3, <2>4, <2>7, <2>8, <2>9, Zenon DEF Extends
<1> QED BY <1>2, <1>3

(* A visit goes on with the walk.                                          *)
LEMMA WalkSteps ==
  ASSUME NEW m, NEW at, NEW Q, NEW k, NEW V, Walks(m, at, Q, k, V), k <= Len(Q),
         NEW kids \in Seq(Paths), ToSet(kids) = ChildrenIn(Paths, Q[k])
  PROVE  Walks(m, at, QueueAfter(m, at, Q, k, V, kids), k + 1, MatrixAfter(m, at, Q, k, V))
<1> DEFINE R == QueueAfter(m, at, Q, k, V, kids)
           W == MatrixAfter(m, at, Q, k, V)
           s == SightOf(m, at, V, Q[k])
           cell == CellAt(Q[k])
<1>1. /\ Q \in Seq(Paths) /\ Len(Q) >= 1 /\ Q[1] = Root
      /\ k \in 1 .. Len(Q) + 1
      /\ V \in [VisionCells -> -1 .. InitialSight]
      /\ BreadthFirst(Q, k)
      /\ HoldsBest(m, at, Q, k, V)
      /\ HoldsChildren(m, at, Q, k, V)
      /\ HasParents(m, at, Q, k, V)
  BY DEF Walks
<1>2. /\ Len(Q) \in Nat /\ k \in 1 .. Len(Q) /\ k \in Nat
      /\ (k + 1) - 1 = k /\ \A j \in 1 .. k : j \in 1 .. Len(Q) /\ (j = k \/ j \in 1 .. k - 1)
      /\ \A j \in 1 .. k - 1 : j \in 1 .. k
  BY <1>1
<1>3. \A j \in 1 .. Len(Q) : Q[j] \in Paths /\ Len(Q[j]) \in Nat /\ CellAt(Q[j]) \in VisionCells
  BY <1>1, PathCells
<1>4. s \in 0 .. InitialSight /\ s \in Nat /\ InitialSight \in Nat
  <2>1. s \in 0 .. InitialSight
    BY <1>1, <1>2, <1>3, SightOfRange
  <2>2. InitialSight \in Nat
    BY RadiusAssumption DEF InitialSight
  <2> QED BY <2>1, <2>2
<1>5. /\ R \in Seq(Paths) /\ Len(R) \in Nat /\ Len(R) >= Len(Q)
      /\ \A j \in 1 .. Len(Q) : R[j] = Q[j]
      /\ \A l \in 1 .. Len(R) :
           l \in 1 .. Len(Q) \/ (s > 0 /\ R[l] \in ChildrenIn(Paths, Q[k]))
      /\ s > 0 => \A q \in ChildrenIn(Paths, Q[k]) : \E l \in 1 .. Len(R) : R[l] = q
  <2>1. R = QueueAfter(m, at, Q, k, V, kids) /\ s = SightOf(m, at, V, Q[k])
    OBVIOUS
  <2> HIDE DEF R, s
  <2>2. Q \in Seq(Paths) /\ k \in 1 .. Len(Q) /\ s \in Nat
    BY <1>1, <1>2, <1>4
  <2>3. Extends(R, Q, s, ChildrenIn(Paths, Q[k]))
    BY <2>1, <2>2, QueueAfterVisit
  <2> QED BY <2>3, Zenon DEF Extends
<1>6. \A j \in 1 .. k : SightOf(m, at, W, Q[j]) = SightOf(m, at, V, Q[j])
  BY VisitChangesNoSight
<1>7. /\ W[cell] = Larger(s, V[cell])
      /\ \A c \in VisionCells : c # cell => W[c] = V[c]
      /\ W \in [VisionCells -> -1 .. InitialSight]
  <2>1. cell \in VisionCells /\ V[cell] \in -1 .. InitialSight
    BY <1>1, <1>2, <1>3
  <2>2. Larger(s, V[cell]) \in -1 .. InitialSight
    BY <1>4, <2>1 DEF Larger
  <2>3. W = [V EXCEPT ![cell] = Larger(s, V[cell])]
    BY <1>1, <2>1 DEF MatrixAfter, KeepBest
  <2> HIDE DEF W, cell, s
  <2> QED BY <1>1, <2>1, <2>2, <2>3
<1>8. \A q \in ChildrenIn(Paths, Q[k]) : q \in Paths /\ Front(q) = Q[k] /\ Len(q) = Len(Q[k]) + 1
  <2> SUFFICES ASSUME NEW q \in ChildrenIn(Paths, Q[k])
               PROVE  q \in Paths /\ Front(q) = Q[k] /\ Len(q) = Len(Q[k]) + 1
    OBVIOUS
  <2>1. q \in Paths /\ Len(q) >= 2 /\ Front(q) = Q[k]
    BY DEF ChildrenIn
  <2>2. Len(q) \in Nat /\ q # Root
    <3>1. Len(q) \in Nat /\ (Len(q) = 1 <=> q = Root)
      BY <2>1, PathCells
    <3>2. \A a \in Nat : a >= 2 => a # 1
      OBVIOUS
    <3> QED BY <2>1, <3>1, <3>2
  <2>3. Len(Q[k]) = Len(q) - 1
    BY <2>1, <2>2, PathCells
  <2> QED BY <2>1, <2>2, <2>3
<1> HIDE DEF R, W, s, cell
<1>9. BreadthFirst(R, k + 1)
  <2>1. /\ \A j, l \in 1 .. Len(Q) : j <= l => Len(Q[j]) <= Len(Q[l])
        /\ \A l \in 1 .. Len(Q) : Len(Q[l]) <= Len(Q[k]) + 1
    BY <1>1 DEF BreadthFirst
  <2>2. ASSUME NEW l \in 1 .. Len(R)
        PROVE  /\ Len(R[l]) \in Nat
               /\ Len(R[l]) <= Len(Q[k]) + 1
               /\ l \notin 1 .. Len(Q) => Len(R[l]) = Len(Q[k]) + 1
    <3>1. Len(Q[k]) \in Nat
      BY <1>2, <1>3
    <3>2. CASE l \in 1 .. Len(Q)
      BY <1>3, <1>5, <2>1, <3>2
    <3>3. CASE l \notin 1 .. Len(Q)
      <4>1. Len(R[l]) = Len(Q[k]) + 1
        BY <1>5, <1>8, <3>3
      <4> QED BY <3>1, <3>3, <4>1
    <3> QED BY <3>2, <3>3
  <2>3. ASSUME NEW j \in 1 .. Len(R), NEW l \in 1 .. Len(R), j <= l
        PROVE  Len(R[j]) <= Len(R[l])
    <3>1. CASE l \in 1 .. Len(Q)
      <4>1. j \in 1 .. Len(Q)
        BY <1>2, <2>3, <3>1
      <4> QED BY <1>5, <2>1, <2>3, <3>1, <4>1
    <3>2. CASE l \notin 1 .. Len(Q)
      <4>1. Len(R[l]) = Len(Q[k]) + 1 /\ Len(R[j]) <= Len(Q[k]) + 1
        BY <2>2, <3>2
      <4> QED BY <4>1
    <3> QED BY <3>1, <3>2
  <2>4. ASSUME k + 1 <= Len(R), NEW l \in 1 .. Len(R) PROVE Len(R[l]) <= Len(R[k + 1]) + 1
    <3>1. k + 1 \in 1 .. Len(R) /\ k \in 1 .. Len(R) /\ k <= k + 1
      BY <1>2, <1>5, <2>4
    <3>2. Len(R[k]) <= Len(R[k + 1]) /\ R[k] = Q[k]
      BY <1>2, <1>5, <2>3, <3>1
    <3>3. Len(R[l]) <= Len(Q[k]) + 1 /\ Len(R[l]) \in Nat /\ Len(R[k + 1]) \in Nat /\ Len(Q[k]) \in Nat
      BY <1>2, <1>3, <2>2, <3>1
    <3> QED BY <3>2, <3>3
  <2> QED BY <2>3, <2>4 DEF BreadthFirst
<1>10. HoldsBest(m, at, R, k + 1, W)
  <2>1. /\ \A c \in VisionCells :
             V[c] # -1 =>
               \E j \in 1 .. k - 1 : CellAt(Q[j]) = c /\ V[c] = SightOf(m, at, V, Q[j])
        /\ \A j \in 1 .. k - 1 : SightOf(m, at, V, Q[j]) <= V[CellAt(Q[j])]
    BY <1>1 DEF HoldsBest
  <2>2. cell \in VisionCells /\ V[cell] \in Int /\ W[cell] \in {s, V[cell]}
        /\ s <= W[cell] /\ V[cell] <= W[cell]
    <3>1. cell \in VisionCells
      BY <1>2, <1>3 DEF cell
    <3>2. V[cell] \in Int
      BY <1>1, <1>4, <3>1
    <3> QED BY <1>4, <1>7, <3>1, <3>2 DEF Larger
  <2>3. SightOf(m, at, W, R[k]) = s /\ CellAt(R[k]) = cell
    BY <1>2, <1>5, <1>6 DEF s, cell
  <2>4. \A j \in 1 .. k - 1 : R[j] = Q[j] /\ SightOf(m, at, W, R[j]) = SightOf(m, at, V, Q[j])
    BY <1>2, <1>5, <1>6
  <2>5. ASSUME NEW c \in VisionCells, W[c] # -1
        PROVE  \E j \in 1 .. k : CellAt(R[j]) = c /\ W[c] = SightOf(m, at, W, R[j])
    <3>1. CASE c = cell /\ W[cell] = s
      BY <1>2, <2>3, <3>1
    <3>2. CASE ~(c = cell /\ W[cell] = s)
      <4>1. W[c] = V[c]
        BY <1>7, <2>2, <3>2
      <4>2. PICK j \in 1 .. k - 1 : CellAt(Q[j]) = c /\ V[c] = SightOf(m, at, V, Q[j])
        BY <2>1, <2>5, <4>1
      <4> QED BY <1>2, <2>4, <4>1, <4>2
    <3> QED BY <3>1, <3>2
  <2>6. ASSUME NEW j \in 1 .. k PROVE SightOf(m, at, W, R[j]) <= W[CellAt(R[j])]
    <3>1. CASE j = k
      BY <2>2, <2>3, <3>1
    <3>2. CASE j \in 1 .. k - 1
      <4>1. SightOf(m, at, W, R[j]) <= V[CellAt(Q[j])] /\ R[j] = Q[j]
        BY <2>1, <2>4, <3>2
      <4>2. CellAt(Q[j]) \in VisionCells /\ Q[j] \in Paths
        BY <1>2, <1>3
      <4>3. CASE CellAt(Q[j]) # cell
        BY <1>7, <4>1, <4>2, <4>3
      <4>4. CASE CellAt(Q[j]) = cell
        <5>1. SightOf(m, at, W, R[j]) \in 0 .. InitialSight
          BY <1>7, <4>1, <4>2, SightOfRange
        <5>2. W[cell] \in Int
          BY <1>4, <2>2
        <5> QED BY <1>4, <2>2, <4>1, <4>4, <5>1, <5>2
      <4> QED BY <4>3, <4>4
    <3> QED BY <1>2, <3>1, <3>2
  <2> QED BY <1>2, <2>5, <2>6 DEF HoldsBest
<1>11. HoldsChildren(m, at, R, k + 1, W)
  <2>1. \A j \in 1 .. k - 1 :
          SightOf(m, at, V, Q[j]) > 0 =>
            \A q \in ChildrenIn(Paths, Q[j]) : \E l \in 1 .. Len(Q) : Q[l] = q
    BY <1>1 DEF HoldsChildren
  <2>2. ASSUME NEW j \in 1 .. k, SightOf(m, at, W, R[j]) > 0, NEW q \in ChildrenIn(Paths, R[j])
        PROVE  \E l \in 1 .. Len(R) : R[l] = q
    <3>1. R[j] = Q[j] /\ SightOf(m, at, V, Q[j]) > 0
      BY <1>2, <1>5, <1>6, <2>2
    <3>2. CASE j = k
      BY <1>5, <2>2, <3>1, <3>2 DEF s
    <3>3. CASE j \in 1 .. k - 1
      <4>1. PICK l \in 1 .. Len(Q) : Q[l] = q
        BY <2>1, <2>2, <3>1, <3>3
      <4>2. l \in 1 .. Len(R)
        BY <1>2, <1>5
      <4> QED BY <1>5, <4>1, <4>2
    <3> QED BY <1>2, <3>2, <3>3
  <2> QED BY <1>2, <2>2 DEF HoldsChildren
<1>12. HasParents(m, at, R, k + 1, W)
  <2>1. ASSUME NEW l \in 2 .. Len(R)
        PROVE  \E j \in 1 .. k : Front(R[l]) = R[j] /\ SightOf(m, at, W, R[j]) > 0
    <3>1. l \in 1 .. Len(R)
      BY <1>5
    <3>2. CASE l \in 1 .. Len(Q)
      <4>1. l \in 2 .. Len(Q)
        BY <1>2, <3>2
      <4>2. PICK j \in 1 .. k - 1 : Front(Q[l]) = Q[j] /\ SightOf(m, at, V, Q[j]) > 0
        BY <1>1, <4>1 DEF HasParents
      <4>3. j \in 1 .. k /\ R[j] = Q[j] /\ R[l] = Q[l]
        BY <1>2, <1>5, <3>2
      <4> QED BY <1>6, <4>2, <4>3
    <3>3. CASE l \notin 1 .. Len(Q)
      <4>1. s > 0 /\ Front(R[l]) = Q[k] /\ k \in 1 .. k /\ R[k] = Q[k]
        BY <1>2, <1>5, <1>8, <3>1, <3>3
      <4>2. SightOf(m, at, W, R[k]) = s
        BY <1>6, <4>1 DEF s
      <4> QED BY <4>1, <4>2
    <3> QED BY <3>2, <3>3
  <2> QED BY <1>2, <2>1 DEF HasParents
<1>13. Len(R) >= 1 /\ R[1] = Root /\ k + 1 \in 1 .. Len(R) + 1
  BY <1>1, <1>2, <1>5
<1>14. Walks(m, at, R, k + 1, W)
  BY <1>5, <1>7, <1>9, <1>10, <1>11, <1>12, <1>13 DEF Walks
<1> QED BY <1>14 DEF R, W

(* At its end the walk has visited the nodes that sight reaches, and only  *)
(* those.                                                                  *)
LEMMA WalkVisitsReached ==
  ASSUME NEW m, NEW at, NEW Q, NEW V, Walks(m, at, Q, Len(Q) + 1, V), NEW n \in Nodes
  PROVE  Reaches(m, at, V, n) <=> \E l \in 1 .. Len(Q) : Q[l] = Path(n[1], n[2])
<1> DEFINE In(o) == \E l \in 1 .. Len(Q) : Q[l] = Path(o[1], o[2])
           Late == {o[2] : o \in {o \in Nodes : In(o) /\ ~Reaches(m, at, V, o)}}
           Missed == {o[2] : o \in {o \in Nodes : Reaches(m, at, V, o) /\ ~In(o)}}
<1>1. /\ Q \in Seq(Paths) /\ Len(Q) >= 1 /\ Q[1] = Root /\ Len(Q) \in Nat
      /\ V \in [VisionCells -> -1 .. InitialSight]
      /\ HoldsChildren(m, at, Q, Len(Q) + 1, V)
      /\ HasParents(m, at, Q, Len(Q) + 1, V)
  BY DEF Walks
<1>2. (Len(Q) + 1) - 1 = Len(Q)
  BY <1>1
<1>3. \A o \in Nodes : o[2] \in Nat /\ o = <<o[1], o[2]>>
  BY NodeFacts, PathFacts
<1>4. ASSUME NEW o \in Nodes, o[2] # 0
      PROVE  LET up == <<o[1], o[2] - 1>>
             IN  /\ up \in Nodes /\ up[1] = o[1] /\ up[2] = o[2] - 1
                 /\ Reaches(m, at, V, o) <=>
                      Reaches(m, at, V, up) /\ NodeSight(m, at, V, up) > 0
  <2> DEFINE up == <<o[1], o[2] - 1>>
  <2>1. up \in Nodes /\ up[1] = o[1] /\ up[2] = o[2] - 1 /\ o[2] \in Nat
    BY <1>3, <1>4, ParentPath
  <2>2. \A j \in Int : j \in 0 .. o[2] - 1 <=> j \in 0 .. up[2] - 1 \/ j = up[2]
    BY <1>4, <2>1
  <2>3. Reaches(m, at, V, o) <=> \A j \in 0 .. o[2] - 1 : NodeSight(m, at, V, <<o[1], j>>) > 0
    BY DEF Reaches
  <2>4. Reaches(m, at, V, up) <=> \A j \in 0 .. up[2] - 1 : NodeSight(m, at, V, <<o[1], j>>) > 0
    BY DEF Reaches
  <2>5. up = <<o[1], up[2]>> /\ up[2] \in 0 .. o[2] - 1
    BY <1>4, <2>1
  <2> HIDE DEF up
  <2>6. Reaches(m, at, V, o) <=> Reaches(m, at, V, up) /\ NodeSight(m, at, V, up) > 0
    BY <2>1, <2>2, <2>3, <2>4, <2>5
  <2> QED BY <2>1, <2>6 DEF up
<1>5. \A o \in Nodes : o[2] = 0 => Reaches(m, at, V, o) /\ In(o)
  <2> SUFFICES ASSUME NEW o \in Nodes, o[2] = 0 PROVE Reaches(m, at, V, o) /\ In(o)
    OBVIOUS
  <2>1. Path(o[1], o[2]) = Root
    BY NodeFacts, RootPath
  <2>2. 1 \in 1 .. Len(Q)
    BY <1>1
  <2>3. Reaches(m, at, V, o)
    BY DEF Reaches
  <2> QED BY <1>1, <2>1, <2>2, <2>3
<1>6. Late = {}
  <2> SUFFICES ASSUME Late # {} PROVE FALSE
    OBVIOUS
  <2>1. Late \subseteq Nat
    BY <1>3
  <2>2. PICK k \in Late : \A l \in Late : k <= l
    BY <2>1, LeastNatural
  <2>3. PICK o \in Nodes : In(o) /\ ~Reaches(m, at, V, o) /\ o[2] = k
    BY <2>2
  <2>4. o[2] # 0 /\ o[2] \in Nat
    BY <1>3, <1>5, <2>3
  <2> DEFINE up == <<o[1], o[2] - 1>>
  <2>5. /\ up \in Nodes /\ up[1] = o[1] /\ up[2] = o[2] - 1
        /\ Reaches(m, at, V, o) <=> Reaches(m, at, V, up) /\ NodeSight(m, at, V, up) > 0
    BY <1>4, <2>4
  <2> HIDE DEF up
  <2>6. PICK l \in 1 .. Len(Q) : Q[l] = Path(o[1], o[2])
    BY <2>3
  <2>7. Front(Q[l]) = Path(up[1], up[2]) /\ Q[l] # Root
    BY <2>4, <2>5, <2>6, ParentPath
  <2>8. l \in 2 .. Len(Q)
    BY <1>1, <2>7
  <2>9. PICK j \in 1 .. Len(Q) : Front(Q[l]) = Q[j] /\ SightOf(m, at, V, Q[j]) > 0
    BY <1>1, <1>2, <2>8 DEF HasParents
  <2>10. NodeSight(m, at, V, up) > 0 /\ In(up)
    BY <2>5, <2>7, <2>9, SightOfNode
  <2>11. ~Reaches(m, at, V, up)
    BY <2>3, <2>5, <2>10
  <2>12. up[2] \in Late
    BY <2>5, <2>10, <2>11
  <2>13. k <= up[2]
    BY <2>2, <2>12
  <2> QED BY <2>3, <2>4, <2>5, <2>13
<1>7. Missed = {}
  <2> SUFFICES ASSUME Missed # {} PROVE FALSE
    OBVIOUS
  <2>1. Missed \subseteq Nat
    BY <1>3
  <2>2. PICK k \in Missed : \A l \in Missed : k <= l
    BY <2>1, LeastNatural
  <2>3. PICK o \in Nodes : Reaches(m, at, V, o) /\ ~In(o) /\ o[2] = k
    BY <2>2
  <2>4. o[2] # 0 /\ o[2] \in Nat
    BY <1>3, <1>5, <2>3
  <2> DEFINE up == <<o[1], o[2] - 1>>
  <2>5. /\ up \in Nodes /\ up[1] = o[1] /\ up[2] = o[2] - 1
        /\ Reaches(m, at, V, o) <=> Reaches(m, at, V, up) /\ NodeSight(m, at, V, up) > 0
    BY <1>4, <2>4
  <2> HIDE DEF up
  <2>6. Reaches(m, at, V, up) /\ NodeSight(m, at, V, up) > 0
    BY <2>3, <2>5
  <2>7. In(up)
    <3> SUFFICES ASSUME ~In(up) PROVE FALSE
      OBVIOUS
    <3>1. up[2] \in Missed
      BY <2>5, <2>6
    <3>2. k <= up[2]
      BY <2>2, <3>1
    <3> QED BY <2>3, <2>4, <2>5, <3>2
  <2>8. PICK j \in 1 .. Len(Q) : Q[j] = Path(up[1], up[2])
    BY <2>7
  <2>9. SightOf(m, at, V, Q[j]) > 0
    BY <2>5, <2>6, <2>8, SightOfNode
  <2> DEFINE q == Path(o[1], o[2])
  <2>10. q \in ChildrenIn(Paths, Q[j])
    <3>1. q \in Paths
      BY SightOfNode
    <3>2. Front(q) = Q[j]
      BY <2>4, <2>5, <2>8, ParentPath
    <3>3. Len(q) >= 2
      BY <2>4, PathFacts
    <3> QED BY <3>1, <3>2, <3>3 DEF ChildrenIn
  <2>11. \E l \in 1 .. Len(Q) : Q[l] = q
    BY <1>1, <1>2, <2>9, <2>10 DEF HoldsChildren
  <2> QED BY <2>3, <2>11
<1>8. In(n) => Reaches(m, at, V, n)
  BY <1>6
<1>9. Reaches(m, at, V, n) => In(n)
  BY <1>7
<1> QED BY <1>8, <1>9

(* So the matrix is the field of vision.                                   *)
LEMMA WalkEnds ==
  ASSUME NEW m, NEW at, NEW Q, NEW V, Walks(m, at, Q, Len(Q) + 1, V)
  PROVE  IsView(m, at, V)
<1>1. /\ Q \in Seq(Paths) /\ Len(Q) \in Nat
      /\ V \in [VisionCells -> -1 .. InitialSight]
      /\ HoldsBest(m, at, Q, Len(Q) + 1, V)
  BY DEF Walks
<1>2. (Len(Q) + 1) - 1 = Len(Q) /\ InitialSight \in Nat
  BY <1>1, RadiusAssumption DEF InitialSight
<1>3. V \in [VisionCells -> Int]
  BY <1>1, <1>2
<1>4. /\ \A c \in VisionCells :
           V[c] # -1 =>
             \E j \in 1 .. Len(Q) : CellAt(Q[j]) = c /\ V[c] = SightOf(m, at, V, Q[j])
      /\ \A j \in 1 .. Len(Q) : SightOf(m, at, V, Q[j]) <= V[CellAt(Q[j])]
  BY <1>1, <1>2 DEF HoldsBest
<1>5. ASSUME NEW c \in VisionCells, NEW n \in NodesAt[c], Reaches(m, at, V, n)
      PROVE  NodeSight(m, at, V, n) <= V[c] /\ V[c] # -1
  <2>1. n \in Nodes /\ CellOf(n) = c
    BY NodesAtCells DEF CellOf
  <2>2. PICK l \in 1 .. Len(Q) : Q[l] = Path(n[1], n[2])
    BY <1>5, <2>1, WalkVisitsReached
  <2>3. CellAt(Q[l]) = c /\ SightOf(m, at, V, Q[l]) = NodeSight(m, at, V, n) /\ Q[l] \in Paths
    BY <2>1, <2>2, SightOfNode
  <2>4. NodeSight(m, at, V, n) <= V[c]
    BY <1>4, <2>3
  <2>5. NodeSight(m, at, V, n) \in 0 .. InitialSight
    BY <1>1, <2>3, SightOfRange
  <2>6. V[c] \in Int
    BY <1>3
  <2> QED BY <1>2, <2>4, <2>5, <2>6
<1>6. ASSUME NEW c \in VisionCells, V[c] # -1
      PROVE  \E n \in NodesAt[c] : Reaches(m, at, V, n) /\ V[c] = NodeSight(m, at, V, n)
  <2>1. PICK j \in 1 .. Len(Q) : CellAt(Q[j]) = c /\ V[c] = SightOf(m, at, V, Q[j])
    BY <1>4, <1>6
  <2>2. Q[j] \in Paths
    BY <1>1
  <2>3. PICK n \in Nodes : Q[j] = Path(n[1], n[2])
    BY <2>2, PathNode DEF Paths
  <2>4. CellOf(n) = c /\ V[c] = NodeSight(m, at, V, n)
    BY <2>1, <2>3, SightOfNode
  <2>5. Reaches(m, at, V, n)
    BY <2>3, WalkVisitsReached
  <2>6. n \in NodesAt[c]
    BY <2>4, NodesAtCells DEF CellOf
  <2> QED BY <2>4, <2>5, <2>6
<1>7. ASSUME NEW c \in VisionCells
      PROVE  \/ V[c] = -1 /\ \A n \in NodesAt[c] : ~Reaches(m, at, V, n)
             \/ /\ \E n \in NodesAt[c] : Reaches(m, at, V, n) /\ V[c] = NodeSight(m, at, V, n)
                /\ \A n \in NodesAt[c] : Reaches(m, at, V, n) => NodeSight(m, at, V, n) <= V[c]
  <2>1. CASE V[c] = -1
    BY <1>5, <2>1, Zenon
  <2>2. CASE V[c] # -1
    BY <1>5, <1>6, <2>2, Zenon
  <2> QED BY <2>1, <2>2
<1> QED BY <1>3, <1>7 DEF IsView

-----------------------------------------------------------------------------
(* The invariant holds in every state.                                     *)
LEMMA BuiltTrie ==
  ASSUME TrieInv, Built
  PROVE  /\ DOMAIN children = Paths
         /\ \A node \in Paths :
              children[node] \in Seq(Paths) /\ ToSet(children[node]) = ChildrenIn(Paths, node)
<1>1. lines - 1 = 8 * (kFOVRadius + 1) - 1
  BY DEF Built
<1>2. Handled = Rim
  BY <1>1, HandlesTheRim DEF Handled
<1>3. IsTrieOf(children, Rim)
  BY <1>2 DEF TrieInv
<1> QED BY <1>3, RootIsPath DEF IsTrieOf, Paths

LEMMA SightInit == Init => SightInv
<1> SUFFICES ASSUME Init PROVE SightInv
  OBVIOUS
<1>1. lines = 0 /\ children = [node \in {Root} |-> <<>>] /\ looking = FALSE
      /\ cache = <<>> /\ i = 1 /\ visibility = Dark
  BY DEF Init
<1>2. lines \in 0 .. 8 * (kFOVRadius + 1)
  BY <1>1, RadiusAssumption
<1>3. Handled = {}
  <2>1. 0 .. lines - 1 = {}
    BY <1>1
  <2> QED BY <2>1 DEF Handled
<1>4. PathsTo({}) = {}
  BY DEF PathsTo
<1>5. IsTrieOf(children, {})
  <2>1. DOMAIN children = {Root} \cup PathsTo({})
    BY <1>1, <1>4
  <2>2. ASSUME NEW node \in DOMAIN children
        PROVE  /\ children[node] \in Seq(PathsTo({}))
               /\ ToSet(children[node]) = ChildrenIn(PathsTo({}), node)
    <3>1. children[node] = <<>>
      BY <1>1, <2>2
    <3>2. <<>> \in Seq(PathsTo({}))
      OBVIOUS
    <3>3. ToSet(<<>>) = {}
      BY DEF ToSet
    <3>4. ChildrenIn(PathsTo({}), node) = {}
      BY <1>4 DEF ChildrenIn
    <3> QED BY <3>1, <3>2, <3>3, <3>4
  <2> QED BY <2>1, <2>2 DEF IsTrieOf
<1>6. TrieInv
  BY <1>2, <1>3, <1>5 DEF TrieInv
<1>7. WalkInv
  BY <1>1 DEF WalkInv
<1> QED BY <1>6, <1>7 DEF SightInv

LEMMA AddLineKeepsTrie ==
  ASSUME TrieInv, AddLine
  PROVE  TrieInv'
<1>1. /\ lines \in 0 .. 8 * (kFOVRadius + 1) /\ IsTrieOf(children, Handled)
      /\ lines < 8 * (kFOVRadius + 1) /\ lines' = lines + 1
      /\ children' = TrieUpdate(children, Line(origin, RimPoint(lines)))
      /\ kFOVRadius \in Nat
  BY RadiusAssumption DEF TrieInv, AddLine
<1>2. lines \in 0 .. 8 * (kFOVRadius + 1) - 1
  BY <1>1
<1>3. RimPoint(lines) \in Rim
  BY <1>2, HandlesTheRim
<1>4. Handled' = Handled \cup {RimPoint(lines)}
  <2>1. lines' - 1 = lines
    BY <1>1
  <2>2. Handled' = {RimPoint(n) : n \in 0 .. lines}
    BY <2>1 DEF Handled, RimPoint
  <2>3. 0 .. lines = (0 .. lines - 1) \cup {lines}
    BY <1>1
  <2> HIDE DEF Handled
  <2>4. Handled = {RimPoint(n) : n \in 0 .. lines - 1}
    BY DEF Handled
  <2>5. {RimPoint(n) : n \in 0 .. lines} = {RimPoint(n) : n \in 0 .. lines - 1} \cup {RimPoint(lines)}
    BY <2>3
  <2> QED BY <2>2, <2>4, <2>5
<1>5. IsTrieOf(children', Handled')
  BY <1>1, <1>3, <1>4, TrieGrows
<1>6. lines' \in 0 .. 8 * (kFOVRadius + 1)
  BY <1>1
<1> QED BY <1>5, <1>6 DEF TrieInv, IsTrieOf

LEMMA SightNext == SightInv /\ [Next]_vars => SightInv'
<1> SUFFICES ASSUME SightInv, [Next]_vars PROVE SightInv'
  OBVIOUS
<1>1. TrieInv /\ WalkInv
  BY DEF SightInv
<1>2. CASE AddLine
  <2>1. TrieInv'
    BY <1>1, <1>2, AddLineKeepsTrie
  <2>2. cache = <<>>
    <3>1. ~Built
      BY <1>1, <1>2, RadiusAssumption DEF TrieInv, AddLine, Built
    <3> QED BY <1>1, <3>1 DEF WalkInv
  <2>3. UNCHANGED <<looking, m_map, pos, cache, i, visibility>>
    BY <1>2 DEF AddLine
  <2>4. looking' \in BOOLEAN
    BY <1>1, <2>3 DEF WalkInv
  <2>5. looking' # TRUE
    BY <1>1, <2>2, <2>3 DEF WalkInv
  <2>6. i' = 1 /\ visibility' = Dark
    BY <1>1, <2>2, <2>3 DEF WalkInv
  <2>7. WalkInv'
    BY <2>2, <2>3, <2>4, <2>5, <2>6 DEF WalkInv, Dark
  <2> QED BY <2>1, <2>7 DEF SightInv
<1>3. ASSUME NEW m \in Maps, NEW p \in Viewers, Look(m, p) PROVE SightInv'
  <2>1. /\ Built /\ looking' = TRUE /\ m_map' = m /\ pos' = p /\ cache' = <<Root>>
        /\ i' = 1 /\ visibility' = Dark /\ UNCHANGED <<lines, children>>
    BY <1>3 DEF Look, StartQueue
  <2>2. Walks(m, p, <<Root>>, 1, Dark)
    BY WalkStarts
  <2>3. Walks(m_map', pos', cache', i', visibility')
    BY <2>1, <2>2
  <2>4. cache' # <<>>
    BY <2>1
  <2>5. TrieInv'
    BY <1>1, <2>1 DEF TrieInv, IsTrieOf, Handled
  <2>6. Built'
    BY <2>1 DEF Built
  <2>7. looking' \in BOOLEAN
    BY <2>1
  <2>8. WalkInv'
    BY <2>3, <2>4, <2>6, <2>7 DEF WalkInv, Walks, BreadthFirst, HoldsBest, HoldsChildren, HasParents
  <2> QED BY <2>5, <2>8 DEF SightInv
<1>4. CASE Visit
  <2> DEFINE kids == children[cache[i]]
  <2>1. /\ looking = TRUE /\ i <= Len(cache) /\ i' = i + 1
        /\ UNCHANGED <<lines, children, looking, m_map, pos>>
    <3>1. looking /\ i <= Len(cache) /\ i' = i + 1
          /\ UNCHANGED <<lines, children, looking, m_map, pos>>
      BY <1>4 DEF Visit
    <3>2. looking \in BOOLEAN
      BY <1>1 DEF WalkInv
    <3>3. looking = TRUE
      BY <3>1, <3>2
    <3> QED BY <3>1, <3>3
  <2>2. cache # <<>> /\ Built /\ Walks(m_map, pos, cache, i, visibility)
    BY <1>1, <2>1 DEF WalkInv
  <2>3. cache \in Seq(Paths) /\ i \in 1 .. Len(cache) /\ Len(cache) \in Nat
    BY <2>1, <2>2 DEF Walks
  <2>4. cache[i] \in Paths
    BY <2>3
  <2>5. kids \in Seq(Paths) /\ ToSet(kids) = ChildrenIn(Paths, cache[i])
    BY <1>1, <2>2, <2>4, BuiltTrie
  <2>6. VisibilityOf(cache[i]) = SightOf(m_map, pos, visibility, cache[i])
    BY DEF VisibilityOf, SightOf
  <2>7. /\ visibility' = MatrixAfter(m_map, pos, cache, i, visibility)
        /\ cache' = QueueAfter(m_map, pos, cache, i, visibility, kids)
    BY <1>4, <2>6, Zenon DEF Visit, MatrixAfter, QueueAfter, CellAt
  <2> HIDE DEF kids
  <2>8. Walks(m_map, pos, cache', i', visibility')
    BY <2>1, <2>2, <2>5, <2>7, WalkSteps
  <2>9. Walks(m_map', pos', cache', i', visibility')
    BY <2>1, <2>8
  <2>10. cache' # <<>>
    BY <2>8 DEF Walks
  <2>11. TrieInv'
    BY <1>1, <2>1 DEF TrieInv, IsTrieOf, Handled
  <2>12. Built'
    BY <2>1, <2>2 DEF Built
  <2>13. looking' \in BOOLEAN
    BY <2>1
  <2>14. WalkInv'
    BY <2>9, <2>10, <2>12, <2>13 DEF WalkInv, Walks, BreadthFirst, HoldsBest, HoldsChildren, HasParents
  <2> QED BY <2>11, <2>14 DEF SightInv
<1>5. CASE Return
  <2>1. looking' = FALSE /\ UNCHANGED <<lines, children, m_map, pos, cache, i, visibility>>
    BY <1>5 DEF Return
  <2>2. TrieInv'
    BY <1>1, <2>1 DEF TrieInv, IsTrieOf, Handled
  <2>3. looking' \in BOOLEAN /\ looking' # TRUE
    BY <2>1
  <2>4. /\ cache = <<>> => i = 1 /\ visibility = Dark
        /\ cache # <<>> => Built /\ Walks(m_map, pos, cache, i, visibility)
    BY <1>1 DEF WalkInv
  <2>5. Built' <=> Built
    BY <2>1 DEF Built
  <2>6. WalkInv'
    BY <2>1, <2>3, <2>4, <2>5 DEF WalkInv, Dark, Walks, BreadthFirst, HoldsBest, HoldsChildren, HasParents
  <2> QED BY <2>2, <2>6 DEF SightInv
<1>6. CASE UNCHANGED vars
  <2>1. UNCHANGED <<lines, children, looking, m_map, pos, cache, i, visibility>>
    BY <1>6 DEF vars
  <2>2. TrieInv'
    BY <1>1, <2>1 DEF TrieInv, IsTrieOf, Handled
  <2>3. WalkInv'
    BY <1>1, <2>1 DEF WalkInv, Built, Dark, Walks, BreadthFirst, HoldsBest, HoldsChildren, HasParents
  <2> QED BY <2>2, <2>3 DEF SightInv
<1> QED BY <1>2, <1>3, <1>4, <1>5, <1>6 DEF Next

LEMMA SightAlways == Spec => []SightInv
<1>1. Init => SightInv
  BY SightInit
<1>2. SightInv /\ [Next]_vars => SightInv'
  BY SightNext
<1> QED BY <1>1, <1>2, PTL DEF Spec

-----------------------------------------------------------------------------
LEMMA FinishedWalk ==
  ASSUME SightInv, Finished
  PROVE  IsView(m_map, pos, visibility)
<1>1. looking \in BOOLEAN /\ looking /\ i > Len(cache)
  BY DEF SightInv, WalkInv, Finished
<1>2. looking = TRUE
  BY <1>1
<1>3. Walks(m_map, pos, cache, i, visibility)
  BY <1>2 DEF SightInv, WalkInv
<1>4. i = Len(cache) + 1
  <2>1. i \in 1 .. Len(cache) + 1 /\ cache \in Seq(Paths)
    BY <1>3 DEF Walks
  <2> QED BY <1>1, <2>1
<1>5. Walks(m_map, pos, cache, Len(cache) + 1, visibility)
  BY <1>3, <1>4
<1> QED BY <1>5, WalkEnds

(* fieldOfVision keeps its types: the queue holds nodes of the trie, the   *)
(* index stays within it, and no visibility is above what the viewer has.  *)
THEOREM WalkTypes == Spec => []TypeOK
<1>1. SightInv => TypeOK
  <2> SUFFICES ASSUME SightInv PROVE TypeOK
    OBVIOUS
  <2>1. lines \in 0 .. 8 * (kFOVRadius + 1) /\ looking \in BOOLEAN
    BY DEF SightInv, TrieInv, WalkInv
  <2>2. CASE cache = <<>>
    <3>1. i = 1 /\ visibility = Dark
      BY <2>2 DEF SightInv, WalkInv
    <3>2. Dark \in [VisionCells -> -1 .. InitialSight]
      <4>1. -1 \in -1 .. InitialSight
        BY RadiusAssumption DEF InitialSight
      <4> QED BY <4>1 DEF Dark
    <3>3. cache \in Seq(DOMAIN children) /\ i \in 1 .. Len(cache) + 1
      BY <2>2, <3>1
    <3> QED BY <2>1, <3>1, <3>2, <3>3 DEF TypeOK
  <2>3. CASE cache # <<>>
    <3>1. Built /\ Walks(m_map, pos, cache, i, visibility)
      BY <2>3 DEF SightInv, WalkInv
    <3>2. /\ cache \in Seq(Paths) /\ i \in 1 .. Len(cache) + 1
          /\ visibility \in [VisionCells -> -1 .. InitialSight]
      BY <3>1 DEF Walks
    <3>3. DOMAIN children = Paths
      BY <3>1, BuiltTrie DEF SightInv
    <3> QED BY <2>1, <3>2, <3>3 DEF TypeOK
  <2> QED BY <2>2, <2>3
<1> QED BY <1>1, SightAlways, PTL

(* fieldOfVision computes the field of vision, on every map and for every  *)
(* position and radius: the running maximum that the callback reads and    *)
(* the queue it shares give what the sight lines define.                   *)
THEOREM WalkComputesTheView == Spec => []ComputesTheView
<1>1. SightInv => ComputesTheView
  BY FinishedWalk DEF ComputesTheView
<1> QED BY <1>1, SightAlways, PTL

(* What getVision returns never sees through a tree.                       *)
THEOREM TreesHide == Spec => []NotThroughTrees
<1>1. SightInv => NotThroughTrees
  <2> SUFFICES ASSUME SightInv, Finished, NEW c \in VisionCells, visibility[c] >= 0
               PROVE  \E n \in NodesAt[c] :
                        \A j \in 1 .. n[2] - 1 :
                          ~FlagBlocked(TileAt(m_map, Plus(OnLine(n[1], j), pos)))
    BY DEF NotThroughTrees
  <2>1. IsView(m_map, pos, visibility)
    BY FinishedWalk
  <2>2. visibility[c] # -1
    OBVIOUS
  <2>3. PICK n \in NodesAt[c] : Reaches(m_map, pos, visibility, n)
    BY <2>1, <2>2, Zenon DEF IsView
  <2>4. n \in Nodes
    BY NodesAtCells
  <2>5. n[2] \in Nat
    BY <2>4, PathFacts
  <2>6. ASSUME NEW j \in 1 .. n[2] - 1
        PROVE  ~FlagBlocked(TileAt(m_map, Plus(OnLine(n[1], j), pos)))
    <3>1. j \in 0 .. n[2] - 1 /\ j # 0
      BY <2>5
    <3>2. NodeSight(m_map, pos, visibility, <<n[1], j>>) > 0
      BY <2>3, <3>1 DEF Reaches
    <3> DEFINE tile == TileAt(m_map, Plus(OnLine(n[1], j), pos))
               o == OnLine(n[1], j)
               parent == OnLine(n[1], j - 1)
               prev == visibility[Plus(parent, Centre)]
    <3>3. NodeSight(m_map, pos, visibility, <<n[1], j>>) = SightAfter(tile, o, parent, prev)
      BY <3>1, Zenon DEF NodeSight
    <3>4. FlagBlocked(tile) => SightAfter(tile, o, parent, prev) = 0
      BY DEF SightAfter
    <3> HIDE DEF tile, o, parent, prev
    <3>5. ~FlagBlocked(tile)
      BY <3>2, <3>3, <3>4
    <3> QED BY <3>5 DEF tile
  <2> QED BY <2>6
<1> QED BY <1>1, SightAlways, PTL

(* A cell is settled before a child of a node on it is visited: the walk   *)
(* is breadth first, and the nodes on a cell are as deep as it is far.     *)
THEOREM WalkReadsSettled == Spec => ReadsAreSettled
<1> DEFINE Settled ==
      \A c \in VisionCells :
        looking /\ visibility'[c] # visibility[c] /\ looking' =>
          \A j \in 1 .. i - 1 : Len(cache[j]) <= 1 + lenWalking(Minus(c, Centre))
<1>1. SightInv /\ [Next]_vars => [Settled]_vars
  <2> SUFFICES ASSUME SightInv, Next, NEW c \in VisionCells,
                      looking, visibility'[c] # visibility[c], looking',
                      NEW j \in 1 .. i - 1
               PROVE  Len(cache[j]) <= 1 + lenWalking(Minus(c, Centre))
    OBVIOUS
  <2>1. Visit
    BY DEF Next, AddLine, Look, Return
  <2>2. looking = TRUE
    BY DEF SightInv, WalkInv
  <2>3. Walks(m_map, pos, cache, i, visibility)
    BY <2>2 DEF SightInv, WalkInv
  <2>4. /\ cache \in Seq(Paths) /\ i \in 1 .. Len(cache) + 1 /\ i <= Len(cache)
        /\ BreadthFirst(cache, i) /\ visibility \in [VisionCells -> -1 .. InitialSight]
    BY <2>1, <2>3 DEF Walks, Visit
  <2>5. Len(cache) \in Nat /\ i \in 1 .. Len(cache) /\ j \in 1 .. Len(cache) /\ j <= i
    BY <2>4
  <2>6. c = CellAt(cache[i])
    <3>1. visibility' = [visibility EXCEPT ![CellAt(cache[i])] =
                           KeepBest(@, VisibilityOf(cache[i]))]
      BY <2>1, Zenon DEF Visit, CellAt
    <3> QED BY <2>4, <3>1
  <2>7. cache[i] \in Paths /\ cache[j] \in Paths
    BY <2>4, <2>5
  <2>8. lenWalking(Minus(c, Centre)) = Len(cache[i]) - 1
    BY <2>6, <2>7, FromCell, PathCells
  <2>9. Len(cache[j]) <= Len(cache[i]) /\ Len(cache[i]) \in Nat /\ Len(cache[j]) \in Nat
    BY <2>4, <2>5, <2>7, PathCells DEF BreadthFirst
  <2> QED BY <2>8, <2>9
<1>2. ReadsAreSettled <=> [][Settled]_vars
  BY DEF ReadsAreSettled
<1> HIDE DEF Settled
<1> QED BY <1>1, <1>2, SightAlways, PTL DEF Spec

-----------------------------------------------------------------------------
(* What it costs to look at a point through tall grass only.  Each step of *)
(* a line costs what it adds to the norm.                                  *)
Cost(o) == 95 * Larger(Abs(o.x), Abs(o.y)) + 46 * Smaller(Abs(o.x), Abs(o.y))

LEMMA CostOfNode ==
  ASSUME NEW r \in Rim, NEW k \in 0 .. kFOVRadius
  PROVE  Cost(OnLine(r, k)) = 95 * k + 46 * MinorAt(origin, r, k)
<1>1. r \in Point
  BY BoxPoints DEF Rim
<1>2. origin \in Point /\ origin.x = 0 /\ origin.y = 0
  BY DEF origin, Pt, Point
<1>3. k \in Nat
  BY RadiusAssumption
<1> DEFINE n == MinorAt(origin, r, k)
           sx == Sign(origin.x, r.x)
           sy == Sign(origin.y, r.y)
<1>4. n \in 0 .. k
  BY <1>1, <1>2, <1>3, MinorAtRange
<1>5. OnLine(r, k) = LinePoint(origin, r, k)
  BY DEF OnLine, SightLine
<1>6. sx \in {-1, 1} /\ sy \in {-1, 1}
  BY <1>1, <1>2, Distances
<1>7. OnLine(r, k) \in {Pt(0 + sx * k, 0 + sy * n), Pt(0 + sx * n, 0 + sy * k)}
  BY <1>2, <1>5 DEF LinePoint
<1> HIDE DEF n, sx, sy
<1>8. \A s \in {-1, 1}, j \in Nat : Abs(0 + s * j) = j
  BY DEF Abs
<1>9. /\ Abs(0 + sx * k) = k /\ Abs(0 + sy * n) = n
      /\ Abs(0 + sx * n) = n /\ Abs(0 + sy * k) = k
  BY <1>3, <1>4, <1>6, <1>8
<1>10. /\ Larger(k, n) = k /\ Larger(n, k) = k
       /\ Smaller(k, n) = n /\ Smaller(n, k) = n
  BY <1>3, <1>4 DEF Larger, Smaller
<1>11. \A u, v : Cost(Pt(u, v)) = 95 * Larger(Abs(u), Abs(v)) + 46 * Smaller(Abs(u), Abs(v))
  BY DEF Cost, Pt
<1>12. Cost(OnLine(r, k)) = 95 * k + 46 * n
  BY <1>7, <1>9, <1>10, <1>11
<1> QED BY <1>12 DEF n

(* A step of a line is diagonal when the minor coordinate moves.           *)
LEMMA StepIsDiagonal ==
  ASSUME NEW r \in Rim, NEW k \in 0 .. kFOVRadius, k # 0
  PROVE  Diagonal(OnLine(r, k), OnLine(r, k - 1)) <=>
           MinorAt(origin, r, k) # MinorAt(origin, r, k - 1)
<1>1. r \in Point
  BY BoxPoints DEF Rim
<1>2. origin \in Point /\ origin.x = 0 /\ origin.y = 0
  BY DEF origin, Pt, Point
<1>3. k \in Nat /\ k - 1 \in Nat /\ k - 1 \in 0 .. kFOVRadius
  BY RadiusAssumption
<1> DEFINE n == MinorAt(origin, r, k)
           l == MinorAt(origin, r, k - 1)
           sx == Sign(origin.x, r.x)
           sy == Sign(origin.y, r.y)
<1>4. n \in Nat /\ l \in Nat
  BY <1>1, <1>2, <1>3, MinorAtRange
<1>5. OnLine(r, k) = LinePoint(origin, r, k) /\ OnLine(r, k - 1) = LinePoint(origin, r, k - 1)
  BY <1>3 DEF OnLine, SightLine
<1>6. sx \in {-1, 1} /\ sy \in {-1, 1}
  BY <1>1, <1>2, Distances
<1>7. \/ /\ OnLine(r, k) = Pt(0 + sx * k, 0 + sy * n)
         /\ OnLine(r, k - 1) = Pt(0 + sx * (k - 1), 0 + sy * l)
      \/ /\ OnLine(r, k) = Pt(0 + sx * n, 0 + sy * k)
         /\ OnLine(r, k - 1) = Pt(0 + sx * l, 0 + sy * (k - 1))
  BY <1>2, <1>5 DEF LinePoint
<1> HIDE DEF n, l, sx, sy
<1>8. \A s \in {-1, 1}, a, b \in Nat : 0 + s * a = 0 + s * b <=> a = b
  OBVIOUS
<1>9. k # k - 1
  BY <1>3
<1>10. \A u, v, w, z : Diagonal(Pt(u, v), Pt(w, z)) <=> u # w /\ v # z
  BY DEF Diagonal, Pt
<1>11. 0 + sx * k # 0 + sx * (k - 1) /\ 0 + sy * k # 0 + sy * (k - 1)
  BY <1>3, <1>6, <1>8, <1>9
<1>12. (0 + sx * n = 0 + sx * l <=> n = l) /\ (0 + sy * n = 0 + sy * l <=> n = l)
  BY <1>4, <1>6, <1>8
<1>13. Diagonal(OnLine(r, k), OnLine(r, k - 1)) <=> n # l
  BY <1>7, <1>10, <1>11, <1>12
<1> QED BY <1>13 DEF n, l

LEMMA GrassCosts ==
  ASSUME NEW r \in Rim, NEW k \in 0 .. kFOVRadius, k # 0
  PROVE  LET o == OnLine(r, k)
             parent == OnLine(r, k - 1)
         IN  /\ Cost(o) \in Nat /\ Cost(parent) \in Nat
             /\ Cost(o) - Cost(parent) \in {95, 95 + 46}
             /\ Loss("tallGrass", o, parent) = Cost(o) - Cost(parent)
<1> DEFINE o == OnLine(r, k)
           parent == OnLine(r, k - 1)
           n == MinorAt(origin, r, k)
           l == MinorAt(origin, r, k - 1)
<1>1. r \in Point /\ origin \in Point
  BY BoxPoints DEF Rim, origin, Pt, Point
<1>2. k \in Nat /\ k - 1 \in Nat /\ k - 1 \in 0 .. kFOVRadius /\ (k - 1) + 1 = k
  BY RadiusAssumption
<1>3. Cost(o) = 95 * k + 46 * n /\ Cost(parent) = 95 * (k - 1) + 46 * l
  BY <1>2, CostOfNode
<1>4. n \in {l, l + 1} /\ n \in Nat /\ l \in Nat
  <2>1. n \in {l, l + 1}
    BY <1>1, <1>2, MinorAtStep
  <2>2. n \in 0 .. k /\ l \in 0 .. k - 1
    BY <1>1, <1>2, MinorAtRange
  <2> QED BY <1>2, <2>1, <2>2
<1>5. Diagonal(o, parent) <=> n # l
  BY StepIsDiagonal
<1>6. Loss("tallGrass", o, parent) = 95 + (IF n # l THEN 46 ELSE 0)
  BY <1>5 DEF Loss, FlagObscure
<1> HIDE DEF n, l, o, parent
<1>7. Cost(o) \in Nat /\ Cost(parent) \in Nat
  BY <1>2, <1>3, <1>4
<1>8. Cost(o) - Cost(parent) = 95 + (IF n # l THEN 46 ELSE 0)
  <2>1. CASE n = l
    BY <1>2, <1>3, <1>4, <2>1
  <2>2. CASE n = l + 1
    BY <1>2, <1>3, <1>4, <2>2
  <2> QED BY <1>4, <2>1, <2>2
<1>9. Cost(o) - Cost(parent) \in {95, 95 + 46} /\ Loss("tallGrass", o, parent) = Cost(o) - Cost(parent)
  BY <1>6, <1>8
<1> QED BY <1>7, <1>9 DEF o, parent

(* Without plain grass, what is left at a node that sight reaches is no    *)
(* more than the cost leaves.                                              *)
LEMMA GrassBounds ==
  ASSUME NEW m, NEW at, NEW V, IsView(m, at, V),
         \A o : TileAt(m, o) \in {"tallGrass", "tree"},
         NEW n \in Nodes, Reaches(m, at, V, n)
  PROVE  NodeSight(m, at, V, n) <= Larger(InitialSight - Cost(OnLine(n[1], n[2])), 0)
<1> DEFINE Left(o) == Larger(InitialSight - Cost(OnLine(o[1], o[2])), 0)
           Over == {o[2] : o \in {o \in Nodes : /\ Reaches(m, at, V, o)
                                                /\ ~(NodeSight(m, at, V, o) <= Left(o))}}
<1>1. V \in [VisionCells -> Int] /\ InitialSight \in Nat
  BY RadiusAssumption DEF IsView, InitialSight
<1>2. \A o \in Nodes : o[1] \in Rim /\ o[2] \in 0 .. kFOVRadius /\ o[2] \in Nat
  BY NodeFacts, PathFacts
<1>3. Over = {}
  <2> SUFFICES ASSUME Over # {} PROVE FALSE
    OBVIOUS
  <2>1. Over \subseteq Nat
    BY <1>2
  <2>2. PICK k \in Over : \A l \in Over : k <= l
    BY <2>1, LeastNatural
  <2>3. PICK o \in Nodes : Reaches(m, at, V, o) /\ ~(NodeSight(m, at, V, o) <= Left(o)) /\ o[2] = k
    BY <2>2
  <2>4. o[1] \in Rim /\ o[2] \in 0 .. kFOVRadius /\ o[2] \in Nat /\ k \in Nat
    BY <1>2, <2>3
  <2>5. CASE o[2] = 0
    <3>1. NodeSight(m, at, V, o) = InitialSight
      BY <2>5 DEF NodeSight
    <3>2. Cost(OnLine(o[1], o[2])) = 0
      <4>1. OnLine(o[1], o[2]) = origin
        BY <2>4, <2>5, RootPath
      <4>2. origin.x = 0 /\ origin.y = 0
        BY DEF origin, Pt
      <4>3. Larger(Abs(0), Abs(0)) = 0 /\ Smaller(Abs(0), Abs(0)) = 0
        BY DEF Larger, Smaller, Abs
      <4> QED BY <4>1, <4>2, <4>3 DEF Cost
    <3>3. InitialSight <= Larger(InitialSight - 0, 0)
      BY <1>1 DEF Larger
    <3> QED BY <2>3, <3>1, <3>2, <3>3
  <2>6. CASE o[2] # 0
    <3> DEFINE up == <<o[1], o[2] - 1>>
               p == OnLine(o[1], o[2])
               parent == OnLine(o[1], o[2] - 1)
               cell == Plus(parent, Centre)
               tile == TileAt(m, Plus(p, at))
    <3>1. up \in Nodes /\ up[1] = o[1] /\ up[2] = o[2] - 1
      BY <2>6, ParentPath
    <3>2. NodeSight(m, at, V, o) = SightAfter(tile, p, parent, V[cell])
      BY <2>6, Zenon DEF NodeSight
    <3>3. /\ Cost(p) \in Nat /\ Cost(parent) \in Nat
          /\ Cost(p) - Cost(parent) \in {95, 95 + 46}
          /\ Loss("tallGrass", p, parent) = Cost(p) - Cost(parent)
      BY <2>4, <2>6, GrassCosts
    <3>4. tile \in {"tallGrass", "tree"}
      OBVIOUS
    <3>5. cell \in VisionCells
      BY <2>4, <2>6, LinesInBox, BoxCells, RadiusAssumption
    <3>6. V[cell] \in Int
      BY <1>1, <3>5
    <3>7. V[cell] <= Larger(InitialSight - Cost(parent), 0)
      <4>1. CASE V[cell] = -1
        <5> HIDE DEF cell, parent
        <5> QED BY <1>1, <3>3, <4>1 DEF Larger
      <4>2. CASE V[cell] # -1
        <5>1. PICK b \in NodesAt[cell] :
                Reaches(m, at, V, b) /\ V[cell] = NodeSight(m, at, V, b)
          BY <3>5, <4>2, Zenon DEF IsView
        <5>2. b \in Nodes /\ Plus(OnLine(b[1], b[2]), Centre) = cell
          BY <3>5, NodesAtCells
        <5>3. CellOf(b) = CellOf(up) /\ CellOf(up) = cell
          BY <3>1, <5>2 DEF CellOf
        <5>4. b[2] = o[2] - 1
          BY <3>1, <5>2, <5>3, CellHasOneIndex
        <5>5. b[2] < k
          BY <2>3, <2>4, <5>4
        <5>6. NodeSight(m, at, V, b) <= Left(b)
          <6> SUFFICES ASSUME ~(NodeSight(m, at, V, b) <= Left(b)) PROVE FALSE
            OBVIOUS
          <6>1. b[2] \in Over
            BY <5>1, <5>2
          <6>2. k <= b[2] /\ b[2] \in Nat
            BY <1>2, <2>2, <5>2, <6>1
          <6> QED BY <2>4, <5>5, <6>2
        <5>7. OnLine(b[1], b[2]) = parent
          <6>1. /\ Path(b[1], b[2]) \in Paths /\ CellAt(Path(b[1], b[2])) = CellOf(b)
                /\ Path(up[1], up[2]) \in Paths /\ CellAt(Path(up[1], up[2])) = CellOf(up)
            BY <3>1, <5>2, SightOfNode
          <6>2. Last(Path(b[1], b[2])) = Last(Path(up[1], up[2]))
            BY <5>3, <6>1, FromCell
          <6>3. \A a \in Nodes : Last(Path(a[1], a[2])) = OnLine(a[1], a[2])
            BY LastOfPath
          <6>4. Last(Path(b[1], b[2])) = OnLine(b[1], b[2]) /\ Last(Path(up[1], up[2])) = OnLine(up[1], up[2])
            BY <3>1, <5>2, <6>3
          <6> QED BY <3>1, <6>2, <6>4
        <5> QED BY <5>1, <5>6, <5>7
      <4> QED BY <4>1, <4>2
    <3>8. SightAfter(tile, p, parent, V[cell]) <= Larger(InitialSight - Cost(p), 0)
      <4> HIDE DEF up, p, parent, cell, tile
      <4>1. CASE tile = "tree"
        BY <1>1, <3>3, <4>1 DEF SightAfter, FlagBlocked, Larger
      <4>2. CASE tile = "tallGrass"
        <5>1. SightAfter(tile, p, parent, V[cell]) = Larger(V[cell] - (Cost(p) - Cost(parent)), 0)
          BY <3>3, <4>2 DEF SightAfter, FlagBlocked
        <5> DEFINE v == V[cell]
                   a == Cost(p)
                   b == Cost(parent)
        <5>2. v \in Int /\ a \in Nat /\ b \in Nat /\ a - b \in {95, 95 + 46}
              /\ v <= Larger(InitialSight - b, 0)
          BY <3>3, <3>6, <3>7
        <5> HIDE DEF v, a, b
        <5>3. Larger(v - (a - b), 0) <= Larger(InitialSight - a, 0)
          BY <1>1, <5>2 DEF Larger
        <5> QED BY <5>1, <5>3 DEF v, a, b
      <4> QED BY <3>4, <4>1, <4>2
    <3> QED BY <2>3, <3>2, <3>8
  <2> QED BY <2>5, <2>6
<1> QED BY <1>3

(* Nothing beyond kVisionRadius is seen through tall grass.  The last step *)
(* before a cell that is seen leaves something, so its cost is less than   *)
(* all there is; the next step costs 95 + 46 at most, which is what        *)
(* getVision's constant leaves room for.                                   *)
LEMMA GrassHides ==
  ASSUME NEW m, NEW at, NEW V, IsView(m, at, V),
         \A o : TileAt(m, o) \in {"tallGrass", "tree"},
         NEW c \in VisionCells, V[c] >= 0
  PROVE  lenNethack(Minus(c, Centre)) <= kVisionRadius
<1>1. PICK n \in NodesAt[c] : Reaches(m, at, V, n)
  <2>1. V[c] # -1
    OBVIOUS
  <2> QED BY <2>1, Zenon DEF IsView
<1>2. n \in Nodes /\ CellOf(n) = c
  BY NodesAtCells DEF CellOf
<1> DEFINE o == OnLine(n[1], n[2])
<1>3. Minus(c, Centre) = o
  <2>1. Path(n[1], n[2]) \in Paths /\ CellAt(Path(n[1], n[2])) = c
    BY <1>2, SightOfNode
  <2> QED BY <1>2, <2>1, FromCell, LastOfPath
<1>4. n[1] \in Rim /\ n[2] \in 0 .. kFOVRadius /\ n[2] \in Nat
  BY <1>2, NodeFacts, PathFacts
<1>5. Cost(o) \in Int /\ Cost(o) < 100 * kVisionRadius + 75
  <2>1. CASE n[2] = 0
    <3>1. o = origin
      BY <1>4, <2>1, RootPath
    <3>2. Cost(o) = 0
      BY <3>1 DEF Cost, origin, Pt, Larger, Smaller, Abs
    <3> QED BY <3>2, RadiusAssumption
  <2>2. CASE n[2] # 0
    <3> DEFINE up == <<n[1], n[2] - 1>>
               parent == OnLine(n[1], n[2] - 1)
    <3>1. up \in Nodes /\ up[1] = n[1] /\ up[2] = n[2] - 1
      BY <1>2, <2>2, ParentPath
    <3>2. n[2] - 1 \in 0 .. n[2] - 1 /\ \A j \in 0 .. up[2] - 1 : j \in 0 .. n[2] - 1
      BY <1>4, <2>2, <3>1
    <3>3. NodeSight(m, at, V, up) > 0 /\ Reaches(m, at, V, up)
      BY <1>1, <3>1, <3>2 DEF Reaches
    <3>4. NodeSight(m, at, V, up) <= Larger(InitialSight - Cost(parent), 0)
      BY <3>1, <3>3, GrassBounds
    <3>5. Cost(o) \in Nat /\ Cost(parent) \in Nat /\ Cost(o) - Cost(parent) \in {95, 95 + 46}
      BY <1>4, <2>2, GrassCosts
    <3>6. NodeSight(m, at, V, up) \in Int
      <4>1. CASE up[2] = 0
        BY <4>1, RadiusAssumption DEF NodeSight, InitialSight
      <4>2. CASE up[2] # 0
        <5> DEFINE w == V[CellOf(<<up[1], up[2] - 1>>)]
        <5>1. <<up[1], up[2] - 1>> \in Nodes
          BY <3>1, <4>2, ParentPath
        <5>2. w \in Int
          <6>1. CellOf(<<up[1], up[2] - 1>>) \in VisionCells
            BY <5>1, SightOfNode, PathCells
          <6> QED BY <6>1 DEF IsView
        <5>3. NodeSight(m, at, V, up) =
                SightAfter(TileAt(m, Plus(OnLine(up[1], up[2]), at)),
                           OnLine(up[1], up[2]), OnLine(up[1], up[2] - 1), w)
          BY <4>2, Zenon DEF NodeSight, CellOf
        <5> HIDE DEF w
        <5> QED BY <5>2, <5>3 DEF SightAfter, Larger, Loss
      <4> QED BY <4>1, <4>2
    <3> HIDE DEF up, parent, o
    <3>7. InitialSight - Cost(parent) > 0
      BY <3>3, <3>4, <3>5, <3>6, RadiusAssumption DEF Larger, InitialSight
    <3> QED BY <3>5, <3>7, RadiusAssumption DEF InitialSight
  <2> QED BY <2>1, <2>2
<1>6. lenNethack(o) = (Cost(o) + 25) \div 100
  <2>1. o \in Point
    BY <1>4, LinesInBox
  <2> DEFINE L == Larger(Abs(o.x), Abs(o.y))
             S == Smaller(Abs(o.x), Abs(o.y))
  <2>2. L \in Int /\ S \in Int
    <3> HIDE DEF o
    <3> QED BY <2>1 DEF Point, Larger, Smaller, Abs
  <2>3. lenNethack(o) = (46 * S + 95 * L + 25) \div 100 /\ Cost(o) = 95 * L + 46 * S
    BY DEF lenNethack, Cost
  <2> HIDE DEF L, S, o
  <2>4. 46 * S + 95 * L + 25 = (95 * L + 46 * S) + 25
    BY <2>2
  <2> QED BY <2>3, <2>4
<1> DEFINE q == (Cost(o) + 25) \div 100
<1>7. q \in Int /\ 100 * q <= Cost(o) + 25
  <2>1. Cost(o) + 25 \in Int /\ 100 \in Nat \ {0}
    BY <1>5
  <2> QED BY <2>1, DivBounds
<1> HIDE DEF o, q
<1>8. q <= kVisionRadius
  BY <1>5, <1>7, RadiusAssumption
<1> QED BY <1>3, <1>6, <1>8 DEF q

(* The walk is on one of the maps.                                         *)
LEMMA MapInMaps == Spec => [](looking = TRUE => m_map \in Maps)
<1> DEFINE I == looking = TRUE => m_map \in Maps
<1>1. Init => I
  BY DEF Init
<1>2. I /\ [Next]_vars => I'
  BY DEF Next, AddLine, Look, Visit, Return, vars
<1> QED BY <1>1, <1>2, PTL DEF Spec

(* In tall grass getVision sees only what is within kVisionRadius, for     *)
(* every radius and map: the losses and the initial visibility fit.        *)
THEOREM TallGrassHidesFar == Spec => []GrassHidesFar
<1>1. SightInv /\ (looking = TRUE => m_map \in Maps) => GrassHidesFar
  <2> SUFFICES ASSUME SightInv, looking = TRUE => m_map \in Maps, Finished,
                      \A p \in DOMAIN m_map : m_map[p] # "grass",
                      NEW c \in VisionCells, visibility[c] >= 0
               PROVE  lenNethack(Minus(c, Centre)) <= kVisionRadius
    BY DEF GrassHidesFar
  <2>1. looking = TRUE
    BY DEF SightInv, WalkInv, Finished
  <2>2. \A o : TileAt(m_map, o) \in {"tallGrass", "tree"}
    BY <2>1, LookAssumption DEF TileAt, MatrixGet, Tile
  <2>3. IsView(m_map, pos, visibility)
    BY FinishedWalk
  <2> QED BY <2>2, <2>3, GrassHides
<1> QED BY <1>1, SightAlways, MapInMaps, PTL

-----------------------------------------------------------------------------
(* And within kVisionRadius everything is seen when all is tall grass.     *)
(* First, a sight line goes through every point of the box: the line whose *)
(* end is the point scaled to the rim and rounded.                         *)
Lands(k, y, m) ==
  /\ kFOVRadius * y <= k * m + kFOVRadius - 1 - kFOVRadius \div 2
  /\ k * m + kFOVRadius - 1 - kFOVRadius \div 2 < kFOVRadius * y + kFOVRadius
  /\ y > 0 => m > 0
  /\ y < k => m < kFOVRadius

LEMMA SomeLands ==
  ASSUME NEW k \in 1 .. kFOVRadius, NEW y \in 0 .. k
  PROVE  \E m \in 0 .. kFOVRadius : Lands(k, y, m)
<1> DEFINE N == kFOVRadius
           h == N \div 2
<1>1. N \in Nat \ {0} /\ k \in Nat \ {0} /\ y \in Nat
  BY RadiusAssumption
<1>2. h \in Int /\ 2 * h <= N /\ N < 2 * h + 2
  BY <1>1, DivBounds
<1>3. CASE k = N
  <2>1. k * y \in Int /\ N * y = k * y
    BY <1>1, <1>3
  <2> HIDE DEF N, h
  <2>2. /\ N * y <= k * y + N - 1 - h
        /\ k * y + N - 1 - h < N * y + N
    BY <1>1, <1>2, <2>1
  <2>3. (y > 0 => y > 0) /\ (y < k => y < N) /\ y \in 0 .. N
    BY <1>1, <1>3
  <2> QED BY <2>2, <2>3 DEF Lands, N, h
<1>4. CASE k # N
  <2> DEFINE P == y * N
             m == (2 * P + k) \div (2 * k)
             Q == k * m
  <2>1. P \in Nat /\ P = N * y
    BY <1>1
  <2>2. m \in Int /\ (2 * k) * m <= 2 * P + k /\ 2 * P + k < (2 * k) * m + 2 * k
    <3>1. 2 * P + k \in Int /\ 2 * k \in Nat \ {0}
      BY <1>1, <2>1
    <3> QED BY <3>1, DivBounds
  <2>3. Q \in Int /\ (2 * k) * m = 2 * Q
    <3> HIDE DEF m
    <3> QED BY <1>1, <2>2
  <2>4. 2 * Q <= 2 * P + k /\ 2 * P + k < 2 * Q + 2 * k /\ k < N
    BY <1>1, <1>4, <2>2, <2>3
  <2> DEFINE T == k * N
  <2>5. T \in Nat
    BY <1>1
  <2>6. y < k => P + N <= T
    <3> SUFFICES ASSUME y < k PROVE P + N <= T
      OBVIOUS
    <3>1. (k - y - 1) * N >= 0
      BY <1>1
    <3>2. (k - y - 1) * N = k * N - y * N - N
      BY <1>1
    <3> QED BY <1>1, <2>1, <2>5, <3>1, <3>2
  <2>7. y > 0 => P >= N
    <3> SUFFICES ASSUME y > 0 PROVE P >= N
      OBVIOUS
    <3>1. (y - 1) * N >= 0 /\ (y - 1) * N = y * N - N
      BY <1>1
    <3> QED BY <1>1, <2>1, <3>1
  <2>8. P <= T
    <3>1. (k - y) * N >= 0 /\ (k - y) * N = k * N - y * N
      BY <1>1
    <3> QED BY <1>1, <2>1, <2>5, <3>1
  <2>9. m >= 0
    <3> SUFFICES ASSUME m < 0 PROVE FALSE
      BY <2>2
    <3>1. (0 - m - 1) * k >= 0 /\ (0 - m - 1) * k = 0 - k * m - k
      <4> HIDE DEF m
      <4> QED BY <1>1, <2>2
    <3> HIDE DEF m, P
    <3> QED BY <1>1, <2>1, <2>3, <2>4, <3>1
  <2>10. y > 0 => m > 0
    <3> SUFFICES ASSUME y > 0, m = 0 PROVE FALSE
      BY <2>2, <2>9
    <3>1. Q = 0
      <4> HIDE DEF m
      <4> QED BY <1>1
    <3> HIDE DEF m, P, Q
    <3> QED BY <1>1, <2>1, <2>4, <2>7, <3>1
  <2>11. ASSUME m >= N PROVE Q >= T
    <3>1. (m - N) * k >= 0 /\ (m - N) * k = k * m - k * N
      <4> HIDE DEF m
      <4> QED BY <1>1, <2>2, <2>11
    <3> HIDE DEF m
    <3> QED BY <2>3, <2>5, <3>1
  <2>12. ASSUME m > N PROVE Q >= T + k
    <3>1. (m - N - 1) * k >= 0 /\ (m - N - 1) * k = k * m - k * N - k
      <4> HIDE DEF m
      <4> QED BY <1>1, <2>2, <2>12
    <3> HIDE DEF m
    <3> QED BY <1>1, <2>3, <2>5, <3>1
  <2> HIDE DEF P, Q, T, m
  <2>13. y < k => m < N
    BY <1>1, <2>1, <2>2, <2>3, <2>4, <2>5, <2>6, <2>11
  <2>14. m <= N
    BY <1>1, <2>1, <2>2, <2>3, <2>4, <2>5, <2>8, <2>12
  <2>15. P <= Q + N - 1 - h /\ Q + N - 1 - h < P + N
    <3> HIDE DEF N, h
    <3> QED BY <1>1, <1>2, <2>1, <2>3, <2>4
  <2>16. Lands(k, y, m)
    BY <2>1, <2>10, <2>13, <2>15 DEF Lands, Q
  <2>17. m \in 0 .. N
    BY <1>1, <2>2, <2>9, <2>14
  <2> QED BY <2>16, <2>17
<1> QED BY <1>3, <1>4

(* The line to such a rim point.                                           *)
LEMMA LineThrough ==
  ASSUME NEW c \in Point, NEW k \in 1 .. kFOVRadius, NEW y \in 0 .. k,
         k = lenWalking(c), y = Smaller(Abs(c.x), Abs(c.y)),
         NEW m \in 0 .. kFOVRadius, Lands(k, y, m)
  PROVE  \E r \in Rim :
           /\ OnLine(r, k) = c
           /\ Major(origin, r) = kFOVRadius /\ Minor(origin, r) = m
<1> DEFINE N == kFOVRadius
           sx == IF c.x < 0 THEN -1 ELSE 1
           sy == IF c.y < 0 THEN -1 ELSE 1
           xm == Abs(c.x) >= Abs(c.y)
           r == IF xm THEN Pt(sx * N, sy * m) ELSE Pt(sx * m, sy * N)
<1>1. N \in Nat \ {0} /\ k \in Nat /\ m \in Nat /\ m <= N /\ y \in Nat /\ y <= k
  BY RadiusAssumption
<1>2. c.x \in Int /\ c.y \in Int /\ c = Pt(c.x, c.y)
  BY DEF Point, Pt
<1>3. sx \in {-1, 1} /\ sy \in {-1, 1} /\ c.x = sx * Abs(c.x) /\ c.y = sy * Abs(c.y)
  BY <1>2 DEF Abs
<1>4. /\ xm => Abs(c.x) = k /\ Abs(c.y) = y
      /\ ~xm => Abs(c.y) = k /\ Abs(c.x) = y /\ y < k
  BY <1>2 DEF lenWalking, Larger, Smaller, Abs
<1>5. \A s \in {-1, 1}, j \in Nat :
        /\ Abs(0 - s * j) = j /\ Abs(s * j) = j
        /\ s * j \in Int
        /\ j <= N => s * j \in -N .. N
        /\ j > 0 => (IF s * j < 0 THEN -1 ELSE 1) = s
  BY <1>1 DEF Abs
<1>6. ~xm => m < N
  BY <1>4 DEF Lands
<1>7. /\ xm => r.x = sx * N /\ r.y = sy * m
      /\ ~xm => r.x = sx * m /\ r.y = sy * N
  BY DEF Pt
<1>8. r \in Point /\ r \in Box
  <2>1. \A u, v \in -N .. N : Pt(u, v) \in Point /\ Pt(u, v) \in Box
    BY <1>1 DEF Pt, Point, Box
  <2>2. sx * N \in -N .. N /\ sy * m \in -N .. N /\ sx * m \in -N .. N /\ sy * N \in -N .. N
    BY <1>1, <1>3, <1>5
  <2> HIDE DEF sx, sy, xm
  <2> QED BY <2>1, <2>2
<1>9. origin \in Point /\ origin.x = 0 /\ origin.y = 0
  BY DEF origin, Pt, Point
<1> HIDE DEF sx, sy, r
<1>10. /\ xm => XDiff(origin, r) = N /\ YDiff(origin, r) = m /\ XMajor(origin, r)
       /\ ~xm => XDiff(origin, r) = m /\ YDiff(origin, r) = N /\ ~XMajor(origin, r)
  <2>1. CASE xm
    <3>1. XDiff(origin, r) = N /\ YDiff(origin, r) = m
      BY <1>1, <1>3, <1>5, <1>7, <1>9, <2>1 DEF XDiff, YDiff
    <3> QED BY <1>1, <2>1, <3>1 DEF XMajor
  <2>2. CASE ~xm
    <3>1. XDiff(origin, r) = m /\ YDiff(origin, r) = N
      BY <1>1, <1>3, <1>5, <1>7, <1>9, <2>2 DEF XDiff, YDiff
    <3> QED BY <1>1, <1>6, <2>2, <3>1 DEF XMajor
  <2> QED BY <2>1, <2>2
<1>11. Major(origin, r) = N /\ Minor(origin, r) = m
  BY <1>10 DEF Major, Minor
<1>12. lenWalking(r) = N
  <2>1. CASE xm
    <3>1. Abs(r.x) = N /\ Abs(r.y) = m
      BY <1>1, <1>3, <1>5, <1>7, <2>1
    <3> QED BY <1>1, <3>1 DEF lenWalking, Larger
  <2>2. CASE ~xm
    <3>1. Abs(r.x) = m /\ Abs(r.y) = N
      BY <1>1, <1>3, <1>5, <1>7, <2>2
    <3> QED BY <1>1, <1>6, <2>2, <3>1 DEF lenWalking, Larger
  <2> QED BY <2>1, <2>2
<1>13. r \in Rim
  BY <1>8, <1>12 DEF Rim
<1>14. MinorAt(origin, r, k) = y
  <2>1. MinorAt(origin, r, k) = (k * m + N - 1 - N \div 2) \div N
    BY <1>1, <1>11 DEF MinorAt
  <2>2. k * m \in Int /\ N \div 2 \in Int
    BY <1>1, DivBounds
  <2>3. k * m + N - 1 - N \div 2 \in Int
    <3> HIDE DEF N
    <3> QED BY <1>1, <2>2
  <2>4. N * y <= k * m + N - 1 - N \div 2 /\ k * m + N - 1 - N \div 2 < N * y + N
    BY DEF Lands
  <2> DEFINE v == k * m + N - 1 - N \div 2
  <2> HIDE DEF v, N
  <2>5. v \in Int /\ N * y <= v /\ v < N * y + N
    BY <2>3, <2>4 DEF v
  <2>6. v \div N = y
    BY <1>1, <2>5, DivUnique
  <2> QED BY <2>1, <2>6 DEF v
<1>15. /\ xm => Sign(0, r.x) = sx /\ sy * y = Sign(0, r.y) * y
       /\ ~xm => Sign(0, r.y) = sy /\ sx * y = Sign(0, r.x) * y
  <2>1. y > 0 => m > 0
    BY DEF Lands
  <2>2. \A u, v \in {-1, 1} : u * 0 = v * 0
    OBVIOUS
  <2>3. Sign(0, r.x) \in {-1, 1} /\ Sign(0, r.y) \in {-1, 1}
    BY DEF Sign
  <2>4. \A s \in {-1, 1}, j \in Nat : j > 0 => Sign(0, s * j) = s
    BY <1>5 DEF Sign
  <2>5. CASE y = 0
    BY <1>1, <1>3, <1>7, <2>2, <2>3, <2>4, <2>5
  <2>6. CASE y > 0
    BY <1>1, <1>3, <1>7, <2>1, <2>4, <2>6
  <2> QED BY <1>1, <2>5, <2>6
<1>16. \A s \in {-1, 1}, j \in Nat : 0 + s * j = s * j
  OBVIOUS
<1>17. LinePoint(origin, r, k) = c
  <2>1. CASE xm
    <3>1. LinePoint(origin, r, k) = Pt(0 + Sign(0, r.x) * k, 0 + Sign(0, r.y) * y)
      BY <1>9, <1>10, <1>14, <2>1 DEF LinePoint
    <3>2. 0 + Sign(0, r.x) * k = c.x
      BY <1>1, <1>3, <1>4, <1>15, <1>16, <2>1
    <3>3. 0 + Sign(0, r.y) * y = c.y
      <4>1. Sign(0, r.y) \in {-1, 1}
        BY DEF Sign
      <4> QED BY <1>1, <1>3, <1>4, <1>15, <1>16, <2>1, <4>1
    <3> QED BY <1>2, <3>1, <3>2, <3>3
  <2>2. CASE ~xm
    <3>1. LinePoint(origin, r, k) = Pt(0 + Sign(0, r.x) * y, 0 + Sign(0, r.y) * k)
      BY <1>9, <1>10, <1>14, <2>2 DEF LinePoint
    <3>2. 0 + Sign(0, r.y) * k = c.y
      BY <1>1, <1>3, <1>4, <1>15, <1>16, <2>2
    <3>3. 0 + Sign(0, r.x) * y = c.x
      <4>1. Sign(0, r.x) \in {-1, 1}
        BY DEF Sign
      <4> QED BY <1>1, <1>3, <1>4, <1>15, <1>16, <2>2, <4>1
    <3> QED BY <1>2, <3>1, <3>2, <3>3
  <2> QED BY <2>1, <2>2
<1>18. OnLine(r, k) = c
  <2>1. k \in 0 .. kFOVRadius
    BY <1>1
  <2> QED BY <1>13, <1>17, <2>1 DEF OnLine, SightLine
<1> QED BY <1>11, <1>13, <1>18

(* The minor coordinate does not go back.                                  *)
LEMMA MinorAtGrows ==
  ASSUME NEW p \in Point, NEW q \in Point, NEW j \in Nat, NEW k \in Nat, j <= k
  PROVE  MinorAt(p, q, j) <= MinorAt(p, q, k)
<1> DEFINE M == Major(p, q)
           m == Minor(p, q)
           h == M \div 2
           a == (j * m + M - 1 - h) \div M
           b == (k * m + M - 1 - h) \div M
<1>1. M \in Nat /\ m \in Nat /\ h \in Int
  BY Distances, DivBounds
<1>2. CASE M = 0
  BY <1>2 DEF MinorAt
<1>3. CASE M # 0
  <2>1. MinorAt(p, q, j) = a /\ MinorAt(p, q, k) = b
    BY <1>3 DEF MinorAt
  <2>2. j * m \in Int /\ k * m \in Int /\ j * m <= k * m
    <3>1. (k - j) * m >= 0 /\ (k - j) * m = k * m - j * m
      BY <1>1
    <3> QED BY <1>1, <3>1
  <2> DEFINE u == j * m + M - 1 - h
             v == k * m + M - 1 - h
  <2>3. u \in Int /\ v \in Int /\ u <= v
    <3> HIDE DEF M, m, h
    <3> QED BY <1>1, <2>2
  <2> HIDE DEF u, v
  <2>4. u \div M \in Int /\ v \div M \in Int /\ M * (u \div M) <= u /\ v < M * (v \div M) + M
    BY <1>1, <1>3, <2>3, DivBounds
  <2>5. u \div M <= v \div M
    <3> DEFINE s == u \div M
               t == v \div M
    <3> SUFFICES ASSUME s >= t + 1 PROVE FALSE
      BY <2>4
    <3>1. s \in Int /\ t \in Int /\ M * s < M * t + M
      BY <1>1, <2>3, <2>4
    <3> HIDE DEF s, t, M
    <3>2. (s - t - 1) * M >= 0 /\ (s - t - 1) * M = M * s - M * t - M
      BY <1>1, <3>1
    <3> QED BY <1>1, <3>1, <3>2
  <2> QED BY <2>1, <2>5 DEF u, v
<1> QED BY <1>2, <1>3

(* The points of a line before its k-th are between that and the viewer.   *)
Between(o, c) ==
  /\ (0 <= o.x /\ o.x <= c.x) \/ (c.x <= o.x /\ o.x <= 0)
  /\ (0 <= o.y /\ o.y <= c.y) \/ (c.y <= o.y /\ o.y <= 0)

LEMMA LineStaysBetween ==
  ASSUME NEW r \in Rim, NEW k \in 0 .. kFOVRadius, NEW j \in 0 .. k
  PROVE  /\ Between(OnLine(r, j), OnLine(r, k))
         /\ Cost(OnLine(r, j)) <= Cost(OnLine(r, k))
<1>1. r \in Point
  BY BoxPoints DEF Rim
<1>2. origin \in Point /\ origin.x = 0 /\ origin.y = 0
  BY DEF origin, Pt, Point
<1>3. k \in Nat /\ j \in Nat /\ j <= k /\ j \in 0 .. kFOVRadius
  BY RadiusAssumption
<1> DEFINE n == MinorAt(origin, r, k)
           l == MinorAt(origin, r, j)
           sx == Sign(origin.x, r.x)
           sy == Sign(origin.y, r.y)
<1>4. n \in Nat /\ l \in Nat /\ l <= n
  BY <1>1, <1>2, <1>3, MinorAtRange, MinorAtGrows
<1>5. OnLine(r, k) = LinePoint(origin, r, k) /\ OnLine(r, j) = LinePoint(origin, r, j)
  BY <1>3 DEF OnLine, SightLine
<1>6. sx \in {-1, 1} /\ sy \in {-1, 1}
  BY <1>1, <1>2, Distances
<1>7. \/ /\ OnLine(r, k) = Pt(0 + sx * k, 0 + sy * n)
         /\ OnLine(r, j) = Pt(0 + sx * j, 0 + sy * l)
      \/ /\ OnLine(r, k) = Pt(0 + sx * n, 0 + sy * k)
         /\ OnLine(r, j) = Pt(0 + sx * l, 0 + sy * j)
  BY <1>2, <1>5 DEF LinePoint
<1>8. Cost(OnLine(r, k)) = 95 * k + 46 * n /\ Cost(OnLine(r, j)) = 95 * j + 46 * l
  BY <1>3, CostOfNode
<1> HIDE DEF n, l, sx, sy
<1>9. \A s \in {-1, 1}, a, b \in Nat : a <= b =>
        \/ 0 <= 0 + s * a /\ 0 + s * a <= 0 + s * b
        \/ 0 + s * b <= 0 + s * a /\ 0 + s * a <= 0
  OBVIOUS
<1>10. \A u, v : Pt(u, v).x = u /\ Pt(u, v).y = v
  BY DEF Pt
<1>11. Between(OnLine(r, j), OnLine(r, k))
  BY <1>3, <1>4, <1>6, <1>7, <1>9, <1>10 DEF Between
<1>12. 95 * j + 46 * l <= 95 * k + 46 * n
  BY <1>3, <1>4
<1> QED BY <1>8, <1>11, <1>12

(* So they are in the disc and on the board if the k-th is.                *)
LEMMA SquareGrows ==
  ASSUME NEW a \in Int, NEW b \in Int, (0 <= a /\ a <= b) \/ (b <= a /\ a <= 0)
  PROVE  a * a <= b * b
<1>1. CASE 0 <= a /\ a <= b
  <2>1. (b - a) * a >= 0 /\ (b - a) * b >= 0
    BY <1>1
  <2>2. (b - a) * a = b * a - a * a /\ (b - a) * b = b * b - b * a
    OBVIOUS
  <2> QED BY <2>1, <2>2
<1>2. CASE b <= a /\ a <= 0
  <2>1. (a - b) * (0 - a) >= 0 /\ (a - b) * (0 - b) >= 0
    BY <1>2
  <2>2. (a - b) * (0 - a) = b * a - a * a /\ (a - b) * (0 - b) = b * b - b * a
    OBVIOUS
  <2> QED BY <2>1, <2>2
<1> QED BY <1>1, <1>2

LEMMA BetweenIsNearer ==
  ASSUME NEW o \in Point, NEW c \in Point, Between(o, c)
  PROVE  /\ InDisc(c) => InDisc(o)
         /\ \A size \in Point : \A at \in CellsOf(size) :
              Plus(c, at) \in CellsOf(size) => Plus(o, at) \in CellsOf(size)
<1>1. o.x \in Int /\ o.y \in Int /\ c.x \in Int /\ c.y \in Int
  BY DEF Point
<1>2. o.x * o.x <= c.x * c.x /\ o.y * o.y <= c.y * c.y
  BY <1>1, SquareGrows DEF Between
<1>3. InDisc(c) => InDisc(o)
  <2> DEFINE a == o.x * o.x
             b == o.y * o.y
             u == c.x * c.x
             v == c.y * c.y
             R == (2 * kFOVRadius - 1) * (2 * kFOVRadius - 1)
  <2>1. a \in Int /\ b \in Int /\ u \in Int /\ v \in Int /\ R \in Int
    BY <1>1, RadiusAssumption
  <2>2. (InDisc(c) <=> 4 * (u + v) <= R) /\ (InDisc(o) <=> 4 * (a + b) <= R)
    BY DEF InDisc, lenL2Squared
  <2>3. a <= u /\ b <= v
    BY <1>2
  <2> HIDE DEF a, b, u, v, R
  <2> QED BY <2>1, <2>2, <2>3
<1>4. ASSUME NEW size \in Point, NEW at \in CellsOf(size), Plus(c, at) \in CellsOf(size)
      PROVE  Plus(o, at) \in CellsOf(size)
  <2>1. size.x \in Int /\ size.y \in Int
    BY DEF Point
  <2>2. PICK u \in 0 .. size.x - 1, v \in 0 .. size.y - 1 : at = Pt(u, v)
    BY DEF CellsOf
  <2>3. PICK s \in 0 .. size.x - 1, t \in 0 .. size.y - 1 : Plus(c, at) = Pt(s, t)
    BY <1>4 DEF CellsOf
  <2>4. c.x + u = s /\ c.y + v = t /\ Plus(o, at) = Pt(o.x + u, o.y + v)
    BY <2>2, <2>3 DEF Plus, Pt
  <2>5. o.x + u \in 0 .. size.x - 1
    BY <1>1, <2>1, <2>4 DEF Between
  <2>6. o.y + v \in 0 .. size.y - 1
    BY <1>1, <2>1, <2>4 DEF Between
  <2> QED BY <2>4, <2>5, <2>6 DEF CellsOf
<1> QED BY <1>3, <1>4

(* The cell of a node that sight reaches is seen, as well as from there.   *)
LEMMA ReachedIsSeen ==
  ASSUME NEW m, NEW at \in Point, NEW V, IsView(m, at, V), NEW n \in Nodes, Reaches(m, at, V, n)
  PROVE  /\ CellOf(n) \in VisionCells /\ V[CellOf(n)] \in Int
         /\ NodeSight(m, at, V, n) \in Nat
         /\ NodeSight(m, at, V, n) <= V[CellOf(n)]
<1>1. CellOf(n) \in VisionCells
  BY SightOfNode, PathCells
<1>2. V \in [VisionCells -> Int]
  BY DEF IsView
<1>3. n \in NodesAt[CellOf(n)]
  <2>1. Plus(OnLine(n[1], n[2]), Centre) = CellOf(n)
    BY DEF CellOf
  <2> QED BY <1>1, <2>1, NodesAtCells
<1>4. NodeSight(m, at, V, n) <= V[CellOf(n)]
  BY <1>1, <1>3, Zenon DEF IsView
<1> QED BY <1>1, <1>2, <1>4, SightIsNatural

(* Sight lasts along a line through tall grass while its cost is less than *)
(* all there is.                                                           *)
LEMMA GrassLasts ==
  ASSUME NEW m, NEW at \in Point, NEW V, IsView(m, at, V), NEW n \in Nodes,
         \A j \in 1 .. n[2] - 1 : TileAt(m, Plus(OnLine(n[1], j), at)) = "tallGrass",
         n[2] # 0 => Cost(OnLine(n[1], n[2] - 1)) < InitialSight
  PROVE  Reaches(m, at, V, n)
<1> DEFINE r == n[1]
           k == n[2]
           node(j) == <<r, j>>
           cost(j) == Cost(OnLine(r, j))
           sight(j) == NodeSight(m, at, V, node(j))
           Bad == {j \in 0 .. k - 1 : ~(InitialSight - cost(j) <= sight(j))}
<1>1. r \in Rim /\ k \in Nat /\ k <= kFOVRadius /\ kFOVRadius \in Nat /\ k \in 0 .. kFOVRadius
  BY NodeFacts, PathFacts, RadiusAssumption
<1>2. V \in [VisionCells -> Int] /\ InitialSight \in Nat
  BY RadiusAssumption DEF IsView, InitialSight
<1>3. \A j \in 0 .. k - 1 : node(j) \in Nodes /\ node(j)[1] = r /\ node(j)[2] = j
  BY NodeFacts
<1>4. \A j \in 0 .. k - 1 : sight(j) \in Nat
  BY <1>2, <1>3, SightIsNatural
<1>5. \A j \in 0 .. k - 1 : cost(j) \in Int /\ cost(j) < InitialSight
  <2> SUFFICES ASSUME NEW j \in 0 .. k - 1
               PROVE  cost(j) \in Int /\ cost(j) < InitialSight
    OBVIOUS
  <2>1. k # 0 /\ k - 1 \in 0 .. kFOVRadius /\ j \in 0 .. k - 1 /\ j \in 0 .. kFOVRadius
    BY <1>1
  <2>2. cost(j) <= cost(k - 1) /\ cost(k - 1) < InitialSight
    BY <1>1, <2>1, LineStaysBetween
  <2>3. \A a \in 0 .. kFOVRadius : cost(a) \in Int
    <3> SUFFICES ASSUME NEW a \in 0 .. kFOVRadius PROVE cost(a) \in Int
      OBVIOUS
    <3>1. OnLine(r, a) \in Point
      BY <1>1, LinesInBox
    <3> DEFINE o == OnLine(r, a)
    <3> HIDE DEF o
    <3>2. o.x \in Int /\ o.y \in Int
      BY <3>1 DEF Point, o
    <3>3. Cost(o) \in Int
      BY <3>2 DEF Cost, Larger, Smaller, Abs
    <3> QED BY <3>3 DEF o
  <2> DEFINE a == cost(j)
             b == cost(k - 1)
  <2>4. a \in Int /\ b \in Int /\ a <= b /\ b < InitialSight
    BY <2>1, <2>2, <2>3
  <2> HIDE DEF a, b
  <2>5. a \in Int /\ a < InitialSight
    BY <1>2, <2>4
  <2> QED BY <2>5 DEF a
<1>6. Bad = {}
  <2> SUFFICES ASSUME Bad # {} PROVE FALSE
    OBVIOUS
  <2>1. Bad \subseteq Nat
    BY <1>1
  <2>2. PICK j \in Bad : \A l \in Bad : j <= l
    BY <2>1, LeastNatural
  <2>3. j \in 0 .. k - 1 /\ j \in Nat /\ j \in 0 .. kFOVRadius /\ ~(InitialSight - cost(j) <= sight(j))
    BY <1>1, <2>2
  <2>4. CASE j = 0
    <3>1. sight(0) = InitialSight
      BY DEF NodeSight
    <3>2. cost(0) = 0
      <4>1. OnLine(r, 0) = origin
        BY <1>1, RootPath
      <4>2. origin.x = 0 /\ origin.y = 0
        BY DEF origin, Pt
      <4>3. Larger(Abs(0), Abs(0)) = 0 /\ Smaller(Abs(0), Abs(0)) = 0
        BY DEF Larger, Smaller, Abs
      <4> QED BY <4>1, <4>2, <4>3 DEF Cost
    <3>3. InitialSight - 0 <= InitialSight
      BY <1>2
    <3> QED BY <2>3, <2>4, <3>1, <3>2, <3>3
  <2>5. CASE j # 0
    <3> DEFINE p == OnLine(r, j)
               parent == OnLine(r, j - 1)
               cell == Plus(parent, Centre)
               tile == TileAt(m, Plus(p, at))
    <3>1. /\ j - 1 \in 0 .. k - 1 /\ j - 1 \in Nat /\ j \in 1 .. k - 1
          /\ \A l \in 0 .. (j - 1) - 1 : l \in 0 .. k - 1 /\ l \in Nat /\ l < j
      BY <1>1, <2>3, <2>5
    <3>2. \A l \in 0 .. k - 1 : l < j => sight(l) > 0 /\ InitialSight - cost(l) <= sight(l)
      <4> SUFFICES ASSUME NEW l \in 0 .. k - 1, l < j
                   PROVE  sight(l) > 0 /\ InitialSight - cost(l) <= sight(l)
        OBVIOUS
      <4>1. ~(j <= l)
        BY <2>3
      <4>2. l \notin Bad
        BY <2>2, <4>1
      <4>3. InitialSight - cost(l) <= sight(l)
        BY <4>2
      <4> DEFINE a == cost(l)
                 b == sight(l)
      <4>4. a \in Int /\ b \in Int /\ a < InitialSight /\ InitialSight - a <= b
        BY <1>4, <1>5, <4>3
      <4> HIDE DEF a, b
      <4>5. b > 0
        BY <1>2, <4>4
      <4> QED BY <4>3, <4>5 DEF b
    <3>3. Reaches(m, at, V, node(j - 1))
      BY <1>3, <3>1, <3>2 DEF Reaches
    <3>4. V[cell] \in Int /\ sight(j - 1) <= V[cell]
      <4>1. CellOf(node(j - 1)) = cell
        BY DEF CellOf
      <4> QED BY <1>3, <3>1, <3>3, <4>1, ReachedIsSeen
    <3>5. InitialSight - cost(j - 1) <= sight(j - 1)
      <4>1. j - 1 < j
        BY <2>3
      <4> QED BY <3>1, <3>2, <4>1
    <3>6. /\ Cost(p) \in Nat /\ Cost(parent) \in Nat
          /\ Loss("tallGrass", p, parent) = Cost(p) - Cost(parent)
      BY <1>1, <2>3, <2>5, GrassCosts
    <3>7. tile = "tallGrass"
      BY <3>1
    <3>8. sight(j) = SightAfter(tile, p, parent, V[cell])
      BY <2>5, Zenon DEF NodeSight
    <3> DEFINE v == V[cell]
               a == Cost(p)
               b == Cost(parent)
               s == sight(j - 1)
    <3>9. sight(j) = Larger(v - (a - b), 0)
      BY <3>6, <3>7, <3>8 DEF SightAfter, FlagBlocked
    <3>10. /\ v \in Int /\ a \in Int /\ b \in Int /\ s \in Int
           /\ s <= v /\ InitialSight - b <= s
      BY <1>4, <3>1, <3>4, <3>5, <3>6
    <3> HIDE DEF v, a, b, s
    <3>11. InitialSight - a <= Larger(v - (a - b), 0)
      BY <1>2, <3>10 DEF Larger
    <3> QED BY <2>3, <3>9, <3>11 DEF a
  <2> QED BY <2>4, <2>5
<1>7. ASSUME NEW j \in 0 .. k - 1 PROVE sight(j) > 0
  <2> DEFINE a == cost(j)
             b == sight(j)
  <2>1. a \in Int /\ b \in Int /\ a < InitialSight /\ InitialSight - a <= b
    BY <1>4, <1>5, <1>6
  <2> HIDE DEF a, b
  <2>2. b > 0
    BY <1>2, <2>1
  <2> QED BY <2>2 DEF b
<1> QED BY <1>7 DEF Reaches

LEMMA NethackIsCost ==
  ASSUME NEW o \in Point
  PROVE  /\ Cost(o) \in Nat
         /\ Cost(o) = 95 * lenWalking(o) + 46 * Smaller(Abs(o.x), Abs(o.y))
         /\ lenWalking(o) \in Nat
         /\ Smaller(Abs(o.x), Abs(o.y)) \in 0 .. lenWalking(o)
         /\ \A b \in Nat : lenNethack(o) <= b => Cost(o) < 100 * b + 75
<1> DEFINE L == Larger(Abs(o.x), Abs(o.y))
           S == Smaller(Abs(o.x), Abs(o.y))
<1>1. L \in Nat /\ S \in 0 .. L
  BY DEF Point, Larger, Smaller, Abs
<1>2. /\ lenWalking(o) = L /\ Cost(o) = 95 * L + 46 * S
      /\ lenNethack(o) = (46 * S + 95 * L + 25) \div 100
  BY DEF lenWalking, Cost, lenNethack
<1> HIDE DEF L, S
<1> DEFINE n == 46 * S + 95 * L + 25
           q == n \div 100
<1>3. n \in Nat /\ 95 * L + 46 * S \in Nat /\ n = (95 * L + 46 * S) + 25
  BY <1>1
<1>4. q \in Int /\ n < 100 * q + 100
  <2>1. n \in Int /\ 100 \in Nat \ {0}
    BY <1>3
  <2> HIDE DEF n
  <2> QED BY <2>1, DivBounds
<1>5. ASSUME NEW b \in Nat, q <= b PROVE 95 * L + 46 * S < 100 * b + 75
  <2> DEFINE u == 95 * L + 46 * S
  <2>1. u \in Nat /\ n = u + 25
    BY <1>3
  <2> HIDE DEF u, n, q
  <2>2. u < 100 * b + 75
    BY <1>4, <1>5, <2>1
  <2> QED BY <2>2 DEF u
<1> QED BY <1>1, <1>2, <1>3, <1>5 DEF S

(* A cell is seen if a line through it has some sight left one step        *)
(* before.                                                                 *)
LEMMA GrassSees ==
  ASSUME NEW m, NEW at \in CellsOf(Size), NEW V, IsView(m, at, V),
         DOMAIN m = CellsOf(Size), \A p \in DOMAIN m : m[p] = "tallGrass",
         NEW r \in Rim, NEW k \in 0 .. kFOVRadius,
         InDisc(OnLine(r, k)), Plus(OnLine(r, k), at) \in CellsOf(Size),
         k # 0 => Cost(OnLine(r, k - 1)) < InitialSight
  PROVE  V[Plus(OnLine(r, k), Centre)] >= 0
<1> DEFINE n == <<r, k>>
<1>1. k \in Nat /\ n[1] = r /\ n[2] = k /\ Size \in Point
  BY RadiusAssumption, LookAssumption
<1>2. at \in Point
  BY <1>1 DEF CellsOf, Pt, Point
<1>3. ASSUME NEW j \in 0 .. k - 1
      PROVE  InDisc(OnLine(r, j)) /\ Plus(OnLine(r, j), at) \in CellsOf(Size)
  <2>1. j \in 0 .. k /\ j \in 0 .. kFOVRadius
    BY <1>1, RadiusAssumption
  <2>2. OnLine(r, j) \in Point /\ OnLine(r, k) \in Point
    BY <2>1, LinesInBox
  <2>3. Between(OnLine(r, j), OnLine(r, k))
    BY <2>1, LineStaysBetween
  <2> QED BY <1>1, <2>2, <2>3, BetweenIsNearer
<1>4. n \in Nodes
  BY <1>3 DEF Nodes, IsNode
<1>5. \A j \in 1 .. n[2] - 1 : TileAt(m, Plus(OnLine(n[1], j), at)) = "tallGrass"
  BY <1>1, <1>3 DEF TileAt, MatrixGet
<1>6. Reaches(m, at, V, n)
  BY <1>1, <1>2, <1>4, <1>5, GrassLasts
<1>7. NodeSight(m, at, V, n) \in Nat /\ V[CellOf(n)] \in Int /\ NodeSight(m, at, V, n) <= V[CellOf(n)]
  BY <1>2, <1>4, <1>6, ReachedIsSeen
<1>8. CellOf(n) = Plus(OnLine(r, k), Centre)
  BY DEF CellOf
<1> QED BY <1>7, <1>8

(* A point at walking distance k through which a line is chosen by Lands.  *)
LEMMA GrassShows ==
  ASSUME NEW m, NEW at \in CellsOf(Size), NEW V, IsView(m, at, V),
         DOMAIN m = CellsOf(Size), \A p \in DOMAIN m : m[p] = "tallGrass",
         NEW c \in VisionCells,
         InDisc(Minus(c, Centre)), Plus(Minus(c, Centre), at) \in CellsOf(Size),
         \/ Cost(Minus(c, Centre)) < InitialSight + 95
         \/ /\ kFOVRadius = 15 /\ kVisionRadius = 3
            /\ Cost(Minus(c, Centre)) < 375
  PROVE  V[c] >= 0
<1> DEFINE o == Minus(c, Centre)
           k == lenWalking(o)
           y == Smaller(Abs(o.x), Abs(o.y))
           N == kFOVRadius
<1>1. N \in Nat \ {0} /\ InitialSight \in Int /\ InitialSight = 100 * kVisionRadius - 66 /\ kVisionRadius \in Nat \ {0}
  BY RadiusAssumption DEF InitialSight
<1>2. o \in Point /\ Plus(o, Centre) = c /\ k <= N
  <2>1. PICK u \in 0 .. 2 * N, v \in 0 .. 2 * N : c = Pt(u, v)
    <3>1. (2 * N + 1) - 1 = 2 * N
      BY <1>1
    <3> QED BY <3>1 DEF VisionCells, CellsOf, VisionSize, Pt
  <2>2. o = Pt(u - N, v - N) /\ u - N \in -N .. N /\ v - N \in -N .. N
    BY <1>1, <2>1 DEF Minus, Centre, Pt
  <2>3. o \in Point
    BY <2>2 DEF Pt, Point
  <2>4. Plus(o, Centre) = Pt((u - N) + N, (v - N) + N)
    BY <2>2 DEF Plus, Centre, Pt
  <2>5. (u - N) + N = u /\ (v - N) + N = v
    BY <1>1, <2>1
  <2>6. k <= N
    BY <1>1, <2>2 DEF lenWalking, Larger, Abs, Pt
  <2> HIDE DEF o, N
  <2> QED BY <2>1, <2>3, <2>4, <2>5, <2>6
<1>3. Cost(o) \in Nat /\ Cost(o) = 95 * k + 46 * y /\ k \in Nat /\ y \in 0 .. k
  BY <1>2, NethackIsCost
<1>4. CASE k = 0
  <2>1. PICK r \in Rim : TRUE
    BY RimIsNotEmpty
  <2>2. OnLine(r, 0) = origin
    BY RootPath
  <2>3. o = origin
    BY <1>2, <1>4 DEF lenWalking, Larger, Abs, origin, Pt, Point
  <2>4. 0 \in 0 .. kFOVRadius
    BY RadiusAssumption
  <2> QED BY <1>2, <2>2, <2>3, <2>4, GrassSees
<1>5. CASE k # 0
  <2> HIDE DEF o, N, k, y
  <2>1. k \in 1 .. kFOVRadius /\ k \in 0 .. kFOVRadius /\ k - 1 \in 0 .. kFOVRadius /\ k - 1 \in Nat
    BY <1>1, <1>2, <1>3, <1>5 DEF N
  <2>2. CASE Cost(o) < InitialSight + 95
    <3>1. PICK n \in 0 .. kFOVRadius : Lands(k, y, n)
      BY <1>3, <2>1, SomeLands
    <3>2. PICK r \in Rim : OnLine(r, k) = o
      BY <1>2, <1>3, <2>1, <3>1, LineThrough DEF k, y
    <3> DEFINE a == Cost(OnLine(r, k - 1))
    <3>3. a \in Nat /\ Cost(o) - a \in {95, 95 + 46}
      BY <1>5, <2>1, <3>2, GrassCosts
    <3> HIDE DEF a
    <3>4. a < InitialSight
      BY <1>1, <1>3, <2>2, <3>3
    <3> QED BY <1>2, <2>1, <3>2, <3>4, GrassSees DEF o, a
  <2>3. CASE ~(Cost(o) < InitialSight + 95)
    <3>1. kFOVRadius = 15 /\ kVisionRadius = 3 /\ Cost(o) < 375
      BY <2>3 DEF o
    <3>2. k = 3 /\ y = 1
      BY <1>1, <1>3, <2>3, <3>1
    <3>3. kFOVRadius \div 2 = 7
      BY <3>1
    <3>4. Lands(k, y, 3) /\ 3 \in 0 .. kFOVRadius
      BY <3>1, <3>2, <3>3 DEF Lands
    <3>5. PICK r \in Rim : OnLine(r, k) = o /\ Major(origin, r) = 15 /\ Minor(origin, r) = 3
      BY <1>2, <1>3, <2>1, <3>1, <3>4, LineThrough DEF k, y
    <3>6. MinorAt(origin, r, 2) = 0
      <4>1. (2 * 3 + 15 - 1 - 15 \div 2) \div 15 = 0
        OBVIOUS
      <4> QED BY <3>5, <4>1 DEF MinorAt
    <3>7. Cost(OnLine(r, 2)) = 95 * 2 + 46 * 0
      <4>1. 2 \in 0 .. kFOVRadius
        BY <3>1
      <4> QED BY <3>6, <4>1, CostOfNode
    <3>8. Cost(OnLine(r, k - 1)) < InitialSight
      <4>1. k - 1 = 2 /\ 95 * 2 + 46 * 0 < 100 * 3 - 66
        BY <3>2
      <4> QED BY <1>1, <3>1, <3>7, <4>1
    <3> QED BY <1>2, <2>1, <3>5, <3>8, GrassSees DEF o
  <2> QED BY <2>2, <2>3
<1> QED BY <1>4, <1>5

(* What the walk looks at when it is finished in tall grass.               *)
LEMMA ViewerOnBoard == Spec => [](looking = TRUE => pos \in Viewers)
<1> DEFINE I == looking = TRUE => pos \in Viewers
<1>1. Init => I
  BY DEF Init
<1>2. I /\ [Next]_vars => I'
  BY DEF Next, AddLine, Look, Visit, Return, vars
<1> QED BY <1>1, <1>2, PTL DEF Spec

LEMMA FinishedInGrass ==
  ASSUME SightInv, looking = TRUE => m_map \in Maps, looking = TRUE => pos \in Viewers, Finished
  PROVE  /\ DOMAIN m_map = CellsOf(Size) /\ pos \in CellsOf(Size)
         /\ IsView(m_map, pos, visibility)
<1>1. looking = TRUE
  BY DEF SightInv, WalkInv, Finished
<1> QED BY <1>1, FinishedWalk, LookAssumption

(* Whatever the radii, and wherever on a board of tall grass the viewer    *)
(* stands, it sees every cell of the board that is nearer than             *)
(* kVisionRadius and in the disc that the trie covers.  With GrassHidesFar *)
(* only the cells at exactly that distance depend on the line drawn.       *)
GrassShowsNear ==
  Finished /\ (\A p \in DOMAIN m_map : m_map[p] = "tallGrass") =>
    \A c \in VisionCells :
      /\ lenNethack(Minus(c, Centre)) < kVisionRadius
      /\ InDisc(Minus(c, Centre))
      /\ Plus(Minus(c, Centre), pos) \in DOMAIN m_map
      => visibility[c] >= 0

LEMMA CellIsPoint ==
  ASSUME NEW c \in VisionCells
  PROVE  Minus(c, Centre) \in Point
<1>1. kFOVRadius \in Int
  BY RadiusAssumption
<1> QED BY <1>1 DEF VisionCells, VisionSize, CellsOf, Centre, Minus, Pt, Point

(* The cost of a cell nearer than kVisionRadius leaves enough: getVision's *)
(* initial visibility is never too small by a whole step, for any radii,   *)
(* map of tall grass and viewer on the board.                              *)
THEOREM TallGrassShowsNear == Spec => []GrassShowsNear
<1>1. SightInv /\ (looking = TRUE => m_map \in Maps) /\ (looking = TRUE => pos \in Viewers) => GrassShowsNear
  <2> SUFFICES ASSUME SightInv, looking = TRUE => m_map \in Maps, looking = TRUE => pos \in Viewers,
                      Finished, \A p \in DOMAIN m_map : m_map[p] = "tallGrass",
                      NEW c \in VisionCells,
                      lenNethack(Minus(c, Centre)) < kVisionRadius,
                      InDisc(Minus(c, Centre)),
                      Plus(Minus(c, Centre), pos) \in DOMAIN m_map
               PROVE  visibility[c] >= 0
    BY DEF GrassShowsNear
  <2>1. DOMAIN m_map = CellsOf(Size) /\ pos \in CellsOf(Size) /\ IsView(m_map, pos, visibility)
    BY FinishedInGrass
  <2> DEFINE o == Minus(c, Centre)
  <2>2. o \in Point
    BY CellIsPoint
  <2>3. lenNethack(o) \in Int
    <3> HIDE DEF o
    <3>1. 46 * Smaller(Abs(o.x), Abs(o.y)) + 95 * Larger(Abs(o.x), Abs(o.y)) + 25 \in Int
      BY <2>2 DEF Point, Smaller, Larger, Abs
    <3>2. 100 \in Nat \ {0}
      OBVIOUS
    <3> QED BY <3>1, <3>2, DivBounds DEF lenNethack
  <2>4. kVisionRadius \in Nat \ {0} /\ kVisionRadius - 1 \in Nat /\ lenNethack(o) <= kVisionRadius - 1
    <3>1. kVisionRadius \in Nat \ {0} /\ lenNethack(o) < kVisionRadius
      BY RadiusAssumption
    <3> DEFINE l == lenNethack(o)
    <3> HIDE DEF l
    <3>2. l \in Int /\ l < kVisionRadius
      BY <2>3, <3>1 DEF l
    <3>3. l <= kVisionRadius - 1
      BY <3>1, <3>2
    <3> QED BY <3>1, <3>3 DEF l
  <2>5. Cost(o) \in Nat /\ Cost(o) < 100 * (kVisionRadius - 1) + 75
    BY <2>2, <2>4, NethackIsCost
  <2>6. Cost(o) < InitialSight + 95
    <3> HIDE DEF o
    <3> QED BY <2>4, <2>5 DEF InitialSight
  <2> QED BY <2>1, <2>6, GrassShows
<1> QED BY <1>1, SightAlways, MapInMaps, ViewerOnBoard, PTL

(* With the game's radii, 15 and 3, the cells seen in a field of tall      *)
(* grass are those of the board within kVisionRadius and no others,        *)
(* wherever the viewer stands and whatever the size of the board: the      *)
(* comment of getVision.                                                   *)
THEOREM TallGrassLimitsSight ==
  ASSUME kFOVRadius = 15, kVisionRadius = 3
  PROVE  Spec => []GrassLimitsSight
<1>1. SightInv /\ (looking = TRUE => m_map \in Maps) /\ (looking = TRUE => pos \in Viewers)
      /\ GrassHidesFar => GrassLimitsSight
  <2> SUFFICES ASSUME SightInv, looking = TRUE => m_map \in Maps, looking = TRUE => pos \in Viewers,
                      Finished, \A p \in DOMAIN m_map : m_map[p] = "tallGrass",
                      NEW c \in VisionCells,
                      lenNethack(Minus(c, Centre)) <= kVisionRadius,
                      Plus(Minus(c, Centre), pos) \in DOMAIN m_map
               PROVE  visibility[c] >= 0
    BY DEF GrassLimitsSight
  <2>1. DOMAIN m_map = CellsOf(Size) /\ pos \in CellsOf(Size) /\ IsView(m_map, pos, visibility)
    BY FinishedInGrass
  <2> DEFINE o == Minus(c, Centre)
  <2>2. o \in Point
    BY CellIsPoint
  <2>3. lenNethack(o) <= 3 /\ 3 \in Nat
    OBVIOUS
  <2>4. Cost(o) < 375 /\ Cost(o) = 95 * lenWalking(o) + 46 * Smaller(Abs(o.x), Abs(o.y))
        /\ lenWalking(o) \in Nat /\ Smaller(Abs(o.x), Abs(o.y)) \in 0 .. lenWalking(o)
    <3>1. Cost(o) < 100 * 3 + 75
      BY <2>2, <2>3, NethackIsCost
    <3>2. 100 * 3 + 75 = 375
      OBVIOUS
    <3>3. Cost(o) < 375
      BY <3>1, <3>2
    <3> QED BY <2>2, <3>3, NethackIsCost
  <2>5. InDisc(o)
    <3> HIDE DEF o
    <3>1. lenWalking(o) <= 3
      <4> DEFINE a == lenWalking(o)
                 b == Smaller(Abs(o.x), Abs(o.y))
      <4>1. a \in Nat /\ b \in 0 .. a /\ 95 * a + 46 * b < 375
        BY <2>4
      <4> HIDE DEF a, b
      <4>2. a <= 3
        BY <4>1
      <4> QED BY <4>2 DEF a
    <3>2. o.x \in -3 .. 3 /\ o.y \in -3 .. 3
      BY <2>2, <3>1 DEF Point, lenWalking, Larger, Abs
    <3>3. \A u \in -3 .. 3 : u * u <= 9 /\ u * u \in Int
      OBVIOUS
    <3>4. o.x * o.x <= 9 /\ o.y * o.y <= 9 /\ o.x * o.x \in Int /\ o.y * o.y \in Int
      BY <3>2, <3>3
    <3>5. (2 * kFOVRadius - 1) * (2 * kFOVRadius - 1) = 841
      OBVIOUS
    <3>6. 4 * (o.x * o.x + o.y * o.y) <= 841
      BY <3>4
    <3> QED BY <3>5, <3>6 DEF InDisc, lenL2Squared
  <2> QED BY <2>1, <2>4, <2>5, GrassShows
<1> QED BY <1>1, TallGrassHidesFar, SightAlways, MapInMaps, ViewerOnBoard, PTL

-----------------------------------------------------------------------------
(* No node is queued twice, so that a walk ends.                           *)
LEMMA SmallSetOnce ==
  ASSUME NEW S, \A x, y \in S : x = y
  PROVE  IsInjective(SetToSeq(S))
<1>1. \E g \in [1 .. Cardinality(S) -> S] : IsInjective(g)
  <2>1. CASE S = {}
    <3>1. Cardinality(S) = 0
      BY <2>1, FS_EmptySet
    <3>2. [j \in 1 .. 0 |-> j] \in [1 .. 0 -> S] /\ IsInjective([j \in 1 .. 0 |-> j])
      BY DEF IsInjective
    <3> QED BY <3>1, <3>2
  <2>2. CASE S # {}
    <3>1. PICK x \in S : S = {x}
      BY <2>2
    <3>2. Cardinality(S) = 1
      BY <3>1, FS_Singleton
    <3>3. [j \in 1 .. 1 |-> x] \in [1 .. 1 -> S] /\ IsInjective([j \in 1 .. 1 |-> x])
      BY DEF IsInjective
    <3> QED BY <3>2, <3>3
  <2> QED BY <2>1, <2>2
<1> DEFINE C == Cardinality(S)
           Inj(g) == IsInjective(g)
<1>2. SetToSeq(S) = CHOOSE g \in [1 .. C -> S] : Inj(g)
  BY DEF SetToSeq
<1>3. \E g \in [1 .. C -> S] : Inj(g)
  BY <1>1
<1> HIDE DEF C, Inj
<1>4. Inj(SetToSeq(S))
  BY <1>2, <1>3
<1> QED BY <1>4 DEF Inj

LEMMA ConcatOnce ==
  ASSUME NEW S, NEW s \in Seq(S), NEW t \in Seq(S), IsInjective(s), IsInjective(t),
         \A x \in ToSet(s) : x \notin ToSet(t)
  PROVE  IsInjective(s \o t)
<1>1. Len(s \o t) = Len(s) + Len(t) /\ Len(s) \in Nat /\ Len(t) \in Nat
  OBVIOUS
<1>2. /\ DOMAIN s = 1 .. Len(s) /\ DOMAIN t = 1 .. Len(t)
      /\ DOMAIN (s \o t) = 1 .. Len(s) + Len(t)
  BY <1>1
<1> DEFINE c == s \o t
<1>3. \A j \in 1 .. Len(s) : c[j] = s[j]
  BY <1>1
<1>4. \A j \in 1 .. Len(t) : c[Len(s) + j] = t[j]
  BY <1>1
<1>5. \A j \in 1 .. Len(s) + Len(t) :
        \/ j \in 1 .. Len(s)
        \/ j - Len(s) \in 1 .. Len(t) /\ Len(s) + (j - Len(s)) = j
  BY <1>1
<1>6. \A j \in 1 .. Len(s), l \in 1 .. Len(t) : s[j] # t[l]
  BY <1>2 DEF ToSet
<1>7. DOMAIN c = 1 .. Len(s) + Len(t)
  BY <1>2
<1> HIDE DEF c
<1>8. ASSUME NEW j \in 1 .. Len(s) + Len(t), NEW l \in 1 .. Len(s) + Len(t), c[j] = c[l]
      PROVE  j = l
  <2>1. CASE j \in 1 .. Len(s) /\ l \in 1 .. Len(s)
    BY <1>2, <1>3, <1>8, <2>1 DEF IsInjective
  <2>2. CASE j \in 1 .. Len(s) /\ l \notin 1 .. Len(s)
    <3>1. l - Len(s) \in 1 .. Len(t) /\ Len(s) + (l - Len(s)) = l
      BY <1>5, <2>2
    <3>2. c[l] = t[l - Len(s)] /\ c[j] = s[j]
      BY <1>3, <1>4, <2>2, <3>1
    <3> QED BY <1>6, <1>8, <2>2, <3>1, <3>2
  <2>3. CASE j \notin 1 .. Len(s) /\ l \in 1 .. Len(s)
    <3>1. j - Len(s) \in 1 .. Len(t) /\ Len(s) + (j - Len(s)) = j
      BY <1>5, <2>3
    <3>2. c[j] = t[j - Len(s)] /\ c[l] = s[l]
      BY <1>3, <1>4, <2>3, <3>1
    <3> QED BY <1>6, <1>8, <2>3, <3>1, <3>2
  <2>4. CASE j \notin 1 .. Len(s) /\ l \notin 1 .. Len(s)
    <3>1. /\ j - Len(s) \in 1 .. Len(t) /\ Len(s) + (j - Len(s)) = j
          /\ l - Len(s) \in 1 .. Len(t) /\ Len(s) + (l - Len(s)) = l
      BY <1>5, <2>4
    <3>2. c[j] = t[j - Len(s)] /\ c[l] = t[l - Len(s)]
      BY <1>4, <3>1
    <3>3. j - Len(s) = l - Len(s)
      BY <1>2, <1>8, <3>1, <3>2 DEF IsInjective
    <3> QED BY <3>1, <3>3
  <2> QED BY <2>1, <2>2, <2>3, <2>4
<1>9. IsInjective(c)
  BY <1>7, <1>8 DEF IsInjective
<1> QED BY <1>9 DEF c

(* A line adds no child that a node already has.                           *)
LEMMA TrieOnce ==
  ASSUME NEW L, NEW r \in Rim, NEW trie, IsTrieOf(trie, L),
         \A node \in DOMAIN trie : IsInjective(trie[node])
  PROVE  \A node \in DOMAIN TrieUpdate(trie, Line(origin, r)) :
           IsInjective(TrieUpdate(trie, Line(origin, r))[node])
<1> DEFINE line == Line(origin, r)
           N == NodeCount(line)
           path(k) == SubSeq(line, 1, k)
           old(node) == IF node \in DOMAIN trie THEN trie[node] ELSE <<>>
           step(node) == {path(k + 1) : k \in {k \in 1 .. N - 1 : path(k) = node}}
           add(node) == step(node) \ ToSet(old(node))
           T == TrieUpdate(trie, line)
<1>1. T = [node \in DOMAIN trie \cup {path(k) : k \in 1 .. N} |->
             old(node) \o SetToSeq(add(node))]
  BY DEF TrieUpdate
<1>2. kFOVRadius \in Nat /\ N \in 1 .. kFOVRadius + 1
  BY NodeCountIs, RadiusAssumption
<1>3. Len(line) = kFOVRadius + 1 /\ line \in Seq(Point)
  BY LineIsPath
<1> HIDE DEF N, line
<1>4. ASSUME NEW k \in 1 .. N - 1 PROVE Len(path(k)) = k
  BY <1>2, <1>3
<1>5. ASSUME NEW node, NEW x \in step(node), NEW y \in step(node) PROVE x = y
  <2> HIDE DEF path
  <2>1. PICK k \in 1 .. N - 1 : path(k) = node /\ x = path(k + 1)
    BY <1>5
  <2>2. PICK l \in 1 .. N - 1 : path(l) = node /\ y = path(l + 1)
    BY <1>5
  <2>3. k = l
    BY <1>4, <2>1, <2>2
  <2> QED BY <2>1, <2>2, <2>3
<1>6. ASSUME NEW node \in DOMAIN T PROVE IsInjective(T[node])
  <2>1. T[node] = old(node) \o SetToSeq(add(node))
    BY <1>1, <1>6
  <2> DEFINE o == old(node)
             a == add(node)
             s == SetToSeq(a)
             S == PathsTo(L) \cup a
  <2>2. o \in Seq(PathsTo(L)) /\ IsInjective(o)
    <3>1. CASE node \in DOMAIN trie
      BY <3>1 DEF IsTrieOf
    <3>2. CASE node \notin DOMAIN trie
      <4>1. o = <<>>
        BY <3>2
      <4>2. IsInjective(<<>>) /\ <<>> \in Seq(PathsTo(L))
        BY DEF IsInjective
      <4> QED BY <4>1, <4>2
    <3> QED BY <3>1, <3>2
  <2>3. \A x, y \in a : x = y
    <3> HIDE DEF step
    <3> QED BY <1>5
  <2>4. \A x \in a : x \notin ToSet(o)
    OBVIOUS
  <2> HIDE DEF old, add, T, o, a
  <2>5. IsInjective(s) /\ s \in Seq(a) /\ ToSet(s) = a
    BY <2>3, SmallSetOnce, SequenceOfSmallSet
  <2>6. o \in Seq(S) /\ s \in Seq(S)
    BY <2>2, <2>5, SeqSubset
  <2>7. \A x \in ToSet(o) : x \notin ToSet(s)
    BY <2>4, <2>5
  <2> HIDE DEF s, S
  <2>8. IsInjective(o \o s)
    BY <2>2, <2>5, <2>6, <2>7, ConcatOnce
  <2> QED BY <2>1, <2>8 DEF o, s, a
<1> QED BY <1>6 DEF T, line

(* The children of the node to visit are not in the queue yet: whatever    *)
(* is in it has a parent that was visited before.                          *)
LEMMA QueueOnce ==
  ASSUME NEW m, NEW at, NEW Q, NEW k, NEW V, Walks(m, at, Q, k, V), k <= Len(Q),
         IsInjective(Q),
         NEW kids \in Seq(Paths), ToSet(kids) = ChildrenIn(Paths, Q[k]), IsInjective(kids)
  PROVE  IsInjective(QueueAfter(m, at, Q, k, V, kids))
<1>1. /\ Q \in Seq(Paths) /\ k \in 1 .. Len(Q) + 1 /\ Q[1] = Root /\ Len(Q) \in Nat
      /\ HasParents(m, at, Q, k, V) /\ DOMAIN Q = 1 .. Len(Q)
  BY DEF Walks
<1>2. k \in 1 .. Len(Q)
  BY <1>1
<1>3. ASSUME NEW x \in ToSet(Q) PROVE x \notin ToSet(kids)
  <2>1. SUFFICES ASSUME Len(x) >= 2, Front(x) = Q[k] PROVE FALSE
    BY DEF ChildrenIn
  <2>2. PICK l \in 1 .. Len(Q) : x = Q[l]
    BY <1>1, <1>3 DEF ToSet
  <2>3. ASSUME l = 1 PROVE FALSE
    <3>1. x = Root
      BY <1>1, <2>2, <2>3
    <3>2. Len(x) = 1
      BY <3>1 DEF Root
    <3> QED BY <2>1, <3>2
  <2>4. l \in 2 .. Len(Q)
    BY <1>1, <2>2, <2>3
  <2>5. PICK j \in 1 .. k - 1 : Front(Q[l]) = Q[j]
    BY <1>1, <2>4 DEF HasParents
  <2>6. j \in 1 .. Len(Q) /\ j # k
    BY <1>1, <1>2
  <2> QED BY <1>1, <1>2, <2>1, <2>2, <2>5, <2>6 DEF IsInjective
<1>4. IsInjective(Q \o kids)
  BY <1>1, <1>3, ConcatOnce
<1> QED BY <1>4 DEF QueueAfter, Push

OnceInv ==
  /\ \A node \in DOMAIN children : IsInjective(children[node])
  /\ IsInjective(cache)

LEMMA OnceInit == Init => OnceInv
<1> SUFFICES ASSUME Init PROVE OnceInv
  OBVIOUS
<1>1. children = [node \in {Root} |-> <<>>] /\ cache = <<>>
  BY DEF Init
<1>2. IsInjective(<<>>)
  BY DEF IsInjective
<1>3. \A node \in DOMAIN children : children[node] = <<>>
  BY <1>1
<1> QED BY <1>1, <1>2, <1>3 DEF OnceInv

LEMMA OnceNext == SightInv /\ OnceInv /\ [Next]_vars => OnceInv'
<1> SUFFICES ASSUME SightInv, OnceInv, [Next]_vars PROVE OnceInv'
  OBVIOUS
<1>1. /\ TrieInv /\ WalkInv /\ IsInjective(cache)
      /\ \A node \in DOMAIN children : IsInjective(children[node])
  BY DEF SightInv, OnceInv
<1>2. CASE AddLine
  <2>1. /\ children' = TrieUpdate(children, Line(origin, RimPoint(lines)))
        /\ lines < 8 * (kFOVRadius + 1) /\ cache' = cache
    BY <1>2 DEF AddLine
  <2>2. lines \in 0 .. 8 * (kFOVRadius + 1) - 1 /\ IsTrieOf(children, Handled)
    BY <1>1, <2>1, RadiusAssumption DEF TrieInv
  <2>3. RimPoint(lines) \in Rim
    BY <2>2, HandlesTheRim
  <2>4. \A node \in DOMAIN children' : IsInjective(children'[node])
    BY <1>1, <2>1, <2>2, <2>3, TrieOnce
  <2> QED BY <1>1, <2>1, <2>4 DEF OnceInv, IsInjective
<1>3. ASSUME NEW m \in Maps, NEW p \in Viewers, Look(m, p) PROVE OnceInv'
  <2>1. cache' = <<Root>> /\ children' = children
    BY <1>3 DEF Look, StartQueue
  <2>2. IsInjective(<<Root>>)
    BY DEF IsInjective
  <2> QED BY <1>1, <2>1, <2>2 DEF OnceInv, IsInjective
<1>4. CASE Visit
  <2> DEFINE kids == children[cache[i]]
  <2>1. looking = TRUE /\ i <= Len(cache) /\ children' = children
    <3>1. looking /\ i <= Len(cache) /\ children' = children
      BY <1>4 DEF Visit
    <3>2. looking \in BOOLEAN
      BY <1>1 DEF WalkInv
    <3>3. looking = TRUE
      BY <3>1, <3>2
    <3> QED BY <3>1, <3>3
  <2>2. Built /\ Walks(m_map, pos, cache, i, visibility)
    BY <1>1, <2>1 DEF WalkInv
  <2>3. cache \in Seq(Paths) /\ i \in 1 .. Len(cache)
    BY <2>1, <2>2 DEF Walks
  <2>4. cache[i] \in Paths
    BY <2>3
  <2>5. /\ kids \in Seq(Paths) /\ ToSet(kids) = ChildrenIn(Paths, cache[i])
        /\ IsInjective(kids)
    BY <1>1, <2>2, <2>4, BuiltTrie
  <2>6. VisibilityOf(cache[i]) = SightOf(m_map, pos, visibility, cache[i])
    BY DEF VisibilityOf, SightOf
  <2>7. cache' = QueueAfter(m_map, pos, cache, i, visibility, kids)
    BY <1>4, <2>6, Zenon DEF Visit, QueueAfter
  <2> HIDE DEF kids
  <2>8. IsInjective(cache')
    BY <1>1, <2>1, <2>2, <2>5, <2>7, QueueOnce
  <2> QED BY <1>1, <2>1, <2>8 DEF OnceInv, IsInjective
<1>5. CASE Return
  <2>1. cache' = cache /\ children' = children
    BY <1>5 DEF Return
  <2> QED BY <1>1, <2>1 DEF OnceInv, IsInjective
<1>6. CASE UNCHANGED vars
  <2>1. cache' = cache /\ children' = children
    BY <1>6 DEF vars
  <2> QED BY <1>1, <2>1 DEF OnceInv, IsInjective
<1> QED BY <1>2, <1>3, <1>4, <1>5, <1>6 DEF Next

LEMMA OnceAlways == Spec => []OnceInv
<1>1. Init => OnceInv
  BY OnceInit
<1>2. SightInv /\ OnceInv /\ [Next]_vars => OnceInv'
  BY OnceNext
<1> QED BY <1>1, <1>2, SightAlways, PTL DEF Spec

(* There are finitely many nodes.                                          *)
LEMMA FiniteNodes == IsFiniteSet(Nodes) /\ Cardinality(Nodes) \in Nat
<1> DEFINE I == -kFOVRadius .. kFOVRadius
           f == [c \in I \X I |-> Pt(c[1], c[2])]
<1>1. IsFiniteSet(I) /\ IsFiniteSet(0 .. kFOVRadius)
  BY RadiusAssumption, FS_Interval
<1>2. IsFiniteSet(I \X I)
  BY <1>1, FS_Product
<1>3. f \in Surjection(I \X I, Box)
  <2>1. \A c \in I \X I : Pt(c[1], c[2]) \in Box
    BY DEF Box
  <2>2. f \in [I \X I -> Box]
    BY <2>1
  <2>3. ASSUME NEW p \in Box PROVE \E c \in I \X I : f[c] = p
    <3>1. PICK x \in I, y \in I : p = Pt(x, y)
      BY DEF Box
    <3>2. <<x, y>> \in I \X I /\ f[<<x, y>>] = p
      BY <3>1
    <3> QED BY <3>2
  <2> HIDE DEF f, I
  <2> QED BY <2>2, <2>3 DEF Surjection
<1> HIDE DEF f, I
<1>4. IsFiniteSet(Box)
  BY <1>2, <1>3, FS_Surjection
<1>5. IsFiniteSet(Rim)
  BY <1>4, FS_Subset DEF Rim
<1>6. IsFiniteSet(Rim \X (0 .. kFOVRadius))
  BY <1>1, <1>5, FS_Product
<1>7. IsFiniteSet(Nodes)
  BY <1>6, FS_Subset DEF Nodes
<1> QED BY <1>7, FS_CardinalityType

(* A queue without repetitions is no longer than there are nodes.          *)
LEMMA QueueFits ==
  ASSUME NEW Q \in Seq(Paths), IsInjective(Q)
  PROVE  Len(Q) <= Cardinality(Nodes)
<1> DEFINE nodeOf(q) == CHOOSE n \in Nodes : q = Path(n[1], n[2])
           f == [j \in 1 .. Len(Q) |-> nodeOf(Q[j])]
<1>1. Len(Q) \in Nat /\ DOMAIN Q = 1 .. Len(Q)
  OBVIOUS
<1>2. ASSUME NEW q \in Paths PROVE nodeOf(q) \in Nodes /\ q = Path(nodeOf(q)[1], nodeOf(q)[2])
  <2>1. \E n \in Nodes : q = Path(n[1], n[2])
    BY PathNode DEF Paths
  <2> QED BY <2>1
<1>3. \A j \in 1 .. Len(Q) : Q[j] \in Paths
  OBVIOUS
<1> HIDE DEF nodeOf
<1>4. f \in [1 .. Len(Q) -> Nodes]
  BY <1>2, <1>3
<1>5. ASSUME NEW j \in 1 .. Len(Q), NEW l \in 1 .. Len(Q), f[j] = f[l] PROVE j = l
  <2>1. nodeOf(Q[j]) = nodeOf(Q[l])
    BY <1>5
  <2>2. Q[j] = Q[l]
    BY <1>2, <1>3, <2>1
  <2> QED BY <1>1, <2>2 DEF IsInjective
<1>6. f \in Injection(1 .. Len(Q), Nodes)
  <2> HIDE DEF f
  <2>1. DOMAIN f = 1 .. Len(Q)
    BY <1>4
  <2> QED BY <1>4, <1>5, <2>1 DEF Injection, IsInjective
<1> HIDE DEF f
<1>7. Cardinality(1 .. Len(Q)) <= Cardinality(Nodes)
  BY <1>6, FiniteNodes, FS_Injection
<1>8. Cardinality(1 .. Len(Q)) = Len(Q)
  BY <1>1, FS_Interval
<1> QED BY <1>7, <1>8

(* The visits a call may still make.                                       *)
VisitsLeft == (Cardinality(Nodes) + 1) - i

(* The loop of fieldOfVision (geo.h) visits no node twice in a call and    *)
(* ends, after at most one visit for each node of the trie: every step     *)
(* takes one off the visits left, until the queue is exhausted.            *)
WalkRunsDown ==
  /\ [](\A j, l \in 1 .. Len(cache) : cache[j] = cache[l] => j = l)
  /\ [](looking = TRUE => VisitsLeft \in 0 .. Cardinality(Nodes))
  /\ [][looking = TRUE => \/ VisitsLeft' = VisitsLeft - 1 /\ looking' = TRUE
                          \/ i > Len(cache) /\ looking' = FALSE]_vars

(* A call of fieldOfVision visits every node once at most, whatever the    *)
(* map, and so comes to its end.                                           *)
THEOREM WalkIsBounded == Spec => WalkRunsDown
<1> DEFINE Once == \A j, l \in 1 .. Len(cache) : cache[j] = cache[l] => j = l
           Fits == looking = TRUE => VisitsLeft \in 0 .. Cardinality(Nodes)
           Falls == looking = TRUE => \/ VisitsLeft' = VisitsLeft - 1 /\ looking' = TRUE
                                      \/ i > Len(cache) /\ looking' = FALSE
<1>1. SightInv /\ OnceInv => Once
  <2> SUFFICES ASSUME SightInv, OnceInv PROVE Once
    OBVIOUS
  <2>1. cache = <<>> \/ cache \in Seq(Paths)
    BY DEF SightInv, WalkInv, Walks
  <2>2. DOMAIN cache = 1 .. Len(cache)
    BY <2>1
  <2> QED BY <2>2 DEF OnceInv, IsInjective
<1>2. SightInv /\ OnceInv => Fits
  <2> SUFFICES ASSUME SightInv, OnceInv, looking = TRUE
               PROVE  VisitsLeft \in 0 .. Cardinality(Nodes)
    OBVIOUS
  <2>1. cache \in Seq(Paths) /\ i \in 1 .. Len(cache) + 1
    BY DEF SightInv, WalkInv, Walks
  <2>2. Len(cache) <= Cardinality(Nodes)
    BY <2>1, QueueFits DEF OnceInv
  <2>3. Cardinality(Nodes) \in Nat /\ Len(cache) \in Nat
    BY <2>1, FiniteNodes
  <2> QED BY <2>1, <2>2, <2>3 DEF VisitsLeft
<1>3. SightInv /\ [Next]_vars => [Falls]_vars
  <2> SUFFICES ASSUME SightInv, Next, looking = TRUE
               PROVE  \/ VisitsLeft' = VisitsLeft - 1 /\ looking' = TRUE
                      \/ i > Len(cache) /\ looking' = FALSE
    BY DEF Falls
  <2>1. Built /\ cache # <<>>
    BY DEF SightInv, WalkInv
  <2>2. ASSUME AddLine PROVE FALSE
    <3>1. lines = 8 * (kFOVRadius + 1)
      BY <2>1 DEF Built
    <3>2. lines < 8 * (kFOVRadius + 1)
      BY <2>2 DEF AddLine
    <3> QED BY <3>1, <3>2, RadiusAssumption
  <2>3. \A m \in Maps, p \in Viewers : ~Look(m, p)
    BY DEF Look
  <2>4. CASE Visit
    <3>1. i' = i + 1 /\ looking' = TRUE
      BY <2>4 DEF Visit
    <3>2. i \in Nat /\ Cardinality(Nodes) \in Nat
      BY <2>1, FiniteNodes DEF SightInv, WalkInv, Walks
    <3>3. ((Cardinality(Nodes) + 1) - i)' = (Cardinality(Nodes) + 1) - (i + 1)
      BY <3>1 DEF Nodes, IsNode
    <3> QED BY <3>1, <3>2, <3>3 DEF VisitsLeft
  <2>5. CASE Return
    BY <2>5 DEF Return, Finished
  <2> QED BY <2>2, <2>3, <2>4, <2>5 DEF Next
<1> HIDE DEF Falls
<1>4. Spec => [](Once) /\ [](Fits) /\ [][Falls]_vars
  BY <1>1, <1>2, <1>3, SightAlways, OnceAlways, PTL DEF Spec
<1> QED BY <1>4 DEF WalkRunsDown, Falls
=============================================================================
