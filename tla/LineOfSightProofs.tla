------------------------- MODULE LineOfSightProofs -------------------------
(***************************************************************************)
(* The loop of LOS draws the line of Geo, between any two points.          *)
(***************************************************************************)
EXTENDS LineOfSight, GeoProofs

-----------------------------------------------------------------------------
(* The inductive invariant: while the loop runs, the current point and the *)
(* points pushed are those of the line, and the error term is in range and *)
(* agrees with the number of moves along the minor axis.                   *)
LoopInvariant ==
  running =>
    /\ i <= Major(a, b)
    /\ test = Error(a, b, i, MinorAt(a, b, i))
    /\ MinorAt(a, b, i) \in Nat
    /\ Major(a, b) > 0 => test < Major(a, b)
    /\ current = LinePoint(a, b, i)
    /\ result = [k \in 1 .. i + 1 |-> LinePoint(a, b, k - 1)]

IInv == TypeOK /\ LoopInvariant

LEMMA InitEstablishes == Init => IInv
<1> SUFFICES ASSUME Init PROVE IInv
  OBVIOUS
<1>1. origin \in Point
  BY DEF origin, Pt, Point
<1>2. LoopInvariant
  BY Zenon DEF Init, LoopInvariant
<1>3. running \in BOOLEAN
  BY Zenon DEF Init
<1>4. TypeOK
  BY <1>1, <1>3 DEF Init, TypeOK
<1> QED BY <1>2, <1>4 DEF IInv

LEMMA CallPreserves ==
  ASSUME IInv, NEW p \in Ends, NEW q \in Ends, Call(p, q)
  PROVE  IInv'
<1> DEFINE M == Major(p, q)
<1>1. p \in Point /\ q \in Point
  BY EndsAssumption
<1>2. M \in Nat /\ Minor(p, q) \in Nat
  BY <1>1, Distances
<1>3. M \div 2 \in Nat /\ 2 * (M \div 2) <= M
  BY <1>2, DivBounds
<1>4. MinorAt(p, q, 0) = 0
  BY <1>1, MinorAtEnds
<1>5. Error(p, q, 0, 0) = M \div 2
  BY <1>2, <1>3 DEF Error
<1>6. LinePoint(p, q, 0) = p
  BY <1>1, <1>4, Distances DEF LinePoint, Pt, Point
<1>7. TypeOK'
  BY <1>1, <1>3 DEF Call, TypeOK, ErrorAtStart
<1>8. <<p>> = [k \in 1 .. 0 + 1 |-> LinePoint(p, q, k - 1)]
  BY <1>6
<1>9. LoopInvariant'
  BY <1>2, <1>3, <1>4, <1>5, <1>6, <1>8 DEF Call, LoopInvariant, ErrorAtStart
<1> QED BY <1>7, <1>9 DEF IInv

LEMMA IteratePreserves ==
  ASSUME IInv, Iterate
  PROVE  IInv'
<1> DEFINE M == Major(a, b)
           m == Minor(a, b)
           n == MinorAt(a, b, i)
           t == test - m
<1>0. running /\ running'
  BY DEF Iterate
<1>1. /\ i \in Nat /\ i < M /\ a \in Point /\ b \in Point
      /\ a' = a /\ b' = b /\ i' = i + 1
      /\ test \in Nat /\ current \in Point /\ result \in Seq(Point)
  BY DEF Iterate, IInv, TypeOK
<1>2. M \in Nat /\ m \in Nat /\ m <= M /\ M > 0
  <2>1. M \in Nat /\ m \in Nat /\ m <= M
    <3>1. a \in Point /\ b \in Point
      BY <1>1
    <3> QED BY <3>1, Distances
  <2>2. i \in Nat /\ i < M
    BY <1>1
  <2> QED BY <2>1, <2>2
<1>3. /\ n \in Nat /\ test = Error(a, b, i, n) /\ test < M
      /\ current = LinePoint(a, b, i)
      /\ result = [k \in 1 .. i + 1 |-> LinePoint(a, b, k - 1)]
  BY <1>0, <1>1, <1>2 DEF IInv, LoopInvariant
<1>4. \E d \in {0, 1} :
        /\ test' = test - m + d * M
        /\ 0 <= test' /\ test' < M
        /\ current' = IF d = 1 THEN Plus(Plus(current, MajorStep), MinorStep)
                               ELSE Plus(current, MajorStep)
  <2>1. CASE t < 0
    <3>1. test' = t + M /\ current' = Plus(Plus(current, MajorStep), MinorStep)
      BY <2>1 DEF Iterate, Overshoots
    <3>2. 1 * M = M
      BY <1>2
    <3> QED BY <1>1, <1>2, <1>3, <2>1, <3>1, <3>2
  <2>2. CASE ~(t < 0)
    <3>1. test' = t /\ current' = Plus(current, MajorStep)
      BY <2>2 DEF Iterate, Overshoots
    <3>2. 0 * M = 0
      BY <1>2
    <3> QED BY <1>1, <1>2, <1>3, <2>2, <3>1, <3>2
  <2> QED BY <2>1, <2>2
<1>5. PICK d \in {0, 1} :
        /\ test' = test - m + d * M
        /\ 0 <= test' /\ test' < M
        /\ current' = IF d = 1 THEN Plus(Plus(current, MajorStep), MinorStep)
                               ELSE Plus(current, MajorStep)
  BY <1>4
<1>6. test' = Error(a, b, i + 1, n + d)
  <2> HIDE DEF M, m, n
  <2>1. M \div 2 \in Int /\ i \in Int /\ n \in Int /\ m \in Int /\ M \in Int
    BY <1>1, <1>2, <1>3, DivBounds
  <2>2. M \div 2 - (i + 1) * m + (n + d) * M = (M \div 2 - i * m + n * M) - m + d * M
    BY <2>1, ProductStep
  <2> QED BY <1>3, <1>5, <2>2, Zenon DEF Error, M, m, n
<1>7. MinorAt(a, b, i + 1) = n + d
  BY <1>1, <1>2, <1>3, <1>5, <1>6, MinorAtUnique
<1>8. current' = LinePoint(a, b, i + 1)
  <2> DEFINE sx == Sign(a.x, b.x)
             sy == Sign(a.y, b.y)
  <2>1. /\ a.x \in Int /\ a.y \in Int
        /\ sx \in {-1, 1} /\ sy \in {-1, 1}
    BY <1>1, Distances DEF Point
  <2>2. i \in Int /\ n \in Int
    BY <1>1, <1>3
  <2> HIDE DEF sx, sy, n
  <2>3. /\ a.x + sx * (i + 1) = (a.x + sx * i) + sx
        /\ a.y + sy * (i + 1) = (a.y + sy * i) + sy
        /\ a.x + sx * (n + 1) = (a.x + sx * n) + sx
        /\ a.y + sy * (n + 1) = (a.y + sy * n) + sy
        /\ a.x + sx * n \in Int /\ a.y + sy * n \in Int
        /\ a.x + sx * i \in Int /\ a.y + sy * i \in Int
    BY <2>1, <2>2, SignStep
  <2>4. CASE d = 0
    <3>1. LinePoint(a, b, i + 1) = IF XMajor(a, b) THEN Pt(a.x + sx * (i + 1), a.y + sy * n)
                                                   ELSE Pt(a.x + sx * n, a.y + sy * (i + 1))
      BY <1>7, <2>2, <2>4 DEF LinePoint, sx, sy, n
    <3>2. current = IF XMajor(a, b) THEN Pt(a.x + sx * i, a.y + sy * n)
                                    ELSE Pt(a.x + sx * n, a.y + sy * i)
      BY <1>3 DEF LinePoint, sx, sy, n
    <3>3. current' = Plus(current, IF XMajor(a, b) THEN Pt(sx, 0) ELSE Pt(0, sy))
      BY <1>5, <2>4 DEF MajorStep, sx, sy
    <3> QED BY <2>3, <3>1, <3>2, <3>3 DEF Plus, Pt
  <2>5. CASE d = 1
    <3>1. LinePoint(a, b, i + 1) = IF XMajor(a, b)
                                   THEN Pt(a.x + sx * (i + 1), a.y + sy * (n + 1))
                                   ELSE Pt(a.x + sx * (n + 1), a.y + sy * (i + 1))
      BY <1>7, <2>5 DEF LinePoint, sx, sy, n
    <3>2. current = IF XMajor(a, b) THEN Pt(a.x + sx * i, a.y + sy * n)
                                    ELSE Pt(a.x + sx * n, a.y + sy * i)
      BY <1>3 DEF LinePoint, sx, sy, n
    <3>3. current' = Plus(Plus(current, IF XMajor(a, b) THEN Pt(sx, 0) ELSE Pt(0, sy)),
                          IF XMajor(a, b) THEN Pt(0, sy) ELSE Pt(sx, 0))
      BY <1>5, <2>5 DEF MajorStep, MinorStep, sx, sy
    <3> QED BY <2>1, <2>3, <3>1, <3>2, <3>3 DEF Plus, Pt
  <2> QED BY <2>4, <2>5
<1>9. current' \in Point
  <2>1. Sign(a.x, b.x) \in Int /\ Sign(a.y, b.y) \in Int
    BY DEF Sign
  <2>2. MajorStep \in Point /\ MinorStep \in Point
    BY <2>1 DEF MajorStep, MinorStep, Pt, Point
  <2>3. \A u, v \in Point : Plus(u, v) \in Point
    BY DEF Plus, Pt, Point
  <2>4. current \in Point
    BY <1>1
  <2> QED BY <1>5, <2>2, <2>3, <2>4
<1>10. TypeOK'
  BY <1>1, <1>2, <1>5, <1>9 DEF Iterate, IInv, TypeOK
<1>11. result' = [k \in 1 .. i' + 1 |-> LinePoint(a, b, k - 1)]
  <2>1. result' = Append(result, current')
    BY DEF Iterate
  <2>2. Len(result) = i + 1
    BY <1>1, <1>3
  <2> QED BY <1>1, <1>3, <1>8, <2>1, <2>2
<1>12. LoopInvariant'
  <2> DEFINE k == i + 1
  <2>1. k <= M /\ n + d \in Nat
    BY <1>1, <1>2, <1>3
  <2>2. a' = a /\ b' = b /\ i' = k
    BY <1>1
  <2>3. /\ k <= Major(a, b)
        /\ test' = Error(a, b, k, MinorAt(a, b, k))
        /\ MinorAt(a, b, k) \in Nat
        /\ test' < Major(a, b)
        /\ current' = LinePoint(a, b, k)
        /\ result' = [l \in 1 .. k + 1 |-> LinePoint(a, b, l - 1)]
    BY <1>5, <1>6, <1>7, <1>8, <1>11, <2>1, <2>2
  <2> HIDE DEF k
  <2> QED BY <2>2, <2>3 DEF LoopInvariant
<1> QED BY <1>10, <1>12 DEF IInv

LEMMA NextPreserves == IInv /\ [Next]_vars => IInv'
<1> SUFFICES ASSUME IInv, [Next]_vars PROVE IInv'
  OBVIOUS
<1>1. ASSUME NEW p \in Ends, NEW q \in Ends, Call(p, q) PROVE IInv'
  BY <1>1, CallPreserves
<1>2. CASE Iterate
  BY <1>2, IteratePreserves
<1>3. CASE Return
  BY <1>3 DEF IInv, Return, TypeOK, LoopInvariant
<1>4. CASE UNCHANGED vars
  BY <1>4 DEF vars, IInv, TypeOK, LoopInvariant
<1> QED BY <1>1, <1>2, <1>3, <1>4 DEF Next

LEMMA Invariance == Spec => []IInv
<1> QED BY InitEstablishes, NextPreserves, PTL DEF Spec

-----------------------------------------------------------------------------
(* The loop keeps its variables within their types; in particular the      *)
(* error term never stays negative.                                        *)
THEOREM TypeCorrect == Spec => []TypeOK
<1>1. IInv => TypeOK
  BY DEF IInv
<1> QED BY <1>1, Invariance, PTL

(* What LOS pushes is a prefix of the closed form Line.                    *)
THEOREM LoopFollowsLine == Spec => []FollowsLine
<1>1. IInv => FollowsLine
  BY DEF IInv, LoopInvariant, FollowsLine
<1> QED BY <1>1, Invariance, PTL

(* LOS returns a vector of the size it asserts, from a to b.               *)
THEOREM LoopReachesTheEnd == Spec => []ReachesTheEnd
<1>1. IInv => ReachesTheEnd
  <2> SUFFICES ASSUME IInv, Finished PROVE ReachesTheEnd
    BY DEF ReachesTheEnd
  <2>1. a \in Point /\ b \in Point /\ i = Major(a, b) /\ i \in Nat
    BY DEF IInv, TypeOK, Finished
  <2>2. result = [k \in 1 .. i + 1 |-> LinePoint(a, b, k - 1)]
    BY DEF IInv, LoopInvariant, Finished
  <2>3. LinePoint(a, b, 0) = a
    BY <2>1, MinorAtEnds, Distances DEF LinePoint, Pt, Point
  <2>4. LinePoint(a, b, Major(a, b)) = b
    BY <2>1, MinorAtEnds
    DEF LinePoint, Pt, Point, Major, Minor, XMajor, XDiff, YDiff, Abs, Sign
  <2>5. Len(result) = i + 1 /\ result[1] = a /\ result[i + 1] = b
    BY <2>1, <2>2, <2>3, <2>4
  <2> QED BY <2>1, <2>5 DEF ReachesTheEnd
<1> QED BY <1>1, Invariance, PTL

(* No point pushed is more than half a cell from the segment.              *)
THEOREM LoopNearTheSegment == Spec => []NearTheSegment
<1>1. IInv => NearTheSegment
  <2> SUFFICES ASSUME IInv, running PROVE NearTheSegment
    BY DEF NearTheSegment
  <2> DEFINE M == Major(a, b)
             m == Minor(a, b)
             n == MinorAt(a, b, i)
  <2>1. a \in Point /\ b \in Point /\ i \in Nat /\ test \in Nat
    BY DEF IInv, TypeOK
  <2>2. M \in Nat /\ m \in Nat /\ m <= M
    BY <2>1, Distances
  <2>3. /\ i <= M /\ n \in Nat /\ test = Error(a, b, i, n)
        /\ M > 0 => test < M
        /\ current = LinePoint(a, b, i)
    BY DEF IInv, LoopInvariant
  <2>4. MinorMoved = n
    BY <2>1, <2>3, Distances DEF MinorMoved, LinePoint, Pt, Point, Abs
  <2>5. M * n \in Int /\ n * M = M * n /\ i * m \in Int /\ M \div 2 \in Int
    BY <2>1, <2>2, <2>3, DivBounds
  <2>6. 2 * (M \div 2) <= M /\ M < 2 * (M \div 2) + 2
    BY <2>2, DivBounds
  <2>7. CASE M > 0
    <3>1. M * n - i * m = test - M \div 2
      BY <2>3, <2>5 DEF Error
    <3> QED BY <2>1, <2>2, <2>3, <2>4, <2>5, <2>6, <2>7, <3>1 DEF NearTheSegment, Abs
  <2>8. CASE M = 0
    <3>1. i = 0 /\ M * n = 0 /\ i * m = 0
      BY <2>1, <2>2, <2>3, <2>8
    <3> QED BY <2>4, <2>8, <3>1 DEF NearTheSegment, Abs
  <2> QED BY <2>2, <2>7, <2>8
<1> QED BY <1>1, Invariance, PTL

-----------------------------------------------------------------------------
(* Backwards.  At step k the ideal segment from p to q passes exactly      *)
(* halfway between two cells.                                              *)
Tie(p, q, k) ==
  \E n \in 0 .. Minor(p, q) - 1 : 2 * (k * Minor(p, q)) = (2 * n + 1) * Major(p, q)

MinorUnit(p, q) == IF XMajor(p, q) THEN Pt(0, Sign(p.y, q.y)) ELSE Pt(Sign(p.x, q.x), 0)

(* The line from q to p at that place: at a tie one cell further along the *)
(* minor axis, everywhere else the same cell.                              *)
BackPoint(p, q, k) ==
  IF Tie(p, q, k) THEN Plus(LinePoint(p, q, k), MinorUnit(p, q)) ELSE LinePoint(p, q, k)

(* How far LOS is from the symmetry its comment claims: the line from b    *)
(* back to a differs from the line from a to b at the ties and nowhere     *)
(* else, there by one cell; so that the two are the same if and only if    *)
(* there is no tie, and always when the major distance is odd.             *)
SymmetricSaveTies ==
  Finished =>
    /\ \A k \in 1 .. Len(result) : Line(b, a)[Len(result) + 1 - k] = BackPoint(a, b, k - 1)
    /\ SymmetricLine <=> \A k \in 0 .. Major(a, b) : ~Tie(a, b, k)
    /\ Major(a, b) % 2 = 1 => SymmetricLine

LEMMA Reversed ==
  ASSUME NEW p \in Point, NEW q \in Point
  PROVE  /\ XMajor(q, p) <=> XMajor(p, q)
         /\ Major(q, p) = Major(p, q) /\ Minor(q, p) = Minor(p, q)
  BY DEF Point, XDiff, YDiff, Abs, Major, Minor, XMajor

(* The end of the line, from its start and the two distances.              *)
LEMMA EndFromStart ==
  ASSUME NEW u \in Int, NEW v \in Int
  PROVE  /\ v = u + Sign(u, v) * Abs(u - v)
         /\ u # v => Sign(v, u) = -Sign(u, v)
  BY DEF Sign, Abs

LEMMA ErrorInRange ==
  ASSUME NEW p \in Point, NEW q \in Point, NEW k \in Nat, Major(p, q) > 0
  PROVE  /\ MinorAt(p, q, k) \in Nat
         /\ Error(p, q, k, MinorAt(p, q, k)) \in 0 .. Major(p, q) - 1
<1> DEFINE M == Major(p, q)
           m == Minor(p, q)
           h == M \div 2
           N == k * m + M - 1 - h
           n == N \div M
<1>1. M \in Nat /\ m \in Nat /\ M > 0
  BY Distances
<1>2. h \in Int
  BY <1>1, DivBounds
<1>3. MinorAt(p, q, k) = n
  BY <1>1 DEF MinorAt
<1>4. n \in Nat
  BY <1>3, MinorAtRange
<1>5. Error(p, q, k, n) = h - k * m + n * M
  BY DEF Error
<1> HIDE DEF M, m, h
<1>6. k * m \in Int /\ N \in Int
  BY <1>1, <1>2
<1>7. M * n <= N /\ N < M * n + M
  <2> HIDE DEF N
  <2> QED BY <1>1, <1>6, DivBounds
<1> HIDE DEF n
<1>8. n * M \in Int /\ n * M = M * n
  BY <1>1, <1>4
<1>9. h - k * m + n * M \in 0 .. M - 1
  BY <1>1, <1>2, <1>6, <1>7, <1>8
<1> QED BY <1>3, <1>4, <1>5, <1>9 DEF M

(* Whether step k is a tie shows in the number of moves it ends with.      *)
LEMMA TieIsHere ==
  ASSUME NEW M \in Nat, NEW m \in Nat, M > 0, m <= M, NEW k \in 0 .. M, NEW n \in Nat, NEW h \in Int,
         2 * h <= M, M < 2 * h + 2, h - k * m + n * M \in 0 .. M - 1
  PROVE  (\E j \in 0 .. m - 1 : 2 * (k * m) = (2 * j + 1) * M) <=> 2 * (k * m) = (2 * n + 1) * M
<1>1. k * m \in Nat /\ n * M \in Nat /\ (2 * n + 1) * M = 2 * (n * M) + M
  OBVIOUS
<1>2. ASSUME NEW j \in 0 .. m - 1, 2 * (k * m) = (2 * j + 1) * M
      PROVE  j = n
  <2>1. j * M \in Nat /\ (2 * j + 1) * M = 2 * (j * M) + M
    OBVIOUS
  <2>2. ASSUME n >= j + 1 PROVE FALSE
    <3>1. (n - (j + 1)) * M >= 0 /\ (n - (j + 1)) * M = n * M - j * M - M
      BY <2>2
    <3> QED BY <1>1, <1>2, <2>1, <3>1
  <2>3. ASSUME j >= n + 1 PROVE FALSE
    <3>1. (j - (n + 1)) * M >= 0 /\ (j - (n + 1)) * M = j * M - n * M - M
      BY <2>3
    <3> QED BY <1>1, <1>2, <2>1, <3>1
  <2> QED BY <2>2, <2>3
<1>3. ASSUME 2 * (k * m) = (2 * n + 1) * M
      PROVE  n \in 0 .. m - 1
  <2>1. k * m <= M * m /\ M * m = m * M /\ m * M \in Nat
    <3>1. (M - k) * m >= 0 /\ (M - k) * m = M * m - k * m
      OBVIOUS
    <3> QED BY <1>1, <3>1
  <2>2. ASSUME n >= m PROVE FALSE
    <3>1. (n - m) * M >= 0 /\ (n - m) * M = n * M - m * M
      BY <2>2
    <3> QED BY <1>1, <1>3, <2>1, <3>1
  <2> QED BY <2>2
<1> QED BY <1>2, <1>3

Late(p, q, k) == IF Tie(p, q, k) THEN 1 ELSE 0

LEMMA MinorBackwards ==
  ASSUME NEW p \in Point, NEW q \in Point, Major(p, q) > 0, NEW k \in 0 .. Major(p, q)
  PROVE  MinorAt(q, p, Major(p, q) - k) = Minor(p, q) - MinorAt(p, q, k) - Late(p, q, k)
<1> DEFINE M == Major(p, q)
           m == Minor(p, q)
           h == M \div 2
           n == MinorAt(p, q, k)
           c == M - k
           t == Late(p, q, k)
           back == m - n - t
<1>1. M \in Nat /\ m \in Nat /\ m <= M /\ M > 0 /\ k \in 0 .. M /\ c \in Nat
  BY Distances
<1>2. h \in Int /\ 2 * h <= M /\ M < 2 * h + 2
  BY <1>1, DivBounds
<1>3. n \in Nat /\ h - k * m + n * M \in 0 .. M - 1
  BY <1>1, ErrorInRange DEF Error
<1>4. t = IF 2 * (k * m) = (2 * n + 1) * M THEN 1 ELSE 0
  <2>1. Tie(p, q, k) <=> \E j \in 0 .. m - 1 : 2 * (k * m) = (2 * j + 1) * M
    BY DEF Tie
  <2> HIDE DEF M, m, h, n
  <2>2. (\E j \in 0 .. m - 1 : 2 * (k * m) = (2 * j + 1) * M) <=> 2 * (k * m) = (2 * n + 1) * M
    BY <1>1, <1>2, <1>3, TieIsHere
  <2> QED BY <2>1, <2>2 DEF Late
<1>5. Major(q, p) = M /\ Minor(q, p) = m
  BY Reversed
<1>6. Error(q, p, c, back) = h - c * m + back * M
  BY <1>5 DEF Error
<1> HIDE DEF M, m, h, n, t
<1>7. t \in {0, 1} /\ back \in Int
  BY <1>1, <1>3, <1>4
<1>8. /\ k * m \in Nat /\ n * M \in Nat /\ m * M \in Nat /\ M * m = m * M
      /\ (2 * n + 1) * M = 2 * (n * M) + M
  BY <1>1, <1>3
<1>9. c * m = m * M - k * m
  BY <1>1
<1>10. back * M = m * M - n * M - t * M
  BY <1>1, <1>3, <1>7
<1>11. h - c * m + back * M \in 0 .. M - 1
  <2>1. CASE t = 0
    <3>1. t * M = 0 /\ 2 * (k * m) # 2 * (n * M) + M
      BY <1>1, <1>4, <1>8, <2>1
    <3> HIDE DEF back, c
    <3> QED BY <1>1, <1>2, <1>3, <1>8, <1>9, <1>10, <3>1
  <2>2. CASE t = 1
    <3>1. t * M = M /\ 2 * (k * m) = 2 * (n * M) + M
      BY <1>1, <1>4, <1>8, <2>2
    <3> HIDE DEF back, c
    <3> QED BY <1>1, <1>2, <1>3, <1>8, <1>9, <1>10, <3>1
  <2> QED BY <1>7, <2>1, <2>2
<1>12. MinorAt(q, p, c) = back
  <2>1. 0 <= Error(q, p, c, back) /\ Error(q, p, c, back) < M
    BY <1>1, <1>6, <1>11
  <2> HIDE DEF back, c
  <2> QED BY <1>1, <1>5, <1>7, <2>1, MinorAtUnique
<1> QED BY <1>12 DEF M, m, n, t

LEMMA LineBackwards ==
  ASSUME NEW p \in Point, NEW q \in Point, NEW k \in 0 .. Major(p, q)
  PROVE  LinePoint(q, p, Major(p, q) - k) = BackPoint(p, q, k)
<1> DEFINE M == Major(p, q)
           m == Minor(p, q)
           n == MinorAt(p, q, k)
           t == Late(p, q, k)
           sx == Sign(p.x, q.x)
           sy == Sign(p.y, q.y)
<1>1. /\ M \in Nat /\ m \in Nat /\ m <= M /\ k \in 0 .. M
      /\ sx \in {-1, 1} /\ sy \in {-1, 1}
      /\ Sign(q.x, p.x) \in {-1, 1} /\ Sign(q.y, p.y) \in {-1, 1}
      /\ p.x \in Int /\ p.y \in Int /\ q.x \in Int /\ q.y \in Int
      /\ p = Pt(p.x, p.y) /\ q = Pt(q.x, q.y)
  BY Distances DEF Point, Pt
<1>7. k \in Int /\ 0 <= k /\ k <= M
  BY <1>1
<1>2. n \in 0 .. k /\ MinorAt(q, p, M - k) \in Nat /\ M - k \in Nat
  <2>1. M - k \in Nat /\ k \in Nat
    BY <1>1
  <2> HIDE DEF M
  <2> QED BY <2>1, MinorAtRange
<1>3. t \in {0, 1}
  BY DEF Late
<1>4. MinorAt(q, p, M - k) = m - n - t
  <2>1. CASE M > 0
    BY <2>1, MinorBackwards
  <2>2. CASE M = 0
    <3>1. ~Tie(p, q, k)
      BY <1>1, <2>2 DEF Tie
    <3>2. m = 0 /\ k = 0 /\ t = 0 /\ n = 0
      BY <1>1, <1>2, <2>2, <3>1 DEF Late
    <3>3. MinorAt(q, p, M - k) = 0
      BY <2>2, <3>2, Reversed, MinorAtEnds
    <3> QED BY <3>2, <3>3
  <2> QED BY <1>1, <2>1, <2>2
<1>5. CASE XMajor(p, q)
  <2>1. q.x = p.x + sx * M /\ q.y = p.y + sy * m
    BY <1>1, <1>5, EndFromStart DEF Major, Minor, XDiff, YDiff
  <2>2. (M > 0 => Sign(q.x, p.x) = -sx) /\ (m > 0 => Sign(q.y, p.y) = -sy)
    <3>1. (M > 0 => p.x # q.x) /\ (m > 0 => p.y # q.y)
      <4> HIDE DEF M, m, sx, sy
      <4> QED BY <1>1, <2>1
    <3>2. (p.x # q.x => Sign(q.x, p.x) = -sx) /\ (p.y # q.y => Sign(q.y, p.y) = -sy)
      BY <1>1, EndFromStart
    <3> QED BY <3>1, <3>2
  <2>3. LinePoint(q, p, M - k)
          = Pt(q.x + Sign(q.x, p.x) * (M - k), q.y + Sign(q.y, p.y) * (m - n - t))
    BY <1>4, <1>5, Reversed DEF LinePoint
  <2>4. BackPoint(p, q, k) = Pt(p.x + sx * k, p.y + sy * (n + t))
    <3>1. LinePoint(p, q, k) = Pt(p.x + sx * k, p.y + sy * n) /\ MinorUnit(p, q) = Pt(0, sy)
      BY <1>5 DEF LinePoint, MinorUnit
    <3>2. CASE Tie(p, q, k)
      <4>1. t = 1 /\ BackPoint(p, q, k) = Pt((p.x + sx * k) + 0, (p.y + sy * n) + sy)
        BY <3>1, <3>2 DEF Late, BackPoint, Plus, Pt
      <4>2. (p.x + sx * k) + 0 = p.x + sx * k /\ (p.y + sy * n) + sy = p.y + sy * (n + 1)
        BY <1>1, <1>2
      <4> QED BY <4>1, <4>2
    <3>3. CASE ~Tie(p, q, k)
      <4>1. t = 0 /\ BackPoint(p, q, k) = Pt(p.x + sx * k, p.y + sy * n)
        BY <3>1, <3>3 DEF Late, BackPoint
      <4>2. n + 0 = n
        BY <1>2
      <4> QED BY <4>1, <4>2
    <3> QED BY <3>2, <3>3
  <2> HIDE DEF M, m, n, t, sx, sy
  <2>5. q.x + Sign(q.x, p.x) * (M - k) = p.x + sx * k
    <3>1. CASE M = 0
      <4>1. k = 0 /\ M - k = 0
        BY <1>7, <3>1
      <4>2. sx * M = 0 /\ sx * 0 = 0 /\ Sign(q.x, p.x) * 0 = 0
        BY <1>1, <3>1
      <4>3. q.x = p.x
        BY <1>1, <2>1, <4>2
      <4> QED BY <1>1, <4>1, <4>2, <4>3
    <3>2. CASE M > 0
      BY <1>1, <2>1, <2>2, <3>2
    <3> QED BY <1>1, <3>1, <3>2
  <2>6. q.y + Sign(q.y, p.y) * (m - n - t) = p.y + sy * (n + t)
    <3>1. CASE m = 0
      <4>1. m - n - t >= 0
        BY <1>2, <1>4
      <4>2. m - n - t = 0 /\ n + t = 0 /\ q.y = p.y
        BY <1>1, <1>2, <1>3, <2>1, <3>1, <4>1
      <4> QED BY <1>1, <4>2
    <3>2. CASE m > 0
      BY <1>1, <1>2, <1>3, <2>1, <2>2, <3>2
    <3> QED BY <1>1, <3>1, <3>2
  <2> QED BY <2>3, <2>4, <2>5, <2>6 DEF M
<1>6. CASE ~XMajor(p, q)
  <2>1. q.y = p.y + sy * M /\ q.x = p.x + sx * m
    BY <1>1, <1>6, EndFromStart DEF Major, Minor, XDiff, YDiff
  <2>2. (M > 0 => Sign(q.y, p.y) = -sy) /\ (m > 0 => Sign(q.x, p.x) = -sx)
    <3>1. (M > 0 => p.y # q.y) /\ (m > 0 => p.x # q.x)
      <4> HIDE DEF M, m, sx, sy
      <4> QED BY <1>1, <2>1
    <3>2. (p.y # q.y => Sign(q.y, p.y) = -sy) /\ (p.x # q.x => Sign(q.x, p.x) = -sx)
      BY <1>1, EndFromStart
    <3> QED BY <3>1, <3>2
  <2>3. LinePoint(q, p, M - k)
          = Pt(q.x + Sign(q.x, p.x) * (m - n - t), q.y + Sign(q.y, p.y) * (M - k))
    BY <1>4, <1>6, Reversed DEF LinePoint
  <2>4. BackPoint(p, q, k) = Pt(p.x + sx * (n + t), p.y + sy * k)
    <3>1. LinePoint(p, q, k) = Pt(p.x + sx * n, p.y + sy * k) /\ MinorUnit(p, q) = Pt(sx, 0)
      BY <1>6 DEF LinePoint, MinorUnit
    <3>2. CASE Tie(p, q, k)
      <4>1. t = 1 /\ BackPoint(p, q, k) = Pt((p.x + sx * n) + sx, (p.y + sy * k) + 0)
        BY <3>1, <3>2 DEF Late, BackPoint, Plus, Pt
      <4>2. (p.y + sy * k) + 0 = p.y + sy * k /\ (p.x + sx * n) + sx = p.x + sx * (n + 1)
        BY <1>1, <1>2
      <4> QED BY <4>1, <4>2
    <3>3. CASE ~Tie(p, q, k)
      <4>1. t = 0 /\ BackPoint(p, q, k) = Pt(p.x + sx * n, p.y + sy * k)
        BY <3>1, <3>3 DEF Late, BackPoint
      <4>2. n + 0 = n
        BY <1>2
      <4> QED BY <4>1, <4>2
    <3> QED BY <3>2, <3>3
  <2> HIDE DEF M, m, n, t, sx, sy
  <2>5. q.y + Sign(q.y, p.y) * (M - k) = p.y + sy * k
    <3>1. CASE M = 0
      <4>1. k = 0 /\ M - k = 0
        BY <1>7, <3>1
      <4>2. sy * M = 0 /\ sy * 0 = 0 /\ Sign(q.y, p.y) * 0 = 0
        BY <1>1, <3>1
      <4>3. q.y = p.y
        BY <1>1, <2>1, <4>2
      <4> QED BY <1>1, <4>1, <4>2, <4>3
    <3>2. CASE M > 0
      BY <1>1, <2>1, <2>2, <3>2
    <3> QED BY <1>1, <3>1, <3>2
  <2>6. q.x + Sign(q.x, p.x) * (m - n - t) = p.x + sx * (n + t)
    <3>1. CASE m = 0
      <4>1. m - n - t >= 0
        BY <1>2, <1>4
      <4>2. m - n - t = 0 /\ n + t = 0 /\ q.x = p.x
        BY <1>1, <1>2, <1>3, <2>1, <3>1, <4>1
      <4> QED BY <1>1, <4>2
    <3>2. CASE m > 0
      BY <1>1, <1>2, <1>3, <2>1, <2>2, <3>2
    <3> QED BY <1>1, <3>1, <3>2
  <2> QED BY <2>3, <2>4, <2>5, <2>6 DEF M
<1> QED BY <1>5, <1>6

(* At a tie the two cells differ.                                          *)
LEMMA TiesDiffer ==
  ASSUME NEW p \in Point, NEW q \in Point, NEW k \in 0 .. Major(p, q)
  PROVE  BackPoint(p, q, k) = LinePoint(p, q, k) <=> ~Tie(p, q, k)
<1>1. k \in Nat
  BY Distances
<1>2. LinePoint(p, q, k).x \in Int /\ LinePoint(p, q, k).y \in Int
  <2>1. MinorAt(p, q, k) \in Int /\ p.x \in Int /\ p.y \in Int
        /\ Sign(p.x, q.x) \in {-1, 1} /\ Sign(p.y, q.y) \in {-1, 1}
    BY <1>1, MinorAtRange, Distances DEF Point
  <2> QED BY <1>1, <2>1 DEF LinePoint, Pt
<1>3. Plus(LinePoint(p, q, k), MinorUnit(p, q)) # LinePoint(p, q, k)
  <2>1. CASE XMajor(p, q)
    <3>1. MinorUnit(p, q).y \in {-1, 1}
      BY <2>1, Distances DEF MinorUnit, Pt
    <3>2. Plus(LinePoint(p, q, k), MinorUnit(p, q)).y = LinePoint(p, q, k).y + MinorUnit(p, q).y
      BY DEF Plus, Pt
    <3> QED BY <1>2, <3>1, <3>2
  <2>2. CASE ~XMajor(p, q)
    <3>1. MinorUnit(p, q).x \in {-1, 1}
      BY <2>2, Distances DEF MinorUnit, Pt
    <3>2. Plus(LinePoint(p, q, k), MinorUnit(p, q)).x = LinePoint(p, q, k).x + MinorUnit(p, q).x
      BY DEF Plus, Pt
    <3> QED BY <1>2, <3>1, <3>2
  <2> QED BY <2>1, <2>2
<1> QED BY <1>3 DEF BackPoint

(* An odd distance has no middle.                                          *)
LEMMA OddHasNoTie ==
  ASSUME NEW p \in Point, NEW q \in Point, NEW k \in Nat, Major(p, q) % 2 = 1
  PROVE  ~Tie(p, q, k)
<1> DEFINE M == Major(p, q)
           m == Minor(p, q)
           e == M \div 2
<1>1. M \in Nat /\ m \in Nat
  BY Distances
<1>2. e \in Int /\ M = 2 * e + 1
  <2>1. M % 2 = M - 2 * e /\ e \in Int
    <3> HIDE DEF M
    <3> QED BY <1>1, ModRange, DivBounds
  <2>2. M % 2 = 1
    OBVIOUS
  <2> HIDE DEF M, e
  <2> QED BY <1>1, <2>1, <2>2
<1>3. Tie(p, q, k) <=> \E n \in 0 .. m - 1 : 2 * (k * m) = (2 * n + 1) * M
  BY DEF Tie
<1> HIDE DEF M, m, e
<1>4. ASSUME NEW n \in 0 .. m - 1, 2 * (k * m) = (2 * n + 1) * M
      PROVE  FALSE
  <2>1. (2 * n + 1) * M = 2 * (n * M + e) + 1 /\ n * M + e \in Int /\ k * m \in Int
    BY <1>1, <1>2
  <2> QED BY <1>4, <2>1
<1> QED BY <1>3, <1>4

(* The comment of geo.cpp:4 calls LOS symmetric; this is what holds of it. *)
THEOREM LinesAreSymmetricSaveTies == Spec => []SymmetricSaveTies
<1>1. IInv => SymmetricSaveTies
  <2> SUFFICES ASSUME IInv, Finished
               PROVE  /\ \A k \in 1 .. Len(result) :
                           Line(b, a)[Len(result) + 1 - k] = BackPoint(a, b, k - 1)
                      /\ SymmetricLine <=> \A k \in 0 .. Major(a, b) : ~Tie(a, b, k)
                      /\ Major(a, b) % 2 = 1 => SymmetricLine
    BY DEF SymmetricSaveTies
  <2> DEFINE M == Major(a, b)
  <2>1. a \in Point /\ b \in Point /\ i = M
    BY DEF IInv, TypeOK, Finished
  <2>2. M \in Nat /\ Major(b, a) = M
    BY <2>1, Distances, Reversed
  <2>3. result = [k \in 1 .. M + 1 |-> LinePoint(a, b, k - 1)]
    BY <2>1 DEF IInv, LoopInvariant, Finished
  <2>4. Line(b, a) = [k \in 1 .. M + 1 |-> LinePoint(b, a, k - 1)]
    BY <2>2 DEF Line
  <2>5. \A k \in 0 .. M : LinePoint(b, a, M - k) = BackPoint(a, b, k)
    BY <2>1, LineBackwards
  <2>6. \A k \in 0 .. M : BackPoint(a, b, k) = LinePoint(a, b, k) <=> ~Tie(a, b, k)
    BY <2>1, TiesDiffer
  <2> HIDE DEF M
  <2>7. Len(result) = M + 1
    BY <2>2, <2>3
  <2>8. ASSUME NEW k \in 1 .. M + 1
        PROVE  /\ Line(b, a)[M + 1 + 1 - k] = BackPoint(a, b, k - 1)
               /\ result[k] = LinePoint(a, b, k - 1)
               /\ k - 1 \in 0 .. M
    <3>1. k - 1 \in 0 .. M /\ M + 1 + 1 - k \in 1 .. M + 1 /\ (M + 1 + 1 - k) - 1 = M - (k - 1)
      BY <2>2
    <3>2. Line(b, a)[M + 1 + 1 - k] = LinePoint(b, a, (M + 1 + 1 - k) - 1)
      BY <2>4, <3>1
    <3> QED BY <2>3, <2>5, <3>1, <3>2
  <2>9. SymmetricLine <=> \A k \in 1 .. M + 1 : ~Tie(a, b, k - 1)
    <3>1. SymmetricLine <=> \A k \in 1 .. M + 1 : result[k] = Line(b, a)[M + 1 + 1 - k]
      BY <2>7 DEF SymmetricLine
    <3> QED BY <2>6, <2>8, <3>1
  <2>10. (\A k \in 1 .. M + 1 : ~Tie(a, b, k - 1)) <=> \A k \in 0 .. M : ~Tie(a, b, k)
    <3>1. ASSUME \A k \in 1 .. M + 1 : ~Tie(a, b, k - 1), NEW k \in 0 .. M PROVE ~Tie(a, b, k)
      <4>1. k + 1 \in 1 .. M + 1 /\ (k + 1) - 1 = k
        BY <2>2
      <4>2. ~Tie(a, b, (k + 1) - 1)
        BY <3>1, <4>1
      <4> QED BY <4>1, <4>2
    <3>2. ASSUME \A k \in 0 .. M : ~Tie(a, b, k), NEW k \in 1 .. M + 1 PROVE ~Tie(a, b, k - 1)
      BY <2>8, <3>2
    <3> QED BY <3>1, <3>2
  <2>11. M % 2 = 1 => \A k \in 0 .. M : ~Tie(a, b, k)
    BY <2>1, <2>2, OddHasNoTie DEF M
  <2>12. Major(a, b) = M
    BY DEF M
  <2> QED BY <2>7, <2>8, <2>9, <2>10, <2>11, <2>12
<1> QED BY <1>1, Invariance, PTL
=============================================================================
