---------------------------- MODULE CdbEditProofs ----------------------------
(***************************************************************************)
(* What CdbEdit promises, for all source files, maps and options.          *)
(***************************************************************************)
EXTENDS CdbEdit, SumProofs, SequenceTheorems

-----------------------------------------------------------------------------
\* The points of a segment.
IsPath(seg, R) ==
    R = [i \in 0 .. Len(seg.strokes) |->
            IF i = 0 THEN seg.origin ELSE Moved(R[i - 1], seg.strokes[i])]

LEMMA PointsUnfolded ==
    ASSUME NEW seg
    PROVE  Points(seg) = [i \in 1 .. Len(seg.strokes) + 1 |-> (CHOOSE R : IsPath(seg, R))[i - 1]]
BY DEF Points, IsPath

LEMMA MovedTyped ==
    ASSUME NEW p \in Point, NEW q \in Point
    PROVE  Moved(p, q) \in Point
BY DEF Moved, Point

LEMMA PointsTyped ==
    ASSUME NEW seg, seg.origin \in Point, seg.strokes \in Seq(Point)
    PROVE  /\ Points(seg) \in Seq(Point)
           /\ Len(Points(seg)) = Len(seg.strokes) + 1
           /\ Points(seg)[1] = seg.origin
<1> DEFINE n == Len(seg.strokes)
           T == [i \in 0 .. n |-> Point]
           step == [i \in 1 .. n |-> [p \in Point |-> Moved(p, seg.strokes[i])]]
<1>1. n \in Nat /\ \A i \in 1 .. n : seg.strokes[i] \in Point
    BY LenProperties, ElementOfSeq
<1>2. seg.origin \in T[0] /\ \A i \in 0 .. n : T[i] = Point
    BY <1>1
<1>3. ASSUME NEW i \in 1 .. n, NEW p \in T[i - 1]
      PROVE  step[i][p] \in T[i] /\ step[i][p] = Moved(p, seg.strokes[i])
    <2>1. i \in 0 .. n /\ i - 1 \in 0 .. n
        BY <1>1
    <2>2. T[i] = Point /\ p \in Point
        BY <1>2, <2>1
    <2>3. step[i][p] = Moved(p, seg.strokes[i])
        BY <2>2
    <2> HIDE DEF step, T
    <2> QED BY <1>1, <2>2, <2>3, MovedTyped
<1>4. \E R : IsPath(seg, R)
    <2> HIDE DEF T, step, n
    <2>1. PICK R : IsLoop(R, n, seg.origin, step)
        BY <1>1, LoopExists
    <2>2. \A i \in 0 .. n : R[i] \in T[i]
        BY <1>1, <1>2, <1>3, <2>1, LoopTyped
    <2>3. ASSUME NEW i \in 0 .. n
          PROVE  (IF i = 0 THEN seg.origin ELSE step[i][R[i - 1]])
                    = (IF i = 0 THEN seg.origin ELSE Moved(R[i - 1], seg.strokes[i]))
        <3>1. CASE i = 0
            BY <3>1
        <3>2. CASE i # 0
            <4>1. i \in 1 .. n /\ i - 1 \in 0 .. n
                BY <1>1, <3>2
            <4>2. R[i - 1] \in T[i - 1]
                BY <2>2, <4>1
            <4>3. step[i][R[i - 1]] = Moved(R[i - 1], seg.strokes[i])
                BY <1>3, <4>1, <4>2
            <4> QED BY <3>2, <4>3
        <3> QED BY <3>1, <3>2
    <2>4. IsPath(seg, R)
        BY <2>1, <2>3 DEF IsLoop, IsPath, n
    <2> QED BY <2>4
<1>5. PICK R : R = CHOOSE Q : IsPath(seg, Q)
    OBVIOUS
<1>6. IsPath(seg, R)
    BY <1>4, <1>5
<1>7. R[0] = seg.origin /\ \A i \in 1 .. n : R[i] = Moved(R[i - 1], seg.strokes[i])
    BY <1>1, <1>6 DEF IsPath
<1>8. \A i \in 0 .. n : R[i] \in Point
    <2> DEFINE G == {i \in 0 .. n : R[i] \in Point}
    <2>1. 0 \in G
        BY <1>1, <1>7
    <2>2. ASSUME NEW i \in 1 .. n, i - 1 \in G PROVE i \in G
        <3>1. R[i] = Moved(R[i - 1], seg.strokes[i]) /\ seg.strokes[i] \in Point
            BY <1>1, <1>7
        <3>2. R[i - 1] \in Point /\ i \in 0 .. n
            BY <1>1, <2>2
        <3>3. R[i] \in Point
            BY <3>1, <3>2, MovedTyped
        <3> HIDE DEF T, step, n
        <3> QED BY <3>2, <3>3
    <2>3. 0 .. n \subseteq G
        <3> HIDE DEF G, n
        <3> QED BY <1>1, <2>1, <2>2, ByIndex
    <2> QED BY <2>3
<1>9. Points(seg) = [i \in 1 .. n + 1 |-> R[i - 1]]
    BY <1>5, PointsUnfolded
<1>10. \A i \in 1 .. n + 1 : i - 1 \in 0 .. n
    BY <1>1
<1> HIDE DEF n, T, step
<1>11. \A i \in 1 .. n + 1 : R[i - 1] \in Point
    BY <1>8, <1>10
<1>12. Points(seg) \in [1 .. n + 1 -> Point] /\ Points(seg)[1] = R[0]
    BY <1>1, <1>9, <1>11
<1>13. Points(seg) \in Seq(Point) /\ Len(Points(seg)) = n + 1
    BY <1>1, <1>12
<1> QED BY <1>7, <1>12, <1>13 DEF n

-----------------------------------------------------------------------------
\* The arithmetic of move_pu and draw_pd stays among the integers.
LEMMA NintTyped ==
    ASSUME NEW n \in Int
    PROVE  Nint(n) \in Int /\ n - Nint(n) <= 0 /\ Nint(n) - n <= 1
BY DEF Nint

LEMMA Int2Typed ==
    ASSUME NEW n \in Int
    PROVE  Int2(n) \in Int
BY EditAssumption DEF Int2

LEMMA ClampTyped ==
    ASSUME NEW n \in Int
    PROVE  Clamp(n) \in Int
BY EditAssumption DEF Clamp, Greatest, Least

LEMMA NormalizeTyped ==
    ASSUME NEW lon \in Int
    PROVE  /\ Normalize(lon) \in Int
           /\ -Half <= Normalize(lon) /\ Normalize(lon) <= Half
           /\ -Half <= lon /\ lon <= Half => Normalize(lon) = lon
<1>1. PICK m \in Nat : m = 2 * Half /\ m > 0
    BY EditAssumption
<1>2. Half \in Nat /\ m = 2 * Half
    BY EditAssumption, <1>1
<1>3. ASSUME NEW n \in Int PROVE n % m \in 0 .. m - 1
    BY <1>1
<1>4. lon + Half \in Int /\ Half - lon \in Int
    BY <1>2
<1>5. (lon + Half) % m \in 0 .. m - 1 /\ (Half - lon) % m \in 0 .. m - 1
    BY <1>3, <1>4
<1>6. Normalize(lon) = IF lon < -Half THEN ((lon + Half) % m) - Half
                       ELSE IF lon > Half THEN Half - ((Half - lon) % m) ELSE lon
    BY <1>1 DEF Normalize
<1> QED BY <1>2, <1>5, <1>6

\* Where a segment comes from: its parts, its joints, its origin and its start.
Kept(a, b) == a.parts = b.parts /\ a.joints = b.joints /\ a.origin = b.origin /\ a.start = b.start

LEMMA MovePuTyped ==
    ASSUME NEW p \in Point, NEW parts \in Seq(Nat \X Nat)
    PROVE  /\ MovePu(p, parts) \in Pen
           /\ MovePu(p, parts).parts = parts
           /\ MovePu(p, parts).joints = {}
           /\ MovePu(p, parts).start = p
           /\ MovePu(p, parts).strokes = <<>>
           /\ MovePu(p, parts).origin = <<Nint(p[1]), Nint(Normalize(p[2]))>>
<1>1. p[1] \in Int /\ p[2] \in Int
    BY DEF Point
<1>2. PICK a \in Int, b \in Int : a = Nint(p[1]) /\ b = Nint(Normalize(p[2]))
    BY <1>1, NintTyped, NormalizeTyped
<1>3. MovePu(p, parts) =
        [origin |-> <<a, b>>, strokes |-> <<>>, start |-> p, end |-> p,
         lat_min |-> a, lat_max |-> a, lon_min |-> b, lon_max |-> b,
         parts |-> parts, joints |-> {}]
    BY <1>2 DEF MovePu
<1>4. <<>> \in Seq(Point) /\ <<a, b>> \in Point
    BY DEF Point
<1>5. MovePu(p, parts) \in Pen
    BY <1>3, <1>4 DEF Pen
<1> QED BY <1>2, <1>3, <1>5

LEMMA DrawPdTyped ==
    ASSUME NEW seg \in Pen, NEW p \in Point
    PROVE  /\ DrawPd(seg, p) \in Pen
           /\ Kept(DrawPd(seg, p), seg)
           /\ DrawPd(seg, p).strokes # <<>>
           /\ DrawPd(seg, p).end = p
<1>1. /\ seg.origin \in Point /\ seg.end \in Point /\ seg.strokes \in Seq(Point)
      /\ seg.lat_min \in Int /\ seg.lat_max \in Int /\ seg.lat_min <= seg.lat_max
      /\ seg.lon_min \in Int /\ seg.lon_max \in Int /\ seg.lon_min <= seg.lon_max
    BY DEF Pen
<1>2. PICK lon \in Int : lon = Clamp(p[2])
    BY ClampTyped DEF Point
<1>3. PICK from \in Point :
        from = IF seg.strokes = <<>> THEN seg.origin ELSE <<seg.end[1], Clamp(seg.end[2])>>
    BY <1>1, ClampTyped DEF Point
<1>4. PICK q \in Point : q = <<Int2(Nint(p[1] - from[1])), Int2(Nint(lon - from[2]))>>
    <2>1. p[1] - from[1] \in Int /\ lon - from[2] \in Int
        BY DEF Point
    <2> QED BY <2>1, NintTyped, Int2Typed DEF Point
<1>5. PICK a \in Int, b \in Int, c \in Int, d \in Int :
        /\ a = Least(seg.lat_min, Nint(p[1])) /\ b = Greatest(seg.lat_max, Nint(p[1]))
        /\ c = Least(seg.lon_min, Nint(lon)) /\ d = Greatest(seg.lon_max, Nint(lon))
        /\ a <= b /\ c <= d
    <2>1. p[1] \in Int
        BY DEF Point
    <2>2. Nint(p[1]) \in Int /\ Nint(lon) \in Int
        BY <2>1, NintTyped
    <2> QED BY <1>1, <2>2 DEF Least, Greatest
<1>6. PICK strokes \in Seq(Point) : strokes = Append(seg.strokes, q) /\ strokes # <<>>
    BY <1>1, AppendProperties
<1>7. DrawPd(seg, p) =
        [seg EXCEPT !.strokes = strokes, !.end = p, !.lat_min = a, !.lat_max = b,
                    !.lon_min = c, !.lon_max = d]
    BY <1>2, <1>3, <1>4, <1>5, <1>6 DEF DrawPd
<1> QED BY <1>5, <1>6, <1>7 DEF Pen, Kept

\* A loop over points that draws some of them.
IsDrawn(seg, points, K, R) ==
    R = [i \in 0 .. Len(points) |->
            IF i = 0 THEN seg
            ELSE IF i \in K THEN DrawPd(R[i - 1], points[i]) ELSE R[i - 1]]

LEMMA DrawnUnfolded ==
    ASSUME NEW seg, NEW points, NEW K
    PROVE  DrawOnly(seg, points, K) = (CHOOSE R : IsDrawn(seg, points, K, R))[Len(points)]
BY DEF DrawOnly, IsDrawn

\* What is drawn onto a segment, the last of the points at the place i.
DrawnOn(seg, points, K, i) ==
    {x \in Pen : /\ Kept(x, seg)
                 /\ seg.strokes # <<>> => x.strokes # <<>>
                 /\ i \in K => x.strokes # <<>> /\ x.end = points[i]}

LEMMA DrawOnlyTyped ==
    ASSUME NEW seg \in Pen, NEW points \in Seq(Point), NEW K, 0 \notin K
    PROVE  DrawOnly(seg, points, K) \in DrawnOn(seg, points, K, Len(points))
<1> DEFINE n == Len(points)
           On(i) == DrawnOn(seg, points, K, i)
           T == [i \in 0 .. n |-> On(i)]
           Stepped(x, i) == IF i \in K THEN DrawPd(x, points[i]) ELSE x
           step == [i \in 1 .. n |-> [x \in Pen |-> Stepped(x, i)]]
<1>1. n \in Nat /\ \A i \in 1 .. n : points[i] \in Point
    BY LenProperties, ElementOfSeq
<1>2. \A i \in 0 .. n : T[i] = On(i)
    BY <1>1
<1>3. seg \in On(0)
    BY DEF DrawnOn, Kept
<1>4. ASSUME NEW i \in 1 .. n, NEW x \in On(i - 1)
      PROVE  Stepped(x, i) \in On(i)
    <2>1. x \in Pen /\ Kept(x, seg) /\ points[i] \in Point
        BY <1>1, <1>4 DEF DrawnOn
    <2>2. CASE i \in K
        <3>1. PICK y \in Pen : y = DrawPd(x, points[i]) /\ Kept(y, x) /\ y.strokes # <<>> /\ y.end = points[i]
            BY <2>1, DrawPdTyped
        <3>2. Kept(y, seg)
            BY <2>1, <3>1 DEF Kept
        <3> QED BY <2>2, <3>1, <3>2 DEF DrawnOn
    <2>3. CASE i \notin K
        BY <1>4, <2>1, <2>3 DEF DrawnOn
    <2> QED BY <2>2, <2>3
<1>5. ASSUME NEW i \in 1 .. n, NEW x \in T[i - 1]
      PROVE  step[i][x] \in T[i] /\ step[i][x] = Stepped(x, i)
    <2>1. i \in 0 .. n /\ i - 1 \in 0 .. n
        BY <1>1
    <2>2. x \in On(i - 1) /\ T[i] = On(i)
        BY <1>2, <2>1
    <2>3. x \in Pen
        BY <2>2 DEF DrawnOn
    <2>4. step[i][x] = Stepped(x, i)
        BY <2>3
    <2> HIDE DEF On, step, T, Stepped
    <2> QED BY <1>4, <2>2, <2>4
<1>6. \E R : IsDrawn(seg, points, K, R)
    <2> HIDE DEF T, step, n, On
    <2>0. 0 \in 0 .. n
        BY <1>1
    <2>1. PICK R : IsLoop(R, n, seg, step)
        BY <1>1, LoopExists
    <2>2. \A i \in 0 .. n : R[i] \in T[i]
        BY <1>1, <1>2, <1>3, <1>5, <2>0, <2>1, LoopTyped
    <2>3. ASSUME NEW i \in 0 .. n
          PROVE  (IF i = 0 THEN seg ELSE step[i][R[i - 1]])
                    = (IF i = 0 THEN seg ELSE Stepped(R[i - 1], i))
        <3>1. CASE i = 0
            BY <3>1
        <3>2. CASE i # 0
            <4>1. i \in 1 .. n /\ i - 1 \in 0 .. n
                BY <1>1, <3>2
            <4>2. R[i - 1] \in T[i - 1]
                BY <2>2, <4>1
            <4>3. step[i][R[i - 1]] = Stepped(R[i - 1], i)
                BY <1>5, <4>1, <4>2
            <4> QED BY <3>2, <4>3
        <3> QED BY <3>1, <3>2
    <2>4. IsDrawn(seg, points, K, R)
        BY <2>1, <2>3 DEF IsLoop, IsDrawn, n
    <2> QED BY <2>4
<1>7. PICK R : R = CHOOSE Q : IsDrawn(seg, points, K, Q)
    OBVIOUS
<1>8. IsDrawn(seg, points, K, R)
    BY <1>6, <1>7
<1>9. R[0] = seg /\ \A i \in 1 .. n : R[i] = Stepped(R[i - 1], i)
    BY <1>1, <1>8 DEF IsDrawn
<1>10. \A i \in 0 .. n : R[i] \in On(i)
    <2> DEFINE G == {i \in 0 .. n : R[i] \in On(i)}
    <2> HIDE DEF T, step, n, On, Stepped
    <2>1. 0 \in G
        BY <1>1, <1>3, <1>9
    <2>2. ASSUME NEW i \in 1 .. n, i - 1 \in G PROVE i \in G
        <3>1. R[i] = Stepped(R[i - 1], i) /\ R[i - 1] \in On(i - 1) /\ i \in 0 .. n
            BY <1>1, <1>9, <2>2
        <3>2. R[i] \in On(i)
            BY <1>4, <3>1
        <3> QED BY <3>1, <3>2
    <2>3. 0 .. n \subseteq G
        <3> HIDE DEF G
        <3> QED BY <1>1, <2>1, <2>2, ByIndex
    <2> QED BY <2>3
<1>11. DrawOnly(seg, points, K) = R[n] /\ n \in 0 .. n
    BY <1>1, <1>7, DrawnUnfolded
<1> HIDE DEF n
<1>12. R[n] \in On(n)
    BY <1>10, <1>11
<1> QED BY <1>11, <1>12 DEF n

-----------------------------------------------------------------------------
\* What the passes draw: copies, thinned copies, reversed and joined segments.
LEMMA ReverseTyped ==
    ASSUME NEW S, NEW s \in Seq(S)
    PROVE  /\ Reverse(s) \in Seq(S)
           /\ Len(Reverse(s)) = Len(s)
           /\ \A i \in 1 .. Len(s) : Reverse(s)[i] = s[Len(s) - i + 1]
           /\ ToSet(Reverse(s)) = ToSet(s)
           /\ IsInjective(s) => IsInjective(Reverse(s))
<1> DEFINE n == Len(s)
           r == Reverse(s)
<1>1. n \in Nat /\ DOMAIN s = 1 .. n /\ \A i \in 1 .. n : s[i] \in S
    BY LenProperties, ElementOfSeq
<1>2. \A i \in 1 .. n : n - i + 1 \in 1 .. n /\ n - (n - i + 1) + 1 = i
    BY <1>1
<1>3. DOMAIN r = 1 .. n /\ \A i \in 1 .. n : r[i] = s[n - i + 1]
    BY DEF Reverse
<1>4. r \in [1 .. n -> S]
    <2>1. r = [i \in 1 .. n |-> s[(n - i) + 1]]
        BY DEF Reverse
    <2>2. \A i \in 1 .. n : s[(n - i) + 1] \in S
        BY <1>1, <1>2
    <2> QED BY <2>1, <2>2
<1>5. r \in Seq(S) /\ Len(r) = n
    BY <1>1, <1>4
<1>6. ToSet(r) = ToSet(s)
    <2> HIDE DEF n, r
    <2>1. \A i \in 1 .. n : r[i] \in ToSet(s)
        BY <1>1, <1>2, <1>3 DEF ToSet
    <2>2. \A i \in 1 .. n : s[i] \in ToSet(r)
        <3> TAKE i \in 1 .. n
        <3>1. r[n - i + 1] = s[i] /\ n - i + 1 \in 1 .. n
            BY <1>2, <1>3
        <3> QED BY <1>3, <3>1 DEF ToSet
    <2> QED BY <1>1, <1>3, <2>1, <2>2 DEF ToSet
<1>7. ASSUME IsInjective(s) PROVE IsInjective(r)
    <2> HIDE DEF n, r
    <2> SUFFICES ASSUME NEW i \in 1 .. n, NEW j \in 1 .. n, r[i] = r[j] PROVE i = j
        BY <1>3 DEF IsInjective
    <2>1. n - i + 1 = n - j + 1
        BY <1>1, <1>2, <1>3, <1>7 DEF IsInjective
    <2> QED BY <1>1, <2>1
<1> HIDE DEF r
<1> QED BY <1>3, <1>5, <1>6, <1>7 DEF r

LEMMA RestOfPoints ==
    ASSUME NEW seg, seg.origin \in Point, seg.strokes \in Seq(Point)
    PROVE  /\ Tail(Points(seg)) \in Seq(Point)
           /\ Len(Tail(Points(seg))) = Len(seg.strokes)
           /\ Len(seg.strokes) \in Nat
           /\ seg.strokes # <<>> => Len(seg.strokes) >= 1
<1>1. PICK ps \in Seq(Point) : ps = Points(seg) /\ Len(ps) = Len(seg.strokes) + 1
    BY PointsTyped
<1>2. Len(seg.strokes) \in Nat /\ (seg.strokes # <<>> => Len(seg.strokes) >= 1)
    BY LenProperties, EmptySeq
<1>3. ps # <<>>
    BY <1>1, <1>2, EmptySeq
<1>4. Tail(ps) \in Seq(Point) /\ Len(Tail(ps)) = Len(ps) - 1
    BY <1>3, HeadTailProperties
<1> QED BY <1>1, <1>2, <1>4

\* A copy of a segment, whole or thinned.
IsCopy(c, seg) ==
    /\ c \in Pen
    /\ c.parts = seg.parts
    /\ c.joints = {}
    /\ c.start = seg.origin
    /\ c.origin = <<Nint(seg.origin[1]), Nint(Normalize(seg.origin[2]))>>
    /\ seg.strokes # <<>> => c.strokes # <<>>

LEMMA CopyDrawn ==
    ASSUME NEW seg \in Segment, NEW K, 0 \notin K,
           seg.strokes # <<>> => Len(seg.strokes) \in K
    PROVE  IsCopy(DrawOnly(MovePu(seg.origin, seg.parts), Tail(Points(seg)), K), seg)
<1>1. seg.origin \in Point /\ seg.strokes \in Seq(Point) /\ seg.parts \in Seq(Nat \X Nat)
    BY DEF Segment
<1>2. PICK ps \in Seq(Point) : ps = Tail(Points(seg)) /\ Len(ps) = Len(seg.strokes)
    BY <1>1, RestOfPoints
<1>3. PICK m \in Pen : /\ m = MovePu(seg.origin, seg.parts)
                      /\ m.parts = seg.parts /\ m.joints = {} /\ m.start = seg.origin
                      /\ m.origin = <<Nint(seg.origin[1]), Nint(Normalize(seg.origin[2]))>>
    BY <1>1, MovePuTyped
<1>4. DrawOnly(m, ps, K) \in DrawnOn(m, ps, K, Len(ps))
    BY DrawOnlyTyped
<1> QED BY <1>2, <1>3, <1>4 DEF DrawnOn, IsCopy, Kept

LEMMA CopiedIsCopy ==
    ASSUME NEW seg \in Segment
    PROVE  IsCopy(Copied(seg), seg)
<1> DEFINE ps == Tail(Points(seg))
<1>1. seg.origin \in Point /\ seg.strokes \in Seq(Point)
    BY DEF Segment
<1>2. ps \in Seq(Point) /\ Len(ps) = Len(seg.strokes) /\ Len(ps) \in Nat
      /\ (seg.strokes # <<>> => Len(seg.strokes) >= 1)
    BY <1>1, RestOfPoints
<1>3. DOMAIN ps = 1 .. Len(ps)
    BY <1>2, LenProperties
<1>4. 0 \notin DOMAIN ps /\ (seg.strokes # <<>> => Len(seg.strokes) \in DOMAIN ps)
    BY <1>2, <1>3
<1> HIDE DEF ps
<1>5. Copied(seg) = DrawOnly(MovePu(seg.origin, seg.parts), ps, DOMAIN ps)
    BY DEF Copied, Draw, ps
<1> QED BY <1>4, <1>5, CopyDrawn DEF ps

LEMMA ThinnedAreCopies ==
    ASSUME NEW seg \in Segment, seg.strokes # <<>>, NEW c \in Thinned(seg)
    PROVE  IsCopy(c, seg)
<1> DEFINE ps == Tail(Points(seg))
           m == MovePu(seg.origin, seg.parts)
<1>1. seg.origin \in Point /\ seg.strokes \in Seq(Point)
    BY DEF Segment
<1>2. Len(ps) = Len(seg.strokes) /\ Len(seg.strokes) \in Nat /\ Len(seg.strokes) >= 1
    BY <1>1, RestOfPoints
<1>3. PICK K \in SUBSET (1 .. Len(ps) - 1) : c = DrawOnly(m, ps, K \cup {Len(ps)})
    BY DEF Thinned
<1>4. 0 \notin K \cup {Len(ps)} /\ Len(seg.strokes) \in K \cup {Len(ps)}
    <2> HIDE DEF ps
    <2>1. PICK n \in Nat : n = Len(ps) /\ n = Len(seg.strokes) /\ n >= 1
        BY <1>2
    <2>2. 0 \notin K /\ 0 # n
        BY <1>3, <2>1
    <2> QED BY <2>1, <2>2
<1> HIDE DEF ps, m
<1> QED BY <1>3, <1>4, CopyDrawn DEF ps, m

LEMMA ReversedTyped ==
    ASSUME NEW seg \in Written
    PROVE  /\ Reversed(seg) \in Written
           /\ Reversed(seg).parts = Reverse(seg.parts)
           /\ Reversed(seg).joints = seg.joints
           /\ Reversed(seg).end = seg.origin
<1>1. /\ seg \in Pen /\ seg.strokes # <<>> /\ seg.origin \in Point
      /\ seg.strokes \in Seq(Point) /\ seg.parts \in Seq(Nat \X Nat)
    BY DEF Written, Pen
<1>2. PICK n \in Nat : n = Len(seg.strokes) /\ n >= 1
    BY <1>1, RestOfPoints
<1>3. PICK ps \in Seq(Point) : ps = Points(seg) /\ Len(ps) = n + 1 /\ ps[1] = seg.origin
    BY <1>1, <1>2, PointsTyped
<1>4. PICK back \in Seq(Point) : back = Reverse(ps) /\ Len(back) = n + 1 /\ back[n + 1] = seg.origin
    <2>1. n + 1 \in 1 .. Len(ps) /\ Len(ps) - (n + 1) + 1 = 1
        BY <1>2, <1>3
    <2>2. Reverse(ps) \in Seq(Point) /\ Len(Reverse(ps)) = Len(ps)
          /\ \A i \in 1 .. Len(ps) : Reverse(ps)[i] = ps[Len(ps) - i + 1]
        BY ReverseTyped
    <2>3. Reverse(ps)[n + 1] = ps[1]
        BY <2>1, <2>2
    <2> QED BY <1>3, <2>2, <2>3
<1>5. back # <<>> /\ back[1] \in Point
    <2>1. 1 \in 1 .. Len(back)
        BY <1>2, <1>4
    <2> QED BY <2>1, ElementOfSeq, EmptySeq
<1>6. PICK rest \in Seq(Point) : rest = Tail(back) /\ Len(rest) = n /\ rest[n] = seg.origin
    <2>1. /\ Tail(back) \in Seq(Point) /\ Len(Tail(back)) = Len(back) - 1
          /\ \A i \in 1 .. Len(Tail(back)) : Tail(back)[i] = back[i + 1]
        BY <1>5, HeadTailProperties
    <2>2. Len(Tail(back)) = n /\ n \in 1 .. n
        BY <1>2, <1>4, <2>1
    <2>3. Tail(back)[n] = back[n + 1]
        BY <2>1, <2>2
    <2> QED BY <1>4, <2>1, <2>2, <2>3
<1>7. PICK o \in Point : o = <<Nint(back[1][1]), Nint(back[1][2])>>
    BY <1>5, NintTyped DEF Point
<1>8. PICK parts \in Seq(Nat \X Nat) : parts = Reverse(seg.parts)
    BY <1>1, ReverseTyped
<1>9. PICK m \in Pen : /\ m = [seg EXCEPT !.origin = o, !.strokes = <<>>, !.parts = parts]
                      /\ m.parts = parts /\ m.joints = seg.joints
    <2>1. <<>> \in Seq(Point)
        OBVIOUS
    <2> DEFINE m == [seg EXCEPT !.origin = o, !.strokes = <<>>, !.parts = parts]
    <2>2. /\ m.origin = o /\ m.strokes = <<>> /\ m.parts = parts /\ m.start = seg.start
          /\ m.end = seg.end /\ m.lat_min = seg.lat_min /\ m.lat_max = seg.lat_max
          /\ m.lon_min = seg.lon_min /\ m.lon_max = seg.lon_max /\ m.joints = seg.joints
        BY <1>1 DEF Pen
    <2>3. m \in Pen
        BY <1>1, <2>1 DEF Pen
    <2> QED BY <2>2, <2>3
<1>10. Reversed(seg) = DrawOnly(m, rest, DOMAIN rest)
    BY <1>3, <1>4, <1>6, <1>7, <1>8, <1>9 DEF Reversed, Draw
<1>11. 0 \notin DOMAIN rest /\ n \in DOMAIN rest
    <2>1. DOMAIN rest = 1 .. n
        BY <1>6, LenProperties
    <2> QED BY <1>2, <2>1
<1>12. DrawOnly(m, rest, DOMAIN rest) \in DrawnOn(m, rest, DOMAIN rest, n)
    BY <1>6, <1>11, DrawOnlyTyped
<1> QED BY <1>6, <1>8, <1>9, <1>10, <1>11, <1>12 DEF DrawnOn, Kept, Written

\* append_candidate: the parts of both, one joint more, and a known start.
LEMMA AppendedTyped ==
    ASSUME NEW seg \in Written, NEW other \in Segment, NEW backwards \in BOOLEAN
    PROVE  LET a == Appended(seg, other, backwards)
           IN  /\ a \in Written
               /\ a.parts = seg.parts \o other.parts
               /\ a.joints = seg.joints \cup
                    {<<seg.end, IF backwards THEN Last(Points(other)) ELSE other.origin>>}
               /\ a.start = a.origin
<1>1. seg \in Pen /\ seg.strokes # <<>> /\ seg.parts \in Seq(Nat \X Nat) /\ seg.origin \in Point
      /\ seg.end \in Point /\ seg.joints \in SUBSET (Point \X Point)
    BY DEF Written, Pen
<1>2. other.origin \in Point /\ other.strokes \in Seq(Point) /\ other.parts \in Seq(Nat \X Nat)
    BY DEF Segment
<1>3. PICK n \in Nat : n = Len(other.strokes)
    BY <1>2, RestOfPoints
<1>4. PICK ps \in Seq(Point) : ps = Points(other) /\ Len(ps) = n + 1 /\ ps[1] = other.origin
    BY <1>2, <1>3, PointsTyped
<1>5. Last(ps) = ps[n + 1]
    BY <1>4 DEF Last
<1>6. PICK points \in Seq(Point) :
        /\ points = IF backwards THEN Reverse(ps) ELSE ps
        /\ points[1] = IF backwards THEN Last(ps) ELSE ps[1]
        /\ Len(points) = n + 1
    <2>1. 1 \in 1 .. Len(ps) /\ Len(ps) - 1 + 1 = n + 1
        BY <1>3, <1>4
    <2>2. Reverse(ps) \in Seq(Point) /\ Len(Reverse(ps)) = Len(ps)
          /\ \A i \in 1 .. Len(ps) : Reverse(ps)[i] = ps[Len(ps) - i + 1]
        BY ReverseTyped
    <2>3. Reverse(ps)[1] = ps[n + 1]
        BY <2>1, <2>2
    <2> QED BY <1>4, <1>5, <2>2, <2>3
<1>7. 0 \notin DOMAIN points /\ points[1] \in Point
    <2>1. DOMAIN points = 1 .. n + 1 /\ 1 \in 1 .. n + 1
        BY <1>3, <1>6, LenProperties
    <2> QED BY <1>6, <2>1, ElementOfSeq
<1>8. PICK d \in Pen : /\ d = Draw(seg, points) /\ Kept(d, seg) /\ d.strokes # <<>>
    <2>1. Draw(seg, points) \in DrawnOn(seg, points, DOMAIN points, Len(points))
        BY <1>1, <1>7, DrawOnlyTyped DEF Draw
    <2> QED BY <1>1, <2>1 DEF DrawnOn
<1>9. PICK parts \in Seq(Nat \X Nat), joints \in SUBSET (Point \X Point) :
        /\ parts = seg.parts \o other.parts
        /\ joints = seg.joints \cup {<<seg.end, points[1]>>}
    <2>1. seg.parts \o other.parts \in Seq(Nat \X Nat)
        BY <1>1, <1>2, ConcatProperties
    <2>2. seg.joints \cup {<<seg.end, points[1]>>} \in SUBSET (Point \X Point)
        BY <1>1, <1>7
    <2> QED BY <2>1, <2>2
<1> DEFINE a == [d EXCEPT !.parts = parts, !.start = seg.origin, !.joints = joints]
<1>10. Appended(seg, other, backwards) = a
    BY <1>4, <1>6, <1>8, <1>9 DEF Appended, Kept
<1>11. /\ a.parts = parts /\ a.joints = joints /\ a.start = seg.origin /\ a.origin = d.origin
       /\ a.strokes = d.strokes
    BY <1>8 DEF Pen
<1>12. a \in Pen
    BY <1>1, <1>8, <1>9 DEF Pen
<1>13. a.start = a.origin /\ a \in Written
    BY <1>8, <1>11, <1>12 DEF Kept, Written
<1> HIDE DEF a
<1> QED BY <1>4, <1>6, <1>9, <1>10, <1>11, <1>13

-----------------------------------------------------------------------------
\* The parts of segments, when one is appended to others or joined to another.
LEMMA PartsOfAppend ==
    ASSUME NEW segs \in Seq(Pen), NEW seg \in Pen
    PROVE  PartsOf(Append(segs, seg)) = PartsOf(segs) \cup ToSet(seg.parts)
<1>1. PICK n \in Nat : n = Len(segs) /\ DOMAIN segs = 1 .. n
    BY LenProperties
<1>2. PICK all \in Seq(Pen) :
        /\ all = Append(segs, seg) /\ Len(all) = n + 1
        /\ \A i \in 1 .. n : all[i] = segs[i]
        /\ all[n + 1] = seg
    BY <1>1, AppendProperties
<1>3. DOMAIN all = 1 .. n + 1 /\ \A i \in 1 .. n + 1 : i \in 1 .. n \/ i = n + 1
    BY <1>1, <1>2, LenProperties
<1>4. \A x \in PartsOf(all) : x \in PartsOf(segs) \cup ToSet(seg.parts)
    BY <1>1, <1>2, <1>3 DEF PartsOf
<1>5. \A x \in PartsOf(segs) : x \in PartsOf(all)
    <2>1. \A i \in 1 .. n : i \in DOMAIN all
        BY <1>1, <1>3
    <2> QED BY <1>1, <1>2, <2>1 DEF PartsOf
<1>6. \A x \in ToSet(seg.parts) : x \in PartsOf(all)
    <2>1. n + 1 \in DOMAIN all
        BY <1>1, <1>3
    <2> QED BY <1>2, <2>1 DEF PartsOf
<1> QED BY <1>2, <1>4, <1>5, <1>6

LEMMA DistinctAppend ==
    ASSUME NEW segs \in Seq(Pen), NEW seg \in Pen
    PROVE  Distinct(Append(segs, seg)) <=>
            Distinct(segs) /\ IsInjective(seg.parts) /\ ToSet(seg.parts) \cap PartsOf(segs) = {}
<1>1. PICK n \in Nat : n = Len(segs) /\ DOMAIN segs = 1 .. n
    BY LenProperties
<1>2. PICK all \in Seq(Pen) :
        /\ all = Append(segs, seg) /\ Len(all) = n + 1
        /\ \A i \in 1 .. n : all[i] = segs[i]
        /\ all[n + 1] = seg
    BY <1>1, AppendProperties
<1>3. /\ DOMAIN all = 1 .. n + 1
      /\ \A i \in 1 .. n + 1 : i \in 1 .. n \/ i = n + 1
      /\ \A i \in 1 .. n : i \in 1 .. n + 1 /\ i # n + 1
      /\ n + 1 \in 1 .. n + 1
    BY <1>1, <1>2, LenProperties
<1>4. ASSUME Distinct(all)
      PROVE  Distinct(segs) /\ IsInjective(seg.parts) /\ ToSet(seg.parts) \cap PartsOf(segs) = {}
    <2>1. Distinct(segs)
        BY <1>1, <1>2, <1>3, <1>4 DEF Distinct
    <2>2. IsInjective(seg.parts)
        BY <1>2, <1>3, <1>4 DEF Distinct
    <2>3. \A i \in 1 .. n : ToSet(seg.parts) \cap ToSet(segs[i].parts) = {}
        <3> TAKE i \in 1 .. n
        <3>1. i \in DOMAIN all \ {n + 1} /\ n + 1 \in DOMAIN all
            BY <1>3
        <3>2. ToSet(all[n + 1].parts) \cap ToSet(all[i].parts) = {}
            BY <1>4, <3>1 DEF Distinct
        <3> QED BY <1>2, <3>2
    <2> QED BY <1>1, <2>1, <2>2, <2>3 DEF PartsOf
<1>5. ASSUME Distinct(segs), IsInjective(seg.parts), ToSet(seg.parts) \cap PartsOf(segs) = {}
      PROVE  Distinct(all)
    <2> SUFFICES ASSUME NEW i \in 1 .. n + 1
                 PROVE  /\ IsInjective(all[i].parts)
                        /\ \A j \in (1 .. n + 1) \ {i} : ToSet(all[i].parts) \cap ToSet(all[j].parts) = {}
        BY <1>3 DEF Distinct
    <2>1. \A j \in 1 .. n : ToSet(segs[j].parts) \subseteq PartsOf(segs)
        BY <1>1 DEF PartsOf
    <2>2. CASE i = n + 1
        <3>1. \A j \in (1 .. n + 1) \ {i} : j \in 1 .. n /\ all[j] = segs[j]
            BY <1>2, <1>3, <2>2
        <3> QED BY <1>2, <1>5, <2>1, <2>2, <3>1
    <2>3. CASE i \in 1 .. n
        <3>1. all[i] = segs[i] /\ IsInjective(segs[i].parts)
            BY <1>1, <1>2, <1>5, <2>3 DEF Distinct
        <3>2. ASSUME NEW j \in (1 .. n + 1) \ {i}
              PROVE  ToSet(all[i].parts) \cap ToSet(all[j].parts) = {}
            <4>1. CASE j = n + 1
                BY <1>2, <1>5, <2>1, <2>3, <3>1, <4>1
            <4>2. CASE j \in 1 .. n
                <5>1. all[j] = segs[j] /\ j \in DOMAIN segs \ {i}
                    BY <1>1, <1>2, <4>2
                <5> QED BY <1>1, <1>5, <2>3, <3>1, <5>1 DEF Distinct
            <4> QED BY <1>3, <4>1, <4>2
        <3> QED BY <3>1, <3>2
    <2> QED BY <1>3, <2>2, <2>3
<1> QED BY <1>2, <1>4, <1>5

LEMMA JoinedParts ==
    ASSUME NEW S, NEW s \in Seq(S), NEW t \in Seq(S)
    PROVE  /\ ToSet(s \o t) = ToSet(s) \cup ToSet(t)
           /\ IsInjective(s) /\ IsInjective(t) /\ ToSet(s) \cap ToSet(t) = {} => IsInjective(s \o t)
<1>1. PICK m \in Nat, n \in Nat : m = Len(s) /\ n = Len(t) /\ DOMAIN s = 1 .. m /\ DOMAIN t = 1 .. n
    <2>1. Len(s) \in Nat /\ DOMAIN s = 1 .. Len(s)
        BY LenProperties
    <2>2. Len(t) \in Nat /\ DOMAIN t = 1 .. Len(t)
        BY LenProperties
    <2> QED BY <2>1, <2>2
<1>2. PICK u \in Seq(S) : /\ u = s \o t /\ Len(u) = m + n
                         /\ \A i \in 1 .. m + n : u[i] = IF i <= m THEN s[i] ELSE t[i - m]
    <2>1. /\ s \o t \in Seq(S) /\ Len(s \o t) = Len(s) + Len(t)
          /\ \A i \in 1 .. Len(s) + Len(t) :
                (s \o t)[i] = IF i <= Len(s) THEN s[i] ELSE t[i - Len(s)]
        BY ConcatProperties
    <2>2. \A i \in 1 .. m + n : (s \o t)[i] = IF i <= m THEN s[i] ELSE t[i - m]
        BY <1>1, <2>1
    <2> QED BY <1>1, <2>1, <2>2
<1>3. DOMAIN u = 1 .. m + n
    BY <1>2, LenProperties
<1>4. \A i \in 1 .. m : i \in 1 .. m + n /\ u[i] = s[i]
    BY <1>1, <1>2
<1>5. \A i \in 1 .. n : i + m \in 1 .. m + n /\ u[i + m] = t[i]
    <2> TAKE i \in 1 .. n
    <2>1. i + m \in 1 .. m + n /\ ~(i + m <= m) /\ (i + m) - m = i
        BY <1>1
    <2> QED BY <1>2, <2>1
<1>6. \A i \in 1 .. m + n : (i \in 1 .. m /\ u[i] = s[i]) \/ (i - m \in 1 .. n /\ u[i] = t[i - m])
    <2> TAKE i \in 1 .. m + n
    <2>1. CASE i <= m
        BY <1>2, <2>1
    <2>2. CASE ~(i <= m)
        <3>1. i - m \in 1 .. n
            BY <1>1, <2>2
        <3> QED BY <1>2, <2>2, <3>1
    <2> QED BY <2>1, <2>2
<1>7. ToSet(u) = ToSet(s) \cup ToSet(t)
    <2>1. \A x \in ToSet(u) : x \in ToSet(s) \/ x \in ToSet(t)
        <3> SUFFICES ASSUME NEW i \in 1 .. m + n PROVE u[i] \in ToSet(s) \/ u[i] \in ToSet(t)
            BY <1>3 DEF ToSet
        <3>1. \A a \in 1 .. m : s[a] \in ToSet(s)
            BY <1>1 DEF ToSet
        <3>2. \A a \in 1 .. n : t[a] \in ToSet(t)
            BY <1>1 DEF ToSet
        <3>3. CASE i \in 1 .. m /\ u[i] = s[i]
            BY <3>1, <3>3
        <3>4. CASE i - m \in 1 .. n /\ u[i] = t[i - m]
            BY <3>2, <3>4
        <3> QED BY <1>6, <3>3, <3>4
    <2>2. \A x \in ToSet(s) : x \in ToSet(u)
        BY <1>1, <1>3, <1>4 DEF ToSet
    <2>3. \A x \in ToSet(t) : x \in ToSet(u)
        <3> SUFFICES ASSUME NEW i \in 1 .. n PROVE t[i] \in ToSet(u)
            BY <1>1 DEF ToSet
        <3>1. \A a \in 1 .. m + n : u[a] \in ToSet(u)
            BY <1>3 DEF ToSet
        <3> QED BY <1>5, <3>1
    <2> QED BY <2>1, <2>2, <2>3
<1>8. ASSUME IsInjective(s), IsInjective(t), ToSet(s) \cap ToSet(t) = {} PROVE IsInjective(u)
    <2> SUFFICES ASSUME NEW i \in 1 .. m + n, NEW j \in 1 .. m + n, u[i] = u[j] PROVE i = j
        BY <1>3 DEF IsInjective
    <2>1. \A a \in 1 .. m : s[a] \in ToSet(s)
        BY <1>1 DEF ToSet
    <2>2. \A a \in 1 .. n : t[a] \in ToSet(t)
        BY <1>1 DEF ToSet
    <2>3. CASE i \in 1 .. m /\ u[i] = s[i] /\ j \in 1 .. m /\ u[j] = s[j]
        BY <1>1, <1>8, <2>3 DEF IsInjective
    <2>4. CASE i - m \in 1 .. n /\ u[i] = t[i - m] /\ j - m \in 1 .. n /\ u[j] = t[j - m]
        <3>1. i - m = j - m
            BY <1>1, <1>8, <2>4 DEF IsInjective
        <3> QED BY <1>1, <3>1
    <2>5. ~(i \in 1 .. m /\ u[i] = s[i] /\ j - m \in 1 .. n /\ u[j] = t[j - m])
        BY <1>8, <2>1, <2>2
    <2>6. ~(j \in 1 .. m /\ u[j] = s[j] /\ i - m \in 1 .. n /\ u[i] = t[i - m])
        BY <1>8, <2>1, <2>2
    <2> QED BY <1>6, <2>3, <2>4, <2>5, <2>6
<1> QED BY <1>2, <1>7, <1>8

-----------------------------------------------------------------------------
\* Distances: points a unit apart are seen from a third at distances that are
\* at most a unit apart.
LEMMA ModStep ==
    ASSUME NEW m \in Nat, m >= 2, NEW a \in Nat, NEW b \in Nat, a - b <= 1, b - a <= 1
    PROVE  \/ (a % m) - (b % m) <= 1 /\ (b % m) - (a % m) <= 1
           \/ a % m = 0 /\ b % m = m - 1
           \/ a % m = m - 1 /\ b % m = 0
<1> DEFINE q == a \div m
           p == b \div m
           x == a % m
           y == b % m
<1>1. \A n \in Nat \ {0}, z \in Int :
        z \div n \in Int /\ z % n \in 0 .. n - 1 /\ z = n * (z \div n) + (z % n)
    OBVIOUS
<1>2. q \in Int /\ x \in 0 .. m - 1 /\ a = m * q + x
    BY <1>1
<1>3. p \in Int /\ y \in 0 .. m - 1 /\ b = m * p + y
    BY <1>1
<1> HIDE DEF q, p, x, y
<1>4. m * q - m * p = m * (q - p)
    BY <1>2, <1>3
<1>5. PICK z \in Int, w \in Int : z = q - p /\ w = m * z /\ a - b = w + x - y
    BY <1>2, <1>3, <1>4
<1>6. w <= m /\ -m <= w
    BY <1>2, <1>3, <1>5
<1>7. z \in {-1, 0, 1}
    <2>1. ASSUME z >= 2 PROVE FALSE
        <3>1. m * z >= m * 2
            BY <2>1
        <3> QED BY <1>5, <1>6, <3>1
    <2>2. ASSUME z <= -2 PROVE FALSE
        <3>1. m * z <= m * (-2)
            BY <2>2
        <3> QED BY <1>5, <1>6, <3>1
    <2> QED BY <1>5, <2>1, <2>2
<1>8. w \in {-m, 0, m}
    BY <1>5, <1>7
<1>9. \/ x - y <= 1 /\ y - x <= 1
      \/ x = 0 /\ y = m - 1
      \/ x = m - 1 /\ y = 0
    BY <1>2, <1>3, <1>5, <1>8
<1> QED BY <1>9 DEF x, y

LEMMA DLonStep ==
    ASSUME NEW p \in Point, NEW q \in Point, NEW r \in Point,
           p[2] - q[2] <= 1, q[2] - p[2] <= 1
    PROVE  DLon(p, r) <= DLon(q, r) + 1
<1>1. PICK m \in Nat : m = 2 * Half /\ m >= 2
    BY EditAssumption
<1>2. PICK a \in Nat, b \in Nat : /\ a = Abs(p[2] - r[2]) /\ b = Abs(q[2] - r[2])
                                /\ a - b <= 1 /\ b - a <= 1
    BY DEF Abs, Point
<1>3. PICK x \in 0 .. m - 1, y \in 0 .. m - 1 : x = a % m /\ y = b % m
    BY <1>1
<1>4. \/ x - y <= 1 /\ y - x <= 1
      \/ x = 0 /\ y = m - 1
      \/ x = m - 1 /\ y = 0
    BY <1>1, <1>2, <1>3, ModStep
<1>5. DLon(p, r) = Least(x, m - x) /\ DLon(q, r) = Least(y, m - y)
    BY <1>1, <1>2, <1>3 DEF DLon
<1> QED BY <1>1, <1>4, <1>5 DEF Least

LEMMA DLatStep ==
    ASSUME NEW p \in Point, NEW q \in Point, NEW r \in Point,
           p[1] - q[1] <= 1, q[1] - p[1] <= 1
    PROVE  DLat(p, r) <= DLat(q, r) + 1
BY DEF DLat, Abs, Point

\* Finite sets of integers have a largest element, and so do extents.
LEMMA LargestIs ==
    ASSUME NEW S, IsFiniteSet(S), S # {}, S \subseteq Int
    PROVE  Largest(S) \in S /\ \A m \in S : m <= Largest(S)
<1> DEFINE f == [x \in S |-> -x]
<1>1. \A x \in S : f[x] \in Int /\ f[x] = -x /\ x \in Int
    OBVIOUS
<1> HIDE DEF f
<1>2. PICK n \in S : \A m \in S : f[n] <= f[m]
    BY <1>1, LeastAt
<1>3. \A m \in S : m <= n
    BY <1>1, <1>2
<1> QED BY <1>3 DEF Largest

LEMMA ImageFinite ==
    ASSUME NEW S, IsFiniteSet(S), NEW f
    PROVE  IsFiniteSet({f[x] : x \in S})
<1> DEFINE T == {f[x] : x \in S}
           g == [x \in S |-> f[x]]
<1>1. g \in Surjection(S, T)
    BY DEF Surjection
<1> HIDE DEF g, T
<1>2. IsFiniteSet(T)
    BY <1>1, FS_Surjection
<1> QED BY <1>2 DEF T

LEMMA ExtentsTyped ==
    ASSUME NEW segs \in Seq(Pen)
    PROVE  /\ LonExtent(segs) \in Int /\ LatExtent(segs) \in Int
           /\ \A i \in DOMAIN segs :
                /\ segs[i].lon_max - segs[i].lon_min <= LonExtent(segs)
                /\ segs[i].lat_max - segs[i].lat_min <= LatExtent(segs)
<1>1. IsFiniteSet(DOMAIN segs)
    <2>1. PICK n \in Nat : DOMAIN segs = 1 .. n
        BY LenProperties
    <2>2. IsFiniteSet(1 .. n)
        BY FS_Interval
    <2> QED BY <2>1, <2>2
<1> DEFINE Lon(i) == segs[i].lon_max - segs[i].lon_min
           Lat(i) == segs[i].lat_max - segs[i].lat_min
           A == {Lon(i) : i \in DOMAIN segs}
           B == {Lat(i) : i \in DOMAIN segs}
<1>2. \A i \in DOMAIN segs : segs[i] \in Pen
    BY LenProperties, ElementOfSeq
<1>3. \A i \in DOMAIN segs : Lon(i) \in Int /\ Lat(i) \in Int
    BY <1>2 DEF Pen
<1>4. IsFiniteSet(A) /\ IsFiniteSet(B)
    <2> DEFINE f == [i \in DOMAIN segs |-> Lon(i)]
               g == [i \in DOMAIN segs |-> Lat(i)]
    <2>1. \A i \in DOMAIN segs : f[i] = Lon(i) /\ g[i] = Lat(i)
        OBVIOUS
    <2>2. {f[i] : i \in DOMAIN segs} = A /\ {g[i] : i \in DOMAIN segs} = B
        <3> HIDE DEF f, g, Lon, Lat
        <3> QED BY <2>1
    <2> HIDE DEF f, g, A, B
    <2> QED BY <1>1, <2>2, ImageFinite
<1>5. LonExtent(segs) = Largest({0} \cup A) /\ LatExtent(segs) = Largest({0} \cup B)
    BY DEF LonExtent, LatExtent
<1>6. \A i \in DOMAIN segs : Lon(i) \in {0} \cup A /\ Lat(i) \in {0} \cup B
    OBVIOUS
<1>7. {0} \cup A \subseteq Int /\ {0} \cup B \subseteq Int
    BY <1>3
<1> HIDE DEF A, B, Lon, Lat
<1>8. IsFiniteSet({0} \cup A) /\ IsFiniteSet({0} \cup B)
    BY <1>4, FS_Singleton, FS_Union
<1>9. Largest({0} \cup A) \in Int /\ \A m \in {0} \cup A : m <= Largest({0} \cup A)
    BY <1>7, <1>8, LargestIs
<1>10. Largest({0} \cup B) \in Int /\ \A m \in {0} \cup B : m <= Largest({0} \cup B)
    BY <1>7, <1>8, LargestIs
<1>11. \A i \in DOMAIN segs : Lon(i) <= LonExtent(segs) /\ Lat(i) <= LatExtent(segs)
    BY <1>5, <1>6, <1>9, <1>10
<1> QED BY <1>5, <1>9, <1>10, <1>11 DEF Lon, Lat

-----------------------------------------------------------------------------
\* The file being made: the segments written, with the open one flushed.
LEMMA WrittenArePens ==
    ASSUME NEW segs \in Seq(Written)
    PROVE  segs \in Seq(Pen)
<1>1. Written \subseteq Pen
    BY DEF Written
<1> QED BY <1>1, SeqMonotonic

LEMMA NoPenTyped ==
    /\ NoPen \in Pen /\ NoPen.parts = <<>> /\ NoPen.joints = {} /\ NoPen.strokes = <<>>
    /\ NoPen.start = <<0, 0>> /\ NoPen.origin = <<0, 0>>
<1>1. PICK z \in Point, e \in Seq(Nat \X Nat) : z = <<0, 0>> /\ e = <<>> /\ z[1] = 0 /\ z[2] = 0
    <2>1. <<0, 0>> \in Point /\ <<0, 0>>[1] = 0 /\ <<0, 0>>[2] = 0
        BY DEF Point
    <2>2. <<>> \in Seq(Nat \X Nat)
        OBVIOUS
    <2> QED BY <2>1, <2>2
<1>2. Nint(0) = 0 /\ Nint(Normalize(0)) = 0
    <2>1. -Half <= 0 /\ 0 <= Half /\ 0 \in Int
        BY EditAssumption
    <2>2. Normalize(0) = 0
        BY <2>1, NormalizeTyped
    <2> QED BY <2>2 DEF Nint
<1>3. NoPen = MovePu(z, e)
    BY <1>1 DEF NoPen
<1>4. /\ MovePu(z, e) \in Pen /\ MovePu(z, e).parts = e /\ MovePu(z, e).joints = {}
      /\ MovePu(z, e).start = z /\ MovePu(z, e).strokes = <<>>
      /\ MovePu(z, e).origin = <<Nint(z[1]), Nint(Normalize(z[2]))>>
    BY MovePuTyped
<1> QED BY <1>1, <1>2, <1>3, <1>4

LEMMA NothingMade ==
    /\ Append(<<>>, NoPen) = <<NoPen>>
    /\ Distinct(<<NoPen>>)
    /\ PartsOf(<<NoPen>>) = {}
<1>1. <<>> \in Seq(Pen) /\ NoPen \in Pen /\ NoPen.parts = <<>>
    BY NoPenTyped
<1>2. Append(<<>>, NoPen) = <<NoPen>>
    BY <1>1
<1>3. PartsOf(<<>>) = {} /\ Distinct(<<>>) /\ ToSet(<<>>) = {} /\ IsInjective(<<>>)
    BY DEF PartsOf, Distinct, ToSet, IsInjective
<1>4. PICK c \in Pen, s \in Seq(Pen) : c = NoPen /\ s = <<>>
    BY <1>1
<1>5. PartsOf(Append(s, c)) = PartsOf(s) \cup ToSet(c.parts)
    BY PartsOfAppend
<1>6. Distinct(Append(s, c)) <=>
        Distinct(s) /\ IsInjective(c.parts) /\ ToSet(c.parts) \cap PartsOf(s) = {}
    BY DistinctAppend
<1>7. c.parts = <<>>
    BY <1>1, <1>4
<1> QED BY <1>2, <1>3, <1>4, <1>5, <1>6, <1>7

LEMMA FlushedTyped ==
    ASSUME dest \in Seq(Written), pen \in Pen
    PROVE  /\ Flushed \in Seq(Written)
           /\ PartsOf(Made) = PartsOf(dest) \cup ToSet(pen.parts)
           /\ PartsOf(Flushed) \subseteq PartsOf(Made)
           /\ (pen.strokes = <<>> => pen.parts = <<>>) => PartsOf(Flushed) = PartsOf(Made)
           /\ AtMostOnce => Distinct(Flushed)
           /\ AtMostOnce => /\ Distinct(dest) /\ IsInjective(pen.parts)
                            /\ ToSet(pen.parts) \cap PartsOf(dest) = {}
<1>1. dest \in Seq(Pen)
    BY WrittenArePens
<1>2. PartsOf(Made) = PartsOf(dest) \cup ToSet(pen.parts)
    BY <1>1, PartsOfAppend DEF Made
<1>3. AtMostOnce <=> /\ Distinct(dest) /\ IsInjective(pen.parts)
                     /\ ToSet(pen.parts) \cap PartsOf(dest) = {}
    BY <1>1, DistinctAppend DEF Made, AtMostOnce
<1>4. CASE pen.strokes = <<>>
    <2>1. Flushed = dest
        BY <1>4 DEF Flushed
    <2>2. pen.parts = <<>> => ToSet(pen.parts) = {}
        BY DEF ToSet
    <2>3. PartsOf(Flushed) = PartsOf(dest) /\ (Distinct(Flushed) <=> Distinct(dest))
        BY <2>1
    <2>4. PartsOf(Flushed) \subseteq PartsOf(Made)
        BY <1>2, <2>3
    <2>5. (pen.strokes = <<>> => pen.parts = <<>>) => PartsOf(Flushed) = PartsOf(Made)
        BY <1>2, <1>4, <2>2, <2>3
    <2> QED BY <1>2, <1>3, <2>1, <2>3, <2>4, <2>5
<1>5. CASE pen.strokes # <<>>
    <2>1. Flushed = Made
        BY <1>5 DEF Flushed, Made
    <2>2. pen \in Written
        BY <1>5 DEF Written
    <2>3. Made \in Seq(Written)
        BY <2>2, AppendProperties DEF Made
    <2>4. PartsOf(Flushed) = PartsOf(Made) /\ (Distinct(Flushed) <=> AtMostOnce)
        BY <2>1 DEF AtMostOnce
    <2> QED BY <1>2, <1>3, <2>1, <2>3, <2>4
<1> QED BY <1>4, <1>5

\* The segments a flush leaves were open or written before.
LEMMA FlushedFrom ==
    ASSUME dest \in Seq(Written), pen \in Pen, NEW i \in DOMAIN Flushed
    PROVE  i \in DOMAIN Made /\ Flushed[i] = Made[i]
<1>1. PICK n \in Nat : n = Len(dest) /\ DOMAIN dest = 1 .. n
    BY LenProperties
<1>2. dest \in Seq(Pen)
    BY WrittenArePens
<1>3. /\ Made \in Seq(Pen) /\ Len(Made) = n + 1 /\ \A j \in 1 .. n : Made[j] = dest[j]
    BY <1>1, <1>2, AppendProperties DEF Made
<1>4. DOMAIN Made = 1 .. n + 1
    BY <1>3, LenProperties
<1>5. CASE pen.strokes = <<>>
    <2>1. Flushed = dest /\ i \in 1 .. n
        BY <1>1, <1>5 DEF Flushed
    <2> QED BY <1>1, <1>3, <1>4, <2>1
<1>6. CASE pen.strokes # <<>>
    <2>1. Flushed = Made
        BY <1>6 DEF Flushed, Made
    <2> QED BY <2>1
<1> QED BY <1>5, <1>6

LEMMA PartsTyped ==
    ASSUME NEW segs \in Seq(Written)
    PROVE  PartsOf(segs) \subseteq Nat \X Nat
<1>1. \A i \in DOMAIN segs : segs[i] \in Written
    BY LenProperties, ElementOfSeq
<1>2. \A seg \in Pen : ToSet(seg.parts) \subseteq Nat \X Nat
    <2> TAKE seg \in Pen
    <2>1. seg.parts \in Seq(Nat \X Nat)
        BY DEF Pen
    <2> QED BY <2>1, LenProperties, ElementOfSeq DEF ToSet
<1> QED BY <1>1, <1>2 DEF PartsOf, Written

LEMMA MadeTyped ==
    ASSUME Typed
    PROVE  PartsOf(Made) \subseteq Nat \X Nat
<1>1. PartsOf(Made) = PartsOf(dest) \cup ToSet(pen.parts)
    BY FlushedTyped DEF Typed
<1>2. pen.parts \in Seq(Nat \X Nat) /\ dest \in Seq(Written)
    BY DEF Typed, Pen
<1>3. ToSet(pen.parts) \subseteq Nat \X Nat
    BY <1>2, LenProperties, ElementOfSeq DEF ToSet
<1> QED BY <1>1, <1>2, <1>3, PartsTyped

\* The open segment is flushed and another is begun.
LEMMA PenMoved ==
    ASSUME Typed, AtMostOnce, NEW c \in Pen, dest' = Flushed, pen' = c,
           c.joints = {}, IsInjective(c.parts), ToSet(c.parts) \cap PartsOf(Made) = {}
    PROVE  /\ dest' \in Seq(Written) /\ pen' \in Pen
           /\ AtMostOnce' /\ JointsNear'
           /\ PartsOf(Made)' = PartsOf(Flushed) \cup ToSet(c.parts)
<1>1. /\ Flushed \in Seq(Written) /\ Distinct(Flushed)
      /\ PartsOf(Flushed) \subseteq PartsOf(Made)
    BY FlushedTyped DEF Typed
<1>2. Flushed \in Seq(Pen)
    BY <1>1, WrittenArePens
<1>3. Made' = Append(Flushed, c)
    BY DEF Made
<1>4. PartsOf(Made)' = PartsOf(Flushed) \cup ToSet(c.parts)
    BY <1>2, <1>3, PartsOfAppend DEF PartsOf
<1>5. AtMostOnce'
    <2>1. PartsOf(Flushed) \cap ToSet(c.parts) = {}
        BY <1>1
    <2>2. Distinct(Append(Flushed, c))
        BY <1>1, <1>2, <2>1, DistinctAppend
    <2> QED BY <1>3, <2>2 DEF AtMostOnce, Distinct
<1>6. JointsNear'
    BY DEF JointsNear
<1> QED BY <1>1, <1>4, <1>5, <1>6

\* A file that is finished, and the entries the next pass reads it by.
LEMMA FileTyped ==
    ASSUME options \in Options, NEW segs \in Seq(Written)
    PROVE  FileOf(segs) \in File /\ FileOf(segs).segs = segs
<1>1. Claimed \in Orders
    <2>1. options \in BOOLEAN \X {"none", "LAT_MIN", "LAT_MAX", "LON_MIN", "LON_MAX"} \X BOOLEAN
        BY EditAssumption
    <2>2. Compare \in {"none", "LAT_MIN", "LAT_MAX", "LON_MIN", "LON_MAX"}
        BY <2>1 DEF Compare
    <2> QED BY <2>2 DEF Claimed, Orders
<1>2. LonExtent(segs) \in Int /\ LatExtent(segs) \in Int
    BY WrittenArePens, ExtentsTyped
<1> QED BY <1>1, <1>2 DEF FileOf, File

LEMMA EntriesTyped ==
    ASSUME NEW segs \in Seq(Written)
    PROVE  /\ Entries(segs) \in Seq(Segment)
           /\ Len(Entries(segs)) = Len(segs)
           /\ DOMAIN Entries(segs) = DOMAIN segs
           /\ \A i \in DOMAIN segs :
                /\ Entries(segs)[i].parts = segs[i].parts
                /\ Entries(segs)[i].origin = segs[i].origin
                /\ Entries(segs)[i].strokes # <<>>
                /\ Entries(segs)[i].live
<1>1. PICK n \in Nat : n = Len(segs) /\ DOMAIN segs = 1 .. n
    BY LenProperties
<1>2. \A i \in 1 .. n : segs[i] \in Written
    BY <1>1, ElementOfSeq
<1> DEFINE E(i) == [origin |-> segs[i].origin, strokes |-> segs[i].strokes, parts |-> segs[i].parts,
                    lat_min |-> segs[i].lat_min, lat_max |-> segs[i].lat_max,
                    lon_min |-> segs[i].lon_min, lon_max |-> segs[i].lon_max, live |-> TRUE]
<1>3. ASSUME NEW i \in 1 .. n
      PROVE  /\ E(i) \in Segment /\ E(i).parts = segs[i].parts /\ E(i).origin = segs[i].origin
             /\ E(i).strokes # <<>> /\ E(i).live
    <2>1. segs[i] \in Written
        BY <1>2
    <2> QED BY <2>1 DEF Written, Pen, Segment
<1>4. Entries(segs) = [i \in 1 .. n |-> E(i)]
    BY <1>1 DEF Entries
<1> HIDE DEF E
<1>5. Entries(segs) \in [1 .. n -> Segment] /\ \A i \in 1 .. n : Entries(segs)[i] = E(i)
    BY <1>3, <1>4
<1>6. Entries(segs) \in Seq(Segment) /\ Len(Entries(segs)) = n /\ DOMAIN Entries(segs) = 1 .. n
    BY <1>1, <1>5
<1> QED BY <1>1, <1>3, <1>5, <1>6

LEMMA PassFinished ==
    ASSUME Typed, AtMostOnce, NEW name \in {"cc", "joined"}, NEW next \in {"join", "thin"},
           FinishPass(name, next)
    PROVE  /\ Typed' /\ AtMostOnce' /\ JointsNear'
           /\ PartsOf(Made)' = {} /\ Made' = <<NoPen>> /\ pen' = NoPen /\ pos' = 1
           /\ Flushed \in Seq(Written) /\ Distinct(Flushed)
           /\ files'[name].segs = Flushed
           /\ \A f \in {"cc", "joined", "new"} \ {name} : files'[f] = files[f]
           /\ phase' \in {next, "aborted"}
           /\ UNCHANGED <<joining, options>>
           /\ source' = Entries(Flushed)
<1>1. Flushed \in Seq(Written) /\ Distinct(Flushed)
    BY FlushedTyped DEF Typed
<1>2. PICK F \in Seq(Written) : F = Flushed
    BY <1>1
<1>3. FileOf(F) \in File /\ FileOf(F).segs = F
    BY FileTyped DEF Typed
<1>4. files' = [files EXCEPT ![name] = FileOf(F)] /\ source' = Entries(F)
    BY <1>2 DEF FinishPass
<1>5. /\ files' \in [{"cc", "joined", "new"} -> File]
      /\ files'[name].segs = F
      /\ \A f \in {"cc", "joined", "new"} \ {name} : files'[f] = files[f]
    BY <1>3, <1>4 DEF Typed
<1>6. source' \in Seq(Segment) /\ Len(source') \in Nat
    BY <1>4, EntriesTyped, LenProperties
<1>7. /\ dest' = <<>> /\ pen' = NoPen /\ pos' = 1 /\ UNCHANGED <<todo, joining, bounds, options>>
      /\ phase' \in {next, "aborted"}
    BY DEF FinishPass
<1>8. Made' = <<NoPen>> /\ NoPen \in Pen /\ NoPen.joints = {}
    BY <1>7, NothingMade, NoPenTyped DEF Made
<1>9. AtMostOnce' /\ PartsOf(Made)' = {}
    <2>1. Distinct(<<NoPen>>) /\ PartsOf(<<NoPen>>) = {}
        BY NothingMade
    <2> QED BY <1>8, <2>1 DEF AtMostOnce, Distinct, PartsOf
<1>10. JointsNear'
    BY <1>7, <1>8 DEF JointsNear
<1>11. dest' \in Seq(Written) /\ pos' \in 1 .. Len(source') + 1
    BY <1>6, <1>7
<1>12. Typed'
    BY <1>5, <1>6, <1>7, <1>8, <1>11 DEF Typed
<1> QED BY <1>1, <1>2, <1>4, <1>5, <1>7, <1>8, <1>9, <1>10, <1>12

-----------------------------------------------------------------------------
\* The invariant holds at the start, and each step keeps it.
LEMMA NoPenOrigin ==
    \A i \in DOMAIN <<NoPen>> : OnGlobe(<<NoPen>>[i].origin)
<1>1. NoPen.origin = <<0, 0>>
    BY NoPenTyped
<1>2. OnGlobe(<<0, 0>>)
    BY EditAssumption DEF OnGlobe
<1> QED BY <1>1, <1>2

LEMMA InitHolds ==
    ASSUME Init
    PROVE  IInv
<1>1. Made = <<NoPen>> /\ NoPen \in Pen /\ NoPen.joints = {}
    BY NothingMade, NoPenTyped DEF Init, Made
<1>2. AtMostOnce /\ PartsOf(Made) = {}
    BY <1>1, NothingMade DEF AtMostOnce
<1>3. todo \in Inputs /\ todo \in Seq(Seq(Segment)) /\ Len(todo) \in Nat
    <2>1. todo \in Seq(Seq(Segment))
        BY EditAssumption DEF Init
    <2> QED BY <2>1, LenProperties DEF Init
<1>4. Typed
    <2>1. <<>> \in Seq(Segment) /\ <<>> \in Seq(Written) /\ Len(<<>>) = 0
        OBVIOUS
    <2>2. NoFile \in File
        <3>1. <<>> \in Seq(Written)
            OBVIOUS
        <3> QED BY <3>1 DEF NoFile, File, Orders
    <2>3. files \in [{"cc", "joined", "new"} -> File]
        BY <2>2 DEF Init
    <2>4. pos \in 1 .. Len(source) + 1
        BY <2>1 DEF Init
    <2> QED BY <1>1, <1>3, <2>1, <2>3, <2>4 DEF Init, Typed
<1>5. files["joined"].segs = <<>>
    BY DEF Init, NoFile
<1>6. OnlyLastLost /\ ReadyToDraw /\ Searches /\ Reread
    BY <1>5 DEF Init, OnlyLastLost, ReadyToDraw, Searches, Reread
<1>7. JointsNear
    BY <1>1 DEF Init, JointsNear
<1>8. Passed
    <2>1. todo = SubSeq(todo, 0 + 1, Len(todo))
        BY <1>3, SubSeqFull
    <2>2. 0 \in 0 .. Len(todo)
        BY <1>3
    <2>3. \A part \in PartsOf(Made) : part[1] < 0 \/ (part[1] = 0 /\ part[2] < pos)
        BY <1>2
    <2>4. \A i \in 1 .. pos - 1 : FALSE
        BY DEF Init
    <2>5. source = <<>>
        BY DEF Init
    <2> QED BY <1>3, <1>5, <2>1, <2>2, <2>3, <2>4, <2>5 DEF Passed
<1>9. Origins
    BY <1>1, NoPenOrigin DEF Init, Origins
<1> QED BY <1>2, <1>4, <1>6, <1>7, <1>8, <1>9 DEF IInv

\* A step that leaves the files and the open segment alone.
LEMMA FilesKept ==
    ASSUME IInv, UNCHANGED <<dest, pen, files, options>>, phase' # "done"
    PROVE  AtMostOnce' /\ JointsNear' /\ OnlyLastLost' /\ ReadyToDraw'
<1>1. AtMostOnce'
    BY DEF IInv, AtMostOnce, Distinct, Made
<1>2. JointsNear'
    BY DEF IInv, JointsNear
<1>3. OnlyLastLost' /\ ReadyToDraw'
    BY DEF IInv, OnlyLastLost, ReadyToDraw, PartsOf
<1> QED BY <1>1, <1>2, <1>3

LEMMA StepClipOpen ==
    ASSUME IInv, ClipOpen
    PROVE  IInv'
<1>1. /\ phase = "clip" /\ todo # <<>> /\ ~joining
      /\ UNCHANGED <<dest, pen, joining, files, bounds, options>>
    BY DEF IInv, Searches, ClipOpen
<1>2. CASE Head(todo) = <<>>
    <2>1. phase' = "crashed" /\ UNCHANGED <<todo, source, pos>>
        BY <1>2 DEF ClipOpen
    <2>2. Typed'
        BY <1>1, <2>1 DEF IInv, Typed
    <2>3. Searches' /\ Passed' /\ Reread' /\ Origins'
        BY <2>1 DEF Searches, Passed, Reread, Origins
    <2>4. AtMostOnce' /\ JointsNear' /\ OnlyLastLost' /\ ReadyToDraw'
        BY <1>1, <2>1, FilesKept
    <2> QED BY <2>2, <2>3, <2>4 DEF IInv
<1>3. CASE Head(todo) # <<>>
    <2>1. todo' = Tail(todo) /\ source' = Head(todo) /\ pos' = 1 /\ phase' = "clip"
        BY <1>1, <1>3 DEF ClipOpen
    <2>2. PICK input \in Inputs, k \in Nat :
            /\ k \in 0 .. Len(input)
            /\ todo = SubSeq(input, k + 1, Len(input))
            /\ \A part \in PartsOf(Made) : part[1] < k \/ (part[1] = k /\ part[2] < pos)
        <3>1. PICK input \in Inputs : \E k \in 0 .. Len(input) :
                /\ todo = SubSeq(input, k + 1, Len(input))
                /\ source = IF k = 0 THEN <<>> ELSE input[k]
                /\ \A part \in PartsOf(Made) : part[1] < k \/ (part[1] = k /\ part[2] < pos)
            BY <1>1, Zenon DEF IInv, Passed
        <3>2. 0 .. Len(input) \subseteq Nat
            OBVIOUS
        <3> QED BY <3>1, <3>2, Zenon
    <2>3. input \in Seq(Seq(Segment)) /\ Len(input) \in Nat
        <3>1. input \in Seq(Seq(Segment))
            BY EditAssumption
        <3> QED BY <3>1, LenProperties
    <2>4. k + 1 \in 1 .. Len(input)
        <3>1. ASSUME k = Len(input) PROVE FALSE
            <4>1. SubSeq(input, k + 1, Len(input)) = <<>>
                BY <2>3, <3>1, SubSeqEmpty
            <4> QED BY <1>1, <2>2, <4>1
        <3> QED BY <2>2, <2>3, <3>1
    <2>5. todo' = SubSeq(input, (k + 1) + 1, Len(input)) /\ source' = input[k + 1]
        <3>1. Len(input) \in k + 1 .. Len(input)
            BY <2>3, <2>4
        <3>2. /\ Head(SubSeq(input, k + 1, Len(input))) = input[k + 1]
              /\ Tail(SubSeq(input, k + 1, Len(input))) = SubSeq(input, (k + 1) + 1, Len(input))
            BY <2>3, <2>4, <3>1, HeadTailOfSubSeq
        <3> QED BY <2>1, <2>2, <3>2
    <2>6. source' \in Seq(Segment) /\ Len(source') \in Nat
        <3>1. input[k + 1] \in Seq(Segment)
            BY <2>3, <2>4, ElementOfSeq
        <3> QED BY <2>5, <3>1, LenProperties
    <2>7. todo' \in Seq(Seq(Segment))
        BY <1>1, <2>1, HeadTailProperties DEF IInv, Typed
    <2>8. pos' \in 1 .. Len(source') + 1
        BY <2>1, <2>6
    <2>9. Typed'
        BY <1>1, <2>1, <2>6, <2>7, <2>8 DEF IInv, Typed
    <2>10. PartsOf(Made)' = PartsOf(Made) /\ Made' = Made
        BY <1>1 DEF PartsOf, Made
    <2>11. PartsOf(Made) \subseteq Nat \X Nat
        BY MadeTyped DEF IInv
    <2>12. \A part \in PartsOf(Made) : part[1] < k + 1
        <3> TAKE part \in PartsOf(Made)
        <3>1. part[1] \in Nat /\ (part[1] < k \/ part[1] = k)
            BY <2>2, <2>11
        <3> QED BY <3>1
    <2>13. k + 1 \in 0 .. Len(input) /\ k + 1 # 0
        BY <2>4
    <2>14. \A i \in 1 .. pos' - 1 : FALSE
        BY <2>1
    <2>15. Passed'
        <3>1. files["joined"].segs = <<>>
            BY <1>1 DEF IInv, Passed
        <3> QED BY <1>1, <2>5, <2>10, <2>12, <2>13, <2>14, <3>1 DEF Passed
    <2>16. Searches' /\ Reread'
        BY <1>1, <2>1 DEF Searches, Reread
    <2>17. Origins'
        BY <1>1, <2>1, <2>10 DEF IInv, Origins
    <2>18. AtMostOnce' /\ JointsNear' /\ OnlyLastLost' /\ ReadyToDraw'
        BY <1>1, <2>1, FilesKept
    <2> QED BY <2>9, <2>15, <2>16, <2>17, <2>18 DEF IInv
<1> QED BY <1>2, <1>3

\* A copy begins on the globe, and no more than a unit from its source if that
\* does.
LEMMA CopyOrigin ==
    ASSUME NEW seg \in Segment, NEW c, IsCopy(c, seg)
    PROVE  /\ OnGlobe(c.origin)
           /\ OnGlobe(seg.origin) => /\ Abs(c.start[1] - c.origin[1]) <= 1
                                    /\ Abs(c.start[2] - c.origin[2]) <= 1
<1>1. PICK a \in Int, b \in Int : a = seg.origin[1] /\ b = seg.origin[2]
    BY DEF Segment, Point
<1>2. PICK n \in Int : n = Normalize(b) /\ -Half <= n /\ n <= Half /\ (-Half <= b /\ b <= Half => n = b)
    BY NormalizeTyped
<1>3. PICK y \in Int : y = Nint(a) /\ a - y <= 0 /\ y - a <= 1
    BY NintTyped
<1>4. PICK x \in Int : x = Nint(n) /\ n - x <= 0 /\ x - n <= 1 /\ -Half <= x /\ x <= Half
    BY <1>2, EditAssumption DEF Nint
<1>5. c.origin = <<y, x>> /\ c.start = seg.origin
    BY <1>1, <1>2, <1>3, <1>4 DEF IsCopy
<1>6. c.origin[1] = y /\ c.origin[2] = x
    BY <1>5
<1>7. OnGlobe(c.origin)
    BY <1>4, <1>6 DEF OnGlobe
<1>8. ASSUME OnGlobe(seg.origin)
      PROVE  Abs(c.start[1] - c.origin[1]) <= 1 /\ Abs(c.start[2] - c.origin[2]) <= 1
    <2>1. c.start[1] = a /\ c.start[2] = b /\ n = b
        BY <1>1, <1>2, <1>5, <1>8 DEF OnGlobe
    <2>2. Abs(a - y) <= 1 /\ Abs(b - x) <= 1
        BY <1>3, <1>4, <2>1 DEF Abs
    <2> QED BY <1>6, <2>1, <2>2
<1> QED BY <1>7, <1>8

\* What is flushed once the open segment has been flushed and another is open.
LEMMA FlushedNext ==
    ASSUME Typed, NEW c \in Pen, dest' = Flushed, pen' = c
    PROVE  /\ c.strokes = <<>> => PartsOf(Flushed)' = PartsOf(Flushed)
           /\ c.strokes # <<>> => PartsOf(Flushed)' = PartsOf(Flushed) \cup ToSet(c.parts)
<1>1. Flushed \in Seq(Pen)
    BY FlushedTyped, WrittenArePens DEF Typed
<1>2. Flushed' = IF c.strokes = <<>> THEN Flushed ELSE Append(Flushed, c)
    BY DEF Flushed
<1>3. PartsOf(Append(Flushed, c)) = PartsOf(Flushed) \cup ToSet(c.parts)
    BY <1>1, PartsOfAppend
<1>4. CASE c.strokes = <<>>
    <2>1. Flushed' = Flushed
        BY <1>2, <1>4
    <2> QED BY <1>4, <2>1 DEF PartsOf
<1>5. CASE c.strokes # <<>>
    <2>1. Flushed' = Append(Flushed, c)
        BY <1>2, <1>5
    <2> QED BY <1>3, <1>5, <2>1 DEF PartsOf
<1> QED BY <1>4, <1>5

LEMMA KeepsSame ==
    ASSUME UNCHANGED bounds, NEW seg
    PROVE  Keeps(seg)' <=> Keeps(seg)
BY DEF Keeps, Shifted, Straddles, LonMin, LonMax, North, South, East, West

LEMMA OnlyPart ==
    ASSUME NEW S, NEW x \in S
    PROVE  <<x>> \in Seq(S) /\ ToSet(<<x>>) = {x} /\ IsInjective(<<x>>)
BY DEF ToSet, IsInjective

LEMMA StepClipSegment ==
    ASSUME IInv, ClipSegment
    PROVE  IInv'
<1> DEFINE seg == source[pos]
           c == Copied(seg)
<1>1. /\ phase = "clip" /\ ~joining /\ pos' = pos + 1
      /\ UNCHANGED <<phase, todo, source, joining, files, bounds, options>>
      /\ IF Keeps(seg) THEN dest' = Flushed /\ pen' = c ELSE UNCHANGED <<dest, pen>>
    BY DEF IInv, Searches, ClipSegment
<1>2. pos \in 1 .. Len(source) /\ Len(source) \in Nat /\ source \in Seq(Segment)
    <2>1. pos <= Len(source) /\ source \in Seq(Segment) /\ pos \in 1 .. Len(source) + 1
        BY DEF IInv, Typed, ClipSegment
    <2> QED BY <2>1, LenProperties
<1>3. PICK input \in Inputs, k \in Nat :
        /\ k \in 0 .. Len(input)
        /\ todo = SubSeq(input, k + 1, Len(input))
        /\ source = IF k = 0 THEN <<>> ELSE input[k]
        /\ \A part \in PartsOf(Made) : part[1] < k \/ (part[1] = k /\ part[2] < pos)
    BY <1>1 DEF IInv, Passed
<1>4. /\ k # 0 /\ source = input[k] /\ \A i \in 1 .. Len(source) : source[i].parts = <<<<k, i>>>>
    <2>1. k # 0
        BY <1>2, <1>3
    <2>2. input \in Seq(Seq(Segment)) /\ DOMAIN input = 1 .. Len(input)
        <3>1. input \in Seq(Seq(Segment))
            BY EditAssumption
        <3> QED BY <3>1, LenProperties
    <2>3. k \in DOMAIN input /\ source = input[k] /\ DOMAIN source = 1 .. Len(source)
        BY <1>2, <1>3, <2>1, <2>2, LenProperties
    <2> QED BY <2>1, <2>3, EditAssumption
<1>5. \A i \in 1 .. pos : source[i].parts = <<<<k, i>>>> /\ ToSet(source[i].parts) = {<<k, i>>}
    <2> TAKE i \in 1 .. pos
    <2>1. i \in 1 .. Len(source) /\ <<k, i>> \in Nat \X Nat
        BY <1>2
    <2> QED BY <1>4, <2>1, OnlyPart
<1>6. seg \in Segment
    BY <1>2, ElementOfSeq
<1>7. IsCopy(c, seg) /\ c \in Pen
    BY <1>6, CopiedIsCopy DEF IsCopy
<1>8. <<k, pos>> \notin PartsOf(Made) /\ <<k, pos>> \in Nat \X Nat
    <2>1. <<k, pos>> \in Nat \X Nat /\ <<k, pos>>[1] = k /\ <<k, pos>>[2] = pos
        BY <1>2
    <2> QED BY <1>2, <1>3, <2>1
<1>9. ToSet(seg.parts) = {<<k, pos>>} /\ seg.parts = <<<<k, pos>>>>
    BY <1>2, <1>5
<1>10. /\ Flushed \in Seq(Written) /\ PartsOf(Flushed) \subseteq PartsOf(Made)
    BY FlushedTyped DEF IInv, Typed
<1>11. pos' \in 1 .. Len(source') + 1
    BY <1>1, <1>2
<1>12. OnlyLastLost' /\ ReadyToDraw' /\ Searches' /\ Reread'
    BY <1>1 DEF IInv, OnlyLastLost, ReadyToDraw, Searches, Reread, PartsOf
<1>13. CASE Keeps(seg)
    <2>1. dest' = Flushed /\ pen' = c
        BY <1>1, <1>13
    <2>2. IsInjective(c.parts) /\ c.joints = {} /\ ToSet(c.parts) = {<<k, pos>>}
        BY <1>7, <1>8, <1>9, OnlyPart DEF IsCopy
    <2> HIDE DEF c, seg
    <2>3. /\ dest' \in Seq(Written) /\ pen' \in Pen /\ AtMostOnce' /\ JointsNear'
          /\ PartsOf(Made)' = PartsOf(Flushed) \cup {<<k, pos>>}
        <3>1. ToSet(c.parts) \cap PartsOf(Made) = {}
            BY <1>8, <2>2
        <3> QED BY <1>7, <2>1, <2>2, <3>1, PenMoved DEF IInv
    <2>4. Typed'
        BY <1>1, <1>11, <2>3 DEF IInv, Typed
    <2>5. \A part \in PartsOf(Made)' : part[1] < k \/ (part[1] = k /\ part[2] < pos')
        <3>1. \A part \in PartsOf(Flushed) : part[1] < k \/ (part[1] = k /\ part[2] < pos)
            BY <1>3, <1>10
        <3>2. \A part \in PartsOf(Flushed) : part \in Nat \X Nat
            BY <1>10, PartsTyped
        <3>3. ASSUME NEW part \in PartsOf(Flushed)
              PROVE  part[1] < k \/ (part[1] = k /\ part[2] < pos')
            <4>1. part[2] \in Nat /\ (part[1] < k \/ (part[1] = k /\ part[2] < pos))
                BY <3>1, <3>2
            <4> QED BY <1>1, <1>2, <4>1
        <3>4. <<k, pos>>[1] = k /\ <<k, pos>>[2] < pos'
            BY <1>1, <1>2
        <3> QED BY <2>3, <3>3, <3>4
    <2>6. ASSUME NEW i \in 1 .. pos' - 1, source[i].strokes # <<>>
          PROVE  Keeps(source[i])' <=> ToSet(source[i].parts) \subseteq PartsOf(Flushed)'
        <3>1. i \in 1 .. pos
            BY <1>1, <1>2
        <3>2. ToSet(source[i].parts) = {<<k, i>>} /\ (Keeps(source[i])' <=> Keeps(source[i]))
            BY <1>1, <1>5, <3>1, KeepsSame
        <3>3. \/ PartsOf(Flushed)' = PartsOf(Flushed) /\ c.strokes = <<>>
              \/ PartsOf(Flushed)' = PartsOf(Flushed) \cup {<<k, pos>>} /\ c.strokes # <<>>
            BY <1>7, <2>1, <2>2, FlushedNext DEF IInv
        <3>4. CASE i = pos
            <4>1. c.strokes # <<>>
                BY <1>7, <2>6, <3>4 DEF IsCopy, seg
            <4>2. Keeps(source[i])
                BY <1>13, <3>4 DEF seg
            <4> QED BY <3>2, <3>3, <3>4, <4>1, <4>2
        <3>5. CASE i # pos
            <4>1. i \in 1 .. pos - 1
                BY <1>2, <3>1, <3>5
            <4>2. Keeps(source[i]) <=> ToSet(source[i].parts) \subseteq PartsOf(Flushed)
                BY <1>1, <2>6, <4>1 DEF IInv, Passed
            <4>3. <<k, i>> # <<k, pos>>
                BY <3>5
            <4> QED BY <3>2, <3>3, <4>2, <4>3
        <3> QED BY <3>4, <3>5
    <2>7. Passed'
        BY <1>1, <1>3, <2>5, <2>6 DEF IInv, Passed
    <2>8. Origins'
        <3>1. PICK n \in Nat : n = Len(Flushed) /\ DOMAIN Flushed = 1 .. n
            BY <1>10, LenProperties
        <3>2. Flushed \in Seq(Pen) /\ Made' = Append(Flushed, c)
            BY <1>10, <2>1, WrittenArePens DEF Made
        <3>3. /\ Made' \in Seq(Pen) /\ Len(Made') = n + 1
              /\ \A i \in 1 .. n : Made'[i] = Flushed[i]
              /\ Made'[n + 1] = c
            BY <1>7, <3>1, <3>2, AppendProperties
        <3>4. DOMAIN Made' = 1 .. n + 1 /\ \A i \in 1 .. n + 1 : i \in 1 .. n \/ i = n + 1
            BY <3>1, <3>3, LenProperties
        <3>5. \A i \in 1 .. n : OnGlobe(Flushed[i].origin)
            <4> TAKE i \in 1 .. n
            <4>1. i \in DOMAIN Made /\ Flushed[i] = Made[i]
                BY <3>1, FlushedFrom DEF IInv, Typed
            <4> QED BY <1>1, <4>1 DEF IInv, Origins
        <3>6. OnGlobe(c.origin)
            BY <1>6, <1>7, CopyOrigin
        <3> QED BY <1>1, <3>3, <3>4, <3>5, <3>6 DEF Origins
    <2> QED BY <1>12, <2>3, <2>4, <2>7, <2>8 DEF IInv
<1>14. CASE ~Keeps(seg)
    <2>1. UNCHANGED <<dest, pen>>
        BY <1>1, <1>14
    <2> HIDE DEF c, seg
    <2>2. Made' = Made /\ PartsOf(Made)' = PartsOf(Made) /\ PartsOf(Flushed)' = PartsOf(Flushed)
        BY <2>1 DEF Made, PartsOf, Flushed
    <2>3. AtMostOnce' /\ JointsNear'
        BY <1>1, <2>1, FilesKept
    <2>4. Typed'
        BY <1>1, <1>11, <2>1 DEF IInv, Typed
    <2>5. \A part \in PartsOf(Made)' : part[1] < k \/ (part[1] = k /\ part[2] < pos')
        <3> SUFFICES ASSUME NEW part \in PartsOf(Made)
                     PROVE  part[1] < k \/ (part[1] = k /\ part[2] < pos')
            BY <2>2
        <3>1. part[1] < k \/ (part[1] = k /\ part[2] < pos)
            BY <1>3
        <3>2. part \in Nat \X Nat
            BY MadeTyped DEF IInv
        <3> QED BY <1>1, <1>2, <3>1, <3>2
    <2>6. ASSUME NEW i \in 1 .. pos' - 1, source[i].strokes # <<>>
          PROVE  Keeps(source[i])' <=> ToSet(source[i].parts) \subseteq PartsOf(Flushed)'
        <3>1. i \in 1 .. pos
            BY <1>1, <1>2
        <3>2. ToSet(source[i].parts) = {<<k, i>>} /\ (Keeps(source[i])' <=> Keeps(source[i]))
            BY <1>1, <1>5, <3>1, KeepsSame
        <3>3. CASE i = pos
            BY <1>8, <1>10, <1>14, <2>2, <3>2, <3>3 DEF seg
        <3>4. CASE i # pos
            <4>1. i \in 1 .. pos - 1
                BY <1>2, <3>1, <3>4
            <4> QED BY <1>1, <2>2, <2>6, <3>2, <4>1 DEF IInv, Passed
        <3> QED BY <3>3, <3>4
    <2>7. Passed'
        BY <1>1, <1>3, <2>5, <2>6 DEF IInv, Passed
    <2>8. Origins'
        BY <1>1, <2>1, <2>2 DEF IInv, Origins
    <2> QED BY <1>12, <2>3, <2>4, <2>7, <2>8 DEF IInv
<1> QED BY <1>13, <1>14

\* The next pass starts with nothing drawn, and all of the file before it.
LEMMA NextPass ==
    ASSUME IInv, ~joining, NEW name \in {"cc", "joined"}, NEW next \in {"join", "thin"},
           FinishPass(name, next),
           next = "join" => name = "cc" /\ DoJoin /\ files["joined"].segs = <<>>,
           next = "thin" => name = IF DoJoin THEN "joined" ELSE "cc"
    PROVE  Typed' /\ AtMostOnce' /\ JointsNear' /\ ReadyToDraw' /\ Searches' /\ Passed' /\ Reread'
<1>1. /\ Typed' /\ AtMostOnce' /\ JointsNear'
      /\ PartsOf(Made)' = {} /\ pen' = NoPen /\ pos' = 1
      /\ Flushed \in Seq(Written) /\ Distinct(Flushed)
      /\ files'[name].segs = Flushed
      /\ \A f \in {"cc", "joined", "new"} \ {name} : files'[f] = files[f]
      /\ phase' \in {next, "aborted"}
      /\ UNCHANGED <<joining, options>>
      /\ source' = Entries(Flushed)
    BY PassFinished DEF IInv
<1>2. ReadyToDraw' /\ Searches' /\ Passed'
    BY <1>1 DEF ReadyToDraw, Searches, Passed
<1>3. CASE phase' # next
    <2>1. Reread'
        BY <1>1, <1>3 DEF Reread
    <2> QED BY <1>1, <1>2, <2>1
<1>4. CASE phase' = next
    <2>1. Previous' = Flushed
        <3>1. Previous' = files'[IF next = "join" \/ ~DoJoin THEN "cc" ELSE "joined"].segs
            BY <1>1, <1>4 DEF Previous, DoJoin
        <3>2. (IF next = "join" \/ ~DoJoin THEN "cc" ELSE "joined") = name
            OBVIOUS
        <3> QED BY <1>1, <3>1, <3>2
    <2>2. /\ Len(source') = Len(Flushed) /\ DOMAIN source' = DOMAIN Flushed
          /\ \A i \in DOMAIN Flushed : /\ source'[i].parts = Flushed[i].parts
                                      /\ source'[i].strokes # <<>> /\ source'[i].live
        BY <1>1, EntriesTyped
    <2>3. DOMAIN Flushed = 1 .. Len(Flushed) /\ Len(Flushed) \in Nat
        BY <1>1, LenProperties
    <2>4. ASSUME NEW i \in DOMAIN source' PROVE ~Handled(i)'
        BY <1>1, <2>2, <2>3 DEF Handled
    <2>5. NoPen.parts = <<>>
        BY NoPenTyped
    <2>6. phase' = "join" => DoJoin' /\ files'["joined"].segs = <<>>
        BY <1>1, <1>4 DEF DoJoin
    <2>7. Distinct(Previous)'
        BY <1>1, <2>1 DEF Distinct
    <2>8. PartsOf(Made)' \subseteq PartsOf(Previous)'
        BY <1>1
    <2>9. Reread'
        BY <1>1, <2>1, <2>2, <2>4, <2>5, <2>6, <2>7, <2>8 DEF Reread
    <2> QED BY <1>1, <1>2, <2>9
<1> QED BY <1>3, <1>4

LEMMA StepClipFinish ==
    ASSUME IInv, ClipFinish
    PROVE  IInv'
<1>1. /\ phase = "clip" /\ ~joining /\ files["joined"].segs = <<>>
      /\ FinishPass("cc", IF DoJoin THEN "join" ELSE "thin")
    BY DEF IInv, Searches, Passed, ClipFinish
<1>2. PICK next \in {"join", "thin"} : next = IF DoJoin THEN "join" ELSE "thin"
    OBVIOUS
<1>3. FinishPass("cc", next) /\ (next = "join" <=> DoJoin)
    BY <1>1, <1>2
<1>4. Typed' /\ AtMostOnce' /\ JointsNear' /\ ReadyToDraw' /\ Searches' /\ Passed' /\ Reread'
    BY <1>1, <1>3, NextPass
<1>5. /\ pen' = NoPen /\ Flushed \in Seq(Written) /\ files'["joined"] = files["joined"]
      /\ phase' \in {next, "aborted"} /\ source' = Entries(Flushed)
    BY <1>3, PassFinished DEF IInv
<1>6. OnlyLastLost'
    BY <1>1, <1>5 DEF OnlyLastLost
<1>7. Origins'
    <2>1. DOMAIN source' = DOMAIN Flushed /\ \A i \in DOMAIN Flushed : source'[i].origin = Flushed[i].origin
        BY <1>5, EntriesTyped
    <2>2. ASSUME NEW i \in DOMAIN source' PROVE OnGlobe(source'[i].origin)
        <3>1. i \in DOMAIN Made /\ Flushed[i] = Made[i]
            BY <2>1, FlushedFrom DEF IInv, Typed
        <3> QED BY <1>1, <2>1, <3>1 DEF IInv, Origins
    <2>3. pen'.start = <<0, 0>> /\ pen'.origin = <<0, 0>>
        BY <1>5, NoPenTyped
    <2>4. Abs(pen'.start[1] - pen'.origin[1]) <= 1 /\ Abs(pen'.start[2] - pen'.origin[2]) <= 1
        BY <2>3 DEF Abs
    <2> QED BY <1>5, <2>2, <2>4 DEF Origins
<1> QED BY <1>4, <1>6, <1>7 DEF IInv

\* What a pass over a file that was finished before knows of it.
LEMMA Rereading ==
    ASSUME IInv, phase \in {"join", "thin"}
    PROVE  /\ source \in Seq(Segment) /\ Len(source) \in Nat /\ DOMAIN source = 1 .. Len(source)
           /\ DOMAIN Previous = DOMAIN source
           /\ \A i \in DOMAIN source :
                /\ source[i] \in Segment
                /\ IsInjective(source[i].parts)
                /\ ToSet(source[i].parts) \subseteq PartsOf(Previous)
                /\ \A j \in DOMAIN source \ {i} :
                        ToSet(source[i].parts) \cap ToSet(source[j].parts) = {}
           /\ \A part \in PartsOf(Previous) : \E i \in DOMAIN source : part \in ToSet(source[i].parts)
           /\ PartsOf(Flushed) = PartsOf(Made)
<1>1. source \in Seq(Segment)
    BY DEF IInv, Typed
<1>2. /\ Len(source) \in Nat /\ DOMAIN source = 1 .. Len(source)
      /\ \A i \in DOMAIN source : source[i] \in Segment
    BY <1>1, LenProperties, ElementOfSeq
<1>3. /\ Distinct(Previous) /\ Len(source) = Len(Previous)
      /\ \A i \in DOMAIN source : source[i].parts = Previous[i].parts
      /\ pen.strokes = <<>> => pen.parts = <<>>
    BY DEF IInv, Reread
<1>4. DOMAIN Previous = DOMAIN source
    <2>1. Previous \in Seq(Written)
        BY DEF IInv, Typed, File, Previous
    <2> QED BY <1>2, <1>3, <2>1, LenProperties
<1>5. PartsOf(Flushed) = PartsOf(Made)
    BY <1>3, FlushedTyped DEF IInv, Typed
<1>6. ASSUME NEW i \in DOMAIN source
      PROVE  /\ IsInjective(source[i].parts)
             /\ ToSet(source[i].parts) \subseteq PartsOf(Previous)
             /\ \A j \in DOMAIN source \ {i} :
                    ToSet(source[i].parts) \cap ToSet(source[j].parts) = {}
    BY <1>3, <1>4 DEF Distinct, PartsOf
<1>7. \A part \in PartsOf(Previous) : \E i \in DOMAIN source : part \in ToSet(source[i].parts)
    BY <1>3, <1>4 DEF PartsOf
<1> QED BY <1>1, <1>2, <1>4, <1>5, <1>6, <1>7

LEMMA StepJoinFinish ==
    ASSUME IInv, JoinFinish
    PROVE  IInv'
<1>1. phase = "join" /\ ~joining /\ ~(pos < Len(source)) /\ FinishPass("joined", "thin")
    BY DEF JoinFinish, Current
<1>2. DoJoin
    BY <1>1 DEF IInv, Reread
<1>3. Typed' /\ AtMostOnce' /\ JointsNear' /\ ReadyToDraw' /\ Searches' /\ Passed' /\ Reread'
    BY <1>1, <1>2, NextPass
<1>4. /\ files'["joined"].segs = Flushed /\ files'["cc"] = files["cc"]
      /\ phase' \in {"thin", "aborted"}
    BY <1>1, PassFinished DEF IInv
<1>5. Origins'
    BY <1>4 DEF Origins
<1>6. Previous = files["cc"].segs
    BY <1>1 DEF Previous
<1>7. PartsOf(files["cc"].segs) \ PartsOf(Flushed) \subseteq ToSet(Last(files["cc"].segs).parts)
    <2> SUFFICES ASSUME NEW part \in PartsOf(Previous), part \notin PartsOf(Made)
                 PROVE  part \in ToSet(Last(Previous).parts)
        BY <1>1, <1>6, Rereading
    <2>1. PICK i \in DOMAIN source : part \in ToSet(source[i].parts)
        BY <1>1, Rereading
    <2>2. i \in 1 .. Len(source) /\ Len(source) \in Nat /\ pos \in Nat
        BY <1>1, Rereading DEF IInv, Typed
    <2>3. ~Handled(i) /\ source[i].parts = Previous[i].parts /\ Len(source) = Len(Previous)
        BY <1>1, <2>1 DEF IInv, Reread
    <2>4. i = Len(Previous)
        BY <1>1, <2>2, <2>3 DEF Handled
    <2> QED BY <2>1, <2>3, <2>4 DEF Last
<1>8. OnlyLastLost'
    BY <1>4, <1>7 DEF OnlyLastLost, PartsOf
<1> QED BY <1>3, <1>5, <1>8 DEF IInv

\* join_map goes on to the next segment.
LEMMA MovesOn ==
    ASSUME IInv, phase = "join", pos < Len(source), pos' = pos + 1, joining' = FALSE,
           joining \/ ~source[pos].live,
           UNCHANGED <<phase, todo, source, dest, pen, files, bounds, options>>
    PROVE  IInv'
<1>1. AtMostOnce' /\ JointsNear' /\ OnlyLastLost' /\ ReadyToDraw'
    BY FilesKept
<1>2. source \in Seq(Segment) /\ Len(source) \in Nat /\ DOMAIN source = 1 .. Len(source)
    BY Rereading
<1>3. pos \in Nat /\ pos' \in 1 .. Len(source') + 1
    BY <1>2 DEF IInv, Typed
<1>4. Typed'
    BY <1>3 DEF IInv, Typed
<1>5. Searches' /\ Passed' /\ Origins'
    BY DEF IInv, Searches, Passed, Origins
<1>6. \A i \in DOMAIN source : Handled(i)' <=> Handled(i)
    BY <1>2, <1>3 DEF Handled
<1>7. Previous' = Previous /\ Made' = Made /\ PartsOf(Made)' = PartsOf(Made)
    BY DEF Previous, Made, PartsOf, DoJoin
<1>8. Distinct(Previous)' /\ PartsOf(Previous)' = PartsOf(Previous)
    BY <1>7 DEF IInv, Reread, Distinct, PartsOf
<1>9. Reread'
    BY <1>6, <1>7, <1>8 DEF IInv, Reread, DoJoin
<1> QED BY <1>1, <1>4, <1>5, <1>9 DEF IInv

LEMMA StepJoinSkip ==
    ASSUME IInv, JoinSkip
    PROVE  IInv'
<1>1. phase = "join" /\ pos < Len(source) /\ ~source[pos].live /\ pos' = pos + 1
      /\ UNCHANGED <<phase, todo, source, dest, pen, files, bounds, options>>
    BY DEF JoinSkip, Current
<1>2. joining' = FALSE
    BY DEF JoinSkip, IInv, Typed
<1> QED BY <1>1, <1>2, MovesOn

LEMMA StepJoinNext ==
    ASSUME IInv, JoinNext
    PROVE  IInv'
<1>1. phase = "join" /\ joining /\ pos' = pos + 1 /\ joining' = FALSE
      /\ UNCHANGED <<phase, todo, source, dest, pen, files, bounds, options>>
    BY DEF JoinNext
<1>2. pos < Len(source)
    BY <1>1 DEF IInv, Searches
<1> QED BY <1>1, <1>2, MovesOn

LEMMA StepWriteFails ==
    ASSUME IInv, WriteFails
    PROVE  IInv'
<1>1. phase' = "aborted"
      /\ UNCHANGED <<todo, source, pos, dest, pen, joining, files, bounds, options>>
    BY DEF WriteFails
<1>2. AtMostOnce' /\ JointsNear' /\ OnlyLastLost' /\ ReadyToDraw'
    BY <1>1, FilesKept
<1>3. Typed'
    BY <1>1 DEF IInv, Typed
<1>4. Searches' /\ Passed' /\ Reread' /\ Origins'
    BY <1>1 DEF Searches, Passed, Reread, Origins
<1> QED BY <1>2, <1>3, <1>4 DEF IInv

LEMMA StepUnchanged ==
    ASSUME IInv, UNCHANGED vars
    PROVE  IInv'
<1>1. UNCHANGED <<phase, todo, source, pos, dest, pen, joining, files, bounds, options>>
    BY DEF vars
<1>2. AtMostOnce' /\ JointsNear'
    BY <1>1 DEF IInv, AtMostOnce, Distinct, Made, JointsNear
<1>3. OnlyLastLost' /\ ReadyToDraw'
    BY <1>1 DEF IInv, OnlyLastLost, ReadyToDraw, PartsOf, DoJoin, Ordered, Rank, Compare
<1>4. Typed' /\ Searches' /\ Origins'
    BY <1>1 DEF IInv, Typed, Searches, Origins, Made
<1>5. Made' = Made /\ PartsOf(Made)' = PartsOf(Made) /\ Previous' = Previous
      /\ PartsOf(Previous)' = PartsOf(Previous) /\ PartsOf(Flushed)' = PartsOf(Flushed)
    BY <1>1 DEF Made, PartsOf, Previous, Flushed, DoJoin
<1>6. Passed'
    <2>1. \A i \in 1 .. pos - 1 : Keeps(source[i])' <=> Keeps(source[i])
        BY <1>1, KeepsSame
    <2> QED BY <1>1, <1>5, <2>1 DEF IInv, Passed
<1>7. Reread'
    <2>1. \A i \in DOMAIN source : Handled(i)' <=> Handled(i)
        BY <1>1 DEF Handled
    <2>2. Distinct(Previous) => Distinct(Previous)'
        BY <1>5 DEF Distinct
    <2> QED BY <1>1, <1>5, <2>1, <2>2 DEF IInv, Reread, DoJoin
<1> QED BY <1>2, <1>3, <1>4, <1>6, <1>7 DEF IInv

\* The copy of a segment that was not drawn before becomes the open one.
LEMMA CopyOpened ==
    ASSUME IInv, phase \in {"join", "thin"}, pos <= Len(source), ~joining, source[pos].live,
           NEW c, IsCopy(c, source[pos]), dest' = Flushed, pen' = c,
           UNCHANGED <<phase, source, files, options>>,
           pos' \in 1 .. Len(source) + 1,
           \A i \in DOMAIN source : Handled(i)' <=> Handled(i) \/ i = pos
    PROVE  /\ dest' \in Seq(Written) /\ pen' \in Pen /\ AtMostOnce' /\ JointsNear'
           /\ OnlyLastLost' /\ ReadyToDraw' /\ Passed' /\ Reread'
<1>1. /\ source \in Seq(Segment) /\ Len(source) \in Nat /\ DOMAIN source = 1 .. Len(source)
      /\ \A i \in DOMAIN source :
            /\ IsInjective(source[i].parts)
            /\ ToSet(source[i].parts) \subseteq PartsOf(Previous)
            /\ \A j \in DOMAIN source \ {i} :
                    ToSet(source[i].parts) \cap ToSet(source[j].parts) = {}
      /\ PartsOf(Flushed) = PartsOf(Made)
    BY Rereading
<1>2. pos \in DOMAIN source /\ ~Handled(pos) /\ c \in Pen
    BY <1>1 DEF IInv, Typed, Handled, IsCopy
<1>3. ToSet(source[pos].parts) \cap PartsOf(Made) = {} /\ source[pos].strokes # <<>>
    BY <1>2 DEF IInv, Reread
<1>4. c.parts = source[pos].parts /\ c.joints = {} /\ c.strokes # <<>>
    BY <1>3 DEF IsCopy
<1>5. /\ dest' \in Seq(Written) /\ pen' \in Pen /\ AtMostOnce' /\ JointsNear'
      /\ PartsOf(Made)' = PartsOf(Made) \cup ToSet(source[pos].parts)
    BY <1>1, <1>2, <1>3, <1>4, PenMoved DEF IInv
<1>6. OnlyLastLost' /\ ReadyToDraw' /\ Passed'
    BY DEF IInv, OnlyLastLost, ReadyToDraw, PartsOf, Passed
<1>7. Previous' = Previous /\ PartsOf(Previous)' = PartsOf(Previous)
    BY DEF Previous, DoJoin, PartsOf
<1>8. Distinct(Previous)'
    BY <1>7 DEF IInv, Reread, Distinct
<1>9. ASSUME NEW i \in DOMAIN source
      PROVE  IF Handled(i)' THEN ToSet(source[i].parts) \subseteq PartsOf(Made)'
                            ELSE ToSet(source[i].parts) \cap PartsOf(Made)' = {}
    <2>1. IF Handled(i) THEN ToSet(source[i].parts) \subseteq PartsOf(Made)
                        ELSE ToSet(source[i].parts) \cap PartsOf(Made) = {}
        BY DEF IInv, Reread
    <2>2. Handled(i)' <=> Handled(i) \/ i = pos
        OBVIOUS
    <2>3. i # pos => ToSet(source[i].parts) \cap ToSet(source[pos].parts) = {}
        BY <1>1, <1>2
    <2> QED BY <1>5, <2>1, <2>2, <2>3
<1>10. PartsOf(Made)' \subseteq PartsOf(Previous)'
    <2>1. PartsOf(Made) \subseteq PartsOf(Previous)
        BY DEF IInv, Reread
    <2> QED BY <1>1, <1>2, <1>5, <1>7, <2>1
<1>11. \A i \in DOMAIN source' :
            /\ source'[i].parts = Previous'[i].parts
            /\ source'[i].strokes # <<>>
            /\ IF Handled(i)' THEN ToSet(source'[i].parts) \subseteq PartsOf(Made)'
                              ELSE ToSet(source'[i].parts) \cap PartsOf(Made)' = {}
    BY <1>7, <1>9 DEF IInv, Reread
<1>12. Reread'
    BY <1>4, <1>7, <1>8, <1>10, <1>11 DEF IInv, Reread, DoJoin
<1> QED BY <1>5, <1>6, <1>12

LEMMA StepJoinStart ==
    ASSUME IInv, JoinStart
    PROVE  IInv'
<1> DEFINE c == Copied(source[pos])
<1>1. /\ phase = "join" /\ ~joining /\ pos < Len(source) /\ source[pos].live
      /\ dest' = Flushed /\ pen' = c /\ joining' = TRUE
      /\ UNCHANGED <<phase, todo, source, pos, files, bounds, options>>
    BY DEF JoinStart, Current
<1>2. /\ source \in Seq(Segment) /\ Len(source) \in Nat /\ DOMAIN source = 1 .. Len(source)
      /\ \A i \in DOMAIN source : source[i] \in Segment
    BY <1>1, Rereading
<1>3. pos \in DOMAIN source /\ pos <= Len(source) /\ pos' \in 1 .. Len(source) + 1
    BY <1>1, <1>2 DEF IInv, Typed
<1>4. IsCopy(c, source[pos])
    BY <1>2, <1>3, CopiedIsCopy
<1> HIDE DEF c
<1>5. \A i \in DOMAIN source : Handled(i)' <=> Handled(i) \/ i = pos
    BY <1>1 DEF Handled
<1>6. /\ dest' \in Seq(Written) /\ pen' \in Pen /\ AtMostOnce' /\ JointsNear'
      /\ OnlyLastLost' /\ ReadyToDraw' /\ Passed' /\ Reread'
    BY <1>1, <1>3, <1>4, <1>5, CopyOpened
<1>7. Typed'
    BY <1>1, <1>3, <1>6 DEF IInv, Typed
<1>8. c.strokes # <<>>
    BY <1>1, <1>3, <1>4 DEF IInv, Reread, IsCopy
<1>9. Searches'
    BY <1>1, <1>8 DEF Searches
<1>10. Origins'
    <2>1. \A i \in DOMAIN source : OnGlobe(source[i].origin)
        BY <1>1 DEF IInv, Origins
    <2>2. Abs(c.start[1] - c.origin[1]) <= 1 /\ Abs(c.start[2] - c.origin[2]) <= 1
        BY <1>2, <1>3, <1>4, <2>1, CopyOrigin
    <2> QED BY <1>1, <2>1, <2>2 DEF Origins
<1> QED BY <1>6, <1>7, <1>9, <1>10 DEF IInv

LEMMA StepThinSegment ==
    ASSUME IInv, ThinSegment
    PROVE  IInv'
<1>1. /\ phase = "thin" /\ ~joining /\ pos <= Len(source)
      /\ dest' = Flushed /\ pos' = pos + 1
      /\ UNCHANGED <<phase, todo, source, joining, files, bounds, options>>
    BY DEF IInv, Searches, ThinSegment
<1>2. /\ source \in Seq(Segment) /\ Len(source) \in Nat /\ DOMAIN source = 1 .. Len(source)
      /\ \A i \in DOMAIN source : source[i] \in Segment
    BY <1>1, Rereading
<1>3. pos \in DOMAIN source /\ pos' \in 1 .. Len(source) + 1 /\ pos \in Nat
    BY <1>1, <1>2 DEF IInv, Typed
<1>4. source[pos].strokes # <<>> /\ \A i \in DOMAIN source : source[i].live
    BY <1>1, <1>3 DEF IInv, Reread
<1>5. PICK c : pen' = c /\ IsCopy(c, source[pos])
    <2>1. pen' \in IF Thins THEN Thinned(source[pos]) ELSE {Copied(source[pos])}
        BY DEF ThinSegment
    <2> QED BY <1>2, <1>3, <1>4, <2>1, CopiedIsCopy, ThinnedAreCopies
<1>6. \A i \in DOMAIN source : Handled(i)' <=> Handled(i) \/ i = pos
    BY <1>1, <1>2, <1>3, <1>4 DEF Handled
<1>7. /\ dest' \in Seq(Written) /\ pen' \in Pen /\ AtMostOnce' /\ JointsNear'
      /\ OnlyLastLost' /\ ReadyToDraw' /\ Passed' /\ Reread'
    BY <1>1, <1>3, <1>4, <1>5, <1>6, CopyOpened
<1>8. Typed'
    BY <1>1, <1>3, <1>7 DEF IInv, Typed
<1>9. Searches' /\ Origins'
    BY <1>1 DEF Searches, Origins
<1> QED BY <1>7, <1>8, <1>9 DEF IInv

\* Joining takes a segment that was not drawn yet out of the source.
LEMMA SpentIs ==
    ASSUME source \in Seq(Segment), NEW j \in 1 .. Len(source)
    PROVE  /\ Spent(j) \in Seq(Segment) /\ Len(Spent(j)) = Len(source)
           /\ DOMAIN Spent(j) = DOMAIN source
           /\ \A i \in DOMAIN source :
                /\ Spent(j)[i].parts = source[i].parts
                /\ Spent(j)[i].strokes = source[i].strokes
                /\ Spent(j)[i].origin = source[i].origin
                /\ i # j => Spent(j)[i] = source[i]
                /\ i = j => ~Spent(j)[i].live
<1>1. PICK n \in Nat : n = Len(source) /\ DOMAIN source = 1 .. n
    BY LenProperties
<1>2. \A i \in 1 .. n : source[i] \in Segment
    BY <1>1, ElementOfSeq
<1>3. PICK s : /\ s \in Segment /\ s = [source[j] EXCEPT !.live = FALSE]
               /\ s.parts = source[j].parts /\ s.strokes = source[j].strokes
               /\ s.origin = source[j].origin /\ ~s.live
    <2> DEFINE s == [source[j] EXCEPT !.live = FALSE]
    <2>1. source[j] \in Segment
        BY <1>1, <1>2
    <2>2. s \in Segment
        BY <2>1 DEF Segment
    <2>3. /\ s.parts = source[j].parts /\ s.strokes = source[j].strokes
          /\ s.origin = source[j].origin /\ ~s.live
        BY <2>1 DEF Segment
    <2> QED BY <2>2, <2>3
<1>4. Spent(j) = [source EXCEPT ![j] = s]
    BY <1>3 DEF Spent
<1>5. Spent(j) \in Seq(Segment) /\ Len(Spent(j)) = n
    BY <1>1, <1>3, <1>4, ExceptSeq
<1>6. DOMAIN Spent(j) = 1 .. n
    BY <1>5, LenProperties
<1>7. Spent(j)[j] = s /\ \A i \in 1 .. n : i # j => Spent(j)[i] = source[i]
    BY <1>1, <1>4
<1> QED BY <1>1, <1>3, <1>5, <1>6, <1>7

\* The open segment, reversed if need be: the same parts, and the end that is
\* to be joined at most a unit from where join_map sees it.
LEMMA ReversedForTyped ==
    ASSUME IInv, phase = "join", joining, NEW m \in Methods
    PROVE  LET r == ReversedFor(m)
           IN  /\ r \in Written
               /\ ToSet(r.parts) = ToSet(pen.parts) /\ IsInjective(r.parts)
               /\ r.joints = pen.joints
               /\ r.end \in Point /\ OwnEnd(m) \in Point
               /\ r.end[1] - OwnEnd(m)[1] <= 1 /\ OwnEnd(m)[1] - r.end[1] <= 1
               /\ r.end[2] - OwnEnd(m)[2] <= 1 /\ OwnEnd(m)[2] - r.end[2] <= 1
<1>1. pen \in Pen /\ pen.strokes # <<>> /\ pen \in Written
    BY DEF IInv, Typed, Searches, Written
<1>2. IsInjective(pen.parts)
    BY FlushedTyped DEF IInv, Typed
<1>3. pen.start \in Point /\ pen.end \in Point /\ pen.origin \in Point /\ pen.parts \in Seq(Nat \X Nat)
    BY <1>1 DEF Pen
<1>4. CASE m \in {JOIN_START_TO_START, JOIN_START_TO_END}
    <2>1. PICK r \in Written : /\ r = ReversedFor(m) /\ r.parts = Reverse(pen.parts)
                              /\ r.joints = pen.joints /\ r.end = pen.origin
        BY <1>1, <1>4, ReversedTyped DEF ReversedFor
    <2>2. ToSet(r.parts) = ToSet(pen.parts) /\ IsInjective(r.parts)
        BY <1>2, <1>3, <2>1, ReverseTyped
    <2>3. OwnEnd(m) = pen.start
        BY <1>4 DEF OwnEnd
    <2>4. Abs(pen.start[1] - pen.origin[1]) <= 1 /\ Abs(pen.start[2] - pen.origin[2]) <= 1
        BY DEF IInv, Origins
    <2>5. /\ pen.origin[1] - pen.start[1] <= 1 /\ pen.start[1] - pen.origin[1] <= 1
          /\ pen.origin[2] - pen.start[2] <= 1 /\ pen.start[2] - pen.origin[2] <= 1
        BY <1>3, <2>4 DEF Abs, Point
    <2> QED BY <1>3, <2>1, <2>2, <2>3, <2>5
<1>5. CASE m \notin {JOIN_START_TO_START, JOIN_START_TO_END}
    <2>1. ReversedFor(m) = pen /\ OwnEnd(m) = pen.end
        BY <1>5 DEF ReversedFor, OwnEnd
    <2>2. pen.end[1] - pen.end[1] <= 1 /\ pen.end[2] - pen.end[2] <= 1
        BY <1>3 DEF Point
    <2> QED BY <1>1, <1>2, <1>3, <2>1, <2>2
<1> QED BY <1>4, <1>5

LEMMA OtherEndTyped ==
    ASSUME NEW j, source[j] \in Segment, NEW m
    PROVE  OtherEnd(m, j) \in Point
<1>1. source[j].origin \in Point /\ source[j].strokes \in Seq(Point)
    BY DEF Segment
<1>2. PICK ps \in Seq(Point), n \in Nat : ps = Points(source[j]) /\ Len(ps) = n + 1
    <2>1. Len(source[j].strokes) \in Nat
        BY <1>1, LenProperties
    <2> QED BY <1>1, <2>1, PointsTyped
<1>3. Last(ps) \in Point
    <2>1. n + 1 \in 1 .. Len(ps)
        BY <1>2
    <2> QED BY <1>2, <2>1, ElementOfSeq DEF Last
<1> QED BY <1>1, <1>2, <1>3 DEF OtherEnd

LEMMA StepJoinBest ==
    ASSUME IInv, JoinBest
    PROVE  IInv'
<1>1. phase = "join" /\ joining
      /\ UNCHANGED <<phase, todo, pos, dest, joining, files, bounds, options>>
    BY DEF JoinBest
<1>2. PICK k \in Joins : /\ source' = Spent(k[1])
                        /\ pen' = Appended(ReversedFor(k[2]), source[k[1]],
                                    k[2] \in {JOIN_START_TO_END, JOIN_END_TO_END})
    BY DEF JoinBest
<1>3. /\ source \in Seq(Segment) /\ Len(source) \in Nat /\ DOMAIN source = 1 .. Len(source)
      /\ \A i \in DOMAIN source :
            /\ source[i] \in Segment
            /\ IsInjective(source[i].parts)
            /\ ToSet(source[i].parts) \subseteq PartsOf(Previous)
            /\ \A j \in DOMAIN source \ {i} :
                    ToSet(source[i].parts) \cap ToSet(source[j].parts) = {}
    BY <1>1, Rereading
<1>4. PICK j, m : /\ j = k[1] /\ m = k[2] /\ m \in Methods /\ j \in Candidates
                  /\ Near(OwnEnd(m), OtherEnd(m, j))
    BY <1>2 DEF Joins
<1>5. j \in pos + 1 .. Len(source) /\ source[j].live
    BY <1>4 DEF Candidates
<1>6. pos \in Nat /\ j \in 1 .. Len(source) /\ j > pos
    BY <1>3, <1>5 DEF IInv, Typed
<1> DEFINE b == m \in {JOIN_START_TO_END, JOIN_END_TO_END}
<1>7. b \in BOOLEAN /\ (b <=> m \in {2, 4})
    BY DEF JOIN_START_TO_END, JOIN_END_TO_END
<1> HIDE DEF b
<1>8. PICK r \in Written :
        /\ r = ReversedFor(m)
        /\ ToSet(r.parts) = ToSet(pen.parts) /\ IsInjective(r.parts)
        /\ r.joints = pen.joints
        /\ r.end \in Point /\ OwnEnd(m) \in Point
        /\ r.end[1] - OwnEnd(m)[1] <= 1 /\ OwnEnd(m)[1] - r.end[1] <= 1
        /\ r.end[2] - OwnEnd(m)[2] <= 1 /\ OwnEnd(m)[2] - r.end[2] <= 1
    BY <1>1, <1>4, ReversedForTyped
<1>9. PICK x \in Point : /\ x = OtherEnd(m, j)
                        /\ x = IF b THEN Last(Points(source[j])) ELSE source[j].origin
    <2>1. OtherEnd(m, j) \in Point
        BY <1>3, <1>6, OtherEndTyped
    <2>2. OtherEnd(m, j) = IF b THEN Last(Points(source[j])) ELSE source[j].origin
        <3>1. m \in {1, 2, 3, 4}
            BY <1>4 DEF Methods
        <3>2. m \in {JOIN_START_TO_START, JOIN_END_TO_START} <=> ~b
            BY <1>7, <3>1 DEF JOIN_START_TO_START, JOIN_END_TO_START
        <3> QED BY <3>2 DEF OtherEnd
    <2> QED BY <2>1, <2>2
<1>10. PICK a \in Written : /\ a = pen'
                           /\ a.parts = r.parts \o source[j].parts
                           /\ a.joints = r.joints \cup {<<r.end, x>>}
                           /\ a.start = a.origin
    <2>1. pen' = Appended(ReversedFor(m), source[j], m \in {JOIN_START_TO_END, JOIN_END_TO_END})
        BY <1>2, <1>4
    <2>2. source[j] \in Segment
        BY <1>3, <1>6
    <2>3. CASE b
        <3>1. pen' = Appended(r, source[j], TRUE)
            BY <1>8, <2>1, <2>3 DEF Appended, b
        <3>2. PICK a : a = Appended(r, source[j], TRUE)
            OBVIOUS
        <3>3. /\ a \in Written /\ a.parts = r.parts \o source[j].parts
              /\ a.joints = r.joints \cup {<<r.end, Last(Points(source[j]))>>}
              /\ a.start = a.origin
            BY <2>2, <3>2, AppendedTyped
        <3>4. x = Last(Points(source[j]))
            BY <1>9, <2>3
        <3> QED BY <3>1, <3>2, <3>3, <3>4
    <2>4. CASE ~b
        <3>1. pen' = Appended(r, source[j], FALSE)
            BY <1>8, <2>1, <2>4 DEF Appended, b
        <3>2. PICK a : a = Appended(r, source[j], FALSE)
            OBVIOUS
        <3>3. /\ a \in Written /\ a.parts = r.parts \o source[j].parts
              /\ a.joints = r.joints \cup {<<r.end, source[j].origin>>}
              /\ a.start = a.origin
            BY <2>2, <3>2, AppendedTyped
        <3>4. x = source[j].origin
            BY <1>9, <2>4
        <3> QED BY <3>1, <3>2, <3>3, <3>4
    <2> QED BY <2>3, <2>4
<1>11. JointsNear'
    <2>1. DLat(r.end, x) <= DLat(OwnEnd(m), x) + 1 /\ DLon(r.end, x) <= DLon(OwnEnd(m), x) + 1
        BY <1>8, DLatStep, DLonStep
    <2>2. DLat(OwnEnd(m), x) <= Tolerance /\ DLon(OwnEnd(m), x) <= Tolerance
        BY <1>4, <1>9 DEF Near
    <2>3. \A p \in Point, q \in Point : DLat(p, q) \in Int /\ DLon(p, q) \in Int
        <3> TAKE p \in Point, q \in Point
        <3>1. DLat(p, q) \in Int /\ Abs(p[2] - q[2]) \in Int
            BY DEF DLat, Abs, Point
        <3>2. PICK h \in Nat \ {0} : h = 2 * Half
            BY EditAssumption
        <3>3. Abs(p[2] - q[2]) % h \in Int
            BY <3>1, <3>2
        <3> QED BY <3>1, <3>2, <3>3 DEF DLon, Least
    <2>4. DLat(r.end, x) <= Tolerance + 1 /\ DLon(r.end, x) <= Tolerance + 1
        <3>1. PICK u \in Int, v \in Int, w \in Int, z \in Int :
                /\ u = DLat(r.end, x) /\ v = DLon(r.end, x)
                /\ w = DLat(OwnEnd(m), x) /\ z = DLon(OwnEnd(m), x)
            BY <1>8, <2>3
        <3>2. u <= w + 1 /\ v <= z + 1 /\ w <= Tolerance /\ z <= Tolerance
            BY <2>1, <2>2, <3>1
        <3>3. u <= Tolerance + 1 /\ v <= Tolerance + 1
            BY <3>2, EditAssumption
        <3> QED BY <3>1, <3>3
    <2>5. \A i \in pen.joints : DLat(i[1], i[2]) <= Tolerance + 1 /\ DLon(i[1], i[2]) <= Tolerance + 1
        BY DEF IInv, JointsNear
    <2> QED BY <1>8, <1>10, <2>4, <2>5 DEF JointsNear
<1>12. ToSet(source[j].parts) \cap PartsOf(Made) = {} /\ ~Handled(j)
    <2>1. ~Handled(j)
        BY <1>5, <1>6 DEF Handled
    <2> QED BY <1>1, <1>3, <1>6, <2>1 DEF IInv, Reread
<1>13. /\ PartsOf(Made) = PartsOf(dest) \cup ToSet(pen.parts)
       /\ Distinct(dest) /\ ToSet(pen.parts) \cap PartsOf(dest) = {}
    BY FlushedTyped DEF IInv, Typed
<1>14. /\ ToSet(a.parts) = ToSet(pen.parts) \cup ToSet(source[j].parts)
       /\ IsInjective(a.parts)
    <2>1. r.parts \in Seq(Nat \X Nat) /\ source[j].parts \in Seq(Nat \X Nat)
        BY <1>3, <1>6 DEF Written, Pen, Segment
    <2>2. IsInjective(source[j].parts) /\ ToSet(r.parts) \cap ToSet(source[j].parts) = {}
        BY <1>3, <1>6, <1>8, <1>12, <1>13
    <2> QED BY <1>8, <1>10, <2>1, <2>2, JoinedParts
<1>15. AtMostOnce' /\ PartsOf(Made)' = PartsOf(Made) \cup ToSet(source[j].parts)
    <2>1. dest \in Seq(Pen) /\ a \in Pen
        BY WrittenArePens DEF IInv, Typed, Written
    <2>2. Made' = Append(dest, a)
        BY <1>1, <1>10 DEF Made
    <2>3. PartsOf(Append(dest, a)) = PartsOf(dest) \cup ToSet(a.parts)
        BY <2>1, PartsOfAppend
    <2>4. PartsOf(Made)' = PartsOf(dest) \cup ToSet(a.parts)
        BY <2>2, <2>3 DEF PartsOf
    <2>5. ToSet(a.parts) \cap PartsOf(dest) = {}
        BY <1>12, <1>13, <1>14
    <2>6. Distinct(Append(dest, a))
        BY <1>13, <1>14, <2>1, <2>5, DistinctAppend
    <2> QED BY <1>13, <1>14, <2>2, <2>4, <2>6 DEF AtMostOnce, Distinct
<1>16. /\ source' \in Seq(Segment) /\ Len(source') = Len(source) /\ DOMAIN source' = DOMAIN source
       /\ \A i \in DOMAIN source :
            /\ source'[i].parts = source[i].parts
            /\ source'[i].strokes = source[i].strokes
            /\ source'[i].origin = source[i].origin
            /\ i # j => source'[i] = source[i]
            /\ i = j => ~source'[i].live
    BY <1>2, <1>3, <1>4, <1>6, SpentIs
<1>17. Typed'
    <2>1. pen' \in Pen
        BY <1>10 DEF Written
    <2> QED BY <1>1, <1>16, <2>1 DEF IInv, Typed
<1>18. OnlyLastLost' /\ ReadyToDraw' /\ Passed'
    BY <1>1 DEF IInv, OnlyLastLost, ReadyToDraw, PartsOf, Passed
<1>19. Searches'
    <2>1. pen'.strokes # <<>>
        BY <1>10 DEF Written
    <2>2. pos < Len(source) /\ source[pos].live
        BY <1>1 DEF IInv, Searches
    <2>3. pos \in DOMAIN source /\ pos # j
        BY <1>3, <1>6, <2>2 DEF IInv, Typed
    <2> QED BY <1>1, <1>16, <2>1, <2>2, <2>3 DEF Searches
<1>20. Origins'
    <2>1. \A i \in DOMAIN source : OnGlobe(source[i].origin)
        BY <1>1 DEF IInv, Origins
    <2>2. Abs(a.start[1] - a.origin[1]) <= 1 /\ Abs(a.start[2] - a.origin[2]) <= 1
        <3>1. a.origin \in Point
            BY DEF Written, Pen
        <3>2. a.origin[1] - a.origin[1] = 0 /\ a.origin[2] - a.origin[2] = 0
            BY <3>1 DEF Point
        <3> QED BY <1>10, <3>2 DEF Abs
    <2> QED BY <1>1, <1>10, <1>16, <2>1, <2>2 DEF Origins
<1>21. Reread'
    <2>1. Previous' = Previous /\ PartsOf(Previous)' = PartsOf(Previous)
        BY <1>1 DEF Previous, DoJoin, PartsOf
    <2>2. Distinct(Previous)'
        BY <1>1, <2>1 DEF IInv, Reread, Distinct
    <2>3. \A i \in DOMAIN source : Handled(i)' <=> Handled(i) \/ i = j
        BY <1>1, <1>16 DEF Handled
    <2>4. ASSUME NEW i \in DOMAIN source
          PROVE  IF Handled(i)' THEN ToSet(source[i].parts) \subseteq PartsOf(Made)'
                                ELSE ToSet(source[i].parts) \cap PartsOf(Made)' = {}
        <3>1. IF Handled(i) THEN ToSet(source[i].parts) \subseteq PartsOf(Made)
                            ELSE ToSet(source[i].parts) \cap PartsOf(Made) = {}
            BY <1>1 DEF IInv, Reread
        <3>2. i # j => ToSet(source[i].parts) \cap ToSet(source[j].parts) = {}
            BY <1>3, <1>6
        <3>3. Handled(i)' <=> Handled(i) \/ i = j
            BY <2>3
        <3> QED BY <1>15, <3>1, <3>2, <3>3
    <2>5. PartsOf(Made)' \subseteq PartsOf(Previous)'
        <3>1. PartsOf(Made) \subseteq PartsOf(Previous)
            BY <1>1 DEF IInv, Reread
        <3> QED BY <1>3, <1>6, <1>15, <2>1, <3>1
    <2>6. \A i \in DOMAIN source' :
            /\ source'[i].parts = Previous'[i].parts
            /\ source'[i].strokes # <<>>
            /\ IF Handled(i)' THEN ToSet(source'[i].parts) \subseteq PartsOf(Made)'
                              ELSE ToSet(source'[i].parts) \cap PartsOf(Made)' = {}
        <3>1. \A i \in DOMAIN source : source[i].parts = Previous[i].parts /\ source[i].strokes # <<>>
            BY <1>1 DEF IInv, Reread
        <3> QED BY <1>16, <2>1, <2>4, <3>1
    <2>7. pen'.strokes # <<>> /\ Len(source') = Len(Previous')
        BY <1>1, <1>10, <1>16, <2>1 DEF Written, IInv, Reread
    <2>8. DoJoin' /\ files'["joined"].segs = <<>>
        BY <1>1 DEF IInv, Reread, DoJoin
    <2> QED BY <1>1, <2>2, <2>5, <2>6, <2>7, <2>8 DEF Reread
<1> QED BY <1>11, <1>15, <1>17, <1>18, <1>19, <1>20, <1>21 DEF IInv

\* thin_map leaves the same segments, in order.
LEMMA SortedTyped ==
    ASSUME NEW segs \in Seq(Written), NEW s \in Sortings(segs)
    PROVE  s \in Seq(Written) /\ PartsOf(s) = PartsOf(segs) /\ Ordered(s)
<1>1. PICK n \in Nat : n = Len(segs) /\ DOMAIN segs = 1 .. n
    BY LenProperties
<1>2. \A i \in 1 .. n : segs[i] \in Written
    BY <1>1, ElementOfSeq
<1>3. CASE Compare = "none"
    <2>1. s = segs
        BY <1>3 DEF Sortings
    <2>2. \A seg : Rank(seg) = 0
        BY <1>3 DEF Rank
    <2> QED BY <2>1, <2>2 DEF Ordered
<1>4. CASE Compare # "none"
    <2>1. PICK f \in Bijection(1 .. n, 1 .. n) : s = [i \in 1 .. n |-> segs[f[i]]] /\ Ordered(s)
        BY <1>1, <1>4 DEF Sortings
    <2>2. /\ \A i \in 1 .. n : f[i] \in 1 .. n
          /\ \A j \in 1 .. n : \E i \in 1 .. n : f[i] = j
        BY DEF Bijection, Injection, Surjection
    <2>3. \A i \in 1 .. n : s[i] = segs[f[i]] /\ s[i] \in Written
        BY <1>2, <2>1, <2>2
    <2>4. s \in Seq(Written) /\ DOMAIN s = 1 .. n
        BY <2>1, <2>3
    <2>5. PartsOf(s) = PartsOf(segs)
        <3>1. ASSUME NEW part \in PartsOf(s) PROVE part \in PartsOf(segs)
            <4>1. PICK i \in 1 .. n : part \in ToSet(s[i].parts)
                BY <2>4, <3>1 DEF PartsOf
            <4>2. s[i] = segs[f[i]] /\ f[i] \in DOMAIN segs
                BY <1>1, <2>2, <2>3
            <4> QED BY <4>1, <4>2 DEF PartsOf
        <3>2. ASSUME NEW part \in PartsOf(segs) PROVE part \in PartsOf(s)
            <4>1. PICK j \in 1 .. n : part \in ToSet(segs[j].parts)
                BY <1>1 DEF PartsOf
            <4>2. PICK i \in 1 .. n : f[i] = j
                BY <2>2
            <4>3. s[i] = segs[j] /\ i \in DOMAIN s
                BY <2>3, <2>4, <4>2
            <4> QED BY <4>1, <4>3 DEF PartsOf
        <3> QED BY <3>1, <3>2
    <2> QED BY <2>1, <2>4, <2>5
<1> QED BY <1>3, <1>4

LEMMA StepThinFinish ==
    ASSUME IInv, ThinFinish
    PROVE  IInv'
<1>1. /\ phase = "thin" /\ pos > Len(source)
      /\ phase' = "done" /\ dest' = <<>> /\ pen' = NoPen
      /\ UNCHANGED <<todo, source, pos, joining, bounds, options>>
    BY Zenon DEF ThinFinish
<1>2. PICK segs \in Sortings(Flushed) : files' = [files EXCEPT !["new"] = FileOf(segs)]
    BY Zenon DEF ThinFinish
<1>3. Flushed \in Seq(Written)
    BY FlushedTyped DEF IInv, Typed
<1>4. segs \in Seq(Written) /\ PartsOf(segs) = PartsOf(Flushed) /\ Ordered(segs)
    BY <1>3, SortedTyped
<1>5. FileOf(segs) \in File /\ FileOf(segs).segs = segs
    BY <1>4, FileTyped DEF IInv, Typed
<1>6. /\ files' \in [{"cc", "joined", "new"} -> File]
      /\ files'["new"] = FileOf(segs) /\ files'["cc"] = files["cc"]
      /\ files'["joined"] = files["joined"]
    BY <1>2, <1>5 DEF IInv, Typed
<1>7. Made' = <<NoPen>> /\ pen'.joints = {} /\ NoPen \in Pen
    BY <1>1, NothingMade, NoPenTyped DEF Made
<1>8. AtMostOnce' /\ JointsNear'
    BY <1>7, NothingMade DEF AtMostOnce, Distinct, JointsNear
<1>9. Typed'
    <2>1. dest' \in Seq(Written)
        BY <1>1
    <2> QED BY <1>1, <1>6, <1>7, <2>1 DEF IInv, Typed
<1>10. Searches' /\ Passed' /\ Reread' /\ Origins'
    BY <1>1 DEF Searches, Passed, Reread, Origins
<1>11. PartsOf(segs) = PartsOf(Previous)
    <2>1. PartsOf(Flushed) = PartsOf(Made) /\ PartsOf(Made) \subseteq PartsOf(Previous)
        BY <1>1, Rereading DEF IInv, Reread
    <2>2. ASSUME NEW part \in PartsOf(Previous) PROVE part \in PartsOf(Made)
        <3>1. PICK i \in DOMAIN source : part \in ToSet(source[i].parts)
            BY <1>1, Rereading
        <3>2. i \in 1 .. Len(source) /\ Len(source) \in Nat
            BY <1>1, Rereading
        <3>3. Handled(i)
            <4>1. pos \in Nat /\ pos > Len(source)
                BY <1>1, <3>2 DEF IInv, Typed
            <4>2. i < pos
                BY <3>2, <4>1
            <4> QED BY <4>2 DEF Handled
        <3> QED BY <1>1, <3>1, <3>3 DEF IInv, Reread
    <2> QED BY <1>4, <2>1, <2>2
<1>12. OnlyLastLost'
    <2>1. Previous = files[IF DoJoin THEN "joined" ELSE "cc"].segs
        BY <1>1 DEF Previous
    <2>2. PartsOf(files'["new"].segs) = PartsOf(files'[IF DoJoin THEN "joined" ELSE "cc"].segs)
        BY <1>5, <1>6, <1>11, <2>1
    <2>3. PartsOf(files["new"].segs)' = PartsOf(files[IF DoJoin THEN "joined" ELSE "cc"].segs)'
        BY <1>1, <2>2 DEF PartsOf, DoJoin
    <2>4. files["joined"].segs # <<>> =>
            PartsOf(files["cc"].segs) \ PartsOf(files["joined"].segs)
                \subseteq ToSet(Last(files["cc"].segs).parts)
        BY DEF IInv, OnlyLastLost
    <2>5. (files["joined"].segs # <<>> =>
            PartsOf(files["cc"].segs) \ PartsOf(files["joined"].segs)
                \subseteq ToSet(Last(files["cc"].segs).parts))'
        BY <1>6, <2>4 DEF PartsOf
    <2> QED BY <2>3, <2>5 DEF OnlyLastLost
<1>13. ReadyToDraw'
    <2>1. Ordered(segs)'
        BY <1>1, <1>4 DEF Ordered, Rank, Compare
    <2>2. files'["new"].segs = segs /\ files'["new"].lon_extent = LonExtent(segs)
          /\ files'["new"].lat_extent = LatExtent(segs)
        BY <1>6 DEF FileOf
    <2>3. \A i \in DOMAIN segs :
            /\ segs[i].lon_max - segs[i].lon_min <= LonExtent(segs)
            /\ segs[i].lat_max - segs[i].lat_min <= LatExtent(segs)
        BY <1>4, WrittenArePens, ExtentsTyped
    <2>4. \A i \in DOMAIN segs : segs[i].lon_min <= segs[i].lon_max
        <3> TAKE i \in DOMAIN segs
        <3>1. segs[i] \in Written
            BY <1>4, LenProperties, ElementOfSeq
        <3> QED BY <3>1 DEF Written, Pen
    <2>5. Ordered(files["new"].segs)'
        BY <2>1, <2>2 DEF Ordered, Rank, Compare
    <2> QED BY <2>2, <2>3, <2>4, <2>5 DEF ReadyToDraw
<1> QED BY <1>8, <1>9, <1>10, <1>12, <1>13 DEF IInv

LEMMA NextHolds == IInv /\ [Next]_vars => IInv'
<1> SUFFICES ASSUME IInv, [Next]_vars PROVE IInv'
    OBVIOUS
<1>1. CASE ClipOpen
    BY <1>1, StepClipOpen
<1>2. CASE ClipSegment
    BY <1>2, StepClipSegment
<1>3. CASE ClipFinish
    BY <1>3, StepClipFinish
<1>4. CASE JoinSkip
    BY <1>4, StepJoinSkip
<1>5. CASE JoinStart
    BY <1>5, StepJoinStart
<1>6. CASE JoinBest
    BY <1>6, StepJoinBest
<1>7. CASE JoinNext
    BY <1>7, StepJoinNext
<1>8. CASE JoinFinish
    BY <1>8, StepJoinFinish
<1>9. CASE ThinSegment
    BY <1>9, StepThinSegment
<1>10. CASE ThinFinish
    BY <1>10, StepThinFinish
<1>11. CASE WriteFails
    BY <1>11, StepWriteFails
<1>12. CASE UNCHANGED vars
    BY <1>12, StepUnchanged
<1> QED BY <1>1, <1>2, <1>3, <1>4, <1>5, <1>6, <1>7, <1>8, <1>9, <1>10, <1>11, <1>12 DEF Next

\* What is kept by the moved bounds is what meets the map, whole turns aside.
LEMMA KeepsAreMet ==
    ASSUME bounds \in Maps, Straddles => LonMin >= 0 /\ LonMax < 2 * Half,
           NEW seg \in Segment, -Half <= seg.lon_min, seg.lon_min <= seg.lon_max, seg.lon_max <= Half,
           IF Straddles THEN OneSide(seg) ELSE ~Touches(seg)
    PROVE  MeetsMap(seg) <=> Keeps(seg)
<1>1. PICK east \in Int, west \in Int, half \in Nat, turn \in Nat :
        /\ east = East /\ west = West /\ half = Half /\ turn = 2 * half /\ half > 0
    <2>1. bounds \in Int \X Int \X Int \X Int
        BY EditAssumption
    <2>2. East \in Int /\ West \in Int
        BY <2>1 DEF East, West
    <2> QED BY <2>2, EditAssumption
<1>2. PICK a \in Int, b \in Int :
        /\ a = seg.lon_min /\ b = seg.lon_max /\ -half <= a /\ a <= b /\ b <= half
    BY <1>1 DEF Segment
<1>3. PICK lo \in Int, hi \in Int :
        /\ lo = west /\ hi = IF east < west THEN east + turn ELSE east
    BY <1>1
<1>4. MeetsMap(seg) <=> /\ seg.lat_min <= North /\ seg.lat_max >= South
                        /\ \E t \in {-turn, 0, turn} : a + t <= hi /\ b + t >= lo
    BY <1>1, <1>2, <1>3 DEF MeetsMap
<1>5. CASE ~Straddles
    <2>1. east >= west /\ west >= -half /\ east <= half
        BY <1>1, <1>5 DEF Straddles
    <2>2. Keeps(seg) <=> seg.lat_min <= North /\ seg.lat_max >= South /\ a <= east /\ b >= west
        BY <1>1, <1>2, <1>5, <2>1 DEF Keeps, Shifted, LonMin, LonMax
    <2>3. ~(a = -half /\ east = half /\ west > -half) /\ ~(b = half /\ west = -half /\ east < half)
        BY <1>1, <1>2, <1>5 DEF Touches
    <2>4. a - turn <= hi /\ b - turn >= lo => a <= east /\ b >= west
        BY <1>1, <1>2, <1>3, <2>1, <2>3
    <2>5. a + turn <= hi /\ b + turn >= lo => a <= east /\ b >= west
        BY <1>1, <1>2, <1>3, <2>1, <2>3
    <2>6. a <= hi /\ b >= lo <=> a <= east /\ b >= west
        BY <1>3, <2>1
    <2>7. (\E t \in {-turn, 0, turn} : a + t <= hi /\ b + t >= lo) <=> a <= east /\ b >= west
        BY <1>1, <1>2, <1>3, <2>4, <2>5, <2>6
    <2> QED BY <1>4, <2>2, <2>7
<1>6. CASE Straddles
    <2>1. PICK s \in {0, turn} : /\ s = 0 => a >= 0
                                 /\ s = turn => b < 0
                                 /\ Shifted(seg.lon_min) = a + s /\ Shifted(seg.lon_max) = b + s
        <3>1. a >= 0 \/ b < 0
            BY <1>1, <1>2, <1>6 DEF OneSide
        <3>2. /\ Shifted(seg.lon_min) = IF a < 0 THEN a + turn ELSE a
              /\ Shifted(seg.lon_max) = IF b < 0 THEN b + turn ELSE b
            BY <1>1, <1>2, <1>6 DEF Shifted
        <3>3. CASE a >= 0
            BY <1>1, <1>2, <3>2, <3>3
        <3>4. CASE b < 0
            BY <1>1, <1>2, <3>2, <3>4
        <3> QED BY <3>1, <3>3, <3>4
    <2>2. PICK d \in {0, turn} :
            /\ LonMin = lo + d /\ LonMax = hi + d /\ lo + d >= 0 /\ hi + d < turn
            /\ d = turn => lo < -half
        <3>1. CASE east < west
            BY <1>1, <1>3, <1>6, <3>1 DEF LonMin, LonMax
        <3>2. CASE east >= west /\ west < -half
            BY <1>1, <1>3, <1>6, <3>2 DEF LonMin, LonMax
        <3>3. CASE east >= west /\ west >= -half
            BY <1>1, <1>3, <1>6, <3>3 DEF LonMin, LonMax
        <3> QED BY <1>1, <3>1, <3>2, <3>3
    <2>3. Keeps(seg) <=> /\ seg.lat_min <= North /\ seg.lat_max >= South
                         /\ a + s <= hi + d /\ b + s >= lo + d
        BY <2>1, <2>2 DEF Keeps
    <2>4. s - d \in {-turn, 0, turn} /\ (a + s <= hi + d /\ b + s >= lo + d
                                          <=> a + (s - d) <= hi /\ b + (s - d) >= lo)
        BY <1>1, <1>2, <1>3
    <2>5. ASSUME NEW t \in {-turn, 0, turn}, a + t <= hi, b + t >= lo
          PROVE  t = s - d
        <3>1. 0 <= a + s /\ b + s < turn
            BY <1>1, <1>2, <2>1
        <3>2. b + (t + d) >= 0 /\ a + (t + d) < turn
            BY <1>1, <1>2, <1>3, <2>2, <2>5
        <3>3. CASE t + d = s
            BY <1>1, <3>3
        <3>4. CASE t + d >= s + turn
            BY <1>1, <1>2, <3>1, <3>2, <3>4
        <3>5. CASE t + d <= s - turn
            BY <1>1, <1>2, <3>1, <3>2, <3>5
        <3>6. t + d = s \/ t + d >= s + turn \/ t + d <= s - turn
            BY <1>1
        <3> QED BY <3>3, <3>4, <3>5, <3>6
    <2>6. (\E t \in {-turn, 0, turn} : a + t <= hi /\ b + t >= lo)
            <=> a + s <= hi + d /\ b + s >= lo + d
        BY <2>4, <2>5
    <2> QED BY <1>4, <2>3, <2>6
<1> QED BY <1>5, <1>6

LEMMA ClipFollows ==
    ASSUME IInv
    PROVE  ClipKeeps
<1> SUFFICES ASSUME phase = "clip", Straddles => LonMin >= 0 /\ LonMax < 2 * Half,
                    NEW i \in 1 .. pos - 1, source[i].strokes # <<>>,
                    IF Straddles THEN OneSide(source[i]) ELSE ~Touches(source[i])
             PROVE  MeetsMap(source[i]) <=> ToSet(source[i].parts) \subseteq PartsOf(Flushed)
    BY DEF ClipKeeps
<1>1. Keeps(source[i]) <=> ToSet(source[i].parts) \subseteq PartsOf(Flushed)
    BY DEF IInv, Passed
<1>2. /\ source \in Seq(Segment) /\ Len(source) \in Nat /\ DOMAIN source = 1 .. Len(source)
      /\ pos \in 1 .. Len(source) + 1
    BY LenProperties DEF IInv, Typed
<1>3. i \in DOMAIN source
    BY <1>2
<1>4. PICK input \in Inputs, k \in Nat : k \in 0 .. Len(input) /\ source = IF k = 0 THEN <<>> ELSE input[k]
    BY DEF IInv, Passed
<1>5. k \in DOMAIN input /\ source = input[k]
    <2>1. k # 0
        BY <1>2, <1>3, <1>4
    <2>2. input \in Seq(Seq(Segment))
        BY EditAssumption
    <2>3. DOMAIN input = 1 .. Len(input) /\ Len(input) \in Nat
        BY <2>2, LenProperties
    <2> QED BY <1>4, <2>1, <2>3
<1>6. -Half <= source[i].lon_min /\ source[i].lon_min <= source[i].lon_max /\ source[i].lon_max <= Half
    BY <1>3, <1>5, EditAssumption
<1>7. source[i] \in Segment
    BY <1>2, <1>3, ElementOfSeq
<1>8. MeetsMap(source[i]) <=> Keeps(source[i])
    BY <1>6, <1>7, KeepsAreMet DEF IInv, Typed
<1> QED BY <1>1, <1>8

-----------------------------------------------------------------------------
(***************************************************************************)
(* The theorems.                                                           *)
(***************************************************************************)

\* The invariant that every step of the three passes keeps.
THEOREM Invariance == Spec => []IInv
<1> QED BY InitHolds, NextHolds, PTL DEF Spec

\* Every pass of cdb_edit keeps its variables in their types; what it writes
\* has strokes.
THEOREM TypeCorrect == Spec => []Typed
<1>1. IInv => Typed
    BY DEF IInv
<1> QED BY <1>1, Invariance, PTL

\* No segment of the source files is drawn twice into a file that is made,
\* however join_map (cdb_edit.c:447) reverses and joins, for any source files.
THEOREM OnceCorrect == Spec => []AtMostOnce
<1>1. IInv => AtMostOnce
    BY DEF IInv
<1> QED BY <1>1, Invariance, PTL

\* No pass loses a segment but join_map, whose loop stops before the last one
\* (cdb_edit.c:474), and it loses no other.
THEOREM LostCorrect == Spec => []OnlyLastLost
<1>1. IInv => OnlyLastLost
    BY DEF IInv
<1> QED BY <1>1, Invariance, PTL

\* Whatever was joined and reversed before, find_best_candidate joins ends that
\* lie within the tolerance and one stored unit of each other.
THEOREM JointsCorrect == Spec => []JointsNear
<1>1. IInv => JointsNear
    BY DEF IInv
<1> QED BY <1>1, Invariance, PTL

\* The file that finish_new_file leaves is in the order its header claims, and
\* its extents bound every segment: what the search of draw_cdb relies on.
THEOREM ReadyCorrect == Spec => []ReadyToDraw
<1>1. IInv => ReadyToDraw
    BY DEF IInv
<1> QED BY <1>1, Invariance, PTL

\* clip_and_concat_files keeps the segments that meet the map and no others,
\* for the maps, and the segments, that ClipKeeps is about.
THEOREM ClipCorrect == Spec => []ClipKeeps
<1>1. IInv => ClipKeeps
    BY ClipFollows
<1> QED BY <1>1, Invariance, PTL
=============================================================================
