------------------------------ MODULE PointsProofs ------------------------------
(***************************************************************************)
(* What the run checks of Ungrid, Irregrid and WdbToCdb on a few cells,    *)
(* lines and records, proved for grids of any size, any data, any input    *)
(* and any coastlines.                                                     *)
(***************************************************************************)
EXTENDS Points, SumProofs, SequenceTheorems

-----------------------------------------------------------------------------
(***************************************************************************)
(* irregrid.                                                               *)
(***************************************************************************)

LEMMA Scaled ==
    ASSUME NEW x \in Int, NEW y \in Int, NEW k \in Nat, x <= y
    PROVE  x * k <= y * k /\ x * k \in Int /\ y * k \in Int
<1>1. (y - x) * k \in Nat
    <2>1. y - x \in Nat
        OBVIOUS
    <2>2. \A n \in Nat : n * k \in Nat
        OBVIOUS
    <2> QED BY <2>1, <2>2
<1>2. (y - x) * k = y * k - x * k
    OBVIOUS
<1> QED BY <1>1, <1>2

LEMMA SquareTyped ==
    ASSUME NEW x \in Int
    PROVE  x * x \in Nat
BY SMT

\* The constants of Irregrid.
LEMMA IrregridConstants ==
    /\ Rows \in Nat \ {0} /\ Cols \in Nat \ {0} /\ MaxLines \in Nat /\ Unit \in Nat \ {0}
    /\ Lines \subseteq Irregrid!Line
    /\ Radii \subseteq Nat /\ Fills \subseteq Int
    /\ IMPOSSIBLY_LARGE \in Int /\ NotANumber \notin Int
    /\ \A R \in Radii : 2 * R * R <= Unit /\ R * R <= IMPOSSIBLY_LARGE
BY PointsAssumption DEF Irregrid!IrregridAssumption

LEMMA IrregridMethods == Methods \subseteq {"cressman", "cressman -c", "drop", "inv_dist", "near"}
BY PointsAssumption, Zenon DEF Irregrid!IrregridAssumption

LEMMA DistanceTyped ==
    ASSUME NEW l \in Irregrid!Line, NEW c \in Irregrid!Cells
    PROVE  Irregrid!D2(l, c) \in Nat
<1>1. l.s \in Int /\ l.r \in Int /\ c[1] \in Int /\ c[2] \in Int
    BY IrregridConstants DEF Irregrid!Line, Irregrid!Cells
<1>2. l.s - 2 * c[1] \in Int /\ l.r - 2 * c[2] \in Int
    BY <1>1
<1>3. (l.s - 2 * c[1]) * (l.s - 2 * c[1]) \in Nat /\ (l.r - 2 * c[2]) * (l.r - 2 * c[2]) \in Nat
    BY <1>2, SquareTyped
<1> QED BY <1>3 DEF Irregrid!D2

\* One value more, with a weight that is not negative, keeps the mean between.
LEMMA MeanStep ==
    ASSUME NEW sum \in Int, NEW weight \in Nat, NEW reach, NEW u, NEW w \in Nat, NEW l \in Irregrid!Line, NEW i,
           u = <<i, l>>,
           \A x \in reach : x[2].v \in Int,
           weight = 0 => sum = 0,
           weight # 0 => Irregrid!Mean(sum, weight, reach),
           weight + w # 0
    PROVE  Irregrid!Mean(sum + l.v * w, weight + w, reach \cup {u})
<1> DEFINE v == l.v
<1>1. v \in Int /\ u[2].v = v /\ v * w \in Int /\ sum + v * w \in Int /\ weight + w \in Nat
    BY DEF Irregrid!Line
<1> HIDE DEF v
<1>2. CASE weight = 0
    <2>1. v * (weight + w) = sum + v * w
        BY <1>1, <1>2
    <2>2. u[2].v * (weight + w) <= sum + v * w /\ sum + v * w <= u[2].v * (weight + w)
        BY <1>1, <2>1
    <2> QED BY <2>2 DEF Irregrid!Mean, v
<1>3. CASE weight # 0
    <2>1. PICK a, b \in reach : a[2].v * weight <= sum /\ sum <= b[2].v * weight
        BY <1>3 DEF Irregrid!Mean
    <2>2. PICK av, bv \in Int : av = a[2].v /\ bv = b[2].v
        BY <2>1
    <2>3. av * weight <= sum /\ sum <= bv * weight
        BY <2>1, <2>2
    <2>4. \E e \in reach \cup {u} : e[2].v * (weight + w) <= sum + v * w
        <3>1. CASE v <= av
            <4>1. v * weight <= av * weight /\ v * weight \in Int /\ av * weight \in Int
                BY <1>1, <2>2, <3>1, Scaled
            <4>2. v * (weight + w) = v * weight + v * w
                BY <1>1
            <4>3. v * (weight + w) <= sum + v * w
                BY <1>1, <2>3, <4>1, <4>2
            <4> QED BY <1>1, <4>3
        <3>2. CASE av <= v
            <4>1. av * w <= v * w /\ av * w \in Int /\ av * weight \in Int
                BY <1>1, <2>2, <3>2, Scaled
            <4>2. av * (weight + w) = av * weight + av * w
                BY <2>2
            <4>3. av * (weight + w) <= sum + v * w
                BY <1>1, <2>3, <4>1, <4>2
            <4> QED BY <2>1, <2>2, <4>3
        <3> QED BY <1>1, <2>2, <3>1, <3>2
    <2>5. \E e \in reach \cup {u} : sum + v * w <= e[2].v * (weight + w)
        <3>1. CASE bv <= v
            <4>1. bv * weight <= v * weight /\ v * weight \in Int /\ bv * weight \in Int
                BY <1>1, <2>2, <3>1, Scaled
            <4>2. v * (weight + w) = v * weight + v * w
                BY <1>1
            <4>3. sum + v * w <= v * (weight + w)
                BY <1>1, <2>3, <4>1, <4>2
            <4> QED BY <1>1, <4>3
        <3>2. CASE v <= bv
            <4>1. v * w <= bv * w /\ bv * w \in Int /\ bv * weight \in Int
                BY <1>1, <2>2, <3>2, Scaled
            <4>2. bv * (weight + w) = bv * weight + bv * w
                BY <2>2
            <4>3. sum + v * w <= bv * (weight + w)
                BY <1>1, <2>3, <4>1, <4>2
            <4> QED BY <2>1, <2>2, <4>3
        <3> QED BY <1>1, <2>2, <3>1, <3>2
    <2> QED BY <2>4, <2>5 DEF Irregrid!Mean, v
<1> QED BY <1>2, <1>3

\* The lines that reach a cell after one more was gridded.
Reaches(l, c) == IF method = "drop" THEN Irregrid!InRange(l, c) ELSE Irregrid!InShell(l, c)
LEMMA ReachingNext ==
    ASSUME method' = method, shell_radius' = shell_radius, NEW i, NEW l, used' = used \cup {<<i, l>>}, NEW c
    PROVE  /\ Reaches(l, c) => Irregrid!Reaching(c)' = Irregrid!Reaching(c) \cup {<<i, l>>}
           /\ ~Reaches(l, c) => Irregrid!Reaching(c)' = Irregrid!Reaching(c)
<1>1. \A k : Irregrid!InRange(k, c)' = Irregrid!InRange(k, c)
    BY DEF Irregrid!InRange, Irregrid!Range2, Irregrid!nearest
<1>2. \A k : Irregrid!InShell(k, c)' = Irregrid!InShell(k, c)
    BY <1>1 DEF Irregrid!InShell, Irregrid!R2
<1>3. \A k : Reaches(k, c)' = Reaches(k, c)
    BY <1>1, <1>2 DEF Reaches
<1>4. Irregrid!Reaching(c) = {u \in used : Reaches(u[2], c)}
    BY DEF Irregrid!Reaching, Reaches
<1>5. Irregrid!Reaching(c)' = {u \in used' : Reaches(u[2], c)'}
    BY DEF Irregrid!Reaching, Reaches
<1>6. Irregrid!Reaching(c)' = {u \in used \cup {<<i, l>>} : Reaches(u[2], c)}
    BY <1>3, <1>5
<1>7. <<i, l>>[2] = l
    OBVIOUS
<1> QED BY <1>4, <1>6, <1>7

LEMMA FractionTyped ==
    ASSUME NEW p \in Nat, NEW q \in Nat \ {0}
    PROVE  p \div q \in Nat /\ (p >= q => p \div q # 0)
BY SMT

\* The weights of cressman are not negative, and positive within the radius.
LEMMA CressmanTyped ==
    ASSUME NEW l \in Irregrid!Line, NEW c \in Irregrid!Cells, shell_radius \in Radii,
           Irregrid!D2(l, c) <= Irregrid!R2, Irregrid!R2 # 0
    PROVE  /\ Irregrid!cressman(l, c) \in Nat
           /\ Irregrid!cressman(l, c) = 0 => Irregrid!D2(l, c) = Irregrid!R2
<1> DEFINE d == Irregrid!D2(l, c)
           r == Irregrid!R2
<1>1. d \in Nat /\ r \in Nat \ {0} /\ d <= r /\ 2 * r <= Unit /\ Unit \in Nat
    <2>1. r = shell_radius * shell_radius /\ shell_radius \in Nat
        BY IrregridConstants DEF Irregrid!R2
    <2>2. r \in Nat
        BY <2>1, SquareTyped
    <2>3. 2 * shell_radius * shell_radius <= Unit /\ 2 * shell_radius * shell_radius = 2 * r
        BY <2>1, IrregridConstants
    <2>4. d <= r /\ r # 0
        OBVIOUS
    <2> HIDE DEF r
    <2> QED BY <2>2, <2>3, <2>4, DistanceTyped, IrregridConstants
<1>2. Irregrid!cressman(l, c) = (Unit * (r - d)) \div (r + d)
    BY DEF Irregrid!cressman
<1> HIDE DEF d, r
<1>3. r + d \in Nat \ {0} /\ r - d \in Nat
    BY <1>1
<1>4. Unit * (r - d) \in Nat
    BY <1>1, <1>3
<1>5. Irregrid!cressman(l, c) \in Nat
    BY <1>2, <1>3, <1>4, FractionTyped
<1>6. ASSUME d # r PROVE Irregrid!cressman(l, c) # 0
    <2>1. 1 <= r - d /\ r + d <= Unit
        BY <1>1, <1>6
    <2>2. 1 * Unit <= (r - d) * Unit
        BY <1>1, <1>3, <2>1, Scaled
    <2>3. Unit * (r - d) >= r + d
        BY <1>1, <2>1, <2>2
    <2> QED BY <1>2, <1>3, <1>4, <2>3, FractionTyped
<1> QED BY <1>5, <1>6 DEF d, r

\* So are those of inverse distance, but for the one at no distance.
LEMMA InverseTyped ==
    ASSUME NEW l \in Irregrid!Line, NEW c \in Irregrid!Cells, shell_radius \in Radii, fill \in Fills,
           Irregrid!D2(l, c) <= Irregrid!R2
    PROVE  /\ Irregrid!inv_dist(l, c) \in Int
           /\ Irregrid!D2(l, c) # 0 => Irregrid!inv_dist(l, c) \in Nat \ {0}
<1> DEFINE d == Irregrid!D2(l, c)
           r == Irregrid!R2
<1>1. d \in Nat /\ r \in Nat /\ d <= r /\ 2 * r <= Unit /\ Unit \in Nat /\ fill \in Int
    <2>1. r = shell_radius * shell_radius /\ shell_radius \in Nat
        BY IrregridConstants DEF Irregrid!R2
    <2>2. r \in Nat
        BY <2>1, SquareTyped
    <2>3. 2 * shell_radius * shell_radius <= Unit /\ 2 * shell_radius * shell_radius = 2 * r
        BY <2>1, IrregridConstants
    <2>4. d <= r
        OBVIOUS
    <2> HIDE DEF r
    <2> QED BY <2>2, <2>3, <2>4, DistanceTyped, IrregridConstants
<1>2. Irregrid!inv_dist(l, c) = IF d > 0 THEN (4 * Unit) \div d ELSE Unit * fill
    BY DEF Irregrid!inv_dist
<1> HIDE DEF d, r
<1>3. CASE d > 0
    <2>1. d \in Nat \ {0} /\ 4 * Unit \in Nat /\ 4 * Unit >= d
        BY <1>1, <1>3
    <2> QED BY <1>2, <1>3, <2>1, FractionTyped DEF d
<1>4. CASE ~(d > 0)
    <2>1. Unit * fill \in Int /\ d = 0
        BY <1>1, <1>4
    <2> QED BY <1>2, <1>4, <2>1 DEF d
<1> QED BY <1>3, <1>4

LEMMA PlusTyped ==
    ASSUME NEW a \in Int \cup {NotANumber}, NEW b \in Int \cup {NotANumber}
    PROVE  /\ Irregrid!Plus(a, b) \in Int \cup {NotANumber}
           /\ Irregrid!Times(a, b) \in Int \cup {NotANumber}
BY IrregridConstants DEF Irregrid!Plus, Irregrid!Times

LEMMA PlusOfNumbers ==
    ASSUME NEW a \in Int, NEW b \in Int
    PROVE  Irregrid!Plus(a, b) = a + b /\ Irregrid!Times(a, b) = a * b
BY IrregridConstants DEF Irregrid!Plus, Irregrid!Times

-----------------------------------------------------------------------------
\* The invariant at the start and where a line is not gridded.
LEMMA IrregridInit == Irregrid!Init => Irregrid!IInv
<1> SUFFICES ASSUME Irregrid!Init PROVE Irregrid!IInv
    OBVIOUS
<1> USE DEF Irregrid!Init
<1>1. fill \in Int /\ IMPOSSIBLY_LARGE \in Int
    BY IrregridConstants
<1>2. /\ to_data \in [Irregrid!Cells -> Int]
      /\ to_data_beta \in [Irregrid!Cells -> Int]
      /\ to_data_num_pts = [c \in Irregrid!Cells |-> 0]
      /\ method # "near" => \A c \in Irregrid!Cells : to_data[c] = 0 /\ to_data_beta[c] = 0
      /\ method = "near" => \A c \in Irregrid!Cells : to_data[c] = fill /\ to_data_beta[c] = IMPOSSIBLY_LARGE
    <2>1. CASE method = "near"
        BY <1>1, <2>1 DEF Irregrid!init_near_neighbor
    <2>2. CASE method # "near"
        BY <2>2 DEF Irregrid!init_sums
    <2> QED BY <2>1, <2>2
<1>3. Irregrid!TypeOK
    BY <1>2, IrregridConstants DEF Irregrid!TypeOK
<1>4. ASSUME NEW c \in Irregrid!Cells
      PROVE  Irregrid!Summed(c) /\ Irregrid!Dropped(c) /\ Irregrid!Kept(c)
    <2>1. Irregrid!Reaching(c) = {}
        BY DEF Irregrid!Reaching
    <2>2. to_data_num_pts[c] = 0
        BY <1>2
    <2>3. Irregrid!Summed(c)
        <3>1. CASE method = "near"
            BY <3>1 DEF Irregrid!Summed
        <3>2. CASE method # "near"
            <4>1. to_data[c] = 0 /\ to_data_beta[c] = 0
                BY <1>2, <3>2
            <4>2. to_data[c] \in Int /\ to_data_beta[c] \in Nat
                BY <4>1
            <4>3. \A u \in Irregrid!Reaching(c) : Irregrid!D2(u[2], c) = Irregrid!R2 /\ method # "inv_dist"
                BY <2>1
            <4> QED BY <4>1, <4>2, <4>3 DEF Irregrid!Summed
        <3> QED BY <3>1, <3>2
    <2>4. Irregrid!Dropped(c)
        BY <1>2, <2>1 DEF Irregrid!Dropped
    <2>5. Irregrid!Kept(c)
        BY <1>2, <2>1 DEF Irregrid!Kept
    <2> QED BY <2>3, <2>4, <2>5
<1> QED BY <1>2, <1>3, <1>4, IrregridConstants DEF Irregrid!IInv

-----------------------------------------------------------------------------
\* A line is gridded: the cells it does not reach, and those it reaches.
LEMMA ReachingTyped ==
    ASSUME Irregrid!IInv, NEW c \in Irregrid!Cells, NEW u \in Irregrid!Reaching(c)
    PROVE  /\ u = <<u[1], u[2]>> /\ u[1] \in Int /\ u[1] < lines_processed
           /\ u[2] \in Irregrid!Line /\ u[2].v \in Int /\ Irregrid!D2(u[2], c) \in Nat
<1>1. u \in (0 .. lines_processed - 1) \X Irregrid!Line
    BY DEF Irregrid!Reaching, Irregrid!IInv
<1>2. lines_processed \in Int
    BY DEF Irregrid!IInv, Irregrid!TypeOK
<1>3. u[2] \in Irregrid!Line /\ u[1] \in 0 .. lines_processed - 1 /\ u = <<u[1], u[2]>>
    BY <1>1
<1> QED BY <1>2, <1>3, DistanceTyped DEF Irregrid!Line

LEMMA NotReached ==
    ASSUME Irregrid!IInv, NEW c \in Irregrid!Cells, NEW l,
           method' = method, shell_radius' = shell_radius, fill' = fill,
           used' = used \cup {<<lines_processed, l>>} \/ used' = used,
           used' = used \/ ~Reaches(l, c),
           to_data'[c] = to_data[c], to_data_beta'[c] = to_data_beta[c],
           to_data_num_pts'[c] = to_data_num_pts[c]
    PROVE  Irregrid!Summed(c)' /\ Irregrid!Dropped(c)' /\ Irregrid!Kept(c)'
<1>1. Irregrid!Reaching(c)' = Irregrid!Reaching(c)
    <2>1. CASE used' = used
        BY <2>1 DEF Irregrid!Reaching, Irregrid!InRange, Irregrid!InShell, Irregrid!Range2, Irregrid!nearest, Irregrid!R2
    <2>2. CASE used' # used
        BY <2>2, ReachingNext
    <2> QED BY <2>1, <2>2
<1>2. Irregrid!Exact(c)' <=> Irregrid!Exact(c)
    BY <1>1 DEF Irregrid!Exact
<1>3. Irregrid!R2' = Irregrid!R2
    BY DEF Irregrid!R2
<1>4. Irregrid!Summed(c) /\ Irregrid!Dropped(c) /\ Irregrid!Kept(c)
    BY DEF Irregrid!IInv
<1>5. Irregrid!Summed(c)'
    BY <1>1, <1>2, <1>3, <1>4 DEF Irregrid!Summed
<1>6. Irregrid!Dropped(c)'
    BY <1>1, <1>4 DEF Irregrid!Dropped
<1>7. Irregrid!Kept(c)'
    BY <1>1, <1>4 DEF Irregrid!Kept
<1> QED BY <1>5, <1>6, <1>7

Weighted == {"cressman", "cressman -c", "inv_dist"}
LEMMA SummedNext ==
    ASSUME Irregrid!IInv, NEW c \in Irregrid!Cells, NEW l \in Irregrid!Line,
           method' = method, shell_radius' = shell_radius, fill' = fill,
           used' = used \cup {<<lines_processed, l>>},
           method \in Weighted, Irregrid!InShell(l, c),
           NEW w, w = IF method = "inv_dist" THEN Irregrid!inv_dist(l, c) ELSE Irregrid!cressman(l, c),
           to_data'[c] = Irregrid!Plus(to_data[c], Irregrid!Times(l.v, w)),
           to_data_beta'[c] = Irregrid!Plus(to_data_beta[c], w),
           to_data_num_pts'[c] = to_data_num_pts[c] + 1
    PROVE  Irregrid!Summed(c)'
<1> DEFINE u == <<lines_processed, l>>
           reach == Irregrid!Reaching(c)
<1>1. Irregrid!Reaching(c)' = reach \cup {u}
    BY ReachingNext DEF Reaches, Weighted
<1>2. Irregrid!R2' = Irregrid!R2
    BY DEF Irregrid!R2
<1>3. Irregrid!D2(l, c) \in Nat /\ Irregrid!D2(l, c) <= Irregrid!R2 /\ l.v \in Int /\ u[2] = l
    BY DistanceTyped DEF Irregrid!InShell, Irregrid!Line
<1> SUFFICES ASSUME ~(Irregrid!Exact(c)' /\ (method = "inv_dist" \/ Irregrid!R2 = 0))
             PROVE  /\ to_data'[c] \in Int /\ to_data_beta'[c] \in Nat
                    /\ to_data_beta'[c] = 0 => to_data'[c] = 0 /\ \A x \in reach \cup {u} : Irregrid!D2(x[2], c) = Irregrid!R2 /\ method # "inv_dist"
                    /\ to_data_beta'[c] # 0 => Irregrid!Mean(to_data'[c], to_data_beta'[c], reach \cup {u}) /\ to_data_num_pts'[c] >= 1
    BY <1>1, <1>2 DEF Irregrid!Summed
<1>4. Irregrid!Exact(c)' <=> Irregrid!Exact(c) \/ Irregrid!D2(l, c) = 0
    BY <1>1, <1>3 DEF Irregrid!Exact
<1>5. w \in Nat /\ w \in Int /\ (w = 0 => Irregrid!D2(l, c) = Irregrid!R2 /\ method # "inv_dist")
    <2>1. CASE method = "inv_dist"
        <3>1. Irregrid!D2(l, c) # 0
            BY <1>4, <2>1
        <3>2. w \in Nat \ {0}
            BY <1>3, <2>1, <3>1, InverseTyped DEF Irregrid!IInv
        <3> QED BY <3>2
    <2>2. CASE method # "inv_dist"
        <3>1. Irregrid!R2 # 0
            <4>1. SUFFICES ASSUME Irregrid!R2 = 0 PROVE FALSE
                OBVIOUS
            <4>2. Irregrid!D2(l, c) = 0
                BY <1>3, <4>1
            <4> QED BY <1>4, <4>1, <4>2
        <3> QED BY <1>3, <2>2, <3>1, CressmanTyped DEF Irregrid!IInv
    <2> QED BY <2>1, <2>2
<1>6. /\ to_data[c] \in Int /\ to_data_beta[c] \in Nat
      /\ to_data_beta[c] = 0 => to_data[c] = 0 /\ \A x \in reach : Irregrid!D2(x[2], c) = Irregrid!R2 /\ method # "inv_dist"
      /\ to_data_beta[c] # 0 => Irregrid!Mean(to_data[c], to_data_beta[c], reach)
    <2>1. Irregrid!Summed(c)
        BY DEF Irregrid!IInv
    <2> QED BY <1>4, <2>1 DEF Irregrid!Summed, Weighted
<1>7. PICK sum \in Int, weight \in Nat : sum = to_data[c] /\ weight = to_data_beta[c]
    BY <1>6
<1>8. to_data'[c] = sum + l.v * w /\ to_data_beta'[c] = weight + w /\ l.v * w \in Int
    <2>1. l.v * w \in Int /\ sum \in Int /\ weight \in Int
        BY <1>3, <1>5, <1>7
    <2>2. Irregrid!Times(l.v, w) = l.v * w
        BY <1>3, <1>5, PlusOfNumbers, Zenon
    <2>3. Irregrid!Plus(sum, l.v * w) = sum + l.v * w /\ Irregrid!Plus(weight, w) = weight + w
        BY <1>5, <2>1, PlusOfNumbers, Zenon
    <2> QED BY <1>7, <2>1, <2>2, <2>3
<1>9. to_data_num_pts'[c] >= 1
    BY DEF Irregrid!IInv, Irregrid!TypeOK
<1>10. ASSUME weight + w # 0 PROVE Irregrid!Mean(sum + l.v * w, weight + w, reach \cup {u})
    <2>1. \A x \in reach : x[2].v \in Int
        BY ReachingTyped
    <2>2. (weight = 0 => sum = 0) /\ (weight # 0 => Irregrid!Mean(sum, weight, reach))
        BY <1>6, <1>7
    <2> HIDE DEF reach
    <2> QED BY <1>5, <1>10, <2>1, <2>2, MeanStep
<1>11. ASSUME weight + w = 0
       PROVE  sum + l.v * w = 0 /\ \A x \in reach \cup {u} : Irregrid!D2(x[2], c) = Irregrid!R2 /\ method # "inv_dist"
    <2>1. weight = 0 /\ w = 0
        BY <1>5, <1>11
    <2>2. sum = 0 /\ l.v * w = 0
        BY <1>3, <1>6, <1>7, <2>1
    <2>3. \A x \in reach : Irregrid!D2(x[2], c) = Irregrid!R2 /\ method # "inv_dist"
        BY <1>6, <1>7, <2>1
    <2> QED BY <1>3, <1>5, <2>1, <2>2, <2>3
<1>12. sum + l.v * w \in Int /\ weight + w \in Nat
    BY <1>5, <1>8
<1> HIDE DEF reach, u
<1> QED BY <1>8, <1>9, <1>10, <1>11, <1>12

LEMMA DroppedNext ==
    ASSUME Irregrid!IInv, NEW c \in Irregrid!Cells, NEW l \in Irregrid!Line,
           method' = method, shell_radius' = shell_radius,
           used' = used \cup {<<lines_processed, l>>},
           method = "drop", Irregrid!InRange(l, c),
           to_data'[c] = to_data[c] + l.v,
           to_data_num_pts'[c] = to_data_num_pts[c] + 1
    PROVE  Irregrid!Dropped(c)'
<1> DEFINE u == <<lines_processed, l>>
           reach == Irregrid!Reaching(c)
<1>1. Irregrid!Reaching(c)' = reach \cup {u}
    BY ReachingNext DEF Reaches
<1>2. PICK sum \in Int, n \in Nat : sum = to_data[c] /\ n = to_data_num_pts[c]
    BY DEF Irregrid!IInv, Irregrid!TypeOK, Irregrid!Dropped
<1>3. (n = 0 => sum = 0) /\ (n # 0 => Irregrid!Mean(sum, n, reach))
    BY <1>2 DEF Irregrid!IInv, Irregrid!Dropped
<1>4. \A x \in reach : x[2].v \in Int
    BY ReachingTyped
<1>5. n + 1 # 0 /\ 1 \in Nat /\ l.v * 1 = l.v /\ l.v \in Int
    BY DEF Irregrid!Line
<1>6. Irregrid!Mean(sum + l.v * 1, n + 1, reach \cup {u})
    <2> HIDE DEF reach
    <2> QED BY <1>3, <1>4, <1>5, MeanStep
<1>7. to_data'[c] = sum + l.v /\ to_data_num_pts'[c] = n + 1 /\ sum + l.v \in Int
    BY <1>2, <1>5
<1>8. Irregrid!Mean(to_data'[c], to_data_num_pts'[c], reach \cup {u})
    BY <1>5, <1>6, <1>7
<1>9. to_data_num_pts'[c] # 0 /\ to_data'[c] \in Int
    BY <1>5, <1>7
<1> QED BY <1>1, <1>8, <1>9 DEF Irregrid!Dropped

LEMMA KeptNext ==
    ASSUME Irregrid!IInv, NEW c \in Irregrid!Cells, NEW l \in Irregrid!Line,
           method' = method, shell_radius' = shell_radius, fill' = fill,
           used' = used \cup {<<lines_processed, l>>},
           method = "near", Irregrid!InShell(l, c),
           to_data'[c] = IF Irregrid!Nearer(l, c) THEN l.v ELSE to_data[c],
           to_data_beta'[c] = IF Irregrid!Nearer(l, c) THEN Irregrid!D2(l, c) ELSE to_data_beta[c]
    PROVE  Irregrid!Kept(c)'
<1> DEFINE u == <<lines_processed, l>>
           reach == Irregrid!Reaching(c)
<1>1. Irregrid!Reaching(c)' = reach \cup {u}
    BY ReachingNext DEF Reaches
<1>2. lines_processed \in Int /\ Irregrid!D2(l, c) \in Nat /\ Irregrid!D2(l, c) <= Irregrid!R2 /\ u[1] = lines_processed /\ u[2] = l
    BY DistanceTyped, IrregridConstants DEF Irregrid!InShell, Irregrid!IInv, Irregrid!TypeOK
<1>3. Irregrid!Nearer(l, c) <=> Irregrid!D2(l, c) <= to_data_beta[c]
    BY DEF Irregrid!Nearer
<1>4. SUFFICES \E x \in reach \cup {u} :
                  /\ to_data'[c] = x[2].v /\ to_data_beta'[c] = Irregrid!D2(x[2], c)
                  /\ \A w \in (reach \cup {u}) \ {x} : Irregrid!Wins(x, w, c)
    BY <1>1 DEF Irregrid!Kept
<1>5. Irregrid!Kept(c)
    BY DEF Irregrid!IInv
<1>6. CASE reach = {}
    <2>1. to_data_beta[c] = IMPOSSIBLY_LARGE
        BY <1>5, <1>6 DEF Irregrid!Kept
    <2>2. Irregrid!R2 <= IMPOSSIBLY_LARGE /\ Irregrid!R2 \in Int /\ IMPOSSIBLY_LARGE \in Int
        BY IrregridConstants DEF Irregrid!R2, Irregrid!IInv
    <2>3. Irregrid!Nearer(l, c)
        BY <1>2, <1>3, <2>1, <2>2
    <2> QED BY <1>2, <1>6, <2>3
<1>7. CASE reach # {}
    <2>1. PICK x \in reach : /\ to_data[c] = x[2].v /\ to_data_beta[c] = Irregrid!D2(x[2], c)
                             /\ \A w \in reach \ {x} : Irregrid!Wins(x, w, c)
        BY <1>5, <1>7 DEF Irregrid!Kept
    <2>2. x[1] \in Int /\ x[1] < lines_processed /\ Irregrid!D2(x[2], c) \in Nat
        BY ReachingTyped
    <2>3. CASE Irregrid!Nearer(l, c)
        <3>1. Irregrid!D2(l, c) <= Irregrid!D2(x[2], c)
            BY <1>3, <2>1, <2>3
        <3>2. ASSUME NEW w \in reach PROVE Irregrid!Wins(u, w, c)
            <4>1. w[1] \in Int /\ w[1] < lines_processed /\ Irregrid!D2(w[2], c) \in Nat
                BY ReachingTyped
            <4>2. Irregrid!D2(x[2], c) <= Irregrid!D2(w[2], c)
                <5>1. CASE w = x
                    BY <2>2, <5>1
                <5>2. CASE w # x
                    <6>1. Irregrid!Wins(x, w, c)
                        BY <2>1, <5>2
                    <6> QED BY <2>2, <4>1, <6>1 DEF Irregrid!Wins
                <5> QED BY <5>1, <5>2
            <4>3. Irregrid!D2(l, c) <= Irregrid!D2(w[2], c)
                BY <1>2, <2>2, <3>1, <4>1, <4>2
            <4> QED BY <1>2, <4>1, <4>3 DEF Irregrid!Wins
        <3>3. to_data'[c] = u[2].v /\ to_data_beta'[c] = Irregrid!D2(u[2], c)
            BY <1>2, <2>3
        <3> HIDE DEF reach, u
        <3> QED BY <3>2, <3>3
    <2>4. CASE ~Irregrid!Nearer(l, c)
        <3>1. Irregrid!D2(x[2], c) < Irregrid!D2(l, c)
            BY <1>2, <1>3, <2>1, <2>2, <2>4
        <3>2. Irregrid!Wins(x, u, c)
            BY <1>2, <3>1, <2>2 DEF Irregrid!Wins
        <3>3. to_data'[c] = x[2].v /\ to_data_beta'[c] = Irregrid!D2(x[2], c)
            BY <2>1, <2>4
        <3> HIDE DEF reach, u
        <3> QED BY <2>1, <3>2, <3>3
    <2> QED BY <2>3, <2>4
<1> QED BY <1>6, <1>7

\* What sscanf leaves is a line again.
LEMMA ScannedTyped ==
    ASSUME Irregrid!IInv, NEW line \in Lines, NEW l \in Irregrid!Scanned(line)
    PROVE  l \in Irregrid!Line
<1>1. line \in Irregrid!Line
    BY IrregridConstants
<1>2. PICK o \in Irregrid!Line : l = Irregrid!Completed(line, o)
    BY IrregridConstants DEF Irregrid!Scanned, Irregrid!IInv
<1>3. line.n \in 0 .. 3
    BY <1>1 DEF Irregrid!Line
<1>4. Irregrid!Completed(line, o) \in {line, [line EXCEPT !.v = o.v], [o EXCEPT !.s = line.s], o}
    <2>1. line.n = 3 \/ line.n = 2 \/ line.n = 1 \/ line.n = 0
        BY <1>3
    <2> QED BY <2>1 DEF Irregrid!Completed
<1>5. [line EXCEPT !.v = o.v] \in Irregrid!Line /\ [o EXCEPT !.s = line.s] \in Irregrid!Line
    BY <1>1 DEF Irregrid!Line
<1> QED BY <1>1, <1>2, <1>4, <1>5

\* What weighted_average does to the three grids.
LEMMA Gridded ==
    ASSUME Irregrid!IInv, NEW l \in Irregrid!Line, Irregrid!weighted_average(l),
           method' = method, shell_radius' = shell_radius, fill' = fill,
           used' = used \cup {<<lines_processed, l>>}
    PROVE  /\ to_data' \in [Irregrid!Cells -> Int \cup {NotANumber}]
           /\ to_data_beta' \in [Irregrid!Cells -> Int \cup {NotANumber}]
           /\ to_data_num_pts' \in [Irregrid!Cells -> Nat]
           /\ \A c \in Irregrid!Cells : to_data_num_pts'[c] <= lines_processed + 1
           /\ \A c \in Irregrid!Cells : Irregrid!Summed(c)' /\ Irregrid!Dropped(c)' /\ Irregrid!Kept(c)'
<1> DEFINE Cells == Irregrid!Cells
           Num == Int \cup {NotANumber}
<1>1. /\ to_data \in [Cells -> Num] /\ to_data_beta \in [Cells -> Num]
      /\ to_data_num_pts \in [Cells -> Nat] /\ lines_processed \in Nat
      /\ \A c \in Cells : to_data_num_pts[c] <= lines_processed
    BY IrregridConstants DEF Irregrid!IInv, Irregrid!TypeOK
<1>2. l.v \in Int
    BY DEF Irregrid!Line
<1>3. CASE method \in Weighted
    <2> DEFINE w == [c \in Cells |-> IF method = "inv_dist" THEN Irregrid!inv_dist(l, c) ELSE Irregrid!cressman(l, c)]
    <2>1. Irregrid!AddWeighted(l, w)
        <3>1. CASE method = "inv_dist"
            <4>1. w = [c \in Cells |-> Irregrid!inv_dist(l, c)]
                BY <3>1
            <4> QED BY <3>1, <4>1 DEF Irregrid!weighted_average
        <3>2. CASE method \in {"cressman", "cressman -c"}
            <4>1. w = [c \in Cells |-> Irregrid!cressman(l, c)]
                BY <3>2
            <4> QED BY <3>2, <4>1 DEF Irregrid!weighted_average
        <3> QED BY <1>3, <3>1, <3>2 DEF Weighted
    <2>2. ASSUME NEW c \in Cells, Irregrid!InShell(l, c) PROVE w[c] \in Num
        <3>1. w[c] = IF method = "inv_dist" THEN Irregrid!inv_dist(l, c) ELSE Irregrid!cressman(l, c)
            OBVIOUS
        <3> HIDE DEF w
        <3>2. Irregrid!D2(l, c) <= Irregrid!R2
            BY <2>2 DEF Irregrid!InShell
        <3>3. CASE method = "inv_dist"
            BY <3>1, <3>2, <3>3, InverseTyped DEF Irregrid!IInv
        <3>4. CASE method # "inv_dist" /\ Irregrid!R2 # 0
            BY <3>1, <3>2, <3>4, CressmanTyped DEF Irregrid!IInv
        <3>5. CASE method # "inv_dist" /\ Irregrid!R2 = 0
            BY <3>1, <3>5 DEF Irregrid!cressman
        <3> QED BY <3>3, <3>4, <3>5
    <2> HIDE DEF w
    <2> DEFINE d(c) == IF Irregrid!InShell(l, c) THEN Irregrid!Plus(to_data[c], Irregrid!Times(l.v, w[c])) ELSE to_data[c]
               b(c) == IF Irregrid!InShell(l, c) THEN Irregrid!Plus(to_data_beta[c], w[c]) ELSE to_data_beta[c]
               n(c) == to_data_num_pts[c] + (IF Irregrid!InShell(l, c) THEN 1 ELSE 0)
    <2>3. to_data' = [c \in Cells |-> d(c)] /\ to_data_beta' = [c \in Cells |-> b(c)] /\ to_data_num_pts' = [c \in Cells |-> n(c)]
        BY <2>1 DEF Irregrid!AddWeighted
    <2>4. ASSUME NEW c \in Cells PROVE d(c) \in Num /\ b(c) \in Num /\ n(c) \in Nat /\ n(c) <= lines_processed + 1
        <3>1. to_data[c] \in Num /\ to_data_beta[c] \in Num /\ to_data_num_pts[c] \in Nat /\ to_data_num_pts[c] <= lines_processed
            BY <1>1
        <3>2. CASE Irregrid!InShell(l, c)
            <4>1. Irregrid!Times(l.v, w[c]) \in Num
                BY <1>2, <2>2, <3>2, PlusTyped
            <4>2. d(c) \in Num /\ b(c) \in Num
                BY <2>2, <3>1, <3>2, <4>1, PlusTyped
            <4> QED BY <1>1, <3>1, <3>2, <4>2
        <3>3. CASE ~Irregrid!InShell(l, c)
            BY <1>1, <3>1, <3>3
        <3> QED BY <3>2, <3>3
    <2>5. ASSUME NEW c \in Cells PROVE to_data'[c] = d(c) /\ to_data_beta'[c] = b(c) /\ to_data_num_pts'[c] = n(c)
        <3> HIDE DEF d, b, n
        <3> QED BY <2>3
    <2>6. ASSUME NEW c \in Cells PROVE Irregrid!Summed(c)' /\ Irregrid!Dropped(c)' /\ Irregrid!Kept(c)'
        <3>1. CASE Irregrid!InShell(l, c)
            <4>1. w[c] = IF method = "inv_dist" THEN Irregrid!inv_dist(l, c) ELSE Irregrid!cressman(l, c)
                BY DEF w
            <4>2. to_data_num_pts'[c] = to_data_num_pts[c] + 1
                BY <2>5, <3>1
            <4>3. Irregrid!Summed(c)'
                BY <1>3, <2>5, <3>1, <4>1, <4>2, SummedNext
            <4>4. Irregrid!Dropped(c)' /\ Irregrid!Kept(c)'
                BY <1>3 DEF Weighted, Irregrid!Dropped, Irregrid!Kept
            <4> QED BY <4>3, <4>4
        <3>2. CASE ~Irregrid!InShell(l, c)
            <4>1. ~Reaches(l, c)
                BY <1>3, <3>2 DEF Reaches, Weighted
            <4>2. to_data_num_pts'[c] = to_data_num_pts[c]
                BY <1>1, <2>5, <3>2
            <4>3. to_data'[c] = to_data[c] /\ to_data_beta'[c] = to_data_beta[c]
                BY <2>5, <3>2
            <4> QED BY <4>1, <4>2, <4>3, NotReached
        <3> QED BY <3>1, <3>2
    <2> HIDE DEF d, b, n, Num
    <2>7. to_data' \in [Cells -> Num] /\ to_data_beta' \in [Cells -> Num] /\ to_data_num_pts' \in [Cells -> Nat]
        BY <2>3, <2>4
    <2>8. \A c \in Cells : to_data_num_pts'[c] <= lines_processed + 1
        BY <2>4, <2>5
    <2> USE DEF Num
    <2> QED BY <2>6, <2>7, <2>8
<1>4. CASE method = "drop"
    <2> DEFINE d(c) == to_data[c] + (IF Irregrid!InRange(l, c) THEN l.v ELSE 0)
               n(c) == to_data_num_pts[c] + (IF Irregrid!InRange(l, c) THEN 1 ELSE 0)
    <2>1. to_data' = [c \in Cells |-> d(c)] /\ to_data_num_pts' = [c \in Cells |-> n(c)] /\ to_data_beta' = to_data_beta
        BY <1>4 DEF Irregrid!weighted_average, Irregrid!AddToBuckets
    <2>2. ASSUME NEW c \in Cells
          PROVE  d(c) \in Num /\ n(c) \in Nat /\ n(c) <= lines_processed + 1 /\ to_data[c] \in Int
        <3>1. to_data[c] \in Int
            BY <1>4 DEF Irregrid!IInv, Irregrid!Dropped
        <3>2. to_data_num_pts[c] \in Nat /\ to_data_num_pts[c] <= lines_processed
            BY <1>1
        <3> QED BY <1>1, <1>2, <3>1, <3>2
    <2>3. ASSUME NEW c \in Cells PROVE to_data'[c] = d(c) /\ to_data_beta'[c] = to_data_beta[c] /\ to_data_num_pts'[c] = n(c)
        <3> HIDE DEF d, n
        <3> QED BY <2>1
    <2>4. ASSUME NEW c \in Cells PROVE Irregrid!Summed(c)' /\ Irregrid!Dropped(c)' /\ Irregrid!Kept(c)'
        <3>1. CASE Irregrid!InRange(l, c)
            <4>1. to_data'[c] = to_data[c] + l.v /\ to_data_num_pts'[c] = to_data_num_pts[c] + 1
                BY <2>3, <3>1
            <4>2. Irregrid!Dropped(c)'
                BY <1>4, <3>1, <4>1, DroppedNext
            <4>3. Irregrid!Summed(c)' /\ Irregrid!Kept(c)'
                BY <1>4 DEF Irregrid!Summed, Irregrid!Kept
            <4> QED BY <4>2, <4>3
        <3>2. CASE ~Irregrid!InRange(l, c)
            <4>1. ~Reaches(l, c)
                BY <1>4, <3>2 DEF Reaches
            <4>2. to_data'[c] = to_data[c] /\ to_data_num_pts'[c] = to_data_num_pts[c]
                BY <1>1, <2>2, <2>3, <3>2
            <4> QED BY <2>3, <4>1, <4>2, NotReached
        <3> QED BY <3>1, <3>2
    <2> HIDE DEF d, n, Num
    <2>5. to_data' \in [Cells -> Num] /\ to_data_beta' \in [Cells -> Num] /\ to_data_num_pts' \in [Cells -> Nat]
        BY <1>1, <2>1, <2>2
    <2>6. \A c \in Cells : to_data_num_pts'[c] <= lines_processed + 1
        BY <2>2, <2>3
    <2> USE DEF Num
    <2> QED BY <2>4, <2>5, <2>6
<1>5. CASE method = "near"
    <2> DEFINE d(c) == IF Irregrid!Nearer(l, c) THEN l.v ELSE to_data[c]
               b(c) == IF Irregrid!Nearer(l, c) THEN Irregrid!D2(l, c) ELSE to_data_beta[c]
    <2>1. to_data' = [c \in Cells |-> d(c)] /\ to_data_beta' = [c \in Cells |-> b(c)] /\ to_data_num_pts' = to_data_num_pts
        BY <1>5 DEF Irregrid!weighted_average, Irregrid!KeepNearest
    <2>2. ASSUME NEW c \in Cells PROVE d(c) \in Num /\ b(c) \in Num
        BY <1>1, <1>2, DistanceTyped
    <2>3. ASSUME NEW c \in Cells PROVE to_data'[c] = d(c) /\ to_data_beta'[c] = b(c) /\ to_data_num_pts'[c] = to_data_num_pts[c]
        <3> HIDE DEF d, b
        <3> QED BY <2>1
    <2>4. ASSUME NEW c \in Cells PROVE Irregrid!Summed(c)' /\ Irregrid!Dropped(c)' /\ Irregrid!Kept(c)'
        <3>1. CASE Irregrid!InShell(l, c)
            <4>1. Irregrid!Kept(c)'
                BY <1>5, <2>3, <3>1, KeptNext
            <4>2. Irregrid!Summed(c)' /\ Irregrid!Dropped(c)'
                BY <1>5 DEF Irregrid!Summed, Irregrid!Dropped
            <4> QED BY <4>1, <4>2
        <3>2. CASE ~Irregrid!InShell(l, c)
            <4>1. ~Reaches(l, c)
                BY <1>5, <3>2 DEF Reaches
            <4>2. to_data'[c] = to_data[c] /\ to_data_beta'[c] = to_data_beta[c]
                BY <2>3, <3>2 DEF Irregrid!Nearer
            <4> QED BY <2>3, <4>1, <4>2, NotReached
        <3> QED BY <3>1, <3>2
    <2> HIDE DEF d, b, Num
    <2>5. to_data' \in [Cells -> Num] /\ to_data_beta' \in [Cells -> Num] /\ to_data_num_pts' \in [Cells -> Nat]
        BY <1>1, <2>1, <2>2
    <2>6. \A c \in Cells : to_data_num_pts'[c] <= lines_processed + 1
        BY <1>1, <2>1
    <2> USE DEF Num
    <2> QED BY <2>4, <2>5, <2>6
<1> QED BY <1>3, <1>4, <1>5 DEF Irregrid!weighted_average, Weighted

LEMMA IrregridRead ==
    ASSUME Irregrid!IInv, NEW line \in Lines, Irregrid!ReadLine(line)
    PROVE  Irregrid!IInv'
<1>1. PICK l \in Irregrid!Scanned(line) :
        /\ from' = l
        /\ IF Irregrid!Counts(l)
           THEN Irregrid!weighted_average(l) /\ used' = used \cup {<<lines_processed, l>>}
           ELSE UNCHANGED <<to_data, to_data_beta, to_data_num_pts, used>>
    BY DEF Irregrid!ReadLine
<1>2. l \in Irregrid!Line
    BY ScannedTyped
<1>3. /\ stage = "read" /\ lines_processed < MaxLines /\ lines_processed' = lines_processed + 1
      /\ method' = method /\ shell_radius' = shell_radius /\ fill' = fill
      /\ stage' = stage /\ data_file' = data_file
    BY DEF Irregrid!ReadLine
<1>4. lines_processed \in Nat /\ lines_processed' \in 0 .. MaxLines
    BY <1>3, IrregridConstants DEF Irregrid!IInv, Irregrid!TypeOK
<1>5. /\ to_data' \in [Irregrid!Cells -> Int \cup {NotANumber}]
      /\ to_data_beta' \in [Irregrid!Cells -> Int \cup {NotANumber}]
      /\ to_data_num_pts' \in [Irregrid!Cells -> Nat]
      /\ \A c \in Irregrid!Cells : to_data_num_pts'[c] <= lines_processed'
      /\ \A c \in Irregrid!Cells : Irregrid!Summed(c)' /\ Irregrid!Dropped(c)' /\ Irregrid!Kept(c)'
    <2>1. CASE Irregrid!Counts(l)
        BY <1>1, <1>2, <1>3, <2>1, Gridded
    <2>2. CASE ~Irregrid!Counts(l)
        <3>1. to_data' = to_data /\ to_data_beta' = to_data_beta /\ to_data_num_pts' = to_data_num_pts /\ used' = used
            BY <1>1, <2>2
        <3>2. \A c \in Irregrid!Cells : Irregrid!Summed(c)' /\ Irregrid!Dropped(c)' /\ Irregrid!Kept(c)'
            BY <1>3, <3>1, NotReached
        <3>3. to_data_num_pts \in [Irregrid!Cells -> Nat]
            BY IrregridConstants DEF Irregrid!IInv, Irregrid!TypeOK
        <3>4. \A c \in Irregrid!Cells : to_data_num_pts[c] <= lines_processed + 1
            BY <1>4, <3>3 DEF Irregrid!IInv
        <3> QED BY <1>3, <3>1, <3>2, <3>3, <3>4 DEF Irregrid!IInv, Irregrid!TypeOK
    <2> QED BY <2>1, <2>2
<1>6. to_data_num_pts' \in [Irregrid!Cells -> 0 .. MaxLines]
    <2>1. \A c \in Irregrid!Cells : to_data_num_pts'[c] \in 0 .. MaxLines
        BY <1>4, <1>5, IrregridConstants
    <2> QED BY <1>5, <2>1
<1>7. Irregrid!TypeOK'
    BY <1>3, <1>4, <1>5, <1>6 DEF Irregrid!TypeOK, Irregrid!IInv
<1>8. used' \subseteq (0 .. lines_processed' - 1) \X Irregrid!Line
    <2>1. lines_processed \in 0 .. lines_processed' - 1 /\ 0 .. lines_processed - 1 \subseteq 0 .. lines_processed' - 1
        BY <1>3, <1>4
    <2>2. used' \subseteq used \cup {<<lines_processed, l>>}
        BY <1>1
    <2>3. used \subseteq (0 .. lines_processed - 1) \X Irregrid!Line
        BY DEF Irregrid!IInv
    <2> QED BY <1>2, <2>1, <2>2, <2>3
<1>9. data_file' = <<>>
    BY <1>3 DEF Irregrid!IInv
<1> QED BY <1>1, <1>2, <1>3, <1>5, <1>7, <1>8, <1>9 DEF Irregrid!IInv

\* Nothing of the grids changes once the data are written.
LEMMA IrregridFrame ==
    ASSUME Irregrid!IInv,
           UNCHANGED <<method, shell_radius, fill, lines_processed, from, to_data, to_data_beta, to_data_num_pts, used>>,
           stage' \in {"read", "written", "exit", "abort"},
           data_file' # <<>> => stage' # "read" /\ data_file' = [c \in Irregrid!Cells |-> Irregrid!Normalized(c)]
    PROVE  Irregrid!IInv'
<1>1. \A c \in Irregrid!Cells : Irregrid!Summed(c)' /\ Irregrid!Dropped(c)' /\ Irregrid!Kept(c)'
    BY NotReached
<1>2. [c \in Irregrid!Cells |-> Irregrid!Normalized(c)]' = [c \in Irregrid!Cells |-> Irregrid!Normalized(c)]
    <2>1. Irregrid!min_in_pts' = Irregrid!min_in_pts
        BY DEF Irregrid!min_in_pts
    <2>2. ASSUME NEW c \in Irregrid!Cells PROVE Irregrid!Normalized(c)' = Irregrid!Normalized(c)
        <3>1. Irregrid!normalize_cressman(c)' = Irregrid!normalize_cressman(c)
            BY <2>1 DEF Irregrid!normalize_cressman
        <3>2. Irregrid!normalize_inv_dist(c)' = Irregrid!normalize_inv_dist(c)
            BY DEF Irregrid!normalize_inv_dist
        <3>3. Irregrid!normalize_drop_in_bucket(c)' = Irregrid!normalize_drop_in_bucket(c)
            BY DEF Irregrid!normalize_drop_in_bucket
        <3>4. Irregrid!normalize_near_neighbor(c)' = Irregrid!normalize_near_neighbor(c)
            BY DEF Irregrid!normalize_near_neighbor
        <3>5. method' = method
            OBVIOUS
        <3> QED BY <3>1, <3>2, <3>3, <3>4, <3>5, Zenon DEF Irregrid!Normalized
    <2> QED BY <2>2, Zenon
<1>3. Irregrid!TypeOK'
    BY DEF Irregrid!IInv, Irregrid!TypeOK
<1>4. data_file' # <<>> => stage' # "read" /\ data_file' = [c \in Irregrid!Cells |-> Irregrid!Normalized(c)]'
    BY <1>2
<1> QED BY <1>1, <1>3, <1>4 DEF Irregrid!IInv

LEMMA IrregridStep == Irregrid!IInv /\ [Irregrid!Next]_(Irregrid!irregridVars) => Irregrid!IInv'
<1> SUFFICES ASSUME Irregrid!IInv, [Irregrid!Next]_(Irregrid!irregridVars) PROVE Irregrid!IInv'
    OBVIOUS
<1>1. Irregrid!TypeOK /\ (data_file # <<>> => stage # "read" /\ data_file = [c \in Irregrid!Cells |-> Irregrid!Normalized(c)])
    BY DEF Irregrid!IInv
<1>2. CASE \E line \in Lines : Irregrid!ReadLine(line)
    BY <1>2, IrregridRead
<1>3. CASE Irregrid!WriteData
    <2>1. \/ stage' = "written" /\ data_file' = [c \in Irregrid!Cells |-> Irregrid!Normalized(c)]
          \/ stage' = "abort" /\ data_file' = data_file
        BY <1>3 DEF Irregrid!WriteData
    <2>2. UNCHANGED <<method, shell_radius, fill, lines_processed, from, to_data, to_data_beta, to_data_num_pts, used>>
        BY <1>3 DEF Irregrid!WriteData
    <2> QED BY <1>1, <2>1, <2>2, IrregridFrame
<1>4. CASE Irregrid!WriteNpts
    <2>1. stage' \in {"exit", "abort"} /\ data_file' = data_file
        BY <1>4 DEF Irregrid!WriteNpts
    <2>2. UNCHANGED <<method, shell_radius, fill, lines_processed, from, to_data, to_data_beta, to_data_num_pts, used>>
        BY <1>4 DEF Irregrid!WriteNpts
    <2> QED BY <1>1, <2>1, <2>2, IrregridFrame
<1>5. CASE UNCHANGED Irregrid!irregridVars
    <2>1. stage' = stage /\ data_file' = data_file
        BY <1>5 DEF Irregrid!irregridVars
    <2>2. UNCHANGED <<method, shell_radius, fill, lines_processed, from, to_data, to_data_beta, to_data_num_pts, used>>
        BY <1>5 DEF Irregrid!irregridVars
    <2>3. stage \in {"read", "written", "exit", "abort"}
        BY <1>1 DEF Irregrid!TypeOK
    <2> QED BY <1>1, <2>1, <2>2, <2>3, IrregridFrame
<1> QED BY <1>2, <1>3, <1>4, <1>5 DEF Irregrid!Next

\* What the three grids of irregrid say of the lines read so far: sums between the
\* extremes, counts, and for nearest neighbor the latest of the nearest lines.
THEOREM IrregridInvariance == Irregrid!Spec => []Irregrid!IInv
<1> QED BY IrregridInit, IrregridStep, PTL DEF Irregrid!Spec

\* A cell of the output, from a state in which the data were written.
LEMMA WrittenBetween ==
    ASSUME Irregrid!IInv, data_file # <<>>, NEW c \in Irregrid!Cells,
           NEW o, o = data_file[c], NEW reach, reach = Irregrid!Reaching(c)
    PROVE  \/ Irregrid!Exact(c) /\ (method = "inv_dist" \/ Irregrid!R2 = 0)
           \/ o = <<fill, 1>> /\ (reach = {} \/ \A u \in reach : Irregrid!D2(u[2], c) = Irregrid!R2 /\ method \notin {"drop", "near"})
           \/ \E a, b \in reach : /\ o[2] > 0
                                  /\ a[2].v * o[2] <= o[1] /\ o[1] <= b[2].v * o[2]
<1>1. o = Irregrid!Normalized(c)
    BY DEF Irregrid!IInv
<1>2. Irregrid!Summed(c) /\ Irregrid!Dropped(c) /\ Irregrid!Kept(c) /\ method \in Methods
    BY DEF Irregrid!IInv
<1>3. CASE method \in Weighted
    <2> SUFFICES ASSUME ~(Irregrid!Exact(c) /\ (method = "inv_dist" \/ Irregrid!R2 = 0))
                 PROVE  \/ o = <<fill, 1>> /\ (reach = {} \/ \A u \in reach : Irregrid!D2(u[2], c) = Irregrid!R2 /\ method \notin {"drop", "near"})
                        \/ \E a, b \in reach : /\ o[2] > 0
                                               /\ a[2].v * o[2] <= o[1] /\ o[1] <= b[2].v * o[2]
        OBVIOUS
    <2>1. /\ to_data[c] \in Int /\ to_data_beta[c] \in Nat
          /\ to_data_beta[c] = 0 => to_data[c] = 0 /\ \A u \in reach : Irregrid!D2(u[2], c) = Irregrid!R2 /\ method # "inv_dist"
          /\ to_data_beta[c] # 0 => Irregrid!Mean(to_data[c], to_data_beta[c], reach) /\ to_data_num_pts[c] >= 1
        BY <1>2, <1>3 DEF Irregrid!Summed, Weighted
    <2>2. o = IF to_data_beta[c] # 0 THEN <<to_data[c], to_data_beta[c]>> ELSE <<fill, 1>>
        <3>1. CASE method = "inv_dist"
            BY <1>1, <3>1 DEF Irregrid!Normalized, Irregrid!normalize_inv_dist
        <3>2. CASE method \in {"cressman", "cressman -c"}
            <4>1. Irregrid!min_in_pts \in {0, 1}
                BY DEF Irregrid!min_in_pts
            <4>2. to_data_beta[c] # 0 => Irregrid!min_in_pts <= to_data_num_pts[c]
                BY <2>1, <4>1 DEF Irregrid!IInv, Irregrid!TypeOK
            <4>3. o = Irregrid!normalize_cressman(c)
                BY <1>1, <3>2 DEF Irregrid!Normalized
            <4> QED BY <4>2, <4>3 DEF Irregrid!normalize_cressman
        <3> QED BY <1>3, <3>1, <3>2 DEF Weighted
    <2>3. CASE to_data_beta[c] = 0
        <3>1. o = <<fill, 1>>
            BY <2>2, <2>3
        <3>2. method \notin {"drop", "near"}
            BY <1>3 DEF Weighted
        <3>3. \A u \in reach : Irregrid!D2(u[2], c) = Irregrid!R2
            BY <2>1, <2>3
        <3> QED BY <3>1, <3>2, <3>3
    <2>4. CASE to_data_beta[c] # 0
        <3>1. PICK a, b \in reach : a[2].v * to_data_beta[c] <= to_data[c] /\ to_data[c] <= b[2].v * to_data_beta[c]
            BY <2>1, <2>4 DEF Irregrid!Mean
        <3>2. o[1] = to_data[c] /\ o[2] = to_data_beta[c]
            BY <2>2, <2>4
        <3>3. o[2] > 0
            BY <2>1, <2>4, <3>2
        <3> QED BY <3>1, <3>2, <3>3
    <2> QED BY <2>3, <2>4
<1>4. CASE method = "drop"
    <2>1. o = IF to_data_num_pts[c] # 0 THEN <<to_data[c], to_data_num_pts[c]>> ELSE <<fill, 1>>
        BY <1>1, <1>4 DEF Irregrid!Normalized, Irregrid!normalize_drop_in_bucket
    <2>2. to_data_num_pts[c] \in Nat
        BY IrregridConstants DEF Irregrid!IInv, Irregrid!TypeOK
    <2>3. CASE to_data_num_pts[c] = 0
        BY <1>2, <1>4, <2>1, <2>3 DEF Irregrid!Dropped
    <2>4. CASE to_data_num_pts[c] # 0
        <3>1. PICK a, b \in reach : a[2].v * to_data_num_pts[c] <= to_data[c] /\ to_data[c] <= b[2].v * to_data_num_pts[c]
            BY <1>2, <1>4, <2>4 DEF Irregrid!Dropped, Irregrid!Mean
        <3>2. o[1] = to_data[c] /\ o[2] = to_data_num_pts[c]
            BY <2>1, <2>4
        <3>3. o[2] > 0
            BY <2>2, <2>4, <3>2
        <3> QED BY <3>1, <3>2, <3>3
    <2> QED BY <2>3, <2>4
<1>5. CASE method = "near"
    <2>1. o = <<to_data[c], 1>>
        BY <1>1, <1>5 DEF Irregrid!Normalized, Irregrid!normalize_near_neighbor
    <2>2. CASE reach = {}
        BY <1>2, <1>5, <2>1, <2>2 DEF Irregrid!Kept
    <2>3. CASE reach # {}
        <3>1. PICK u \in reach : to_data[c] = u[2].v
            BY <1>2, <1>5, <2>3 DEF Irregrid!Kept
        <3>2. u[2].v \in Int
            BY ReachingTyped
        <3>3. o[1] = u[2].v /\ o[2] = 1
            BY <2>1, <3>1
        <3>4. o[2] > 0 /\ u[2].v * o[2] <= o[1] /\ o[1] <= u[2].v * o[2]
            BY <3>2, <3>3
        <3> QED BY <3>4
    <2> QED BY <2>2, <2>3
<1> QED BY <1>2, <1>3, <1>4, <1>5, IrregridMethods DEF Weighted

\* The cell holds the value of the nearest line, of several the latest.
LEMMA WrittenNearest ==
    ASSUME Irregrid!IInv, data_file # <<>>, method = "near", NEW c \in Irregrid!Cells,
           NEW u \in Irregrid!Reaching(c),
           \A w \in Irregrid!Reaching(c) \ {u} : Irregrid!Wins(u, w, c)
    PROVE  data_file[c] = <<u[2].v, 1>>
<1>1. data_file[c] = <<to_data[c], 1>>
    <2>1. data_file[c] = Irregrid!Normalized(c)
        BY DEF Irregrid!IInv
    <2> QED BY <2>1 DEF Irregrid!Normalized, Irregrid!normalize_near_neighbor
<1>2. PICK x \in Irregrid!Reaching(c) : to_data[c] = x[2].v /\ \A w \in Irregrid!Reaching(c) \ {x} : Irregrid!Wins(x, w, c)
    BY DEF Irregrid!IInv, Irregrid!Kept
<1>3. x = u
    <2>1. SUFFICES ASSUME x # u PROVE FALSE
        OBVIOUS
    <2>2. Irregrid!Wins(u, x, c) /\ Irregrid!Wins(x, u, c)
        BY <1>2, <2>1
    <2>3. /\ x[1] \in Int /\ Irregrid!D2(x[2], c) \in Nat
          /\ u[1] \in Int /\ Irregrid!D2(u[2], c) \in Nat
        BY ReachingTyped
    <2> QED BY <2>2, <2>3 DEF Irregrid!Wins
<1> QED BY <1>1, <1>2, <1>3

\* A cell of irregrid's output holds the fill value if no line reaches it, and lies
\* between the values of the lines that do otherwise; nearest neighbor keeps the
\* latest of the nearest lines: for any number of lines in any order, complete or
\* not, and wherever the points are.
THEOREM GriddedCorrect == Irregrid!Spec => []GriddedFromLines
<1>1. Irregrid!IInv => GriddedFromLines
    <2> SUFFICES ASSUME Irregrid!IInv, data_file # <<>>
                 PROVE  Irregrid!Between /\ Irregrid!NearestLatest
        BY DEF GriddedFromLines, Irregrid!GriddedFromLines
    <2>1. Irregrid!Between
        BY WrittenBetween DEF Irregrid!Between
    <2>2. Irregrid!NearestLatest
        BY WrittenNearest DEF Irregrid!NearestLatest
    <2> QED BY <2>1, <2>2
<1> QED BY <1>1, IrregridInvariance, PTL

-----------------------------------------------------------------------------
(***************************************************************************)
(* ungrid: the values.                                                     *)
(***************************************************************************)

\* The constants of Ungrid.
LEMMA UngridConstants ==
    /\ Rows \in Nat \ {0} /\ Cols \in Nat \ {0} /\ Unit \in Nat \ {0} /\ Fill \in Int
    /\ Files \subseteq [Ungrid!Cells -> 0 .. 255]
    /\ \A o \in CommandLines : o.r \in Nat /\ o.r * o.r <= Unit /\ o.n \in Int /\ o.x \in Int
    /\ Inputs \subseteq Seq(Ungrid!InputLines) /\ Unread \notin Ungrid!InputLines /\ Off \notin Int \X Int
BY PointsAssumption DEF Ungrid!UngridAssumption

LEMMA UngridOptions ==
    \A o \in CommandLines : /\ o.C \in BOOLEAN /\ o.I \in BOOLEAN /\ o.U \in BOOLEAN /\ o.b \in BOOLEAN
                            /\ o.c \in {"N", "D", "B", "C", "I"}
BY PointsAssumption, Zenon DEF Ungrid!UngridAssumption

LEMMA CellTyped ==
    /\ IsFiniteSet(Ungrid!Cells)
    /\ \A c \in Ungrid!Cells : c = <<c[1], c[2]>> /\ c[1] \in 0 .. Rows - 1 /\ c[2] \in 0 .. Cols - 1 /\ c[1] \in Int /\ c[2] \in Int
<1>1. Rows \in Nat \ {0} /\ Cols \in Nat \ {0}
    BY UngridConstants
<1>2. IsFiniteSet(0 .. Rows - 1) /\ IsFiniteSet(0 .. Cols - 1)
    BY <1>1, FS_Interval
<1>3. IsFiniteSet((0 .. Rows - 1) \X (0 .. Cols - 1))
    BY <1>2, FS_Product
<1> QED BY <1>1, <1>3 DEF Ungrid!Cells

LEMMA SampleTyped ==
    ASSUME control \in CommandLines, from_data \in Files, NEW c \in Ungrid!Cells
    PROVE  Ungrid!Sample(c) \in Int
<1>1. from_data[c] \in 0 .. 255
    BY UngridConstants
<1>2. from_data[c] \in Int /\ from_data[c] - 256 \in Int
    BY <1>1
<1>3. Ungrid!Sample(c) \in {from_data[c], from_data[c] - 256}
    BY DEF Ungrid!Sample
<1> QED BY <1>2, <1>3

LEMMA SameTotal ==
    ASSUME NEW w
    PROVE  /\ Ungrid!Total(w) = SumFunctionOnSet(w, DOMAIN w)
           /\ Ungrid!SumFunction(w) = SumFunctionOnSet(w, DOMAIN w)
BY DEF Ungrid!Total, Ungrid!SumFunction, Ungrid!SumFunctionOnSet, Ungrid!FoldFunctionOnSet, Ungrid!MapThenFoldSet,
       SumFunctionOnSet, FoldFunctionOnSet, MapThenFoldSet

\* A cell within the limits and near the point is a candidate.
LEMMA CandidateOf ==
    ASSUME control \in CommandLines, from_data \in Files, NEW p, NEW c \in Ungrid!Cells,
           Ungrid!Close(4 * c[1], p[1]), Ungrid!Close(4 * c[2], p[2]), Ungrid!Within(Ungrid!Sample(c))
    PROVE  Ungrid!Sample(c) \in Ungrid!Candidates(p)
<1>1. Ungrid!Sample(c) \in Int
    BY SampleTyped
<1>2. control.n \in Int /\ control.x \in Int
    BY UngridConstants
<1>3. Ungrid!Sample(c) \in control.n .. control.x
    BY <1>1, <1>2 DEF Ungrid!Within
<1> QED BY <1>3 DEF Ungrid!Candidates

\* What lies between two candidates.
Between(p, n, d) ==
    \E low, high \in Ungrid!Candidates(p) : low * d <= n /\ n <= high * d

\* A sum of candidates with weights that are not negative does.
LEMMA MeanOf ==
    ASSUME control \in CommandLines, from_data \in Files, NEW p, NEW w,
           DOMAIN w \subseteq Ungrid!Cells, DOMAIN w # {},
           \A c \in DOMAIN w : w[c] \in Nat /\ Ungrid!Sample(c) \in Ungrid!Candidates(p)
    PROVE  Between(p, Ungrid!Weighted(w), Ungrid!Total(w))
<1> DEFINE S == DOMAIN w
           g == [c \in S |-> Ungrid!Sample(c)]
           q == [c \in S |-> w[c] * Ungrid!Sample(c)]
<1>1. IsFiniteSet(S)
    BY CellTyped, FS_Subset
<1>2. ASSUME NEW c \in S PROVE g[c] \in Int /\ w[c] \in Nat /\ q[c] = g[c] * w[c] /\ g[c] \in Ungrid!Candidates(p)
    <2>1. Ungrid!Sample(c) \in Int /\ w[c] \in Nat
        BY SampleTyped
    <2> QED BY <2>1
<1>3. Ungrid!Weighted(w) = SumFunctionOnSet(q, S)
    <2>1. DOMAIN q = S
        OBVIOUS
    <2>2. Ungrid!Weighted(w) = Ungrid!SumFunction(q)
        BY DEF Ungrid!Weighted
    <2> HIDE DEF q
    <2> QED BY <2>1, <2>2, SameTotal
<1>4. Ungrid!Total(w) = SumFunctionOnSet(w, S)
    BY SameTotal
<1>5. S # {}
    OBVIOUS
<1> HIDE DEF S, g, q
<1>6. PICK low, high \in S : g[low] * SumFunctionOnSet(w, S) <= SumFunctionOnSet(q, S)
                             /\ SumFunctionOnSet(q, S) <= g[high] * SumFunctionOnSet(w, S)
    BY <1>1, <1>2, <1>5, WeightedBetween
<1> QED BY <1>2, <1>3, <1>4, <1>6 DEF Between

LEMMA QuarterNear ==
    ASSUME NEW x \in Int
    PROVE  /\ Ungrid!Trunc(x) \in Int
           /\ x >= 0 => 4 * Ungrid!Trunc(x) <= x /\ x < 4 * Ungrid!Trunc(x) + 4
           /\ x < 0 => x <= 4 * Ungrid!Trunc(x) /\ 4 * Ungrid!Trunc(x) < x + 4
<1>1. CASE x >= 0
    <2> DEFINE d == x \div 4
    <2>1. Ungrid!Trunc(x) = d
        BY <1>1 DEF Ungrid!Trunc
    <2>2. d \in Int /\ 4 * d <= x /\ x < 4 * d + 4
        OBVIOUS
    <2> HIDE DEF d
    <2> QED BY <1>1, <2>1, <2>2
<1>2. CASE ~(x >= 0)
    <2> DEFINE d == (-x) \div 4
    <2>1. Ungrid!Trunc(x) = -d
        BY <1>2 DEF Ungrid!Trunc
    <2>2. d \in Int /\ 4 * d <= -x /\ -x < 4 * d + 4
        OBVIOUS
    <2> HIDE DEF d
    <2> QED BY <1>2, <2>1, <2>2
<1> QED BY <1>1, <1>2

LEMMA DistTyped ==
    ASSUME NEW a \in Int, NEW b \in Int
    PROVE  /\ Ungrid!Dist(a, b) \in Nat
           /\ \A k \in Nat : b - k <= a /\ a <= b + k => Ungrid!Dist(a, b) <= k /\ Ungrid!Dist(b, a) <= k
BY DEF Ungrid!Dist

LEMMA NearestOk ==
    ASSUME control \in CommandLines, from_data \in Files, NEW s \in Int, NEW r \in Int
    PROVE  \/ Ungrid!nearest(s, r) = <<Fill, 1>>
           \/ Between(<<s, r>>, Ungrid!nearest(s, r)[1], Ungrid!nearest(s, r)[2])
<1> DEFINE c == <<Ungrid!Nint(s), Ungrid!Nint(r)>>
<1>1. CASE c \in Ungrid!Cells /\ Ungrid!Within(Ungrid!Sample(c))
    <2>1. ASSUME NEW x \in Int PROVE Ungrid!Nint(x) \in Int /\ Ungrid!Close(4 * Ungrid!Nint(x), x)
        <3>1. Ungrid!Nint(x) = Ungrid!Trunc(x + 2) /\ x + 2 \in Int
            BY DEF Ungrid!Nint
        <3>2. Ungrid!Nint(x) \in Int /\ x - 8 <= 4 * Ungrid!Nint(x) /\ 4 * Ungrid!Nint(x) <= x + 8
            BY <3>1, QuarterNear
        <3>3. 4 * Ungrid!Nint(x) \in Int /\ 8 \in Nat
            BY <3>2
        <3> QED BY <3>2, <3>3, DistTyped DEF Ungrid!Close
    <2>2. Ungrid!Close(4 * c[1], s) /\ Ungrid!Close(4 * c[2], r)
        BY <2>1
    <2>3. Ungrid!Sample(c) \in Ungrid!Candidates(<<s, r>>)
        <3> HIDE DEF c
        <3> QED BY <1>1, <2>2, CandidateOf
    <2>4. Ungrid!nearest(s, r) = <<Ungrid!Sample(c), 1>>
        BY <1>1 DEF Ungrid!nearest
    <2>5. Ungrid!Sample(c) \in Int
        BY <1>1, SampleTyped
    <2> HIDE DEF c
    <2>6. Ungrid!Sample(c) * 1 <= Ungrid!Sample(c) /\ Ungrid!Sample(c) <= Ungrid!Sample(c) * 1
        BY <2>5
    <2> QED BY <2>3, <2>4, <2>6 DEF Between
<1>2. CASE ~(c \in Ungrid!Cells /\ Ungrid!Within(Ungrid!Sample(c)))
    BY <1>2 DEF Ungrid!nearest
<1> QED BY <1>1, <1>2

\* A cell within the radius is a candidate.
LEMMA ShellNear ==
    ASSUME control \in CommandLines, from_data \in Files, NEW s \in Int, NEW r \in Int,
           NEW c \in Ungrid!InShell(s, r)
    PROVE  /\ c \in Ungrid!Cells /\ Ungrid!Sample(c) \in Ungrid!Candidates(<<s, r>>)
           /\ Ungrid!D2(s, r, c) \in Nat /\ Ungrid!D2(s, r, c) <= Unit
<1>1. c \in Ungrid!Cells /\ Ungrid!Within(Ungrid!Sample(c)) /\ Ungrid!D2(s, r, c) <= control.r * control.r
    BY DEF Ungrid!InShell, Ungrid!Shell, Ungrid!Around
<1>2. c[1] \in Int /\ c[2] \in Int /\ control.r \in Nat /\ control.r * control.r <= Unit /\ Unit \in Nat
    BY <1>1, CellTyped, UngridConstants
<1> DEFINE x == s - 4 * c[1]
           y == r - 4 * c[2]
<1>3. x \in Int /\ y \in Int /\ x * x \in Nat /\ y * y \in Nat
    BY <1>2, SquareTyped
<1>4. Ungrid!D2(s, r, c) = x * x + y * y
    BY DEF Ungrid!D2
<1>5. ASSUME NEW k \in Int, k * k \in Nat, k * k <= control.r * control.r PROVE -control.r <= k /\ k <= control.r
    <2>1. SUFFICES ASSUME k > control.r \/ -k > control.r PROVE FALSE
        BY <1>2
    <2>2. PICK m \in Nat : m > control.r /\ m * m = k * k
        <3>1. CASE k > control.r
            BY <1>2, <3>1
        <3>2. CASE -k > control.r
            <4>1. -k \in Nat /\ (-k) * (-k) = k * k
                BY <1>2, <3>2
            <4> QED BY <3>2, <4>1
        <3> QED BY <2>1, <3>1, <3>2
    <2>3. control.r * control.r <= m * control.r /\ control.r * m <= m * m
        BY <1>2, <2>2, Scaled
    <2>4. m * control.r = control.r * m /\ control.r * m + m <= m * m
        <3>1. control.r + 1 <= m
            BY <1>2, <2>2
        <3>2. (control.r + 1) * m <= m * m
            BY <1>2, <2>2, <3>1, Scaled
        <3> QED BY <1>2, <2>2, <3>2
    <2> QED BY <1>2, <1>5, <2>2, <2>3, <2>4
<1>6. x * x <= control.r * control.r /\ y * y <= control.r * control.r
    <2> HIDE DEF x, y
    <2>1. control.r * control.r \in Int
        BY <1>2
    <2> QED BY <1>1, <1>3, <1>4, <2>1
<1>7. -control.r <= x /\ x <= control.r /\ -control.r <= y /\ y <= control.r
    <2> HIDE DEF x, y
    <2> QED BY <1>3, <1>5, <1>6
<1>8. Ungrid!Close(4 * c[1], s) /\ Ungrid!Close(4 * c[2], r)
    <2>1. s - control.r <= 4 * c[1] /\ 4 * c[1] <= s + control.r /\ r - control.r <= 4 * c[2] /\ 4 * c[2] <= r + control.r
        BY <1>2, <1>7
    <2>2. 4 * c[1] \in Int /\ 4 * c[2] \in Int
        BY <1>2
    <2> QED BY <1>2, <2>1, <2>2, DistTyped DEF Ungrid!Close
<1>9. Ungrid!Sample(c) \in Ungrid!Candidates(<<s, r>>)
    BY <1>1, <1>8, CandidateOf
<1>10. Ungrid!D2(s, r, c) \in Nat /\ Ungrid!D2(s, r, c) <= Unit
    <2> HIDE DEF x, y
    <2>1. control.r * control.r \in Int
        BY <1>2
    <2> QED BY <1>1, <1>2, <1>3, <1>4, <2>1
<1> QED BY <1>1, <1>9, <1>10

LEMMA SameCardinality ==
    ASSUME NEW S
    PROVE  Ungrid!Cardinality(S) = Cardinality(S)
BY DEF Ungrid!Cardinality, Cardinality, Ungrid!IsFiniteSet, IsFiniteSet

LEMMA AverageOk ==
    ASSUME control \in CommandLines, from_data \in Files, NEW s \in Int, NEW r \in Int
    PROVE  \/ Ungrid!average(s, r) = <<Fill, 1>>
           \/ Between(<<s, r>>, Ungrid!average(s, r)[1], Ungrid!average(s, r)[2])
<1> DEFINE cells == Ungrid!InShell(s, r)
           w == [c \in cells |-> 1]
<1>1. CASE cells = {}
    BY <1>1 DEF Ungrid!average
<1>2. CASE cells # {}
    <2>1. Ungrid!average(s, r) = <<Ungrid!Weighted(w), Ungrid!Cardinality(cells)>>
        BY <1>2 DEF Ungrid!average
    <2>2. DOMAIN w = cells /\ \A c \in cells : w[c] = 1
        OBVIOUS
    <2>3. \A c \in cells : c \in Ungrid!Cells /\ Ungrid!Sample(c) \in Ungrid!Candidates(<<s, r>>)
        BY ShellNear
    <2> HIDE DEF w, cells
    <2>4. IsFiniteSet(cells)
        BY <2>3, CellTyped, FS_Subset
    <2>5. Ungrid!Total(w) = 1 * Cardinality(cells)
        BY <2>2, <2>4, SameTotal, SumConstant
    <2>6. Cardinality(cells) \in Nat
        BY <2>4, FS_CardinalityType
    <2>7. Ungrid!Total(w) = Ungrid!Cardinality(cells)
        BY <2>5, <2>6, SameCardinality
    <2>8. Between(<<s, r>>, Ungrid!Weighted(w), Ungrid!Total(w))
        BY <1>2, <2>2, <2>3, MeanOf
    <2> QED BY <2>1, <2>7, <2>8
<1> QED BY <1>1, <1>2

LEMMA DistanceOk ==
    ASSUME control \in CommandLines, from_data \in Files, NEW s \in Int, NEW r \in Int
    PROVE  \/ Ungrid!distance(s, r) \in {<<Fill, 1>>, NotANumber}
           \/ Ungrid!InShell(s, r) = {}
           \/ Between(<<s, r>>, Ungrid!distance(s, r)[1], Ungrid!distance(s, r)[2])
<1> DEFINE cells == Ungrid!InShell(s, r)
           w == [c \in cells |-> Unit \div Ungrid!D2(s, r, c)]
<1>1. CASE cells = {} \/ Ungrid!Shell(s, r) = {} \/ \E c \in cells : Ungrid!D2(s, r, c) = 0
    BY <1>1 DEF Ungrid!distance
<1>2. CASE cells # {} /\ Ungrid!Shell(s, r) # {} /\ ~\E c \in cells : Ungrid!D2(s, r, c) = 0
    <2>1. Ungrid!distance(s, r) = <<Ungrid!Weighted(w), Ungrid!Total(w)>>
        BY <1>2 DEF Ungrid!distance
    <2>2. DOMAIN w = cells /\ \A c \in cells : w[c] = Unit \div Ungrid!D2(s, r, c)
        OBVIOUS
    <2>3. \A c \in cells : c \in Ungrid!Cells /\ Ungrid!Sample(c) \in Ungrid!Candidates(<<s, r>>)
        BY ShellNear
    <2>4. ASSUME NEW c \in cells PROVE w[c] \in Nat
        <3>1. Ungrid!D2(s, r, c) \in Nat \ {0} /\ Unit \in Nat
            BY <1>2, ShellNear, UngridConstants
        <3> HIDE DEF w, cells
        <3>2. w[c] = Unit \div Ungrid!D2(s, r, c)
            BY <2>2
        <3> QED BY <3>1, <3>2, FractionTyped
    <2> HIDE DEF w, cells
    <2> QED BY <1>2, <2>1, <2>2, <2>3, <2>4, MeanOf
<1> QED BY <1>1, <1>2

LEMMA BilinearOk ==
    ASSUME control \in CommandLines, from_data \in Files, NEW s \in Int, NEW r \in Int, s >= 0, r >= 0
    PROVE  \/ Ungrid!bilinear(s, r) = <<Fill, 1>>
           \/ Between(<<s, r>>, Ungrid!bilinear(s, r)[1], Ungrid!bilinear(s, r)[2])
<1> DEFINE cells == Ungrid!Around(s, r, 0, 1)
           w == [c \in cells |-> (4 - Ungrid!Dist(s, 4 * c[1])) * (4 - Ungrid!Dist(r, 4 * c[2]))]
<1>1. Ungrid!bilinear(s, r) = IF Ungrid!Total(w) > 0 THEN <<Ungrid!Weighted(w), Ungrid!Total(w)>> ELSE <<Fill, 1>>
    BY DEF Ungrid!bilinear
<1>2. ASSUME NEW c \in cells
      PROVE  c \in Ungrid!Cells /\ Ungrid!Sample(c) \in Ungrid!Candidates(<<s, r>>) /\ w[c] \in Nat
    <2>1. c \in Ungrid!Cells /\ c[1] - Ungrid!Trunc(s) \in 0 .. 1 /\ c[2] - Ungrid!Trunc(r) \in 0 .. 1
          /\ Ungrid!Within(Ungrid!Sample(c))
        BY DEF Ungrid!Around
    <2>2. w[c] = (4 - Ungrid!Dist(s, 4 * c[1])) * (4 - Ungrid!Dist(r, 4 * c[2]))
        OBVIOUS
    <2> HIDE DEF w, cells
    <2>3. ASSUME NEW x \in Int, x >= 0, NEW i \in Int, i - Ungrid!Trunc(x) \in 0 .. 1
          PROVE  Ungrid!Dist(x, 4 * i) \in 0 .. 4 /\ Ungrid!Close(4 * i, x)
        <3>1. x - 4 <= 4 * i /\ 4 * i <= x + 4 /\ 4 * i \in Int
            <4>1. PICK t \in Int : t = Ungrid!Trunc(x) /\ 4 * t <= x /\ x < 4 * t + 4
                BY <2>3, QuarterNear
            <4>2. i = t \/ i = t + 1
                BY <2>3, <4>1
            <4> QED BY <4>1, <4>2
        <3>2. Ungrid!Dist(x, 4 * i) <= 4 /\ Ungrid!Dist(4 * i, x) <= 4
            BY <3>1, DistTyped
        <3>3. Ungrid!Dist(x, 4 * i) \in Nat /\ Ungrid!Dist(4 * i, x) \in Nat
            BY <3>1, DistTyped
        <3> QED BY <3>2, <3>3 DEF Ungrid!Close
    <2>4. c[1] \in Int /\ c[2] \in Int
        BY <2>1, CellTyped
    <2>5. Ungrid!Dist(s, 4 * c[1]) \in 0 .. 4 /\ Ungrid!Dist(r, 4 * c[2]) \in 0 .. 4
        BY <2>1, <2>3, <2>4
    <2>6. 4 - Ungrid!Dist(s, 4 * c[1]) \in Nat /\ 4 - Ungrid!Dist(r, 4 * c[2]) \in Nat
        BY <2>5
    <2>7. w[c] \in Nat
        BY <2>2, <2>6
    <2>8. Ungrid!Sample(c) \in Ungrid!Candidates(<<s, r>>)
        BY <2>1, <2>3, <2>4, CandidateOf
    <2> QED BY <2>1, <2>7, <2>8
<1>3. DOMAIN w = cells
    OBVIOUS
<1> HIDE DEF w, cells
<1>4. CASE cells = {}
    <2>1. Ungrid!Total(w) = 0
        BY <1>3, <1>4, SameTotal, SumStep, FS_EmptySet
    <2> QED BY <1>1, <2>1
<1>5. CASE cells # {}
    <2>1. Between(<<s, r>>, Ungrid!Weighted(w), Ungrid!Total(w))
        BY <1>2, <1>3, <1>5, MeanOf
    <2> QED BY <1>1, <2>1
<1> QED BY <1>4, <1>5

\* Every answer to a point on or off the grid is one UngridBetween allows.
LEMMA AnswerOk ==
    ASSUME control \in CommandLines, from_data \in Files, NEW p \in Int \X Int
    PROVE  Ungrid!AnswerBetween(Ungrid!Answer(p))
<1> DEFINE a == Ungrid!Answer(p)
           v == Ungrid!interpolate(p)
<1>1. p # Off /\ p[1] \in Int /\ p[2] \in Int /\ p = <<p[1], p[2]>>
    BY UngridConstants
<1>2. a.at = p /\ a.value = v
    BY <1>1 DEF Ungrid!Answer
<1>3. SUFFICES \/ v \in {NotANumber, <<Fill, 1>>}
               \/ control.c = "I" /\ Ungrid!InShell(p[1], p[2]) = {}
               \/ control.c = "C"
               \/ control.c = "B" /\ (p[1] < 0 \/ p[2] < 0)
               \/ Between(p, v[1], v[2])
    BY <1>2 DEF Ungrid!AnswerBetween, Between
<1>4. control.c \in {"N", "D", "B", "C", "I"}
    BY UngridOptions
<1>5. CASE control.c = "N"
    <2>1. v = Ungrid!nearest(p[1], p[2])
        BY <1>5 DEF Ungrid!interpolate
    <2> QED BY <1>1, <2>1, NearestOk
<1>6. CASE control.c = "D"
    <2>1. v = Ungrid!average(p[1], p[2])
        BY <1>6 DEF Ungrid!interpolate
    <2> QED BY <1>1, <2>1, AverageOk
<1>7. CASE control.c = "B"
    <2>1. v = Ungrid!bilinear(p[1], p[2])
        BY <1>7 DEF Ungrid!interpolate
    <2> QED BY <1>1, <1>7, <2>1, BilinearOk
<1>8. CASE control.c = "I"
    <2>1. v = Ungrid!distance(p[1], p[2])
        BY <1>8 DEF Ungrid!interpolate
    <2> QED BY <1>1, <1>8, <2>1, DistanceOk
<1> QED BY <1>4, <1>5, <1>6, <1>7, <1>8

-----------------------------------------------------------------------------
(***************************************************************************)
(* ungrid: the order of the answers.                                       *)
(***************************************************************************)

LEMMA IsSequence ==
    ASSUME NEW n \in Nat, NEW f, DOMAIN f = 1 .. n, f = [i \in DOMAIN f |-> f[i]]
    PROVE  f \in Seq(Ungrid!Range(f)) /\ Len(f) = n
<1>1. f \in [1 .. n -> Ungrid!Range(f)]
    BY DEF Ungrid!Range
<1>2. f \in Seq(Ungrid!Range(f))
    BY <1>1, SeqDef
<1> QED BY <1>2, LenProperties

LEMMA Appended ==
    ASSUME NEW s, s \in Seq(Ungrid!Range(s)), NEW e, NEW t, t = Append(s, e)
    PROVE  /\ t \in Seq(Ungrid!Range(t)) /\ Len(s) \in Nat /\ Len(t) = Len(s) + 1
           /\ \A i \in 1 .. Len(s) : t[i] = s[i]
           /\ t[Len(s) + 1] = e
<1> DEFINE S == Ungrid!Range(s) \cup {e}
<1>1. s \in Seq(S) /\ e \in S
    BY SeqMonotonic
<1> HIDE DEF S
<1>2. /\ t \in Seq(S) /\ Len(t) = Len(s) + 1
      /\ \A i \in 1 .. Len(s) : t[i] = s[i]
      /\ t[Len(s) + 1] = e
    BY <1>1, AppendProperties
<1>3. t \in Seq(Ungrid!Range(t))
    BY <1>2, SeqOfRange DEF Range, Ungrid!Range
<1>4. Len(s) \in Nat
    BY <1>1, LenProperties
<1> QED BY <1>2, <1>3, <1>4

LEMMA Joined ==
    ASSUME NEW s, s \in Seq(Ungrid!Range(s)), NEW u, u \in Seq(Ungrid!Range(u)), NEW t, t = s \o u
    PROVE  /\ t \in Seq(Ungrid!Range(t)) /\ Len(s) \in Nat /\ Len(u) \in Nat /\ Len(t) = Len(s) + Len(u)
           /\ \A i \in 1 .. Len(s) : t[i] = s[i]
           /\ \A i \in 1 .. Len(u) : t[Len(s) + i] = u[i]
<1> DEFINE S == Ungrid!Range(s) \cup Ungrid!Range(u)
<1>1. s \in Seq(S) /\ u \in Seq(S)
    BY SeqMonotonic
<1> HIDE DEF S
<1>2. /\ t \in Seq(S) /\ Len(t) = Len(s) + Len(u) /\ Len(s) \in Nat /\ Len(u) \in Nat
      /\ \A i \in 1 .. Len(s) + Len(u) : t[i] = IF i <= Len(s) THEN s[i] ELSE u[i - Len(s)]
    BY <1>1, ConcatProperties, LenProperties
<1>3. t \in Seq(Ungrid!Range(t))
    <2>1. t \in Seq(S)
        BY <1>2
    <2>2. t \in Seq(Range(t))
        BY <2>1, SeqOfRange
    <2> QED BY <2>2 DEF Range, Ungrid!Range
<1>4. \A i \in 1 .. Len(s) : t[i] = s[i]
    BY <1>2
<1>5. ASSUME NEW i \in 1 .. Len(u) PROVE t[Len(s) + i] = u[i]
    <2>1. Len(s) + i \in 1 .. Len(s) + Len(u) /\ ~(Len(s) + i <= Len(s)) /\ Len(s) + i - Len(s) = i
        BY <1>2
    <2> QED BY <1>2, <2>1
<1> QED BY <1>2, <1>3, <1>4, <1>5

LEMMA MinOfTwo ==
    ASSUME NEW a \in Int, NEW b \in Int
    PROVE  Ungrid!Min({a, b}) = IF a <= b THEN a ELSE b
<1> DEFINE m == IF a <= b THEN a ELSE b
<1>1. m \in {a, b} /\ \A y \in {a, b} : m <= y
    OBVIOUS
<1>2. \A x \in {a, b} : (\A y \in {a, b} : x <= y) => x = m
    OBVIOUS
<1> HIDE DEF m
<1>3. Ungrid!Min({a, b}) = m
    BY <1>1, <1>2 DEF Ungrid!Min
<1> QED BY <1>3 DEF m

\* One more line: its answer is appended, if it can be parsed.
LEMMA AnsweredNext ==
    ASSUME NEW n \in Nat, Ungrid!Answered(n), input' = input,
           written \in Seq(Ungrid!Range(written)),
           IF input[n + 1] = Garbage THEN written' = written
           ELSE \E v : v.at = input[n + 1] /\ written' = Append(written, v)
    PROVE  Ungrid!Answered(n + 1)'
<1>1. PICK line \in [1 .. Len(written) -> 1 .. n] :
        /\ Ungrid!Ascends(line) /\ Ungrid!Range(line) = {k \in 1 .. n : input[k] # Garbage}
        /\ \A i \in 1 .. Len(written) : written[i].at = input[line[i]]
    BY DEF Ungrid!Answered
<1> DEFINE G(l, w, m) == /\ l \in [1 .. Len(w) -> 1 .. m]
                         /\ Ungrid!Ascends(l) /\ Ungrid!Range(l) = {k \in 1 .. m : input[k] # Garbage}
                         /\ \A i \in 1 .. Len(w) : w[i].at = input[l[i]]
<1>2. SUFFICES \E l : G(l, written', n + 1)
    BY DEF Ungrid!Answered, Ungrid!Ascends, Ungrid!Range
<1>3. {k \in 1 .. n + 1 : input[k] # Garbage}
        = {k \in 1 .. n : input[k] # Garbage} \cup (IF input[n + 1] = Garbage THEN {} ELSE {n + 1})
    OBVIOUS
<1>4. CASE input[n + 1] = Garbage
    <2>1. line \in [1 .. Len(written) -> 1 .. n + 1]
        OBVIOUS
    <2>2. G(line, written', n + 1)
        BY <1>1, <1>3, <1>4, <2>1
    <2> HIDE DEF G
    <2> QED BY <2>2
<1>5. CASE input[n + 1] # Garbage
    <2>1. PICK v : v.at = input[n + 1] /\ written' = Append(written, v)
        BY <1>5
    <2>2. PICK w : w = written'
        OBVIOUS
    <2>3. PICK m \in Nat : m = Len(written) /\ Len(w) = m + 1
        BY <2>1, <2>2, Appended
    <2>4. (\A i \in 1 .. m : w[i] = written[i]) /\ w[m + 1] = v
        BY <2>1, <2>2, <2>3, Appended
    <2> DEFINE l == [i \in 1 .. m + 1 |-> IF i = m + 1 THEN n + 1 ELSE line[i]]
    <2>5. \A i \in 1 .. m : line[i] \in 1 .. n
        BY <1>1, <2>3
    <2>6. l \in [1 .. m + 1 -> 1 .. n + 1]
        BY <2>5
    <2>7. (\A i \in 1 .. m : l[i] = line[i]) /\ l[m + 1] = n + 1 /\ DOMAIN l = 1 .. m + 1
        OBVIOUS
    <2> HIDE DEF l
    <2>8. Ungrid!Ascends(l)
        <3> SUFFICES ASSUME NEW i \in 1 .. m + 1, NEW j \in 1 .. m + 1, i < j PROVE l[i] < l[j]
            BY <2>7 DEF Ungrid!Ascends
        <3>1. i \in 1 .. m
            OBVIOUS
        <3>2. CASE j = m + 1
            BY <2>5, <2>7, <3>1, <3>2
        <3>3. CASE j # m + 1
            <4>1. j \in 1 .. m
                BY <3>3
            <4>2. DOMAIN line = 1 .. m
                BY <1>1, <2>3
            <4> QED BY <1>1, <2>7, <3>1, <4>1, <4>2 DEF Ungrid!Ascends
        <3> QED BY <3>2, <3>3
    <2>9. Ungrid!Range(l) = {k \in 1 .. n + 1 : input[k] # Garbage}
        <3>1. Ungrid!Range(l) = Ungrid!Range(line) \cup {n + 1}
            <4>1. DOMAIN line = 1 .. m
                BY <1>1, <2>3
            <4>2. 1 .. m + 1 = (1 .. m) \cup {m + 1}
                OBVIOUS
            <4> QED BY <2>7, <4>1, <4>2 DEF Ungrid!Range
        <3> QED BY <1>1, <1>3, <1>5, <3>1
    <2>10. \A i \in 1 .. m + 1 : w[i].at = input[l[i]]
        <3>1. ASSUME NEW i \in 1 .. m + 1 PROVE w[i].at = input[l[i]]
            <4>1. CASE i = m + 1
                BY <2>1, <2>4, <2>7, <4>1
            <4>2. CASE i # m + 1
                <5>1. i \in 1 .. m
                    BY <4>2
                <5> QED BY <1>1, <2>3, <2>4, <2>7, <5>1
            <4> QED BY <4>1, <4>2
        <3> QED BY <3>1
    <2>11. G(l, w, n + 1)
        BY <2>3, <2>6, <2>8, <2>9, <2>10
    <2> HIDE DEF G
    <2> QED BY <2>2, <2>11
<1> QED BY <1>4, <1>5

-----------------------------------------------------------------------------
\* What is allowed of an answer depends on the options and the data, which stay.
LEMMA AllowedStays ==
    ASSUME control' = control, from_data' = from_data, NEW a, Ungrid!AnswerBetween(a)
    PROVE  Ungrid!AnswerBetween(a)'
<1>1. \A c : Ungrid!Sample(c)' = Ungrid!Sample(c)
    BY DEF Ungrid!Sample
<1>2. \A v : Ungrid!Within(v)' <=> Ungrid!Within(v)
    BY DEF Ungrid!Within
<1>3. Ungrid!half_width' = Ungrid!half_width
    BY DEF Ungrid!half_width
<1>4. \A s, r, f, t : Ungrid!Around(s, r, f, t)' = Ungrid!Around(s, r, f, t)
    BY <1>1, <1>2 DEF Ungrid!Around
<1>5. \A s, r : Ungrid!Shell(s, r)' = Ungrid!Shell(s, r)
    BY <1>3, <1>4 DEF Ungrid!Shell
<1>6. \A s, r : Ungrid!InShell(s, r)' = Ungrid!InShell(s, r)
    BY <1>5 DEF Ungrid!InShell
<1>7. \A p : Ungrid!Candidates(p)' = Ungrid!Candidates(p)
    <2>1. \A x, y : Ungrid!Close(x, y)' <=> Ungrid!Close(x, y)
        BY DEF Ungrid!Close
    <2> QED BY <1>1, <2>1 DEF Ungrid!Candidates
<1> QED BY <1>6, <1>7 DEF Ungrid!AnswerBetween

Allowed == \A a \in Ungrid!Range(written) : a.at # Off => Ungrid!AnswerBetween(a)

\* A step of the loop appends one answer or none.
LEMMA ValuesNext ==
    ASSUME control \in CommandLines, from_data \in Files, control' = control, from_data' = from_data,
           written \in Seq(Ungrid!Range(written)), Allowed,
           \/ written' = written
           \/ \E p \in (Int \X Int) \cup {Off} : written' = Append(written, Ungrid!Answer(p))
    PROVE  written' \in Seq(Ungrid!Range(written')) /\ Allowed'
<1>1. CASE written' = written
    <2>1. \A a \in Ungrid!Range(written) : a.at # Off => Ungrid!AnswerBetween(a)'
        BY AllowedStays DEF Allowed
    <2>2. Ungrid!Range(written)' = Ungrid!Range(written)
        BY <1>1 DEF Ungrid!Range
    <2> QED BY <1>1, <2>1, <2>2 DEF Allowed
<1>2. CASE \E p \in (Int \X Int) \cup {Off} : written' = Append(written, Ungrid!Answer(p))
    <2>1. PICK p \in (Int \X Int) \cup {Off} : written' = Append(written, Ungrid!Answer(p))
        BY <1>2
    <2>2. PICK e, t : e = Ungrid!Answer(p) /\ t = written' /\ t = Append(written, e)
        BY <2>1
    <2>3. /\ t \in Seq(Ungrid!Range(t)) /\ Len(written) \in Nat /\ Len(t) = Len(written) + 1
          /\ \A i \in 1 .. Len(written) : t[i] = written[i]
          /\ t[Len(written) + 1] = e
        <3>1. PICK s : s = written
            OBVIOUS
        <3>2. s \in Seq(Ungrid!Range(s)) /\ t = Append(s, e)
            BY <2>2, <3>1
        <3>3. /\ t \in Seq(Ungrid!Range(t)) /\ Len(s) \in Nat /\ Len(t) = Len(s) + 1
              /\ \A i \in 1 .. Len(s) : t[i] = s[i]
              /\ t[Len(s) + 1] = e
            <4>1. t \in Seq(Ungrid!Range(t))
                BY <3>2, Appended
            <4>2. Len(s) \in Nat /\ Len(t) = Len(s) + 1
                BY <3>2, Appended
            <4>3. \A i \in 1 .. Len(s) : t[i] = s[i]
                BY <3>2, Appended
            <4>4. t[Len(s) + 1] = e
                BY <3>2, Appended
            <4> QED BY <4>1, <4>2, <4>3, <4>4
        <3> QED BY <3>1, <3>3
    <2>4. \A a \in Ungrid!Range(t) : a = e \/ a \in Ungrid!Range(written)
        <3>1. DOMAIN t = 1 .. Len(t) /\ DOMAIN written = 1 .. Len(written)
            BY <2>3, LenProperties
        <3>2. 1 .. Len(t) = (1 .. Len(written)) \cup {Len(written) + 1}
            BY <2>3
        <3> QED BY <2>3, <3>1, <3>2 DEF Ungrid!Range
    <2>5. e.at # Off => Ungrid!AnswerBetween(e)
        <3>1. e.at = p
            BY <2>2 DEF Ungrid!Answer
        <3> QED BY <2>2, <3>1, AnswerOk
    <2>6. \A a \in Ungrid!Range(t) : a.at # Off => Ungrid!AnswerBetween(a)
        BY <2>4, <2>5 DEF Allowed
    <2>7. \A a \in Ungrid!Range(t) : a.at # Off => Ungrid!AnswerBetween(a)'
        BY <2>6, AllowedStays
    <2>8. Ungrid!Range(written)' = Ungrid!Range(t)
        BY <2>2 DEF Ungrid!Range
    <2>9. Allowed'
        BY <2>7, <2>8 DEF Allowed
    <2> QED BY <2>2, <2>3, <2>9
<1> QED BY <1>1, <1>2

LEMMA UngridInit == Ungrid!Init => Ungrid!IInv
<1> SUFFICES ASSUME Ungrid!Init PROVE Ungrid!IInv
    OBVIOUS
<1>1. /\ control \in CommandLines /\ from_data \in Files
      /\ row = 0 /\ pos = 0 /\ readln = Unread /\ phase = "rows" /\ written = <<>> /\ outside = {}
    BY DEF Ungrid!Init
<1>2. input \in Seq(Ungrid!InputLines)
    <2>1. input \in {<<>>} \cup Inputs
        BY DEF Ungrid!Init
    <2> QED BY <2>1, UngridConstants, EmptySeq
<1>3. ends \in BOOLEAN /\ fails \in BOOLEAN /\ (input = <<>> => ends) /\ (fails => ends)
    <2>1. ends \in IF input = <<>> THEN {TRUE} ELSE BOOLEAN
        BY DEF Ungrid!Init
    <2>2. fails \in IF ends /\ ~control.C /\ ~control.b THEN BOOLEAN ELSE {FALSE}
        BY DEF Ungrid!Init
    <2>3. ends \in BOOLEAN /\ (input = <<>> => ends)
        BY <2>1
    <2>4. fails \in BOOLEAN /\ (fails => ends)
        BY <2>2
    <2> QED BY <2>3, <2>4
<1>4. Len(input) \in Nat /\ (input # <<>> => Len(input) # 0) /\ Len(written) = 0
    BY <1>1, <1>2, EmptySeq, LenProperties
<1>5. Ungrid!TypeOK
    BY <1>1, <1>4, UngridConstants DEF Ungrid!TypeOK
<1>6. written \in Seq(Ungrid!Range(written))
    BY <1>1, EmptySeq
<1>7. Ungrid!Started
    BY <1>1, <1>2, <1>3, <1>6 DEF Ungrid!Started
<1>8. Ungrid!Centres
    <2>1. \A c \in Ungrid!Cells : c[1] >= 0
        BY CellTyped, UngridConstants
    <2>2. {c \in Ungrid!Cells \ outside : c[1] < row /\ ~(control.I /\ Ungrid!CentreValue(c) = Fill)} = {}
        BY <1>1, <2>1, CellTyped
    <2>3. {written[i].at : i \in 1 .. Len(written)} = {}
        BY <1>4
    <2>4. 1 .. Len(written) = {}
        BY <1>4
    <2>5. Ungrid!AtCentres
        BY <2>2, <2>3, <2>4 DEF Ungrid!AtCentres
    <2> QED BY <1>1, <2>4, <2>5 DEF Ungrid!Centres
<1>9. Ungrid!Text
    <2>1. Ungrid!complete \in Nat
        BY <1>3, <1>4 DEF Ungrid!complete
    <2>2. Ungrid!Min({pos, Ungrid!complete}) = 0
        BY <1>1, <2>1, MinOfTwo
    <2>3. Ungrid!Answered(0)
        <3> DEFINE l == [i \in {} |-> 0]
        <3>1. 1 .. 0 = {} /\ 1 .. Len(written) = {}
            BY <1>4
        <3>2. l \in [{} -> {}] /\ DOMAIN l = {}
            OBVIOUS
        <3> HIDE DEF l
        <3>3. Ungrid!Ascends(l) /\ Ungrid!Range(l) = {}
            BY <3>2 DEF Ungrid!Ascends, Ungrid!Range
        <3> QED BY <3>1, <3>2, <3>3 DEF Ungrid!Answered
    <2>4. Ungrid!AtPoints
        BY <1>1, <2>2, <2>3 DEF Ungrid!AtPoints
    <2> QED BY <1>1, <2>4 DEF Ungrid!Text
<1>10. Ungrid!UngridBetween
    BY <1>1 DEF Ungrid!UngridBetween, Ungrid!Range
<1> QED BY <1>1, <1>5, <1>7, <1>8, <1>9, <1>10, UngridConstants DEF Ungrid!IInv

-----------------------------------------------------------------------------
\* The invariant, unfolded as far as the steps need it.
LEMMA UngridTyped ==
    ASSUME Ungrid!IInv
    PROVE  /\ Rows \in Nat /\ row \in 0 .. Rows /\ Len(input) \in Nat /\ pos \in 0 .. Len(input) + 1
           /\ phase \in {"rows", "points", "exit", "abort"}
           /\ readln \in Ungrid!Range(input) \cup {Unread} /\ outside \subseteq Ungrid!Cells
           /\ control \in CommandLines /\ from_data \in Files
           /\ input \in Seq(Ungrid!InputLines) /\ (input = <<>> => ends)
           /\ ends \in BOOLEAN /\ fails \in BOOLEAN /\ (fails => ends)
           /\ Ungrid!complete \in Nat /\ Ungrid!complete <= Len(input)
           /\ Ungrid!complete = IF ends THEN Len(input) ELSE Len(input) - 1
           /\ written \in Seq(Ungrid!Range(written))
           /\ control.C \in BOOLEAN
           /\ \A k \in 1 .. Len(input) : input[k] \in Ungrid!InputLines
           /\ Ungrid!Range(input) \subseteq Ungrid!InputLines
<1>1. Ungrid!TypeOK /\ Ungrid!Started
    BY DEF Ungrid!IInv
<1>2. /\ control \in CommandLines /\ from_data \in Files
      /\ input \in Seq(Ungrid!InputLines) /\ (input = <<>> => ends)
      /\ ends \in BOOLEAN /\ fails \in BOOLEAN /\ (fails => ends)
      /\ written \in Seq(Ungrid!Range(written))
    BY <1>1 DEF Ungrid!Started
<1>3. Len(input) \in Nat /\ (input # <<>> => Len(input) # 0) /\ \A k \in 1 .. Len(input) : input[k] \in Ungrid!InputLines
    BY <1>2, EmptySeq, LenProperties, ElementOfSeq
<1>4. Ungrid!Range(input) \subseteq Ungrid!InputLines
    BY <1>2, RangeOfSeq DEF Range, Ungrid!Range
<1>5. Ungrid!complete \in Nat /\ Ungrid!complete <= Len(input) /\ Ungrid!complete = IF ends THEN Len(input) ELSE Len(input) - 1
    BY <1>2, <1>3 DEF Ungrid!complete
<1>6. control.C \in BOOLEAN
    BY <1>2, UngridOptions
<1>7. /\ row \in 0 .. Rows /\ pos \in 0 .. Len(input) + 1
      /\ phase \in {"rows", "points", "exit", "abort"}
      /\ readln \in Ungrid!Range(input) \cup {Unread} /\ outside \subseteq Ungrid!Cells
    BY <1>1 DEF Ungrid!TypeOK
<1>8. Rows \in Nat
    BY UngridConstants
<1> QED BY <1>2, <1>3, <1>4, <1>5, <1>6, <1>7, <1>8

\* What a step must show: the rest of the invariant follows.
LEMMA UngridNext ==
    ASSUME Ungrid!IInv, control' = control, from_data' = from_data, input' = input,
           ends' = ends, fails' = fails,
           row' \in 0 .. Rows, pos' \in 0 .. Len(input) + 1,
           phase' \in {"rows", "points", "exit", "abort"},
           readln' \in Ungrid!Range(input) \cup {Unread}, outside' \subseteq Ungrid!Cells,
           phase' = "rows" => row' < Rows,
           control.C => Ungrid!Centres' /\ written' \in Seq(Ungrid!Range(written')),
           ~control.C /\ ~Ungrid!binary => Ungrid!Text',
           ~control.C => \/ written' = written
                         \/ \E p \in (Int \X Int) \cup {Off} : written' = Append(written, Ungrid!Answer(p))
    PROVE  Ungrid!IInv'
<1>1. Ungrid!Range(input)' = Ungrid!Range(input)
    BY DEF Ungrid!Range
<1>2. Ungrid!TypeOK'
    BY <1>1 DEF Ungrid!TypeOK
<1>3. ~control.C => written' \in Seq(Ungrid!Range(written')) /\ Ungrid!UngridBetween'
    <2>1. SUFFICES ASSUME ~control.C PROVE written' \in Seq(Ungrid!Range(written')) /\ Ungrid!UngridBetween'
        OBVIOUS
    <2>2. Allowed
        BY <2>1 DEF Ungrid!IInv, Ungrid!UngridBetween, Allowed
    <2>3. written' \in Seq(Ungrid!Range(written')) /\ Allowed'
        BY <2>1, <2>2, UngridTyped, ValuesNext
    <2> QED BY <2>3 DEF Ungrid!UngridBetween, Allowed
<1>4. control.C => Ungrid!UngridBetween'
    BY DEF Ungrid!UngridBetween
<1>5. Ungrid!Started'
    <2>1. written' \in Seq(Ungrid!Range(written'))
        BY <1>3, UngridTyped
    <2>2. Ungrid!Range(written)' = Ungrid!Range(written')
        BY DEF Ungrid!Range
    <2>3. Ungrid!Started
        BY DEF Ungrid!IInv
    <2> QED BY <2>1, <2>2, <2>3 DEF Ungrid!Started
<1>6. Ungrid!UngridBetween'
    BY <1>3, <1>4, UngridTyped
<1>7. Ungrid!binary' <=> Ungrid!binary
    BY DEF Ungrid!binary
<1> QED BY <1>2, <1>5, <1>6, <1>7 DEF Ungrid!IInv

\* Where no line is read and nothing is written, what is said of the text stays.
LEMMA TextStays ==
    ASSUME Ungrid!IInv, Ungrid!Text, input' = input, ends' = ends, fails' = fails, pos' = pos, written' = written,
           phase' # "exit" \/ phase = "exit",
           phase' \in {"rows", "abort"} => phase \in {"rows", "abort"},
           phase' = "points" => phase \in {"points", "rows"}
    PROVE  Ungrid!Text'
<1>1. Ungrid!complete' = Ungrid!complete
    BY DEF Ungrid!complete
<1>2. Ungrid!Min({pos, Ungrid!complete})' = Ungrid!Min({pos, Ungrid!complete})
    BY <1>1 DEF Ungrid!Min
<1>3. \A n : Ungrid!Answered(n)' <=> Ungrid!Answered(n)
    BY DEF Ungrid!Answered, Ungrid!Ascends, Ungrid!Range
<1>4. Ungrid!AtPoints'
    BY <1>1, <1>2, <1>3 DEF Ungrid!Text, Ungrid!AtPoints
<1>5. phase = "rows" => pos <= Ungrid!complete
    BY UngridTyped DEF Ungrid!Text
<1> QED BY <1>1, <1>4, <1>5 DEF Ungrid!Text

\* What one turn of the loop does.
LEMMA TurnDone ==
    ASSUME NEW line, NEW eof \in BOOLEAN, Ungrid!Turn(line, eof)
    PROVE  /\ control' = control /\ from_data' = from_data /\ row' = row /\ input' = input
           /\ ends' = ends /\ fails' = fails /\ outside' = outside /\ readln' = line
           /\ phase' = IF eof THEN "exit" ELSE "points"
           /\ eof => written' = written
           /\ ~eof => \E p \in IF line = Unread THEN {Off, Garbage} ELSE {line} :
                        written' = IF p = Garbage THEN written ELSE Append(written, Ungrid!Answer(p))
BY DEF Ungrid!Turn

LEMMA TurnValues ==
    ASSUME Ungrid!IInv, NEW line \in Ungrid!InputLines \cup {Unread}, NEW eof \in BOOLEAN, Ungrid!Turn(line, eof)
    PROVE  \/ written' = written
           \/ \E p \in (Int \X Int) \cup {Off} : written' = Append(written, Ungrid!Answer(p))
<1>1. CASE eof
    BY <1>1, TurnDone
<1>2. CASE ~eof
    <2>1. PICK p \in IF line = Unread THEN {Off, Garbage} ELSE {line} :
                written' = IF p = Garbage THEN written ELSE Append(written, Ungrid!Answer(p))
        BY <1>2, TurnDone
    <2>2. p \in (Int \X Int) \cup {Off, Garbage}
        BY <2>1 DEF Ungrid!InputLines
    <2>3. CASE p = Garbage
        BY <2>1, <2>3
    <2>4. CASE p # Garbage
        <3>1. p \in (Int \X Int) \cup {Off}
            BY <2>2, <2>4
        <3> QED BY <2>1, <2>4, <3>1
    <2> QED BY <2>3, <2>4
<1> QED BY <1>1, <1>2

LEMMA UngridReadPoint ==
    ASSUME Ungrid!IInv, Ungrid!ReadPoint
    PROVE  Ungrid!IInv'
<1> USE UngridTyped
<1>1. phase = "points" /\ ~Ungrid!binary /\ pos < Len(input) /\ pos' = pos + 1
      /\ Ungrid!Turn(input[pos + 1], Ungrid!MetEnd(pos + 1))
    BY DEF Ungrid!ReadPoint
<1>2. pos \in Nat /\ pos + 1 \in 1 .. Len(input)
    BY <1>1
<1>3. PICK line : line = input[pos + 1] /\ line \in Ungrid!InputLines
    BY <1>2
<1>4. PICK eof \in BOOLEAN : eof <=> pos + 1 = Len(input) /\ ~ends
    OBVIOUS
<1>5. Ungrid!MetEnd(pos + 1) = eof
    BY <1>1, <1>2, <1>4 DEF Ungrid!MetEnd
<1>6. Ungrid!Turn(line, eof)
    BY <1>1, <1>3, <1>5
<1>7. ~control.C
    BY <1>1 DEF Ungrid!IInv, Ungrid!Centres
<1>8. line # Unread
    BY <1>3, UngridConstants
<1>9. line \in Ungrid!Range(input)
    <2>1. pos + 1 \in DOMAIN input
        BY <1>2, LenProperties
    <2> QED BY <1>3, <2>1 DEF Ungrid!Range
<1>10. pos <= Ungrid!complete /\ Ungrid!AtPoints
    <2>1. Ungrid!Text
        BY <1>1, <1>7 DEF Ungrid!IInv
    <2>2. ~(pos > Len(input))
        BY <1>1, <1>2
    <2> QED BY <1>1, <2>1, <2>2 DEF Ungrid!Text
<1>11. Ungrid!complete' = Ungrid!complete
    BY <1>6, TurnDone DEF Ungrid!complete
<1>12. Ungrid!Answered(pos)
    <2>1. Ungrid!Min({pos, Ungrid!complete}) = pos
        BY <1>2, <1>10, MinOfTwo
    <2>2. ~(fails /\ pos > Len(input))
        BY <1>1, <1>2
    <2> QED BY <1>10, <2>1, <2>2 DEF Ungrid!AtPoints
<1>13. Ungrid!Text'
    <2>1. CASE eof
        <3>1. written' = written /\ phase' = "exit" /\ input' = input /\ fails' = fails
            BY <1>6, <2>1, TurnDone
        <3>2. Ungrid!complete = pos /\ pos' >= Ungrid!complete
            BY <1>1, <1>2, <1>4, <2>1
        <3>3. Ungrid!Min({pos', Ungrid!complete}) = pos
            BY <1>1, <1>2, <3>2, MinOfTwo
        <3>4. Ungrid!Min({pos, Ungrid!complete})' = pos
            BY <1>11, <3>3 DEF Ungrid!Min
        <3>5. \A n : Ungrid!Answered(n)' <=> Ungrid!Answered(n)
            BY <3>1 DEF Ungrid!Answered, Ungrid!Ascends, Ungrid!Range
        <3>6. Ungrid!AtPoints'
            BY <1>11, <1>12, <3>1, <3>2, <3>4, <3>5 DEF Ungrid!AtPoints
        <3> QED BY <3>1, <3>6 DEF Ungrid!Text
    <2>2. CASE ~eof
        <3>1. phase' = "points" /\ input' = input /\ fails' = fails /\ ends' = ends
            BY <1>6, <2>2, TurnDone
        <3>2. pos + 1 <= Ungrid!complete
            BY <1>1, <1>2, <1>4, <2>2
        <3>3. written' = IF line = Garbage THEN written ELSE Append(written, Ungrid!Answer(line))
            BY <1>6, <1>8, <2>2, TurnDone
        <3>4. Ungrid!Answer(line).at = line
            BY DEF Ungrid!Answer
        <3>5. IF input[pos + 1] = Garbage THEN written' = written
              ELSE \E v : v.at = input[pos + 1] /\ written' = Append(written, v)
            BY <1>3, <3>3, <3>4
        <3>6. PICK n \in Nat : n = pos
            BY <1>2
        <3>7. Ungrid!Answered(n + 1)'
            BY <1>12, <3>1, <3>5, <3>6, AnsweredNext
        <3>8. Ungrid!Min({pos', Ungrid!complete}) = n + 1
            BY <1>1, <1>2, <3>2, <3>6, MinOfTwo
        <3>9. Ungrid!Min({pos, Ungrid!complete})' = n + 1
            BY <1>11, <3>8 DEF Ungrid!Min
        <3>10. Ungrid!AtPoints'
            BY <3>1, <3>7, <3>9 DEF Ungrid!AtPoints
        <3>11. pos' <= Ungrid!complete'
            BY <1>1, <1>11, <3>2
        <3> QED BY <3>1, <3>10, <3>11 DEF Ungrid!Text
    <2> QED BY <2>1, <2>2
<1>14. pos' \in 0 .. Len(input) + 1
    BY <1>1, <1>2
<1>15. phase' \in {"exit", "points"}
    BY <1>6, TurnDone
<1>16. \/ written' = written
       \/ \E p \in (Int \X Int) \cup {Off} : written' = Append(written, Ungrid!Answer(p))
    BY <1>3, <1>6, TurnValues
<1> QED BY <1>6, <1>7, <1>9, <1>13, <1>14, <1>15, <1>16, TurnDone, UngridNext

LEMMA UngridReadEnd ==
    ASSUME Ungrid!IInv, Ungrid!ReadEnd
    PROVE  Ungrid!IInv'
<1> USE UngridTyped
<1>1. phase = "points" /\ ~Ungrid!binary /\ pos = Len(input) /\ ~fails /\ pos' = pos
      /\ Ungrid!Turn(readln, Ungrid!MetEnd(pos + 1))
    BY DEF Ungrid!ReadEnd
<1>2. Ungrid!MetEnd(pos + 1) = TRUE
    BY <1>1 DEF Ungrid!MetEnd
<1>3. Ungrid!Turn(readln, TRUE)
    BY <1>1, <1>2
<1>4. ~control.C
    BY <1>1 DEF Ungrid!IInv, Ungrid!Centres
<1>5. Ungrid!Text
    BY <1>1, <1>4 DEF Ungrid!IInv
<1>6. /\ written' = written /\ phase' = "exit" /\ input' = input /\ fails' = fails /\ ends' = ends
      /\ control' = control /\ from_data' = from_data /\ row' = row /\ outside' = outside /\ readln' = readln
    BY <1>3, TurnDone
<1>7. pos >= Ungrid!complete
    BY <1>1
<1>8. Ungrid!complete' = Ungrid!complete
    BY <1>6 DEF Ungrid!complete
<1>9. Ungrid!Min({pos, Ungrid!complete})' = Ungrid!Min({pos, Ungrid!complete})
    BY <1>1, <1>8 DEF Ungrid!Min
<1>10. \A n : Ungrid!Answered(n)' <=> Ungrid!Answered(n)
    BY <1>6 DEF Ungrid!Answered, Ungrid!Ascends, Ungrid!Range
<1>11. Ungrid!AtPoints'
    BY <1>1, <1>5, <1>6, <1>7, <1>8, <1>9, <1>10 DEF Ungrid!AtPoints, Ungrid!Text
<1>12. Ungrid!Text'
    BY <1>6, <1>11 DEF Ungrid!Text
<1> QED BY <1>1, <1>4, <1>6, <1>12, UngridNext

LEMMA UngridReadFails ==
    ASSUME Ungrid!IInv, Ungrid!ReadFails
    PROVE  Ungrid!IInv'
<1> USE UngridTyped
<1>1. phase = "points" /\ ~Ungrid!binary /\ pos = Len(input) /\ fails /\ pos' = pos + 1 /\ Ungrid!Turn(readln, FALSE)
    BY DEF Ungrid!ReadFails
<1>2. ~control.C
    BY <1>1 DEF Ungrid!IInv, Ungrid!Centres
<1>3. /\ phase' = "points" /\ input' = input /\ fails' = fails /\ ends' = ends
      /\ control' = control /\ from_data' = from_data /\ row' = row /\ outside' = outside /\ readln' = readln
    BY <1>1, TurnDone
<1>4. fails' /\ pos' > Len(input')
    BY <1>1, <1>3
<1>5. Ungrid!Text'
    BY <1>3, <1>4 DEF Ungrid!Text, Ungrid!AtPoints
<1>6. PICK line : line = readln /\ line \in Ungrid!InputLines \cup {Unread}
    OBVIOUS
<1>7. \/ written' = written
      \/ \E p \in (Int \X Int) \cup {Off} : written' = Append(written, Ungrid!Answer(p))
    BY <1>1, <1>6, TurnValues
<1>8. pos' \in 0 .. Len(input) + 1
    BY <1>1
<1> QED BY <1>2, <1>3, <1>5, <1>7, <1>8, UngridNext

LEMMA UngridReadBinary ==
    ASSUME Ungrid!IInv, Ungrid!ReadBinary
    PROVE  Ungrid!IInv'
<1>1. PICK p \in {<<0, 0>>, Off} : written' = Append(written, Ungrid!Answer(p))
    BY DEF Ungrid!ReadBinary
<1>2. p \in (Int \X Int) \cup {Off}
    BY <1>1
<1>3. /\ phase = "points" /\ Ungrid!binary
      /\ UNCHANGED <<control, from_data, row, input, ends, fails, pos, readln, phase, outside>>
    BY DEF Ungrid!ReadBinary
<1>4. ~control.C
    BY <1>3 DEF Ungrid!IInv, Ungrid!Centres
<1> QED BY <1>1, <1>2, <1>3, <1>4, UngridTyped, UngridNext

\* A row that is only read: no line has been read yet, and none is.
LEMMA UngridReadRow ==
    ASSUME Ungrid!IInv, Ungrid!ReadRow
    PROVE  Ungrid!IInv'
<1>1. /\ phase = "rows" /\ ~control.C /\ row' = row + 1
      /\ phase' = IF row + 1 = Rows THEN "points" ELSE "rows"
      /\ UNCHANGED <<control, from_data, input, ends, fails, pos, readln, written, outside>>
    BY DEF Ungrid!ReadRow
<1>2. row < Rows
    BY <1>1 DEF Ungrid!IInv
<1>3. row' \in 0 .. Rows /\ (phase' = "rows" => row' < Rows)
    BY <1>1, <1>2, UngridTyped
<1>4. ~Ungrid!binary => Ungrid!Text'
    <2>1. ~Ungrid!binary => Ungrid!Text
        BY <1>1 DEF Ungrid!IInv
    <2> QED BY <1>1, <2>1, TextStays
<1> QED BY <1>1, <1>3, <1>4, UngridTyped, UngridNext

\* What is said of the cells stays where neither the output nor the rows change.
LEMMA CentresStay ==
    ASSUME Ungrid!Centres, control' = control, from_data' = from_data, row' = row,
           written' = written, outside' = outside, phase' = phase \/ phase' = "abort"
    PROVE  Ungrid!Centres'
<1>1. \A c : Ungrid!Sample(c)' = Ungrid!Sample(c)
    BY DEF Ungrid!Sample
<1>2. \A v : Ungrid!Within(v)' <=> Ungrid!Within(v)
    BY DEF Ungrid!Within
<1>3. \A c : Ungrid!CentreValue(c)' = Ungrid!CentreValue(c)
    BY <1>1, <1>2 DEF Ungrid!CentreValue
<1>4. Ungrid!AtCentres'
    BY <1>3 DEF Ungrid!Centres, Ungrid!AtCentres, Ungrid!Before
<1> QED BY <1>4 DEF Ungrid!Centres

LEMMA UngridShortFile ==
    ASSUME Ungrid!IInv, Ungrid!ShortFile
    PROVE  Ungrid!IInv'
<1>1. /\ phase = "rows" /\ phase' = "abort"
      /\ UNCHANGED <<control, from_data, row, input, ends, fails, pos, readln, written, outside>>
    BY DEF Ungrid!ShortFile
<1>2. control.C => Ungrid!Centres'
    <2>1. control.C => Ungrid!Centres
        BY DEF Ungrid!IInv
    <2> QED BY <1>1, <2>1, CentresStay
<1>3. ~control.C /\ ~Ungrid!binary => Ungrid!Text'
    <2>1. ~control.C /\ ~Ungrid!binary => Ungrid!Text
        BY DEF Ungrid!IInv
    <2> QED BY <1>1, <2>1, TextStays
<1> QED BY <1>1, <1>2, <1>3, UngridTyped, UngridNext

\* A step that changes nothing.
LEMMA UngridFrame ==
    ASSUME Ungrid!IInv, UNCHANGED ungridVars
    PROVE  Ungrid!IInv'
<1>1. UNCHANGED <<control, from_data, row, input, ends, fails, pos, readln, phase, written, outside>>
    BY DEF ungridVars
<1>2. control.C => Ungrid!Centres'
    <2>1. control.C => Ungrid!Centres
        BY DEF Ungrid!IInv
    <2> QED BY <1>1, <2>1, CentresStay
<1>3. ~control.C /\ ~Ungrid!binary => Ungrid!Text'
    <2>1. ~control.C /\ ~Ungrid!binary => Ungrid!Text
        BY DEF Ungrid!IInv
    <2> QED BY <1>1, <2>1, TextStays
<1>4. phase = "rows" => row < Rows
    BY DEF Ungrid!IInv
<1> QED BY <1>1, <1>2, <1>3, <1>4, UngridTyped, UngridNext

-----------------------------------------------------------------------------
(***************************************************************************)
(* ungrid -C: a row of cells.                                              *)
(***************************************************************************)

\* The cells of a row up to the first one off the map, if there is one.
UpTo(spot) == Ungrid!Min({Cols} \cup {i \in 0 .. Cols - 1 : spot[i] = "off"})
LEMMA UpToTyped ==
    ASSUME NEW spot \in [0 .. Cols - 1 -> {"in", "out", "off"}]
    PROVE  /\ UpTo(spot) \in 0 .. Cols
           /\ ~(UpTo(spot) < Cols) => \A i \in 0 .. Cols - 1 : spot[i] = "in" \/ spot[i] = "out"
<1> DEFINE S == {Cols} \cup {i \in 0 .. Cols - 1 : spot[i] = "off"}
           f == [x \in S |-> x]
<1>1. Cols \in Nat
    BY UngridConstants
<1>2. S \subseteq 0 .. Cols /\ S # {}
    BY <1>1
<1>3. IsFiniteSet(0 .. Cols)
    BY <1>1, FS_Interval
<1>4. IsFiniteSet(S)
    BY <1>2, <1>3, FS_Subset
<1>5. \A x \in S : f[x] = x
    OBVIOUS
<1> HIDE DEF f, S
<1>6. \A x \in S : f[x] \in Int
    BY <1>2, <1>5
<1>7. \E m \in S : \A x \in S : m <= x
    <2>1. \E m \in S : \A x \in S : f[m] <= f[x]
        BY <1>2, <1>4, <1>6, LeastAt
    <2> QED BY <1>5, <2>1
<1>8. Ungrid!Min(S) \in S /\ \A x \in S : Ungrid!Min(S) <= x
    BY <1>7 DEF Ungrid!Min
<1>9. UpTo(spot) = Ungrid!Min(S)
    BY DEF UpTo, S
<1>10. ASSUME ~(UpTo(spot) < Cols), NEW i \in 0 .. Cols - 1 PROVE spot[i] = "in" \/ spot[i] = "out"
    <2>1. i \notin S
        <3>1. PICK m : m = UpTo(spot) /\ m \in S /\ \A x \in S : m <= x
            BY <1>8, <1>9
        <3>2. m \in Int /\ i \in Int /\ i < Cols /\ Cols \in Int
            BY <1>1, <1>2, <3>1
        <3>3. ~(m < Cols)
            BY <1>10, <3>1
        <3> QED BY <3>1, <3>2, <3>3
    <2>2. spot[i] # "off"
        BY <2>1 DEF S
    <2>3. spot[i] \in {"in", "out", "off"}
        OBVIOUS
    <2> QED BY <2>2, <2>3
<1> QED BY <1>2, <1>8, <1>9, <1>10

\* What the step does, in the terms of this section.
Written(spot) == {i \in 0 .. UpTo(spot) - 1 : ~Ungrid!Suppressed(<<row, i>>) /\ spot[i] = "in"}
Entry(i) == [at |-> <<row, i>>, value |-> <<Ungrid!CentreValue(<<row, i>>), 1>>]
LEMMA RowDone ==
    ASSUME Ungrid!ReadRowCentres
    PROVE  \E spot \in [0 .. Cols - 1 -> {"in", "out", "off"}] :
            /\ \E column \in [1 .. Cardinality(Written(spot)) -> Written(spot)] :
                /\ Ungrid!Ascends(column) /\ Ungrid!Range(column) = Written(spot)
                /\ written' = written \o [n \in DOMAIN column |-> Entry(column[n])]
            /\ outside' = outside \cup {<<row, i>> : i \in {k \in 0 .. UpTo(spot) - 1 : spot[k] = "out"}}
            /\ phase' = IF UpTo(spot) < Cols THEN "abort" ELSE IF row + 1 = Rows THEN "exit" ELSE "rows"
<1>1. PICK spot \in [0 .. Cols - 1 -> {"in", "out", "off"}] : Ungrid!process_row_use_center(spot)
    BY DEF Ungrid!ReadRowCentres
<1>2. /\ \E column \in [1 .. Ungrid!Cardinality(Written(spot)) -> Written(spot)] :
            /\ Ungrid!Ascends(column) /\ Ungrid!Range(column) = Written(spot)
            /\ written' = written \o [n \in DOMAIN column |-> Entry(column[n])]
      /\ outside' = outside \cup {<<row, i>> : i \in {k \in 0 .. UpTo(spot) - 1 : spot[k] = "out"}}
      /\ phase' = IF UpTo(spot) < Cols THEN "abort" ELSE IF row + 1 = Rows THEN "exit" ELSE "rows"
    BY <1>1 DEF Ungrid!process_row_use_center, Written, UpTo, Entry
<1> QED BY <1>1, <1>2, SameCardinality

\* The cells written so far and those of the row are the cells that are due.
LEMMA RowOrder ==
    ASSUME Ungrid!IInv, control.C, Ungrid!ReadRowCentres
    PROVE  Ungrid!Centres' /\ written' \in Seq(Ungrid!Range(written')) /\ outside' \subseteq Ungrid!Cells
<1>1. /\ phase = "rows" /\ row' = row + 1 /\ control' = control /\ from_data' = from_data
    BY DEF Ungrid!ReadRowCentres
<1>2. PICK spot \in [0 .. Cols - 1 -> {"in", "out", "off"}] :
        /\ \E column \in [1 .. Cardinality(Written(spot)) -> Written(spot)] :
            /\ Ungrid!Ascends(column) /\ Ungrid!Range(column) = Written(spot)
            /\ written' = written \o [n \in DOMAIN column |-> Entry(column[n])]
        /\ outside' = outside \cup {<<row, i>> : i \in {k \in 0 .. UpTo(spot) - 1 : spot[k] = "out"}}
        /\ phase' = IF UpTo(spot) < Cols THEN "abort" ELSE IF row + 1 = Rows THEN "exit" ELSE "rows"
    BY RowDone
<1>3. PICK n, column :
        /\ n = Cardinality(Written(spot)) /\ column \in [1 .. n -> Written(spot)]
        /\ Ungrid!Ascends(column) /\ Ungrid!Range(column) = Written(spot)
        /\ written' = written \o [k \in DOMAIN column |-> Entry(column[k])]
    BY <1>2
<1>4. UpTo(spot) \in 0 .. Cols /\ row \in 0 .. Rows - 1 /\ Cols \in Nat /\ Rows \in Nat
    <2>1. row < Rows
        BY <1>1 DEF Ungrid!IInv
    <2> QED BY <2>1, UpToTyped, UngridTyped, UngridConstants
<1>5. Written(spot) \subseteq 0 .. UpTo(spot) - 1 /\ 0 .. UpTo(spot) - 1 \subseteq 0 .. Cols - 1
    BY <1>4 DEF Written
<1>6. n \in Nat
    <2>1. IsFiniteSet(0 .. UpTo(spot) - 1)
        BY <1>4, FS_Interval
    <2>2. IsFiniteSet(Written(spot))
        BY <1>5, <2>1, FS_Subset
    <2> QED BY <1>3, <2>2, FS_CardinalityType
<1>7. /\ \A k \in 1 .. n : column[k] \in Written(spot) /\ column[k] \in Int /\ <<row, column[k]>> \in Ungrid!Cells
      /\ DOMAIN column = 1 .. n
    BY <1>3, <1>4, <1>5 DEF Ungrid!Cells
<1>8. PICK s : s = written
    OBVIOUS
<1>9. PICK t : t = written'
    OBVIOUS
<1>10. PICK u : u = [k \in DOMAIN column |-> Entry(column[k])]
    OBVIOUS
<1>11. u \in Seq(Ungrid!Range(u)) /\ Len(u) = n
    BY <1>6, <1>7, <1>10, IsSequence
<1>12. s \in Seq(Ungrid!Range(s))
    BY <1>8, UngridTyped
<1>13. t = s \o u
    BY <1>3, <1>8, <1>9, <1>10
<1>14. t \in Seq(Ungrid!Range(t))
    BY <1>11, <1>12, <1>13, Joined
<1>15. PICK m \in Nat : m = Len(s) /\ Len(t) = m + n
    <2>1. Len(s) \in Nat
        BY <1>11, <1>12, <1>13, Joined
    <2>2. Len(t) = Len(s) + Len(u)
        BY <1>11, <1>12, <1>13, Joined
    <2> QED BY <1>11, <2>1, <2>2
<1>16. \A i \in 1 .. m : t[i] = s[i]
    BY <1>11, <1>12, <1>13, <1>15, Joined
<1>17. \A k \in 1 .. n : t[m + k].at = <<row, column[k]>>
    <2>1. \A k \in 1 .. n : t[m + k] = u[k]
        BY <1>11, <1>12, <1>13, <1>15, Joined
    <2>2. ASSUME NEW k \in 1 .. n PROVE u[k].at = <<row, column[k]>>
        <3>1. u[k] = Entry(column[k])
            BY <1>7, <1>10
        <3> QED BY <3>1 DEF Entry
    <2> QED BY <2>1, <2>2
<1>18. /\ Ungrid!AtCentres /\ \A c \in outside : c[1] < row
       /\ \A i \in 1 .. m : s[i].at \in Ungrid!Cells /\ s[i].at[1] < row
    BY <1>8, <1>15 DEF Ungrid!IInv, Ungrid!Centres
<1>19. \A i \in 1 .. m + n : i \in 1 .. m \/ \E k \in 1 .. n : i = m + k
    <2>1. ASSUME NEW i \in 1 .. m + n, i \notin 1 .. m PROVE \E k \in 1 .. n : i = m + k
        <3>1. i - m \in 1 .. n /\ i = m + (i - m)
            BY <1>6, <2>1
        <3> QED BY <3>1
    <2> QED BY <2>1
<1>20. \A i \in 1 .. m + n : t[i].at \in Ungrid!Cells /\ t[i].at[1] < row + 1
    <2>1. ASSUME NEW i \in 1 .. m PROVE t[i].at \in Ungrid!Cells /\ t[i].at[1] < row + 1
        BY <1>4, <1>16, <1>18, CellTyped
    <2>2. ASSUME NEW k \in 1 .. n PROVE t[m + k].at \in Ungrid!Cells /\ t[m + k].at[1] < row + 1
        <3>1. t[m + k].at = <<row, column[k]>> /\ <<row, column[k]>>[1] = row
            BY <1>17
        <3>2. <<row, column[k]>> \in Ungrid!Cells /\ row < row + 1
            BY <1>4, <1>7
        <3> QED BY <3>1, <3>2
    <2> QED BY <1>19, <2>1, <2>2
<1>21. \A i, j \in 1 .. m + n : i < j => Ungrid!Before(t[i].at, t[j].at)
    <2> SUFFICES ASSUME NEW i \in 1 .. m + n, NEW j \in 1 .. m + n, i < j
                 PROVE  t[i].at[1] < t[j].at[1] \/ (t[i].at[1] = t[j].at[1] /\ t[i].at[2] < t[j].at[2])
        BY DEF Ungrid!Before
    <2>1. CASE j \in 1 .. m
        <3>1. i \in 1 .. m
            BY <2>1
        <3> QED BY <1>8, <1>15, <1>16, <1>18, <2>1, <3>1 DEF Ungrid!AtCentres, Ungrid!Before
    <2>2. CASE j \notin 1 .. m /\ i \in 1 .. m
        <3>1. PICK k \in 1 .. n : j = m + k
            BY <1>19, <2>2
        <3>2. t[j].at[1] = row
            BY <1>17, <3>1
        <3> QED BY <1>16, <1>18, <2>2, <3>2
    <2>3. CASE j \notin 1 .. m /\ i \notin 1 .. m
        <3>1. PICK k \in 1 .. n : j = m + k
            BY <1>19, <2>3
        <3>2. PICK h \in 1 .. n : i = m + h
            BY <1>19, <2>3
        <3>3. h < k
            BY <1>6, <3>1, <3>2
        <3>4. column[h] < column[k]
            BY <1>3, <1>7, <3>3 DEF Ungrid!Ascends
        <3> QED BY <1>17, <3>1, <3>2, <3>4
    <2> QED BY <2>1, <2>2, <2>3
<1>22. PICK o : o = outside' /\ o = outside \cup {<<row, i>> : i \in {k \in 0 .. UpTo(spot) - 1 : spot[k] = "out"}}
    BY <1>2
<1>23. o \subseteq Ungrid!Cells /\ \A c \in o : c[1] < row + 1
    <2>1. ASSUME NEW c \in outside PROVE c \in Ungrid!Cells /\ c[1] < row + 1
        <3>1. c \in Ungrid!Cells
            BY UngridTyped
        <3> QED BY <1>4, <1>18, <3>1, CellTyped
    <2>2. ASSUME NEW i \in 0 .. UpTo(spot) - 1 PROVE <<row, i>> \in Ungrid!Cells /\ <<row, i>>[1] < row + 1
        BY <1>4, <1>5 DEF Ungrid!Cells
    <2> QED BY <1>22, <2>1, <2>2
<1> DEFINE Due(c) == ~(control.I /\ Ungrid!CentreValue(c) = Fill)
<1>24. \A i \in 0 .. UpTo(spot) - 1 : i \in Written(spot) <=> Due(<<row, i>>) /\ spot[i] = "in"
    BY DEF Written, Ungrid!Suppressed
<1>25. ASSUME phase' # "abort"
       PROVE  {t[i].at : i \in 1 .. m + n} = {c \in Ungrid!Cells \ o : c[1] < row + 1 /\ Due(c)}
    <2>1. ~(UpTo(spot) < Cols)
        BY <1>2, <1>25
    <2>2. UpTo(spot) = Cols /\ \A i \in 0 .. Cols - 1 : spot[i] = "in" \/ spot[i] = "out"
        BY <1>4, <2>1, UpToTyped
    <2>3. {s[i].at : i \in 1 .. m} = {c \in Ungrid!Cells \ outside : c[1] < row /\ Due(c)}
        BY <1>1, <1>8, <1>15, <1>18 DEF Ungrid!AtCentres
    <2>4. \A i \in 0 .. Cols - 1 : <<row, i>> \in o <=> spot[i] = "out"
        <3>1. ASSUME NEW i \in 0 .. Cols - 1, <<row, i>> \in outside PROVE FALSE
            <4>1. <<row, i>>[1] < row
                BY <1>18, <3>1
            <4> QED BY <1>4, <4>1
        <3> QED BY <1>22, <2>2, <3>1
    <2>5. \A c \in Ungrid!Cells : c[1] < row => (c \in o <=> c \in outside)
        <3>1. ASSUME NEW i, NEW c \in Ungrid!Cells, c[1] < row, c = <<row, i>> PROVE FALSE
            <4>1. row < row
                BY <3>1
            <4> QED BY <1>4, <4>1
        <3> QED BY <1>22, <3>1
    <2> HIDE DEF Due
    <2>6. ASSUME NEW i \in 1 .. m + n
          PROVE  t[i].at \in Ungrid!Cells \ o /\ t[i].at[1] < row + 1 /\ Due(t[i].at)
        <3>1. t[i].at \in Ungrid!Cells /\ t[i].at[1] < row + 1
            BY <1>20
        <3>2. CASE i \in 1 .. m
            <4>1. s[i].at \in {c \in Ungrid!Cells \ outside : c[1] < row /\ Due(c)}
                BY <2>3, <3>2
            <4> QED BY <1>16, <2>5, <3>1, <3>2, <4>1
        <3>3. CASE i \notin 1 .. m
            <4>1. PICK k \in 1 .. n : i = m + k
                BY <1>19, <3>3
            <4>2. t[i].at = <<row, column[k]>> /\ column[k] \in Written(spot)
                BY <1>7, <1>17, <4>1
            <4>3. column[k] \in 0 .. UpTo(spot) - 1 /\ column[k] \in 0 .. Cols - 1
                BY <1>5, <4>2
            <4>4. Due(<<row, column[k]>>) /\ spot[column[k]] = "in"
                BY <1>24, <4>2, <4>3 DEF Due
            <4>5. <<row, column[k]>> \notin o
                BY <2>4, <4>3, <4>4
            <4> QED BY <3>1, <4>2, <4>4, <4>5
        <3> QED BY <3>2, <3>3
    <2>7. ASSUME NEW c \in Ungrid!Cells \ o, c[1] < row + 1, Due(c)
          PROVE  \E i \in 1 .. m + n : t[i].at = c
        <3>1. CASE c[1] < row
            <4>1. c \in {x \in Ungrid!Cells \ outside : x[1] < row /\ Due(x)}
                BY <2>5, <2>7, <3>1
            <4>2. PICK i \in 1 .. m : s[i].at = c
                BY <2>3, <4>1
            <4>3. i \in 1 .. m + n
                BY <1>6
            <4> QED BY <1>16, <4>2, <4>3
        <3>2. CASE ~(c[1] < row)
            <4>1. PICK i : i \in 0 .. Cols - 1 /\ c = <<row, i>>
                <5>1. c[1] = row /\ c = <<c[1], c[2]>> /\ c[2] \in 0 .. Cols - 1
                    BY <1>4, <2>7, <3>2, CellTyped
                <5> QED BY <5>1
            <4>2. spot[i] = "in"
                BY <2>2, <2>4, <2>7, <4>1
            <4>3. i \in Written(spot)
                BY <1>24, <2>2, <2>7, <4>1, <4>2 DEF Due
            <4>4. PICK k \in 1 .. n : column[k] = i
                BY <1>3, <1>7, <4>3 DEF Ungrid!Range
            <4>5. m + k \in 1 .. m + n
                BY <1>6
            <4> QED BY <1>17, <4>1, <4>4, <4>5
        <3> QED BY <3>1, <3>2
    <2> QED BY <2>6, <2>7
<1>26. \A c : Ungrid!CentreValue(c)' = Ungrid!CentreValue(c)
    BY <1>1 DEF Ungrid!CentreValue, Ungrid!Within, Ungrid!Sample
<1>27. Ungrid!AtCentres'
    <2>1. \A i, j \in 1 .. Len(written') : i < j => Ungrid!Before(written'[i].at, written'[j].at)
        BY <1>9, <1>15, <1>21
    <2>2. phase' # "abort" => {written'[i].at : i \in 1 .. Len(written')} =
            {c \in Ungrid!Cells \ outside' : c[1] < row' /\ ~(control'.I /\ Ungrid!CentreValue(c)' = Fill)}
        BY <1>1, <1>9, <1>15, <1>22, <1>25, <1>26
    <2> QED BY <2>1, <2>2 DEF Ungrid!AtCentres, Ungrid!Before
<1>28. phase' # "points"
    BY <1>2
<1>29. Ungrid!Centres'
    <2>1. \A c \in outside' : c[1] < row'
        BY <1>1, <1>22, <1>23
    <2>2. \A i \in 1 .. Len(written') : written'[i].at \in Ungrid!Cells /\ written'[i].at[1] < row'
        BY <1>1, <1>9, <1>15, <1>20
    <2> QED BY <1>27, <1>28, <2>1, <2>2 DEF Ungrid!Centres
<1> QED BY <1>9, <1>14, <1>22, <1>23, <1>29

LEMMA UngridReadRowCentres ==
    ASSUME Ungrid!IInv, Ungrid!ReadRowCentres
    PROVE  Ungrid!IInv'
<1>1. /\ phase = "rows" /\ control.C /\ row' = row + 1
      /\ UNCHANGED <<control, from_data, input, ends, fails, pos, readln>>
    BY DEF Ungrid!ReadRowCentres
<1>2. row < Rows
    BY <1>1 DEF Ungrid!IInv
<1>3. phase' \in {"abort", "exit", "rows"} /\ (phase' = "rows" => row + 1 # Rows)
    BY RowDone
<1>4. row' \in 0 .. Rows /\ (phase' = "rows" => row' < Rows)
    BY <1>1, <1>2, <1>3, UngridTyped
<1>5. Ungrid!Centres' /\ written' \in Seq(Ungrid!Range(written')) /\ outside' \subseteq Ungrid!Cells
    BY <1>1, RowOrder
<1> QED BY <1>1, <1>3, <1>4, <1>5, UngridTyped, UngridNext

LEMMA UngridStep == Ungrid!IInv /\ [Ungrid!Next]_(Ungrid!ungridVars) => Ungrid!IInv'
<1> SUFFICES ASSUME Ungrid!IInv, [Ungrid!Next]_(Ungrid!ungridVars) PROVE Ungrid!IInv'
    OBVIOUS
<1>1. CASE Ungrid!ReadRow
    BY <1>1, UngridReadRow
<1>2. CASE Ungrid!ReadRowCentres
    BY <1>2, UngridReadRowCentres
<1>3. CASE Ungrid!ShortFile
    BY <1>3, UngridShortFile
<1>4. CASE Ungrid!ReadPoint
    BY <1>4, UngridReadPoint
<1>5. CASE Ungrid!ReadEnd
    BY <1>5, UngridReadEnd
<1>6. CASE Ungrid!ReadFails
    BY <1>6, UngridReadFails
<1>7. CASE Ungrid!ReadBinary
    BY <1>7, UngridReadBinary
<1>8. CASE Ungrid!ReadBinaryAgain
    <2>1. UNCHANGED ungridVars
        BY <1>8 DEF Ungrid!ReadBinaryAgain, Ungrid!ungridVars, ungridVars
    <2> QED BY <2>1, UngridFrame
<1>9. CASE UNCHANGED Ungrid!ungridVars
    <2>1. UNCHANGED ungridVars
        BY <1>9 DEF Ungrid!ungridVars, ungridVars
    <2> QED BY <2>1, UngridFrame
<1> QED BY <1>1, <1>2, <1>3, <1>4, <1>5, <1>6, <1>7, <1>8, <1>9 DEF Ungrid!Next

\* ungrid, for every grid, input and options: the inductive invariant holds.  It says
\* which lines have been answered when the loop is at its test, and which rows of
\* cells have been written when the next row is read.
THEOREM UngridInvariance == Ungrid!Spec => []Ungrid!IInv
<1>1. Ungrid!Init => Ungrid!IInv
    BY UngridInit
<1> QED BY <1>1, UngridStep, PTL DEF Ungrid!Spec

\* ungrid (main, process_row_use_center): the output is in order and complete, for
\* every grid, every sequence of lines and every pattern of cells in and out of the
\* bounds of -R.
THEOREM OrderCorrect == Ungrid!Spec => []OutputInOrder
<1>1. Ungrid!IInv => OutputInOrder
    <2> SUFFICES ASSUME Ungrid!IInv PROVE OutputInOrder
        OBVIOUS
    <2>1. CASE control.C
        BY <2>1 DEF Ungrid!IInv, Ungrid!Centres, OutputInOrder, Ungrid!OutputInOrder
    <2>2. CASE ~control.C
        BY <2>2 DEF Ungrid!IInv, Ungrid!Text, OutputInOrder, Ungrid!OutputInOrder
    <2> QED BY <2>1, <2>2
<1> QED BY <1>1, UngridInvariance, PTL

\* ungrid (interpolate and its methods): an answer lies between the valid data near
\* its point, or is the fill value, but for the cases the property names; for every
\* grid, point and radius.
THEOREM UngridBetweenCorrect == Ungrid!Spec => []UngridBetween
<1>1. Ungrid!IInv => UngridBetween
    BY DEF Ungrid!IInv, UngridBetween
<1> QED BY <1>1, UngridInvariance, PTL

-----------------------------------------------------------------------------
(***************************************************************************)
(* WdbToCdb: what pltpro and curve make of the lines of the sources.       *)
(***************************************************************************)

\* Loops from 1, through a set T.
IsLoopFromOne(R, n, a, step) == R = [i \in 1 .. n |-> IF i = 1 THEN a ELSE step[i][R[i - 1]]]

LEMMA LoopFromOne ==
    ASSUME NEW n \in Nat, NEW T, NEW a \in T, NEW step,
           \A i \in 1 .. n : i # 1 => \A x \in T : step[i][x] \in T
    PROVE  \E R : /\ IsLoopFromOne(R, n, a, step)
                  /\ \A i \in 1 .. n : R[i] \in T
<1> DEFINE first == [x \in T |-> a]
           s == [i \in 1 .. n |-> IF i = 1 THEN first ELSE step[i]]
           U == [i \in 0 .. n |-> T]
<1>1. PICK R : IsLoop(R, n, a, s)
    BY LoopExists
<1>2. \A i \in 1 .. n : i - 1 \in 0 .. n /\ i \in 0 .. n
    OBVIOUS
<1>3. ASSUME NEW i \in 1 .. n, NEW x \in U[i - 1] PROVE s[i][x] \in U[i]
    <2>1. x \in T /\ U[i] = T
        BY <1>2
    <2>2. CASE i = 1
        BY <2>1, <2>2
    <2>3. CASE i # 1
        <3>1. s[i] = step[i]
            BY <2>3
        <3> QED BY <2>1, <2>3, <3>1
    <2> QED BY <2>2, <2>3
<1>4. a \in U[0]
    OBVIOUS
<1>5. \A i \in 0 .. n : R[i] \in U[i]
    <2> HIDE DEF s, U
    <2> QED BY <1>1, <1>3, <1>4, LoopTyped
<1>6. \A i \in 0 .. n : R[i] \in T
    BY <1>5
<1> DEFINE V == [i \in 1 .. n |-> R[i]]
<1>7. ASSUME NEW i \in 1 .. n PROVE V[i] = IF i = 1 THEN a ELSE step[i][V[i - 1]]
    <2>1. R[i] = s[i][R[i - 1]]
        <3> HIDE DEF s
        <3> QED BY <1>1, <1>2 DEF IsLoop
    <2>2. CASE i = 1
        <3>1. s[i] = first /\ R[i - 1] \in T
            BY <2>2, <1>2, <1>6
        <3> QED BY <2>1, <2>2, <3>1
    <2>3. CASE i # 1
        <3>1. s[i] = step[i] /\ V[i - 1] = R[i - 1]
            BY <2>3
        <3> QED BY <2>1, <2>3, <3>1
    <2> QED BY <2>2, <2>3
<1>8. V = [i \in 1 .. n |-> V[i]]
    OBVIOUS
<1>9. IsLoopFromOne(V, n, a, step)
    <2> HIDE DEF V
    <2> QED BY <1>7, <1>8 DEF IsLoopFromOne
<1>10. \A i \in 1 .. n : V[i] \in T
    BY <1>2, <1>6
<1> HIDE DEF V
<1> QED BY <1>9, <1>10

-----------------------------------------------------------------------------
\* The recursive function of FlattenSeq.
IsFlat(seqs, R) ==
    R = [i \in 1 .. Len(seqs) |-> IF i = 1 THEN seqs[i] ELSE R[i - 1] \o seqs[i]]

LEMMA FlattenUnfolded ==
    ASSUME NEW seqs
    PROVE  WdbToCdb!FlattenSeq(seqs) =
                IF Len(seqs) = 0 THEN seqs ELSE (CHOOSE R : IsFlat(seqs, R))[Len(seqs)]
BY DEF WdbToCdb!FlattenSeq, IsFlat

LEMMA FlatExists ==
    ASSUME NEW S, NEW seqs \in Seq(Seq(S)), Len(seqs) # 0
    PROVE  \E R : IsFlat(seqs, R) /\ \A i \in 1 .. Len(seqs) : R[i] \in Seq(S)
<1> DEFINE n == Len(seqs)
           T == Seq(S)
           step == [i \in 1 .. n |-> [x \in T |-> x \o seqs[i]]]
<1>1. n \in Nat /\ n # 0 /\ \A i \in 1 .. n : seqs[i] \in T
    OBVIOUS
<1>2. \A i \in 1 .. n : \A x \in T : step[i][x] = x \o seqs[i] /\ x \o seqs[i] \in T
    BY <1>1
<1>3. 1 \in 1 .. n /\ seqs[1] \in T
    BY <1>1
<1>4. PICK R : /\ IsLoopFromOne(R, n, seqs[1], step)
               /\ \A i \in 1 .. n : R[i] \in T
    <2>1. \A i \in 1 .. n : i # 1 => \A x \in T : step[i][x] \in T
        BY <1>2
    <2> HIDE DEF step, T, n
    <2> QED BY <1>1, <1>3, <2>1, LoopFromOne
<1>5. ASSUME NEW i \in 1 .. n
      PROVE  (IF i = 1 THEN seqs[1] ELSE step[i][R[i - 1]]) = IF i = 1 THEN seqs[i] ELSE R[i - 1] \o seqs[i]
    <2>1. CASE i = 1
        BY <2>1
    <2>2. CASE i # 1
        <3>1. i - 1 \in 1 .. n
            BY <1>1, <2>2
        <3>2. R[i - 1] \in T
            BY <1>4, <3>1
        <3> HIDE DEF step, T, n
        <3> QED BY <1>2, <2>2, <3>2
    <2> QED BY <2>1, <2>2
<1>6. R = [i \in 1 .. n |-> IF i = 1 THEN seqs[i] ELSE R[i - 1] \o seqs[i]]
    <2> HIDE DEF step, T, n
    <2> QED BY <1>4, <1>5 DEF IsLoopFromOne
<1> QED BY <1>4, <1>6 DEF IsFlat

\* What it is, and that it does not look ahead.
LEMMA FlattenIs ==
    ASSUME NEW S, NEW seqs \in Seq(Seq(S))
    PROVE  /\ WdbToCdb!FlattenSeq(seqs) \in Seq(S)
           /\ Len(seqs) = 0 => WdbToCdb!FlattenSeq(seqs) = <<>>
           /\ Len(seqs) # 0 => \E R : /\ IsFlat(seqs, R) /\ \A i \in 1 .. Len(seqs) : R[i] \in Seq(S)
                                      /\ WdbToCdb!FlattenSeq(seqs) = R[Len(seqs)]
<1>1. CASE Len(seqs) = 0
    <2>1. seqs = <<>>
        BY <1>1
    <2>2. WdbToCdb!FlattenSeq(seqs) = <<>>
        BY <1>1, <2>1, FlattenUnfolded
    <2> QED BY <1>1, <2>2
<1>2. CASE Len(seqs) # 0
    <2> DEFINE R == CHOOSE R : IsFlat(seqs, R)
    <2>1. PICK Q0 : IsFlat(seqs, Q0) /\ \A i \in 1 .. Len(seqs) : Q0[i] \in Seq(S)
        BY <1>2, FlatExists
    <2>2. IsFlat(seqs, R)
        BY <2>1
    <2>3. WdbToCdb!FlattenSeq(seqs) = R[Len(seqs)]
        BY <1>2, FlattenUnfolded
    <2> HIDE DEF R
    <2> DEFINE G == {i \in 0 .. Len(seqs) : i = 0 \/ R[i] = Q0[i]}
    <2>4. ASSUME NEW i \in 1 .. Len(seqs), i - 1 \in G PROVE i \in G
        <3>1. R[i] = IF i = 1 THEN seqs[i] ELSE R[i - 1] \o seqs[i]
            BY <2>2 DEF IsFlat
        <3>2. Q0[i] = IF i = 1 THEN seqs[i] ELSE Q0[i - 1] \o seqs[i]
            BY <2>1 DEF IsFlat
        <3>3. i = 1 \/ R[i - 1] = Q0[i - 1]
            BY <2>4
        <3> QED BY <3>1, <3>2, <3>3
    <2>5. 0 .. Len(seqs) \subseteq G
        <3>1. 0 \in G /\ Len(seqs) \in Nat
            OBVIOUS
        <3> HIDE DEF G
        <3> QED BY <2>4, <3>1, ByIndex
    <2>6. \A i \in 1 .. Len(seqs) : R[i] = Q0[i]
        BY <2>5
    <2>7. Len(seqs) \in 1 .. Len(seqs)
        BY <1>2
    <2> QED BY <1>2, <2>1, <2>2, <2>3, <2>6, <2>7
<1> QED BY <1>1, <1>2

LEMMA FlattenLast ==
    ASSUME NEW S, NEW seqs \in Seq(Seq(S)), NEW before \in Seq(Seq(S)), Len(seqs) = Len(before) + 1,
           \A i \in 1 .. Len(before) : seqs[i] = before[i]
    PROVE  WdbToCdb!FlattenSeq(seqs) = WdbToCdb!FlattenSeq(before) \o seqs[Len(seqs)]
<1> DEFINE n == Len(seqs)
<1>0. n \in Nat \ {0} /\ Len(before) = n - 1 /\ Len(before) \in Nat
    OBVIOUS
<1>1. PICK R : IsFlat(seqs, R) /\ WdbToCdb!FlattenSeq(seqs) = R[n]
    BY <1>0, FlattenIs
<1>2. R[n] = IF n = 1 THEN seqs[n] ELSE R[n - 1] \o seqs[n]
    <2>1. n \in 1 .. Len(seqs)
        BY <1>0
    <2>2. \A i \in 1 .. Len(seqs) : R[i] = IF i = 1 THEN seqs[i] ELSE R[i - 1] \o seqs[i]
        BY <1>1 DEF IsFlat
    <2> QED BY <2>1, <2>2
<1>3. CASE n = 1
    <2>1. WdbToCdb!FlattenSeq(before) = <<>>
        <3>1. Len(before) = 0
            <4> HIDE DEF n
            <4> QED BY <1>0, <1>3
        <3>2. Len(before) = 0 => WdbToCdb!FlattenSeq(before) = <<>>
            BY FlattenIs
        <3> QED BY <3>1, <3>2
    <2>2. seqs[n] \in Seq(S)
        BY <1>0
    <2>3. <<>> \o seqs[n] = seqs[n]
        BY <2>2
    <2> QED BY <1>1, <1>2, <1>3, <2>1, <2>3
<1>4. CASE n # 1
    <2>1. PICK P : IsFlat(before, P) /\ WdbToCdb!FlattenSeq(before) = P[n - 1]
        BY <1>0, <1>4, FlattenIs
    <2> DEFINE G == {i \in 0 .. n - 1 : i = 0 \/ R[i] = P[i]}
    <2>2. ASSUME NEW i \in 1 .. n - 1, i - 1 \in G PROVE i \in G
        <3>1. R[i] = IF i = 1 THEN seqs[i] ELSE R[i - 1] \o seqs[i]
            <4>1. i \in 1 .. Len(seqs)
                BY <1>0
            <4>2. \A j \in 1 .. Len(seqs) : R[j] = IF j = 1 THEN seqs[j] ELSE R[j - 1] \o seqs[j]
                BY <1>1 DEF IsFlat
            <4> QED BY <4>1, <4>2
        <3>2. P[i] = IF i = 1 THEN before[i] ELSE P[i - 1] \o before[i]
            BY <2>1, <1>0 DEF IsFlat
        <3>3. i = 1 \/ R[i - 1] = P[i - 1]
            BY <2>2
        <3>4. seqs[i] = before[i]
            BY <1>0
        <3> QED BY <3>1, <3>2, <3>3, <3>4
    <2>3. 0 .. n - 1 \subseteq G
        <3>1. 0 \in G /\ n - 1 \in Nat
            BY <1>0
        <3> HIDE DEF G
        <3> QED BY <2>2, <3>1, ByIndex
    <2>4. R[n - 1] = P[n - 1]
        <3>1. n - 1 \in 0 .. n - 1 /\ n - 1 # 0
            BY <1>0, <1>4
        <3> QED BY <2>3, <3>1
    <2> QED BY <1>1, <1>2, <1>4, <2>1, <2>4
<1> QED BY <1>3, <1>4

\* The two ways a sequence of sequences grows.
LEMMA FlattenAppend ==
    ASSUME NEW S, NEW seqs \in Seq(Seq(S)), NEW x \in Seq(S)
    PROVE  WdbToCdb!FlattenSeq(Append(seqs, x)) = WdbToCdb!FlattenSeq(seqs) \o x
<1> DEFINE t == Append(seqs, x)
<1>1. /\ t \in Seq(Seq(S)) /\ Len(t) = Len(seqs) + 1 /\ t[Len(t)] = x
      /\ \A i \in 1 .. Len(seqs) : t[i] = seqs[i]
    OBVIOUS
<1> HIDE DEF t
<1>2. WdbToCdb!FlattenSeq(t) = WdbToCdb!FlattenSeq(seqs) \o x
    BY <1>1, FlattenLast
<1> QED BY <1>2 DEF t

LEMMA Associative ==
    ASSUME NEW S, NEW u \in Seq(S), NEW v \in Seq(S), NEW w \in Seq(S)
    PROVE  (u \o v) \o w = u \o (v \o w)
BY ConcatAssociative

LEMMA FlattenReplace ==
    ASSUME NEW S, NEW seqs \in Seq(Seq(S)), NEW t \in Seq(Seq(S)), NEW y \in Seq(S),
           Len(t) = Len(seqs), Len(seqs) # 0, \A i \in 1 .. Len(seqs) - 1 : t[i] = seqs[i],
           t[Len(seqs)] = seqs[Len(seqs)] \o y
    PROVE  WdbToCdb!FlattenSeq(t) = WdbToCdb!FlattenSeq(seqs) \o y
<1> DEFINE n == Len(seqs)
           b == SubSeq(seqs, 1, n - 1)
<1>1. n \in Nat \ {0} /\ seqs[n] \in Seq(S)
    OBVIOUS
<1>2. b \in Seq(Seq(S)) /\ Len(b) = n - 1 /\ \A i \in 1 .. n - 1 : b[i] = seqs[i]
    BY <1>1
<1> HIDE DEF b
<1>3. WdbToCdb!FlattenSeq(seqs) = WdbToCdb!FlattenSeq(b) \o seqs[n]
    <2>1. Len(seqs) = Len(b) + 1 /\ \A i \in 1 .. Len(b) : seqs[i] = b[i]
        BY <1>1, <1>2
    <2> QED BY <1>2, <2>1, FlattenLast
<1>4. WdbToCdb!FlattenSeq(t) = WdbToCdb!FlattenSeq(b) \o t[n]
    <2>0. Len(t) = n /\ \A i \in 1 .. n - 1 : t[i] = seqs[i]
        OBVIOUS
    <2>1. Len(t) = Len(b) + 1 /\ \A i \in 1 .. Len(b) : t[i] = b[i]
        BY <1>1, <1>2, <2>0
    <2>2. WdbToCdb!FlattenSeq(t) = WdbToCdb!FlattenSeq(b) \o t[Len(t)]
        BY <1>2, <2>1, FlattenLast
    <2> QED BY <2>0, <2>2
<1>5. WdbToCdb!FlattenSeq(b) \in Seq(S)
    BY <1>2, FlattenIs
<1>6. (WdbToCdb!FlattenSeq(b) \o seqs[n]) \o y = WdbToCdb!FlattenSeq(b) \o (seqs[n] \o y)
    <2> DEFINE u == WdbToCdb!FlattenSeq(b)
               v == seqs[n]
    <2>1. u \in Seq(S)
        BY <1>5
    <2>2. v \in Seq(S)
        BY <1>1
    <2>3. y \in Seq(S)
        OBVIOUS
    <2> HIDE DEF u, v
    <2>4. (u \o v) \o y = u \o (v \o y)
        BY ONLY <2>1, <2>2, <2>3, Associative
    <2> QED BY <2>4 DEF u, v
<1> QED BY <1>3, <1>4, <1>6

-----------------------------------------------------------------------------
\* Parts and ends of lines, point by point.
LEMMA SubSeqIs ==
    ASSUME NEW S, NEW s \in Seq(S), NEW k \in Nat, NEW n \in Nat, k + n <= Len(s)
    PROVE  /\ SubSeq(s, k + 1, k + n) \in Seq(S) /\ Len(SubSeq(s, k + 1, k + n)) = n
           /\ \A i \in 1 .. n : SubSeq(s, k + 1, k + n)[i] = s[k + i]
OBVIOUS

LEMMA SameSeq ==
    ASSUME NEW S, NEW s \in Seq(S), NEW t \in Seq(S), Len(s) = Len(t), \A i \in 1 .. Len(t) : s[i] = t[i]
    PROVE  s = t
OBVIOUS

PlacedAt(pts, line, k) ==
    k \in 0 .. Len(line) - Len(pts) /\ \A i \in 1 .. Len(pts) : pts[i] = line[k + i]

LEMMA PartIs ==
    ASSUME NEW S, NEW pts \in Seq(S), NEW line \in Seq(S), NEW k \in 0 .. Len(line) - Len(pts)
    PROVE  SubSeq(line, k + 1, k + Len(pts)) = pts <=> PlacedAt(pts, line, k)
<1> DEFINE t == SubSeq(line, k + 1, k + Len(pts))
<1>1. k \in Nat /\ Len(pts) \in Nat /\ k + Len(pts) <= Len(line)
    OBVIOUS
<1>2. t \in Seq(S) /\ Len(t) = Len(pts) /\ \A i \in 1 .. Len(pts) : t[i] = line[k + i]
    BY <1>1, SubSeqIs
<1> HIDE DEF t
<1>3. t = pts => PlacedAt(pts, line, k)
    BY <1>2 DEF PlacedAt
<1>4. PlacedAt(pts, line, k) => t = pts
    <2>1. SUFFICES ASSUME \A i \in 1 .. Len(pts) : pts[i] = line[k + i] PROVE t = pts
        BY DEF PlacedAt
    <2> QED BY <1>2, <2>1, SameSeq
<1> QED BY <1>3, <1>4 DEF t

LEMMA PartWhere ==
    ASSUME NEW S, NEW pts \in Seq(S), NEW line \in Seq(S)
    PROVE  WdbToCdb!PartOf(pts, line) <=> \E k : PlacedAt(pts, line, k)
<1>1. \A k : PlacedAt(pts, line, k) => k \in 0 .. Len(line) - Len(pts)
    BY DEF PlacedAt
<1>2. \A k \in 0 .. Len(line) - Len(pts) : SubSeq(line, k + 1, k + Len(pts)) = pts <=> PlacedAt(pts, line, k)
    BY PartIs
<1> QED BY <1>1, <1>2 DEF WdbToCdb!PartOf

LEMMA EndsIs ==
    ASSUME NEW S, NEW pts \in Seq(S), NEW line \in Seq(S)
    PROVE  WdbToCdb!EndsWith(line, pts) <=>
                /\ Len(pts) <= Len(line)
                /\ \A i \in 1 .. Len(pts) : pts[i] = line[Len(line) - Len(pts) + i]
<1>1. ASSUME Len(pts) <= Len(line)
      PROVE  SubSeq(line, Len(line) - Len(pts) + 1, Len(line)) = pts <=>
                \A i \in 1 .. Len(pts) : pts[i] = line[Len(line) - Len(pts) + i]
    <2> DEFINE k == Len(line) - Len(pts)
               t == SubSeq(line, k + 1, k + Len(pts))
    <2>1. k \in Nat /\ Len(pts) \in Nat /\ k + Len(pts) <= Len(line) /\ k + Len(pts) = Len(line)
        BY <1>1
    <2> HIDE DEF k
    <2>2. t \in Seq(S) /\ Len(t) = Len(pts) /\ \A i \in 1 .. Len(pts) : t[i] = line[k + i]
        BY <2>1, SubSeqIs
    <2> HIDE DEF t
    <2>3. t = pts => \A i \in 1 .. Len(pts) : pts[i] = line[k + i]
        BY <2>2
    <2>4. (\A i \in 1 .. Len(pts) : pts[i] = line[k + i]) => t = pts
        <3>1. SUFFICES ASSUME \A i \in 1 .. Len(pts) : pts[i] = line[k + i] PROVE t = pts
            OBVIOUS
        <3> QED BY <2>2, <3>1, SameSeq
    <2>5. t = SubSeq(line, Len(line) - Len(pts) + 1, Len(line))
        BY <2>1 DEF t, k
    <2> QED BY <2>3, <2>4, <2>5 DEF k
<1> QED BY <1>1 DEF WdbToCdb!EndsWith

LEMMA FrontIs ==
    ASSUME NEW S, NEW s \in Seq(S), s # <<>>
    PROVE  /\ Len(s) \in Nat \ {0}
           /\ WdbToCdb!Front(s) \in Seq(S) /\ Len(WdbToCdb!Front(s)) = Len(s) - 1
           /\ \A i \in 1 .. Len(s) - 1 : WdbToCdb!Front(s)[i] = s[i]
           /\ s[Len(s)] \in S
           /\ WdbToCdb!Front(s) \o <<s[Len(s)]>> = s
<1>1. Len(s) \in Nat \ {0} /\ s[Len(s)] \in S
    OBVIOUS
<1> DEFINE f == WdbToCdb!Front(s)
<1>2. f \in Seq(S) /\ Len(f) = Len(s) - 1 /\ \A i \in 1 .. Len(s) - 1 : f[i] = s[i]
    <2> DEFINE n == Len(s) - 1
               g == SubSeq(s, 0 + 1, 0 + n)
    <2>1. n \in Nat /\ 0 \in Nat /\ 0 + n <= Len(s)
        BY <1>1
    <2>2. f = g
        BY <1>1 DEF WdbToCdb!Front
    <2> HIDE DEF n, f
    <2>3. g \in Seq(S) /\ Len(g) = n /\ \A i \in 1 .. n : g[i] = s[0 + i]
        BY <2>1, SubSeqIs
    <2>4. \A i \in 1 .. n : 0 + i = i
        BY <2>1
    <2> QED BY <2>2, <2>3, <2>4 DEF n
<1> HIDE DEF f
<1>3. f \o <<s[Len(s)]>> = s
    <2> DEFINE e == <<s[Len(s)]>>
               t == f \o e
    <2>1. e \in Seq(S) /\ Len(e) = 1 /\ e[1] = s[Len(s)]
        BY <1>1
    <2> HIDE DEF e
    <2>2. /\ t \in Seq(S) /\ Len(t) = Len(s)
          /\ \A i \in 1 .. Len(s) : t[i] = IF i <= Len(f) THEN f[i] ELSE e[i - Len(f)]
        <3>1. /\ t \in Seq(S) /\ Len(t) = Len(f) + Len(e)
              /\ \A i \in 1 .. Len(f) + Len(e) : t[i] = IF i <= Len(f) THEN f[i] ELSE e[i - Len(f)]
            BY <1>2, <2>1, ConcatProperties
        <3>2. Len(f) + Len(e) = Len(s)
            BY <1>1, <1>2, <2>1
        <3> QED BY <3>1, <3>2
    <2> HIDE DEF t
    <2>3. \A i \in 1 .. Len(s) : t[i] = s[i]
        <3> TAKE i \in 1 .. Len(s)
        <3>1. CASE i <= Len(s) - 1
            BY <1>1, <1>2, <2>2, <3>1
        <3>2. CASE i = Len(s)
            BY <1>1, <1>2, <2>1, <2>2, <3>2
        <3> QED BY <1>1, <3>1, <3>2
    <2>4. t = s
        BY <2>2, <2>3, SameSeq
    <2> QED BY <2>4 DEF t, e
<1> QED BY <1>1, <1>2, <1>3 DEF f

LEMMA FrontOfAppend ==
    ASSUME NEW S, NEW s \in Seq(S), NEW x \in S
    PROVE  WdbToCdb!Front(Append(s, x)) = s
<1> DEFINE t == Append(s, x)
<1>1. t \in Seq(S) /\ Len(t) = Len(s) + 1 /\ \A i \in 1 .. Len(s) : t[i] = s[i]
    OBVIOUS
<1> HIDE DEF t
<1>0. t # <<>>
    BY <1>1
<1> DEFINE f == WdbToCdb!Front(t)
<1>2. f \in Seq(S) /\ Len(f) = Len(t) - 1 /\ \A i \in 1 .. Len(t) - 1 : f[i] = t[i]
    BY <1>0, <1>1, FrontIs
<1> HIDE DEF f
<1>3. Len(f) = Len(s) /\ \A i \in 1 .. Len(s) : f[i] = s[i]
    BY <1>1, <1>2
<1>4. f = s
    BY <1>2, <1>3, SameSeq
<1> QED BY <1>4 DEF f, t

LEMMA EndsAppend ==
    ASSUME NEW S, NEW pts \in Seq(S), NEW line \in Seq(S), NEW x \in S, WdbToCdb!EndsWith(line, pts)
    PROVE  WdbToCdb!EndsWith(Append(line, x), Append(pts, x))
<1> DEFINE p == Append(pts, x)
           l == Append(line, x)
<1>1. /\ p \in Seq(S) /\ Len(p) = Len(pts) + 1 /\ p[Len(p)] = x /\ \A i \in 1 .. Len(pts) : p[i] = pts[i]
      /\ l \in Seq(S) /\ Len(l) = Len(line) + 1 /\ l[Len(l)] = x /\ \A i \in 1 .. Len(line) : l[i] = line[i]
      /\ Len(pts) \in Nat /\ Len(line) \in Nat
    OBVIOUS
<1>2. Len(pts) <= Len(line) /\ \A i \in 1 .. Len(pts) : pts[i] = line[Len(line) - Len(pts) + i]
    BY EndsIs
<1> HIDE DEF p, l
<1>3. ASSUME NEW i \in 1 .. Len(p) PROVE p[i] = l[Len(l) - Len(p) + i]
    <2>1. CASE i = Len(p)
        BY <1>1, <2>1
    <2>2. CASE i \in 1 .. Len(pts)
        <3>1. Len(l) - Len(p) + i = Len(line) - Len(pts) + i /\ Len(line) - Len(pts) + i \in 1 .. Len(line)
            BY <1>1, <1>2, <2>2
        <3> QED BY <1>1, <1>2, <2>2, <3>1
    <2> QED BY <1>1, <2>1, <2>2
<1>4. WdbToCdb!EndsWith(l, p)
    <2>1. Len(p) <= Len(l) /\ p \in Seq(S) /\ l \in Seq(S)
        BY <1>1, <1>2
    <2> QED BY <1>3, <2>1, EndsIs
<1> QED BY <1>4 DEF p, l

LEMMA EndsWithLast ==
    ASSUME NEW S, NEW pts \in Seq(S), pts # <<>>, NEW line \in Seq(S), WdbToCdb!EndsWith(line, pts)
    PROVE  /\ pts[Len(pts)] = line[Len(line)] /\ line # <<>>
           /\ WdbToCdb!EndsWith(line, <<pts[Len(pts)]>>)
           /\ WdbToCdb!PartOf(WdbToCdb!Front(pts), line)
<1>1. Len(pts) \in Nat \ {0} /\ Len(line) \in Nat /\ pts[Len(pts)] \in S
    OBVIOUS
<1>2. Len(pts) <= Len(line) /\ \A i \in 1 .. Len(pts) : pts[i] = line[Len(line) - Len(pts) + i]
    BY EndsIs
<1>3. pts[Len(pts)] = line[Len(line)] /\ line # <<>>
    <2>1. Len(pts) \in 1 .. Len(pts) /\ Len(line) - Len(pts) + Len(pts) = Len(line) /\ Len(line) # 0
        BY <1>1, <1>2
    <2> QED BY <1>2, <2>1
<1>4. WdbToCdb!EndsWith(line, <<pts[Len(pts)]>>)
    <2> DEFINE e == <<pts[Len(pts)]>>
    <2>1. e \in Seq(S) /\ Len(e) = 1 /\ e[1] = pts[Len(pts)]
        BY <1>1
    <2> HIDE DEF e
    <2>2. Len(e) <= Len(line) /\ \A i \in 1 .. Len(e) : e[i] = line[Len(line) - Len(e) + i]
        BY <1>1, <1>2, <1>3, <2>1
    <2>3. WdbToCdb!EndsWith(line, e)
        BY <2>1, <2>2, EndsIs
    <2> QED BY <2>3 DEF e
<1>5. WdbToCdb!PartOf(WdbToCdb!Front(pts), line)
    <2> DEFINE f == WdbToCdb!Front(pts)
               k == Len(line) - Len(pts)
    <2>1. f \in Seq(S) /\ Len(f) = Len(pts) - 1 /\ \A i \in 1 .. Len(pts) - 1 : f[i] = pts[i]
        BY FrontIs
    <2> HIDE DEF f
    <2>2. k \in 0 .. Len(line) - Len(f)
        BY <1>1, <1>2, <2>1
    <2>3. \A i \in 1 .. Len(f) : f[i] = line[k + i]
        BY <1>1, <1>2, <2>1
    <2> HIDE DEF k
    <2>4. WdbToCdb!PartOf(f, line)
        BY <2>1, <2>2, <2>3, PartWhere DEF PlacedAt
    <2> QED BY <2>4 DEF f
<1> QED BY <1>3, <1>4, <1>5

LEMMA PartOfMore ==
    ASSUME NEW S, NEW pts \in Seq(S), NEW line \in Seq(S), NEW x \in S, WdbToCdb!PartOf(pts, line)
    PROVE  WdbToCdb!PartOf(pts, Append(line, x))
<1> DEFINE l == Append(line, x)
<1>1. PICK k : PlacedAt(pts, line, k)
    BY PartWhere
<1>2. /\ l \in Seq(S) /\ Len(l) = Len(line) + 1 /\ \A i \in 1 .. Len(line) : l[i] = line[i]
      /\ Len(pts) \in Nat /\ Len(line) \in Nat
    OBVIOUS
<1> HIDE DEF l
<1>3. PlacedAt(pts, l, k)
    <2>1. k \in 0 .. Len(line) - Len(pts) /\ \A i \in 1 .. Len(pts) : pts[i] = line[k + i]
        BY <1>1 DEF PlacedAt
    <2>2. k \in 0 .. Len(l) - Len(pts)
        BY <1>2, <2>1
    <2>3. ASSUME NEW i \in 1 .. Len(pts) PROVE pts[i] = l[k + i]
        <3>1. k + i \in 1 .. Len(line)
            BY <1>2, <2>1
        <3>2. l[k + i] = line[k + i]
            BY <1>2, <3>1
        <3> QED BY <2>1, <3>2
    <2> QED BY <2>2, <2>3 DEF PlacedAt
<1>4. WdbToCdb!PartOf(pts, l)
    BY <1>2, <1>3, PartWhere
<1> QED BY <1>4 DEF l

-----------------------------------------------------------------------------
\* Lines without their last points.
LEMMA FrontsIs ==
    ASSUME NEW S, NEW ls \in Seq(Seq(S) \ {<<>>})
    PROVE  /\ WdbToCdb!Fronts(ls) \in Seq(Seq(S)) /\ Len(WdbToCdb!Fronts(ls)) = Len(ls)
           /\ \A i \in 1 .. Len(ls) : /\ ls[i] \in Seq(S) /\ ls[i] # <<>>
                                      /\ WdbToCdb!Fronts(ls)[i] = WdbToCdb!Front(ls[i])
<1>1. \A i \in 1 .. Len(ls) : ls[i] \in Seq(S) /\ ls[i] # <<>>
    OBVIOUS
<1>2. \A i \in 1 .. Len(ls) : WdbToCdb!Front(ls[i]) \in Seq(S)
    BY <1>1, FrontIs
<1> DEFINE f == [i \in 1 .. Len(ls) |-> WdbToCdb!Front(ls[i])]
<1>3. f \in Seq(Seq(S)) /\ Len(f) = Len(ls) /\ \A i \in 1 .. Len(ls) : f[i] = WdbToCdb!Front(ls[i])
    <2>1. Len(ls) \in Nat
        OBVIOUS
    <2> QED BY <1>2, <2>1
<1> QED BY <1>1, <1>3 DEF WdbToCdb!Fronts

LEMMA FrontsNew ==
    ASSUME NEW S, NEW ls \in Seq(Seq(S) \ {<<>>}), NEW x \in S
    PROVE  /\ Append(ls, <<x>>) \in Seq(Seq(S) \ {<<>>})
           /\ WdbToCdb!FlattenSeq(WdbToCdb!Fronts(Append(ls, <<x>>))) = WdbToCdb!FlattenSeq(WdbToCdb!Fronts(ls))
<1> DEFINE e == Append(<<>>, x)
           t == Append(ls, e)
           f == WdbToCdb!Fronts(t)
           g == WdbToCdb!Fronts(ls)
<1>1. e = <<x>> /\ e \in Seq(S) /\ e # <<>> /\ <<>> \in Seq(S)
    OBVIOUS
<1>2. WdbToCdb!Front(e) = <<>>
    <2> HIDE DEF e
    <2>1. WdbToCdb!Front(Append(<<>>, x)) = <<>>
        BY <1>1, FrontOfAppend
    <2> QED BY <2>1 DEF e
<1> HIDE DEF e
<1>3. /\ t \in Seq(Seq(S) \ {<<>>}) /\ Len(t) = Len(ls) + 1 /\ t[Len(t)] = e /\ Len(ls) \in Nat
      /\ \A i \in 1 .. Len(ls) : t[i] = ls[i]
    BY <1>1
<1> HIDE DEF t
<1>4. f \in Seq(Seq(S)) /\ Len(f) = Len(t) /\ \A i \in 1 .. Len(t) : f[i] = WdbToCdb!Front(t[i])
    BY <1>3, FrontsIs
<1>5. g \in Seq(Seq(S)) /\ Len(g) = Len(ls) /\ \A i \in 1 .. Len(ls) : g[i] = WdbToCdb!Front(ls[i])
    BY FrontsIs
<1> HIDE DEF f, g
<1>6. Len(f) = Len(g) + 1 /\ \A i \in 1 .. Len(g) : f[i] = g[i]
    BY <1>3, <1>4, <1>5
<1>7. f[Len(f)] = <<>>
    <2>1. Len(f) \in 1 .. Len(t) /\ t[Len(f)] = e
        BY <1>3, <1>4
    <2> QED BY <1>2, <1>4, <2>1
<1>8. WdbToCdb!FlattenSeq(f) = WdbToCdb!FlattenSeq(g) \o <<>>
    BY <1>4, <1>5, <1>6, <1>7, FlattenLast
<1>9. WdbToCdb!FlattenSeq(g) \in Seq(S)
    BY <1>5, FlattenIs
<1>10. WdbToCdb!FlattenSeq(f) = WdbToCdb!FlattenSeq(g)
    BY <1>8, <1>9, ConcatEmptySeq
<1> QED BY <1>1, <1>3, <1>10 DEF f, g, t

Longer(ls, x) == [ls EXCEPT ![Len(ls)] = Append(@, x)]

LongerIs(S, ls, x) ==
    LET t == Longer(ls, x)
        last == ls[Len(ls)]
    IN  /\ Len(ls) \in 1 .. Len(ls)
        /\ t \in Seq(Seq(S) \ {<<>>}) /\ Len(t) = Len(ls) /\ t[Len(ls)] = Append(last, x)
        /\ \A i \in 1 .. Len(ls) - 1 : t[i] = ls[i]
        /\ last \in Seq(S) /\ last # <<>> /\ last[Len(last)] \in S
        /\ WdbToCdb!FlattenSeq(WdbToCdb!Fronts(t))
             = WdbToCdb!FlattenSeq(WdbToCdb!Fronts(ls)) \o <<last[Len(last)]>>

LEMMA FrontsMore ==
    ASSUME NEW S, NEW ls \in Seq(Seq(S) \ {<<>>}), ls # <<>>, NEW x \in S
    PROVE  LongerIs(S, ls, x)
<1> DEFINE n == Len(ls)
           last == ls[n]
           new == Append(last, x)
           t == [ls EXCEPT ![n] = new]
           f == WdbToCdb!Fronts(t)
           g == WdbToCdb!Fronts(ls)
           y == <<last[Len(last)]>>
<1>1. n \in Nat \ {0} /\ n \in 1 .. n /\ \A i \in 1 .. n : ls[i] \in Seq(S) \ {<<>>}
    OBVIOUS
<1>2. last \in Seq(S) /\ last # <<>> /\ last[Len(last)] \in S /\ y \in Seq(S)
    <2>1. last \in Seq(S) /\ last # <<>>
        BY <1>1
    <2> HIDE DEF last
    <2>2. last[Len(last)] \in S
        BY <2>1, FrontIs
    <2> QED BY <2>1, <2>2
<1>3. new \in Seq(S) /\ new # <<>>
    <2> HIDE DEF last
    <2>1. new \in Seq(S) /\ Len(new) = Len(last) + 1 /\ Len(last) \in Nat
        BY <1>2
    <2> HIDE DEF new
    <2> QED BY <2>1
<1>4. /\ t \in Seq(Seq(S) \ {<<>>}) /\ Len(t) = n /\ t[n] = new
      /\ \A i \in 1 .. n - 1 : t[i] = ls[i]
    <2> HIDE DEF new
    <2> QED BY <1>1, <1>3
<1>5. t = Longer(ls, x)
    BY DEF Longer
<1> HIDE DEF t
<1>6. f \in Seq(Seq(S)) /\ Len(f) = n /\ \A i \in 1 .. n : f[i] = WdbToCdb!Front(t[i])
    BY <1>4, FrontsIs
<1>7. g \in Seq(Seq(S)) /\ Len(g) = n /\ \A i \in 1 .. n : g[i] = WdbToCdb!Front(ls[i])
    BY FrontsIs
<1> HIDE DEF f, g
<1>8. \A i \in 1 .. n - 1 : f[i] = g[i]
    BY <1>1, <1>4, <1>6, <1>7
<1>9. f[n] = g[n] \o y
    <2>1. f[n] = WdbToCdb!Front(new) /\ g[n] = WdbToCdb!Front(last)
        BY <1>1, <1>4, <1>6, <1>7
    <2> HIDE DEF last
    <2>2. WdbToCdb!Front(new) = last
        BY <1>2, FrontOfAppend
    <2>3. WdbToCdb!Front(last) \o y = last
        BY <1>2, FrontIs
    <2> QED BY <2>1, <2>2, <2>3
<1> HIDE DEF y
<1>10. WdbToCdb!FlattenSeq(f) = WdbToCdb!FlattenSeq(g) \o y
    <2> HIDE DEF n
    <2>1. Len(f) = Len(g) /\ Len(g) # 0 /\ f[Len(g)] = g[Len(g)] \o y /\ \A i \in 1 .. Len(g) - 1 : f[i] = g[i]
        BY <1>1, <1>6, <1>7, <1>8, <1>9
    <2> QED BY <1>2, <1>6, <1>7, <2>1, FlattenReplace
<1> QED BY <1>1, <1>2, <1>4, <1>5, <1>10 DEF LongerIs, f, g, y

-----------------------------------------------------------------------------
\* Traced, of what pltpro works on piece by piece.
Accounts(cs, ls, ray) ==
    /\ WdbToCdb!FlattenSeq(cs) \o WdbToCdb!Pending(ray) = WdbToCdb!FlattenSeq(WdbToCdb!Fronts(ls))
    /\ \A pts \in WdbToCdb!Range(cs) : \E line \in WdbToCdb!Range(ls) : WdbToCdb!PartOf(pts, line)
    /\ ray # <<>> => ls # <<>> /\ WdbToCdb!EndsWith(ls[Len(ls)], ray)
TypedPieces(S, cs, ls, ray) == cs \in Seq(Seq(S)) /\ ls \in Seq(Seq(S) \ {<<>>}) /\ ray \in Seq(S)

LEMMA PendingIs ==
    ASSUME NEW S, NEW ray \in Seq(S)
    PROVE  /\ WdbToCdb!Pending(ray) \in Seq(S)
           /\ Len(ray) <= 1 => WdbToCdb!Pending(ray) = <<>>
           /\ ray # <<>> => WdbToCdb!Pending(ray) = WdbToCdb!Front(ray)
<1>1. CASE ray = <<>>
    BY <1>1 DEF WdbToCdb!Pending
<1>2. CASE ray # <<>>
    <2> DEFINE f == WdbToCdb!Front(ray)
    <2>1. f \in Seq(S) /\ Len(f) = Len(ray) - 1 /\ Len(ray) \in Nat \ {0}
        BY <1>2, FrontIs
    <2>2. WdbToCdb!Pending(ray) = f
        BY <1>2 DEF WdbToCdb!Pending
    <2> HIDE DEF f
    <2>3. Len(ray) <= 1 => f = <<>>
        BY <2>1
    <2> QED BY <2>1, <2>2, <2>3 DEF f
<1> QED BY <1>1, <1>2

LEMMA RangeAppend ==
    ASSUME NEW S, NEW s \in Seq(S), NEW x \in S
    PROVE  WdbToCdb!Range(Append(s, x)) = WdbToCdb!Range(s) \cup {x}
<1> DEFINE t == Append(s, x)
<1>1. /\ Len(s) \in Nat /\ DOMAIN s = 1 .. Len(s) /\ DOMAIN t = 1 .. Len(s) + 1
      /\ t[Len(s) + 1] = x /\ \A i \in 1 .. Len(s) : t[i] = s[i]
    OBVIOUS
<1> HIDE DEF t
<1>2. WdbToCdb!Range(t) = WdbToCdb!Range(s) \cup {x}
    <2>1. 1 .. Len(s) + 1 = 1 .. Len(s) \cup {Len(s) + 1}
        BY <1>1
    <2> QED BY <1>1, <2>1 DEF WdbToCdb!Range
<1> QED BY <1>2 DEF t

\* A line of less than two points is not drawn, and nothing was to be.
LEMMA NothingDrawn ==
    ASSUME NEW S, NEW cs, NEW ls, NEW ray, TypedPieces(S, cs, ls, ray), Accounts(cs, ls, ray), Len(ray) <= 1
    PROVE  Accounts(cs, ls, <<>>) /\ TypedPieces(S, cs, ls, <<>>)
<1>1. ray \in Seq(S) /\ <<>> \in Seq(S)
    BY DEF TypedPieces
<1>2. WdbToCdb!Pending(ray) = <<>> /\ WdbToCdb!Pending(<<>>) = <<>>
    BY <1>1, PendingIs DEF WdbToCdb!Pending
<1> QED BY <1>1, <1>2 DEF Accounts, TypedPieces

\* A line that is drawn leaves nothing or its last point.
LEMMA RayDrawn ==
    ASSUME NEW S, NEW cs, NEW ls, NEW ray, TypedPieces(S, cs, ls, ray), Accounts(cs, ls, ray), Len(ray) > 1,
           NEW rest \in {<<>>, <<ray[Len(ray)]>>}
    PROVE  LET ds == Append(cs, WdbToCdb!Front(ray))
           IN  Accounts(ds, ls, rest) /\ TypedPieces(S, ds, ls, rest)
<1> DEFINE f == WdbToCdb!Front(ray)
           ds == Append(cs, f)
           last == ls[Len(ls)]
<1>1. cs \in Seq(Seq(S)) /\ ls \in Seq(Seq(S) \ {<<>>}) /\ ray \in Seq(S)
    BY DEF TypedPieces
<1>2. ray # <<>>
    BY <1>1
<1>3. f \in Seq(S) /\ ray[Len(ray)] \in S
    BY <1>1, <1>2, FrontIs
<1>4. ls # <<>> /\ WdbToCdb!EndsWith(last, ray)
    BY <1>2 DEF Accounts
<1>5. Len(ls) \in 1 .. Len(ls) /\ last \in Seq(S) /\ last \in WdbToCdb!Range(ls)
    <2>1. Len(ls) \in 1 .. Len(ls) /\ DOMAIN ls = 1 .. Len(ls)
        BY <1>1, <1>4
    <2> QED BY <1>1, <2>1 DEF WdbToCdb!Range
<1>6. rest \in Seq(S) /\ Len(rest) <= 1
    <2>1. CASE rest = <<>>
        BY <2>1
    <2>2. CASE rest = <<ray[Len(ray)]>>
        BY <1>3, <2>2
    <2> QED BY <2>1, <2>2
<1> HIDE DEF f, last
<1>7. WdbToCdb!PartOf(f, last) /\ WdbToCdb!EndsWith(last, <<ray[Len(ray)]>>)
    BY <1>1, <1>2, <1>4, <1>5, EndsWithLast DEF f
<1>8. ds \in Seq(Seq(S)) /\ WdbToCdb!Range(ds) = WdbToCdb!Range(cs) \cup {f}
    BY <1>1, <1>3, RangeAppend
<1>9. WdbToCdb!FlattenSeq(ds) = WdbToCdb!FlattenSeq(cs) \o f
    BY <1>1, <1>3, FlattenAppend
<1>10. WdbToCdb!FlattenSeq(ds) \in Seq(S)
    BY <1>8, FlattenIs
<1> HIDE DEF ds
<1>11. WdbToCdb!Pending(rest) = <<>> /\ WdbToCdb!Pending(ray) = f
    BY <1>1, <1>2, <1>6, PendingIs DEF f
<1>12. WdbToCdb!FlattenSeq(ds) \o WdbToCdb!Pending(rest) = WdbToCdb!FlattenSeq(WdbToCdb!Fronts(ls))
    <2>1. WdbToCdb!FlattenSeq(ds) \o <<>> = WdbToCdb!FlattenSeq(ds)
        BY <1>10, ConcatEmptySeq
    <2>2. WdbToCdb!FlattenSeq(cs) \o f = WdbToCdb!FlattenSeq(WdbToCdb!Fronts(ls))
        BY <1>11 DEF Accounts
    <2> QED BY <1>9, <1>11, <2>1, <2>2
<1>13. \A pts \in WdbToCdb!Range(ds) : \E line \in WdbToCdb!Range(ls) : WdbToCdb!PartOf(pts, line)
    BY <1>5, <1>7, <1>8 DEF Accounts
<1>14. rest # <<>> => ls # <<>> /\ WdbToCdb!EndsWith(ls[Len(ls)], rest)
    BY <1>4, <1>7 DEF last
<1> QED BY <1>1, <1>6, <1>8, <1>12, <1>13, <1>14 DEF Accounts, TypedPieces, ds, f

\* A point that begins a line.
LEMMA LineBegun ==
    ASSUME NEW S, NEW cs, NEW ls, TypedPieces(S, cs, ls, <<>>), Accounts(cs, ls, <<>>), NEW x \in S
    PROVE  LET ms == Append(ls, <<x>>)
           IN  Accounts(cs, ms, <<x>>) /\ TypedPieces(S, cs, ms, <<x>>)
<1> DEFINE e == <<x>>
           ms == Append(ls, e)
<1>1. cs \in Seq(Seq(S)) /\ ls \in Seq(Seq(S) \ {<<>>})
    BY DEF TypedPieces
<1>2. e \in Seq(S) /\ Len(e) = 1 /\ e # <<>>
    OBVIOUS
<1>3. /\ ms \in Seq(Seq(S) \ {<<>>})
      /\ WdbToCdb!FlattenSeq(WdbToCdb!Fronts(ms)) = WdbToCdb!FlattenSeq(WdbToCdb!Fronts(ls))
    BY <1>1, FrontsNew
<1> HIDE DEF e
<1>4. Len(ms) = Len(ls) + 1 /\ ms[Len(ms)] = e /\ ms # <<>> /\ WdbToCdb!Range(ms) = WdbToCdb!Range(ls) \cup {e}
    <2>1. Len(ms) = Len(ls) + 1 /\ ms[Len(ms)] = e /\ Len(ls) \in Nat
        BY <1>1, <1>2
    <2>2. WdbToCdb!Range(ms) = WdbToCdb!Range(ls) \cup {e}
        BY <1>1, <1>2, RangeAppend
    <2> HIDE DEF ms
    <2>3. ms # <<>>
        BY <2>1
    <2> QED BY <2>1, <2>2, <2>3
<1> HIDE DEF ms
<1>5. WdbToCdb!Pending(e) = <<>> /\ WdbToCdb!Pending(<<>>) = <<>>
    <2>1. Len(e) <= 1
        BY <1>2
    <2> QED BY <1>2, <2>1, PendingIs DEF WdbToCdb!Pending
<1>6. WdbToCdb!EndsWith(e, e)
    <2>1. \A i \in 1 .. Len(e) : e[i] = e[Len(e) - Len(e) + i]
        BY <1>2
    <2> QED BY <1>2, <2>1, EndsIs
<1>7. Accounts(cs, ms, e)
    BY <1>3, <1>4, <1>5, <1>6 DEF Accounts
<1>8. TypedPieces(S, cs, ms, e)
    BY <1>1, <1>2, <1>3 DEF TypedPieces
<1> QED BY <1>7, <1>8 DEF ms, e

\* A point that goes on with the last line.
LEMMA LineGoesOn ==
    ASSUME NEW S, NEW cs, NEW ls, NEW ray, TypedPieces(S, cs, ls, ray), Accounts(cs, ls, ray), ray # <<>>,
           NEW x \in S
    PROVE  LET ms == Longer(ls, x)
           IN  Accounts(cs, ms, Append(ray, x)) /\ TypedPieces(S, cs, ms, Append(ray, x))
<1> DEFINE n == Len(ls)
           last == ls[n]
           ms == Longer(ls, x)
           long == Append(ray, x)
           y == <<last[Len(last)]>>
<1>1. cs \in Seq(Seq(S)) /\ ls \in Seq(Seq(S) \ {<<>>}) /\ ray \in Seq(S)
    BY DEF TypedPieces
<1>2. ls # <<>> /\ WdbToCdb!EndsWith(last, ray)
    BY DEF Accounts
<1>3. /\ n \in 1 .. n /\ ms \in Seq(Seq(S) \ {<<>>}) /\ Len(ms) = n /\ ms[n] = Append(last, x)
      /\ \A i \in 1 .. n - 1 : ms[i] = ls[i]
      /\ last \in Seq(S) /\ last # <<>> /\ last[Len(last)] \in S
      /\ WdbToCdb!FlattenSeq(WdbToCdb!Fronts(ms)) = WdbToCdb!FlattenSeq(WdbToCdb!Fronts(ls)) \o y
    <2>1. ls \in Seq(Seq(S) \ {<<>>}) /\ ls # <<>> /\ x \in S
        BY <1>1, <1>2
    <2>2. LongerIs(S, ls, x)
        BY <2>1, FrontsMore
    <2> QED BY <2>2 DEF LongerIs
<1>4. long \in Seq(S) /\ Len(long) = Len(ray) + 1 /\ Len(ray) \in Nat
    BY <1>1
<1>5. DOMAIN ms = 1 .. n /\ DOMAIN ls = 1 .. n /\ n \in Nat
    <2> HIDE DEF ms
    <2> QED BY <1>1, <1>3
<1> HIDE DEF last, ms, n
<1>6. ray[Len(ray)] = last[Len(last)]
    BY <1>1, <1>2, <1>3, EndsWithLast
<1>7. WdbToCdb!EndsWith(Append(last, x), long)
    BY <1>1, <1>2, <1>3, EndsAppend
<1>8. WdbToCdb!Pending(long) = WdbToCdb!Pending(ray) \o y
    <2>1. WdbToCdb!Front(long) = ray
        BY <1>1, FrontOfAppend
    <2>2. WdbToCdb!Front(ray) \o <<ray[Len(ray)]>> = ray
        BY <1>1, FrontIs
    <2>3. WdbToCdb!Pending(ray) = WdbToCdb!Front(ray)
        BY <1>1, PendingIs
    <2> HIDE DEF long
    <2>4. long # <<>>
        BY <1>4
    <2>5. WdbToCdb!Pending(long) = WdbToCdb!Front(long)
        BY <1>4, <2>4, PendingIs
    <2> QED BY <1>6, <2>1, <2>2, <2>3, <2>5
<1>9. WdbToCdb!FlattenSeq(cs) \o WdbToCdb!Pending(long) = WdbToCdb!FlattenSeq(WdbToCdb!Fronts(ms))
    <2> DEFINE u == WdbToCdb!FlattenSeq(cs)
               v == WdbToCdb!Pending(ray)
    <2>1. u \in Seq(S)
        BY <1>1, FlattenIs
    <2>2. v \in Seq(S)
        BY <1>1, PendingIs
    <2>3. y \in Seq(S)
        BY <1>3
    <2>4. u \o v = WdbToCdb!FlattenSeq(WdbToCdb!Fronts(ls))
        BY DEF Accounts
    <2> HIDE DEF u, v, y
    <2>5. (u \o v) \o y = u \o (v \o y)
        BY ONLY <2>1, <2>2, <2>3, Associative
    <2> QED BY <1>3, <1>8, <2>4, <2>5 DEF u, v
<1> HIDE DEF long, y
<1>10. \A pts \in WdbToCdb!Range(cs) : \E line \in WdbToCdb!Range(ms) : WdbToCdb!PartOf(pts, line)
    <2> TAKE pts \in WdbToCdb!Range(cs)
    <2>1. pts \in Seq(S)
        BY <1>1 DEF WdbToCdb!Range
    <2>2. PICK line \in WdbToCdb!Range(ls) : WdbToCdb!PartOf(pts, line)
        BY DEF Accounts
    <2>3. PICK i \in 1 .. n : line = ls[i]
        BY <1>5, <2>2 DEF WdbToCdb!Range
    <2>4. CASE i = n
        <3>1. WdbToCdb!PartOf(pts, ms[n])
            BY <1>3, <2>1, <2>2, <2>3, <2>4, PartOfMore DEF last
        <3> QED BY <1>3, <1>5, <3>1 DEF WdbToCdb!Range
    <2>5. CASE i # n
        <3>1. ms[i] = line
            BY <1>3, <1>5, <2>3, <2>5
        <3> QED BY <1>5, <2>2, <2>3, <3>1 DEF WdbToCdb!Range
    <2> QED BY <2>4, <2>5
<1>11. ms # <<>> /\ WdbToCdb!EndsWith(ms[Len(ms)], long)
    <2>1. Len(ms) # 0
        BY <1>3, <1>5
    <2>2. ms # <<>>
        BY <2>1
    <2> QED BY <1>3, <1>7, <2>2
<1>12. Accounts(cs, ms, long)
    BY <1>9, <1>10, <1>11 DEF Accounts
<1>13. TypedPieces(S, cs, ms, long)
    BY <1>1, <1>3, <1>4 DEF TypedPieces
<1> QED BY <1>12, <1>13 DEF ms, long, n

-----------------------------------------------------------------------------
\* One point.
TypedWork(s) ==
    /\ s.pen \in [flag : BOOLEAN, prank : Nat, ray : Seq(WdbToCdb!Point)]
    /\ TypedPieces(WdbToCdb!Point, s.curves, s.lines, s.pen.ray)

LEMMA TracedIs ==
    ASSUME NEW s
    PROVE  WdbToCdb!Traced(s) <=> /\ Accounts(s.curves, s.lines, s.pen.ray)
                                  /\ Len(s.pen.ray) <= MaxRay + 1
                                  /\ ~s.pen.flag => Len(s.pen.ray) <= MaxRay
BY DEF WdbToCdb!Traced, Accounts

LEMMA WdbConstants ==
    /\ MaxRay \in Nat \ {0} /\ Half \in Nat \ {0} /\ Cell \in Nat \ {0}
    /\ \A a \in Areas : a.south \in Int /\ a.north \in Int /\ a.west \in Int /\ a.east \in Int
                        /\ a.north <= Half \div 2
    /\ \A s \in Sources : \A f \in 1 .. Len(s) : s[f] # Missing =>
            \A c \in DOMAIN s[f] : s[f][c] \in Seq(WdbToCdb!Records)
<1>1. Half \in Nat \ {0} /\ Half \div 2 \in Int
    BY WdbToCdbHolds DEF WdbToCdb!WdbToCdbAssumption
<1>2. \A a \in Areas : {a.south, a.north} \subseteq -(Half \div 2) .. Half \div 2 /\ {a.west, a.east} \subseteq -2 * Half .. 2 * Half
    BY WdbToCdbHolds DEF WdbToCdb!WdbToCdbAssumption
<1>3. ASSUME NEW a \in Areas
      PROVE  a.south \in Int /\ a.north \in Int /\ a.west \in Int /\ a.east \in Int /\ a.north <= Half \div 2
    BY <1>1, <1>2
<1> QED BY <1>1, <1>3, WdbToCdbHolds DEF WdbToCdb!WdbToCdbAssumption

\* What t is after a point of rank k at la and lo that came after s.
Stepped(s, t, la, lo, k) ==
    /\ TypedWork(t) /\ WdbToCdb!Traced(t)
    /\ t.pen.prank = k /\ (t.pen.flag <=> WdbToCdb!inside(la, lo))
    /\ ~t.pen.flag /\ (s.pen.flag /\ s.pen.ray # <<>> => k # s.pen.prank) => Len(t.pen.ray) <= 1

LEMMA PltproStep ==
    ASSUME WdbToCdb!gap = 1, NEW s, TypedWork(s), WdbToCdb!Traced(s),
           NEW la \in Int, NEW lo \in Int, NEW k \in Nat, NEW fresh \in BOOLEAN,
           s.pen.flag /\ s.pen.ray # <<>> /\ ~fresh => k = s.pen.prank \/ ~WdbToCdb!inside(la, lo)
    PROVE  Stepped(s, WdbToCdb!pltpro(s, la, lo, k, fresh), la, lo, k)
<1> DEFINE p == s.pen
           S == WdbToCdb!Point
           cs == s.curves
           ls == s.lines
           flush == WdbToCdb!Flushes(p, fresh, k)
           drawn == flush /\ Len(p.ray) > 1
           full == Len(p.ray) = MaxRay + 1
           in == WdbToCdb!inside(la, lo)
           new == fresh \/ ~p.flag \/ k # p.prank \/ p.ray = <<>>
           x == <<la, lo>>
           ray == IF ~flush THEN p.ray ELSE IF full /\ ~fresh THEN <<p.ray[MaxRay + 1]>> ELSE <<>>
           ds == IF drawn THEN Append(cs, WdbToCdb!Front(p.ray)) ELSE cs
           ms == IF ~in THEN ls ELSE IF new THEN Append(ls, <<x>>) ELSE Longer(ls, x)
           long == IF in THEN Append(ray, x) ELSE ray
           t == WdbToCdb!pltpro(s, la, lo, k, fresh)
<1>1. /\ t.pen = [flag |-> in, prank |-> k, ray |-> long] /\ t.curves = ds /\ t.lines = ms
    <2>1. WdbToCdb!Counted(WdbToCdb!simple(p.ray)) = WdbToCdb!Front(p.ray)
        BY DEF WdbToCdb!Counted, WdbToCdb!simple
    <2>2. t.pen = [flag |-> in, prank |-> k, ray |-> long]
        BY DEF WdbToCdb!pltpro
    <2>3. t.curves = ds
        BY <2>1 DEF WdbToCdb!pltpro
    <2>4. t.lines = ms
        BY DEF WdbToCdb!pltpro, Longer
    <2> QED BY <2>2, <2>3, <2>4
<1> HIDE DEF t
<1>2. /\ p.flag \in BOOLEAN /\ p.prank \in Nat /\ p.ray \in Seq(S) /\ Len(p.ray) \in Nat
      /\ TypedPieces(S, cs, ls, p.ray) /\ Accounts(cs, ls, p.ray)
      /\ Len(p.ray) <= MaxRay + 1 /\ (~p.flag => Len(p.ray) <= MaxRay)
    BY TracedIs DEF TypedWork
<1>3. MaxRay \in Nat \ {0} /\ x \in S /\ in \in BOOLEAN
    BY WdbConstants DEF WdbToCdb!Point, WdbToCdb!inside
<1>4. flush <=> ~p.flag \/ fresh \/ k # p.prank \/ full
    BY DEF WdbToCdb!Flushes, WdbToCdb!BeginsLine
<1>5. p.flag /\ p.ray # <<>> /\ ~fresh => k = p.prank \/ ~in
    OBVIOUS
<1> HIDE DEF p, S, cs, ls, flush, in, x
<1>6. Accounts(ds, ls, ray) /\ TypedPieces(S, ds, ls, ray)
    <2>1. CASE ~flush
        BY <1>2, <2>1
    <2>2. CASE flush /\ ~drawn
        <3>1. ~full /\ Len(p.ray) <= 1
            BY <1>2, <1>3, <2>2
        <3>2. ray = <<>> /\ ds = cs
            BY <2>2, <3>1
        <3> QED BY <1>2, <3>1, <3>2, NothingDrawn
    <2>3. CASE drawn
        <3>1. Len(p.ray) > 1 /\ ds = Append(cs, WdbToCdb!Front(p.ray)) /\ ray \in {<<>>, <<p.ray[Len(p.ray)]>>}
            BY <2>3
        <3> HIDE DEF ray, ds
        <3> QED BY <1>2, <3>1, RayDrawn
    <2> QED BY <2>1, <2>2, <2>3
<1>7. ray \in Seq(S) /\ Len(ray) \in Nat /\ Len(ray) <= MaxRay
    <2>1. ray \in Seq(S)
        BY <1>6 DEF TypedPieces
    <2>2. CASE ~flush
        BY <1>2, <1>3, <1>4, <2>2
    <2>3. CASE flush
        <3>1. Len(ray) <= 1
            BY <2>3
        <3> QED BY <1>3, <2>1, <3>1
    <2> QED BY <2>1, <2>2, <2>3
<1>8. in /\ new => ray = <<>>
    <2>1. ASSUME in, new PROVE ray = <<>>
        <3>1. CASE p.ray = <<>>
            BY <1>3, <3>1
        <3>2. CASE fresh
            BY <1>4, <3>2
        <3>3. CASE ~p.flag
            <4>1. ~full
                BY <1>2, <1>3, <3>3
            <4> QED BY <1>4, <3>3, <4>1
        <3>4. CASE p.ray # <<>> /\ ~fresh /\ p.flag /\ k # p.prank
            BY <1>5, <2>1, <3>4
        <3> QED BY <2>1, <3>1, <3>2, <3>3, <3>4
    <2> QED BY <2>1
<1>9. in /\ ~new => ray # <<>>
    <2>1. ASSUME ~new PROVE ray # <<>>
        <3>1. CASE flush
            <4>1. full /\ ~fresh
                BY <1>4, <2>1, <3>1
            <4> QED BY <3>1, <4>1
        <3>2. CASE ~flush
            BY <2>1, <3>2
        <3> QED BY <3>1, <3>2
    <2> QED BY <2>1
<1>10. ~in /\ (p.flag /\ p.ray # <<>> => k # p.prank) => Len(ray) <= 1
    <2>1. CASE flush
        BY <2>1
    <2>2. CASE ~flush
        BY <1>2, <1>4, <2>2
    <2> QED BY <2>1, <2>2
<1> HIDE DEF ray, ds, new
<1>11. Accounts(ds, ms, long) /\ TypedPieces(S, ds, ms, long) /\ Len(long) <= MaxRay + 1 /\ (~in => Len(long) <= MaxRay)
    <2>1. CASE ~in
        BY <1>3, <1>6, <1>7, <2>1
    <2>2. CASE in /\ new
        <3>1. ray = <<>> /\ ms = Append(ls, <<x>>) /\ long = <<x>>
            BY <1>8, <2>2
        <3>2. Accounts(ds, Append(ls, <<x>>), <<x>>) /\ TypedPieces(S, ds, Append(ls, <<x>>), <<x>>)
            BY <1>3, <1>6, <3>1, LineBegun
        <3> QED BY <1>3, <2>2, <3>1, <3>2
    <2>3. CASE in /\ ~new
        <3>1. ray # <<>> /\ ms = Longer(ls, x) /\ long = Append(ray, x) /\ Len(long) = Len(ray) + 1
            BY <1>7, <1>9, <2>3
        <3>2. Accounts(ds, Longer(ls, x), Append(ray, x)) /\ TypedPieces(S, ds, Longer(ls, x), Append(ray, x))
            BY <1>3, <1>6, <3>1, LineGoesOn
        <3> HIDE DEF ms, long
        <3> QED BY <1>3, <1>7, <2>3, <3>1, <3>2
    <2> QED BY <1>3, <2>1, <2>2, <2>3
<1>12. long \in Seq(S) /\ (~in => long = ray)
    BY <1>11 DEF TypedPieces
<1> HIDE DEF ms, long
<1>13. /\ t.pen.flag = in /\ t.pen.prank = k /\ t.pen.ray = long
       /\ t.pen \in [flag : BOOLEAN, prank : Nat, ray : Seq(S)]
    BY <1>1, <1>3, <1>12
<1>14. TypedWork(t)
    BY <1>1, <1>11, <1>13 DEF TypedWork, S
<1>15. WdbToCdb!Traced(t)
    BY <1>1, <1>11, <1>13, TracedIs
<1>16. ~t.pen.flag /\ (p.flag /\ p.ray # <<>> => k # p.prank) => Len(t.pen.ray) <= 1
    BY <1>10, <1>12, <1>13
<1>17. t.pen.flag <=> in
    BY <1>13
<1> QED BY <1>13, <1>14, <1>15, <1>16, <1>17 DEF t, p, in, Stepped

LEMMA LeastOf ==
    ASSUME NEW m \in Nat, NEW S \in SUBSET (0 .. m), S # {}
    PROVE  WdbToCdb!Min(S) \in S
<1>1. PICK x \in S : \A y \in S : x <= y
    BY LeastIndex
<1> QED BY <1>1 DEF WdbToCdb!Min

\* Lines that are thinned are lines.
LEMMA SimpleTyped ==
    ASSUME gapin \in Int, NEW S, NEW ray \in Seq(S), Len(ray) > 1
    PROVE  WdbToCdb!simple(ray) \in Seq(S) /\ WdbToCdb!simple(ray) # <<>>
<1> DEFINE g == WdbToCdb!gap
           n == Len(ray) - 1
           m == n \div g + 1
           some == [i \in 1 .. m |-> ray[(i - 1) * g + 1]]
           last == <<ray[Len(ray)]>>
<1>1. n \in Nat \ {0} /\ Len(ray) = n + 1 /\ ray[Len(ray)] \in S
    OBVIOUS
<1>2. g \in Nat \ {0}
    <2>1. CASE gapin <= 0
        BY <2>1 DEF WdbToCdb!gap
    <2>2. CASE gapin > 0
        <3>1. {gapin, 45} \in SUBSET (0 .. gapin + 45) /\ {gapin, 45} # {} /\ gapin + 45 \in Nat
            BY <2>2
        <3>2. WdbToCdb!Min({gapin, 45}) \in {gapin, 45}
            BY <3>1, LeastOf
        <3> QED BY <2>2, <3>2 DEF WdbToCdb!gap
    <2> QED BY <2>1, <2>2
<1>3. CASE g > 1 /\ n > SimpleOver
    <2>1. WdbToCdb!simple(ray) = some \o last
        BY <1>3 DEF WdbToCdb!simple
    <2> HIDE DEF g, n
    <2>2. m \in Nat /\ n \div g \in Nat /\ (n \div g) * g <= n
        BY <1>1, <1>2
    <2>3. ASSUME NEW i \in 1 .. m PROVE ray[(i - 1) * g + 1] \in S
        <3>1. \A a, b, c \in Nat : a <= b => a * c <= b * c /\ a * c \in Nat /\ b * c \in Nat
            OBVIOUS
        <3>2. i - 1 \in Nat /\ i - 1 <= n \div g
            BY <2>2
        <3>3. (i - 1) * g <= n /\ (i - 1) * g \in Nat
            BY <1>1, <1>2, <2>2, <3>1, <3>2
        <3>4. (i - 1) * g + 1 \in 1 .. Len(ray)
            BY <1>1, <3>3
        <3> HIDE DEF m
        <3> QED BY <3>4
    <2>4. some \in Seq(S)
        <3> HIDE DEF m
        <3> QED BY <2>2, <2>3 DEF m
    <2>5. last \in Seq(S) /\ Len(last) = 1
        BY <1>1
    <2> HIDE DEF some, last
    <2>6. some \o last \in Seq(S) /\ Len(some \o last) = Len(some) + Len(last)
        BY <2>4, <2>5, ConcatProperties
    <2>7. some \o last # <<>>
        <3>1. Len(some) \in Nat
            BY <2>4
        <3>2. Len(some \o last) # 0
            BY <2>5, <2>6, <3>1
        <3> QED BY <3>2
    <2> QED BY <2>1, <2>6, <2>7
<1>4. CASE ~(g > 1 /\ n > SimpleOver)
    <2>1. WdbToCdb!simple(ray) = ray
        BY <1>4 DEF WdbToCdb!simple
    <2>2. ray # <<>>
        OBVIOUS
    <2> QED BY <2>1, <2>2
<1> QED BY <1>3, <1>4

\* One point, whether lines are thinned or not.
LEMMA PltproTyped ==
    ASSUME gapin \in Int, NEW s, TypedWork(s), NEW la \in Int, NEW lo \in Int, NEW k \in Nat, NEW fresh \in BOOLEAN
    PROVE  /\ TypedWork(WdbToCdb!pltpro(s, la, lo, k, fresh))
           /\ WdbToCdb!pltpro(s, la, lo, k, fresh).pen.prank = k
<1> DEFINE p == s.pen
           S == WdbToCdb!Point
           cs == s.curves
           ls == s.lines
           drawn == WdbToCdb!Flushes(p, fresh, k) /\ Len(p.ray) > 1
           args == WdbToCdb!Counted(WdbToCdb!simple(p.ray))
           full == Len(p.ray) = MaxRay + 1
           in == WdbToCdb!inside(la, lo)
           new == fresh \/ ~p.flag \/ k # p.prank \/ p.ray = <<>>
           x == <<la, lo>>
           ray == IF ~WdbToCdb!Flushes(p, fresh, k) THEN p.ray
                  ELSE IF full /\ ~fresh THEN <<p.ray[MaxRay + 1]>> ELSE <<>>
           ds == IF drawn THEN Append(cs, args) ELSE cs
           ms == IF ~in THEN ls ELSE IF new THEN Append(ls, <<x>>) ELSE [ls EXCEPT ![Len(ls)] = Append(@, x)]
           long == IF in THEN Append(ray, x) ELSE ray
           t == WdbToCdb!pltpro(s, la, lo, k, fresh)
<1>1. t.pen = [flag |-> in, prank |-> k, ray |-> long] /\ t.curves = ds /\ t.lines = ms
    BY DEF WdbToCdb!pltpro
<1> HIDE DEF t
<1>2. p.ray \in Seq(S) /\ cs \in Seq(Seq(S)) /\ ls \in Seq(Seq(S) \ {<<>>})
    BY DEF TypedWork, TypedPieces
<1>3. MaxRay \in Nat \ {0} /\ x \in S /\ in \in BOOLEAN
    BY WdbConstants DEF WdbToCdb!Point, WdbToCdb!inside
<1> HIDE DEF p, S, cs, ls, in, x
<1>4. ray \in Seq(S)
    <2>1. CASE full
        BY <1>2, <1>3, <2>1
    <2>2. CASE ~full
        BY <1>2, <2>2
    <2> QED BY <2>1, <2>2
<1>5. ds \in Seq(Seq(S))
    <2>1. CASE drawn
        <3>1. WdbToCdb!simple(p.ray) \in Seq(S) /\ WdbToCdb!simple(p.ray) # <<>>
            BY <1>2, <2>1, SimpleTyped
        <3>2. args \in Seq(S)
            BY <3>1, FrontIs DEF WdbToCdb!Counted
        <3> HIDE DEF args
        <3> QED BY <1>2, <3>2
    <2>2. CASE ~drawn
        BY <1>2, <2>2
    <2> QED BY <2>1, <2>2
<1>6. long \in Seq(S)
    <2> HIDE DEF ray
    <2> QED BY <1>3, <1>4
<1>7. ms \in Seq(Seq(S) \ {<<>>})
    <2>1. CASE ~in
        BY <1>2, <2>1
    <2>2. CASE in /\ new
        <3>1. <<x>> \in Seq(S) /\ Len(<<x>>) = 1
            BY <1>3
        <3>2. Append(ls, <<x>>) \in Seq(Seq(S) \ {<<>>})
            BY <1>2, <3>1, FrontsNew
        <3> QED BY <2>2, <3>2
    <2>3. CASE in /\ ~new
        <3>1. ms = [ls EXCEPT ![Len(ls)] = Append(@, x)]
            BY <2>3
        <3>2. CASE ls = <<>>
            <4>1. Len(ls) \notin DOMAIN ls
                BY <3>2
            <4>2. [ls EXCEPT ![Len(ls)] = Append(@, x)] = ls
                BY <1>2, <4>1
            <4> QED BY <1>2, <3>1, <4>2
        <3>3. CASE ls # <<>>
            <4>1. LongerIs(S, ls, x)
                BY <1>2, <1>3, <3>3, FrontsMore
            <4> QED BY <3>1, <4>1 DEF LongerIs, Longer
        <3> QED BY <3>2, <3>3
    <2> QED BY <1>3, <2>1, <2>2, <2>3
<1> HIDE DEF ds, ms, long
<1>8. t.pen \in [flag : BOOLEAN, prank : Nat, ray : Seq(S)] /\ t.pen.ray = long /\ t.pen.prank = k
    BY <1>1, <1>3, <1>6
<1>9. TypedWork(t)
    BY <1>1, <1>5, <1>6, <1>7, <1>8 DEF TypedWork, TypedPieces, S
<1> QED BY <1>8, <1>9 DEF t

\* The recursive function of PointsOf.
IsPoints(r, R) ==
    R = [i \in 1 .. Len(r.strokes) + 1 |->
            IF i = 1 THEN WdbToCdb!Start(r)
            ELSE <<R[i - 1][1] + r.strokes[i - 1][1], R[i - 1][2] + r.strokes[i - 1][2]>>]

LEMMA PointsUnfolded ==
    ASSUME NEW r
    PROVE  WdbToCdb!PointsOf(r) = [i \in 1 .. Len(r.strokes) + 1 |-> (CHOOSE R : IsPoints(r, R))[i]]
BY DEF WdbToCdb!PointsOf, IsPoints

LEMMA PointsTyped ==
    ASSUME NEW r \in WdbToCdb!Records, WdbToCdb!Start(r) \in WdbToCdb!Point
    PROVE  /\ WdbToCdb!PointsOf(r) \in Seq(WdbToCdb!Point)
           /\ Len(WdbToCdb!PointsOf(r)) \in Nat \ {0}
<1> DEFINE n == Len(r.strokes) + 1
           T == WdbToCdb!Point
           step == [i \in 1 .. n |-> [x \in T |-> <<x[1] + r.strokes[i - 1][1], x[2] + r.strokes[i - 1][2]>>]]
           a == WdbToCdb!Start(r)
<1>1. n \in Nat \ {0} /\ r.strokes \in Seq(Int \X Int)
    BY DEF WdbToCdb!Records
<1>2. \A i \in 1 .. n : i # 1 => i - 1 \in 1 .. Len(r.strokes) /\ i - 1 \in 1 .. n
    BY <1>1
<1>3. ASSUME NEW i \in 1 .. n, i # 1, NEW x \in T
      PROVE  /\ step[i][x] = <<x[1] + r.strokes[i - 1][1], x[2] + r.strokes[i - 1][2]>>
             /\ step[i][x] \in T
    <2>1. r.strokes[i - 1] \in Int \X Int
        BY <1>1, <1>2, <1>3
    <2>2. step[i][x] = <<x[1] + r.strokes[i - 1][1], x[2] + r.strokes[i - 1][2]>>
        OBVIOUS
    <2> HIDE DEF step
    <2> QED BY <2>1, <2>2 DEF WdbToCdb!Point
<1> HIDE DEF step, T, n, a
<1>4. PICK P : IsLoopFromOne(P, n, a, step) /\ \A i \in 1 .. n : P[i] \in T
    <2>1. \A i \in 1 .. n : i # 1 => \A x \in T : step[i][x] \in T
        BY <1>3
    <2>2. a \in T
        BY DEF a, T
    <2> QED BY <1>1, <2>1, <2>2, LoopFromOne
<1>5. IsPoints(r, P)
    <2>1. ASSUME NEW i \in 1 .. n
          PROVE  (IF i = 1 THEN a ELSE step[i][P[i - 1]])
                    = IF i = 1 THEN a
                      ELSE <<P[i - 1][1] + r.strokes[i - 1][1], P[i - 1][2] + r.strokes[i - 1][2]>>
        <3>1. CASE i = 1
            BY <3>1
        <3>2. CASE i # 1
            <4>1. P[i - 1] \in T
                BY <1>2, <1>4, <3>2
            <4> QED BY <1>3, <3>2, <4>1
        <3> QED BY <3>1, <3>2
    <2>2. P = [i \in 1 .. n |-> IF i = 1 THEN a
                      ELSE <<P[i - 1][1] + r.strokes[i - 1][1], P[i - 1][2] + r.strokes[i - 1][2]>>]
        BY <1>4, <2>1 DEF IsLoopFromOne
    <2> QED BY <2>2 DEF IsPoints, n, a
<1> DEFINE R == CHOOSE R : IsPoints(r, R)
<1>6. IsPoints(r, R)
    BY <1>5
<1>7. WdbToCdb!PointsOf(r) = [i \in 1 .. n |-> R[i]]
    BY PointsUnfolded DEF n
<1> HIDE DEF R
<1> DEFINE G == {i \in 0 .. n : i = 0 \/ R[i] \in T}
<1>8. ASSUME NEW i \in 1 .. n, i - 1 \in G PROVE i \in G
    <2>1. R[i] = IF i = 1 THEN a
                 ELSE <<R[i - 1][1] + r.strokes[i - 1][1], R[i - 1][2] + r.strokes[i - 1][2]>>
        BY <1>6 DEF IsPoints, n, a
    <2>2. CASE i = 1
        BY <2>1, <2>2 DEF a, T
    <2>3. CASE i # 1
        <3>1. R[i - 1] \in T
            BY <1>8, <2>3
        <3>2. r.strokes[i - 1] \in Int \X Int
            BY <1>1, <1>2, <2>3
        <3>3. R[i] \in T
            BY <2>1, <2>3, <3>1, <3>2 DEF T, WdbToCdb!Point
        <3> QED BY <3>3
    <2> QED BY <2>2, <2>3
<1>9. 0 .. n \subseteq G
    <2>1. 0 \in G
        BY <1>1
    <2> HIDE DEF G
    <2> QED BY <1>1, <1>8, <2>1, ByIndex
<1>10. \A i \in 1 .. n : R[i] \in T
    BY <1>1, <1>9
<1>11. WdbToCdb!PointsOf(r) \in Seq(T) /\ Len(WdbToCdb!PointsOf(r)) = n
    BY <1>1, <1>7, <1>10
<1> QED BY <1>1, <1>11 DEF T

\* Where a record starts.
LEMMA CellsCounted ==
    ASSUME WdbToCdb!TypeOK
    PROVE  /\ WdbToCdb!NumCells \in Int
           /\ WdbToCdb!width \in Int /\ WdbToCdb!slat \in Int /\ WdbToCdb!wlon \in Int /\ WdbToCdb!elon \in Int
<1>1. area \in Areas /\ Half \in Nat \ {0} /\ Cell \in Nat \ {0} /\ Half \div 2 \in Int
    BY WdbConstants DEF WdbToCdb!TypeOK
<1>2. area.south \in Int /\ area.north \in Int /\ area.west \in Int /\ area.east \in Int /\ WdbToCdb!east \in Int
    BY <1>1, WdbConstants DEF WdbToCdb!east
<1>3. \A x \in Int : WdbToCdb!PerDegree(x) \in Int
    BY <1>1 DEF WdbToCdb!PerDegree, WdbToCdb!Toward0
<1>4. WdbToCdb!slat \in Int
    BY <1>1, <1>2 DEF WdbToCdb!slat
<1>5. WdbToCdb!nlat \in Int
    BY <1>1, <1>2 DEF WdbToCdb!nlat
<1>6. WdbToCdb!wlon \in Int
    BY <1>2, <1>3 DEF WdbToCdb!wlon
<1>7. WdbToCdb!elon \in Int
    BY <1>2, <1>3 DEF WdbToCdb!elon
<1>8. WdbToCdb!width \in Int
    BY <1>6, <1>7 DEF WdbToCdb!width
<1>9. WdbToCdb!NumCells \in Int
    <2>1. \A a, b, c \in Int : (a - b + 1) * c \in Int
        OBVIOUS
    <2> QED BY <1>4, <1>5, <1>8, <2>1 DEF WdbToCdb!NumCells
<1> QED BY <1>4, <1>6, <1>7, <1>8, <1>9

LEMMA StartTyped ==
    ASSUME WdbToCdb!TypeOK, place <= WdbToCdb!NumCells, NEW r \in WdbToCdb!Records
    PROVE  WdbToCdb!Start(r) \in WdbToCdb!Point
<1>1. place \in Nat \ {0} /\ lat \in Int /\ lon \in Int
    BY DEF WdbToCdb!TypeOK
<1>2. r.lat \in Int /\ r.lon \in Int /\ Half \in Nat \ {0} /\ Cell \in Nat \ {0} /\ Half \div 2 \in Int
    BY WdbConstants DEF WdbToCdb!Records
<1>3. WdbToCdb!width \in Int /\ WdbToCdb!slat \in Int /\ WdbToCdb!wlon \in Int /\ WdbToCdb!elon \in Int
    BY CellsCounted
<1>4. WdbToCdb!width \in Nat \ {0}
    <2>1. ~(WdbToCdb!width <= 0)
        BY <1>1 DEF WdbToCdb!NumCells
    <2> QED BY <1>3, <2>1
<1> DEFINE w == WdbToCdb!width
           i == WdbToCdb!slat + (place - 1) \div w
           k == (place - 1) % w
<1>5. i \in Int /\ k \in Int
    <2> HIDE DEF w
    <2> QED BY <1>1, <1>3, <1>4 DEF w
<1>6. WdbToCdb!CellAt(place) = <<i, IF i % 2 = 0 THEN WdbToCdb!wlon + k ELSE WdbToCdb!elon - k>>
    BY DEF WdbToCdb!CellAt
<1> HIDE DEF i, k
<1>7. WdbToCdb!CellAt(place)[1] \in Int /\ WdbToCdb!CellAt(place)[2] \in Int
    BY <1>3, <1>5, <1>6
<1> QED BY <1>1, <1>2, <1>7 DEF WdbToCdb!Start, WdbToCdb!Point

-----------------------------------------------------------------------------
\* The points of a record one after another.
IsAfter(pts, k, begins, n, R) ==
    R = [i \in 0 .. n |->
            IF i = 0 THEN WdbToCdb!Work
            ELSE WdbToCdb!pltpro(R[i - 1], pts[i][1], pts[i][2], k, i = 1 /\ begins)]

LEMMA AfterExists ==
    ASSUME NEW pts, NEW k, NEW begins, NEW n \in Nat
    PROVE  \E R : IsAfter(pts, k, begins, n, R)
<1> DEFINE G == {j \in 0 .. n : \E R : IsAfter(pts, k, begins, j, R)}
<1>1. 0 \in G
    <2> DEFINE R == [i \in 0 .. 0 |-> WdbToCdb!Work]
    <2>1. IsAfter(pts, k, begins, 0, R)
        BY DEF IsAfter
    <2> QED BY <2>1
<1>2. ASSUME NEW j \in 1 .. n, j - 1 \in G PROVE j \in G
    <2>1. PICK O : IsAfter(pts, k, begins, j - 1, O)
        BY <1>2
    <2> DEFINE Step(i, s) == WdbToCdb!pltpro(s, pts[i][1], pts[i][2], k, i = 1 /\ begins)
               R == [i \in 0 .. j |-> IF i = j THEN Step(j, O[j - 1]) ELSE O[i]]
    <2>2. ASSUME NEW i \in 0 .. j
          PROVE  R[i] = IF i = 0 THEN WdbToCdb!Work ELSE Step(i, R[i - 1])
        <3> HIDE DEF Step
        <3>1. CASE i = j
            <4>1. R[j - 1] = O[j - 1]
                OBVIOUS
            <4> QED BY <3>1, <4>1
        <3>2. CASE i = 0
            BY <2>1, <3>2 DEF IsAfter
        <3>3. CASE i # 0 /\ i # j
            <4>1. i \in 1 .. j - 1 /\ i - 1 \in 0 .. j - 1 /\ i \in 0 .. j - 1
                BY <3>3
            <4>2. O[i] = Step(i, O[i - 1])
                BY <2>1, <4>1 DEF IsAfter, Step
            <4>3. R[i] = O[i] /\ R[i - 1] = O[i - 1]
                BY <4>1
            <4> QED BY <3>3, <4>2, <4>3
        <3> QED BY <3>1, <3>2, <3>3
    <2>3. R = [i \in 0 .. j |-> R[i]]
        OBVIOUS
    <2>4. IsAfter(pts, k, begins, j, R)
        <3> HIDE DEF R
        <3> QED BY <2>2, <2>3 DEF IsAfter
    <2> HIDE DEF R
    <2> QED BY <2>4
<1>3. 0 .. n \subseteq G
    <2> HIDE DEF G
    <2> QED BY <1>1, <1>2, ByIndex
<1> QED BY <1>3

-----------------------------------------------------------------------------
\* What holds after every point of a record of rank k.
Drawing(s, k, i) ==
    /\ TypedWork(s) /\ (WdbToCdb!gap = 1 => WdbToCdb!Traced(s))
    /\ i # 0 => s.pen.prank = k

LEMMA WdbGaps ==
    WdbToCdb!TypeOK => gapin \in Int
BY WdbToCdbHolds DEF WdbToCdb!WdbToCdbAssumption, WdbToCdb!TypeOK

LEMMA AfterTyped ==
    ASSUME WdbToCdb!IInv, NEW pts \in Seq(WdbToCdb!Point), NEW k \in Nat, NEW begins \in BOOLEAN,
           WdbToCdb!ranks(k), ~begins => k = rank,
           NEW R, IsAfter(pts, k, begins, Len(pts), R)
    PROVE  \A i \in 0 .. Len(pts) : Drawing(R[i], k, i)
<1> DEFINE n == Len(pts)
           G == {i \in 0 .. n : Drawing(R[i], k, i)}
<1>1. n \in Nat
    OBVIOUS
<1>2. 0 \in G
    <2>1. R[0] = WdbToCdb!Work
        BY <1>1 DEF IsAfter
    <2>2. TypedWork(WdbToCdb!Work) /\ (WdbToCdb!gap = 1 => WdbToCdb!Traced(WdbToCdb!Work))
        BY DEF WdbToCdb!IInv, WdbToCdb!TypeOK, WdbToCdb!Work, TypedWork, TypedPieces
    <2> QED BY <1>1, <2>1, <2>2 DEF Drawing
<1>3. ASSUME NEW i \in 1 .. n, i - 1 \in G PROVE i \in G
    <2> DEFINE s == R[i - 1]
               fresh == i = 1 /\ begins
               la == pts[i][1]
               lo == pts[i][2]
               t == WdbToCdb!pltpro(s, la, lo, k, fresh)
    <2>1. R[i] = t
        BY <1>1 DEF IsAfter
    <2>2. Drawing(s, k, i - 1)
        BY <1>3
    <2>3. la \in Int /\ lo \in Int
        BY DEF WdbToCdb!Point
    <2>4. fresh \in BOOLEAN
        OBVIOUS
    <2>5. WdbToCdb!gap = 1 /\ s.pen.flag /\ s.pen.ray # <<>> /\ ~fresh => k = s.pen.prank
        <3>1. CASE i # 1
            BY <2>2, <3>1 DEF Drawing
        <3>2. CASE i = 1
            <4>1. s = WdbToCdb!Work
                BY <1>1, <3>2 DEF IsAfter
            <4>2. s.pen = pen
                BY <4>1 DEF WdbToCdb!Work
            <4>3. WdbToCdb!gap = 1 /\ pen.flag /\ pen.ray # <<>> => pen.prank = rank \/ ~WdbToCdb!ranks(rank)
                BY DEF WdbToCdb!IInv, WdbToCdb!SameRank
            <4> QED BY <3>2, <4>2, <4>3
        <3> QED BY <3>1, <3>2
    <2>6. gapin \in Int
        BY WdbGaps DEF WdbToCdb!IInv
    <2> HIDE DEF s, fresh, la, lo
    <2>7. TypedWork(t) /\ t.pen.prank = k
        BY <2>2, <2>3, <2>4, <2>6, PltproTyped DEF Drawing
    <2> DEFINE u == WdbToCdb!pltpro(s, la, lo, k, fresh)
    <2>8. ASSUME WdbToCdb!gap = 1 PROVE WdbToCdb!Traced(t)
        <3>1. TypedWork(s) /\ WdbToCdb!Traced(s) /\ WdbToCdb!gap = 1 /\ k \in Nat
            BY <2>2, <2>8 DEF Drawing
        <3>2. s.pen.flag /\ s.pen.ray # <<>> /\ ~fresh => k = s.pen.prank \/ ~WdbToCdb!inside(la, lo)
            BY <2>5, <2>8
        <3>3. Stepped(s, u, la, lo, k)
            BY ONLY <2>3, <2>4, <3>1, <3>2, PltproStep
        <3> QED BY <3>3 DEF Stepped
    <2> HIDE DEF t
    <2> QED BY <2>1, <2>7, <2>8 DEF Drawing
<1>4. 0 .. n \subseteq G
    <2> HIDE DEF G, n
    <2> QED BY <1>1, <1>2, <1>3, ByIndex
<1> QED BY <1>4

-----------------------------------------------------------------------------
LEMMA WdbInit ==
    WdbToCdb!Init => WdbToCdb!IInv
<1> SUFFICES ASSUME WdbToCdb!Init PROVE WdbToCdb!IInv
    OBVIOUS
<1>1. pen = [flag |-> TRUE, prank |-> 0, ray |-> <<>>] /\ lines = <<>> /\ curves = <<>> /\ state = "source"
    BY DEF WdbToCdb!Init
<1>2. WdbToCdb!TypeOK
    BY <1>1 DEF WdbToCdb!Init, WdbToCdb!TypeOK
<1>3. MaxRay \in Nat
    BY WdbConstants
<1>4. Len(pen.ray) = 0 /\ pen.ray = <<>> /\ pen.flag
    BY <1>1
<1>5. Accounts(curves, lines, pen.ray)
    <2> DEFINE S == WdbToCdb!Point
    <2>1. <<>> \in Seq(Seq(S)) /\ Len(<<>>) = 0
        OBVIOUS
    <2>2. WdbToCdb!FlattenSeq(<<>>) = <<>>
        BY <2>1, FlattenIs
    <2>3. WdbToCdb!Fronts(<<>>) = <<>>
        BY DEF WdbToCdb!Fronts
    <2>4. WdbToCdb!Range(<<>>) = {}
        BY DEF WdbToCdb!Range
    <2>5. WdbToCdb!Pending(<<>>) = <<>>
        BY DEF WdbToCdb!Pending
    <2>6. <<>> \o <<>> = <<>>
        OBVIOUS
    <2> QED BY <1>1, <1>4, <2>2, <2>3, <2>4, <2>5, <2>6 DEF Accounts
<1>6. WdbToCdb!Traced(WdbToCdb!Work)
    BY <1>3, <1>4, <1>5, TracedIs DEF WdbToCdb!Work
<1> QED BY <1>2, <1>4, <1>6 DEF WdbToCdb!IInv, WdbToCdb!SameRank

\* Steps that leave the lines and the pen alone.
LEMMA WdbSame ==
    ASSUME WdbToCdb!IInv, WdbToCdb!TypeOK',
           UNCHANGED <<gapin, rank_string, rank, pen, lines, curves>>,
           state' \in {"source", "done"} => state = "source"
    PROVE  WdbToCdb!IInv'
<1>1. (WdbToCdb!gap = 1)' => WdbToCdb!gap = 1
    BY DEF WdbToCdb!gap
<1>2. ASSUME WdbToCdb!gap = 1
      PROVE  /\ WdbToCdb!Traced(WdbToCdb!Work)' /\ WdbToCdb!SameRank'
             /\ state' \in {"source", "done"} => (Len(pen.ray) <= 1 /\ (pen.flag => pen.ray = <<>>))'
    <2>1. WdbToCdb!Traced(WdbToCdb!Work)
        BY <1>2 DEF WdbToCdb!IInv
    <2>2. WdbToCdb!Traced(WdbToCdb!Work)'
        BY <2>1 DEF WdbToCdb!Traced, WdbToCdb!Work
    <2>3. WdbToCdb!SameRank'
        BY <1>2 DEF WdbToCdb!IInv, WdbToCdb!SameRank, WdbToCdb!ranks
    <2>4. state' \in {"source", "done"} => Len(pen.ray) <= 1 /\ (pen.flag => pen.ray = <<>>)
        BY <1>2 DEF WdbToCdb!IInv
    <2> QED BY <2>2, <2>3, <2>4
<1> QED BY <1>1, <1>2 DEF WdbToCdb!IInv

LEMMA WdbOpenSource ==
    WdbToCdb!IInv /\ WdbToCdb!OpenSource => WdbToCdb!IInv'
<1> SUFFICES ASSUME WdbToCdb!IInv, WdbToCdb!OpenSource PROVE WdbToCdb!IInv'
    OBVIOUS
<1>1. WdbToCdb!TypeOK
    BY DEF WdbToCdb!IInv
<1>2. state = "source" /\ state' \in {"source", "cells"} /\ file' \in Nat \ {0}
      /\ (state' = "cells" => file' = file /\ file <= Len(sources) /\ sources[file] # Missing)
    BY <1>1 DEF WdbToCdb!OpenSource, WdbToCdb!TypeOK
<1>3. /\ place' = 1 /\ item' = 0 /\ lat' = 0 /\ lon' = 0
      /\ UNCHANGED <<sources, area, gapin, rank_string, rank, pen, lines, curves>>
    BY DEF WdbToCdb!OpenSource
<1>4. WdbToCdb!TypeOK'
    BY <1>1, <1>2, <1>3 DEF WdbToCdb!TypeOK, WdbToCdb!Point
<1> QED BY <1>2, <1>3, <1>4, WdbSame

LEMMA WdbNextCell ==
    WdbToCdb!IInv /\ WdbToCdb!NextCell => WdbToCdb!IInv'
<1> SUFFICES ASSUME WdbToCdb!IInv, WdbToCdb!NextCell PROVE WdbToCdb!IInv'
    OBVIOUS
<1>1. WdbToCdb!TypeOK
    BY DEF WdbToCdb!IInv
<1>2. /\ item' = 0 /\ state = "cells" /\ place <= WdbToCdb!NumCells
      /\ UNCHANGED <<sources, area, gapin, rank_string, file, lat, lon, rank, pen, state, lines, curves>>
    BY DEF WdbToCdb!NextCell
<1>3. place' \in Nat \ {0}
    <2> DEFINE N == WdbToCdb!NumCells
               S == {N + 1} \cup {n \in place + 1 .. N : WdbToCdb!Chain(n) # <<>>}
    <2>1. place' = WdbToCdb!Min(S)
        BY DEF WdbToCdb!NextCell
    <2>2. N \in Nat /\ place \in Nat \ {0}
        <3>1. WdbToCdb!NumCells \in Int
            BY <1>1, CellsCounted
        <3> QED BY <1>1, <1>2, <3>1 DEF WdbToCdb!TypeOK
    <2> HIDE DEF N
    <2>3. S \in SUBSET (0 .. N + 1) /\ S # {} /\ S \subseteq Nat \ {0} /\ N + 1 \in Nat
        BY <2>2
    <2> HIDE DEF S
    <2> QED BY <2>1, <2>3, LeastOf
<1>4. WdbToCdb!TypeOK'
    BY <1>1, <1>2, <1>3 DEF WdbToCdb!TypeOK, WdbToCdb!Point
<1> QED BY <1>2, <1>4, WdbSame

LEMMA WdbWriteFails ==
    WdbToCdb!IInv /\ WdbToCdb!WriteFails => WdbToCdb!IInv'
<1> SUFFICES ASSUME WdbToCdb!IInv, WdbToCdb!WriteFails PROVE WdbToCdb!IInv'
    OBVIOUS
<1>1. /\ state' = "abort"
      /\ UNCHANGED <<sources, area, gapin, rank_string, file, place, item, lat, lon, rank, pen, lines, curves>>
    BY DEF WdbToCdb!WriteFails
<1>2. WdbToCdb!TypeOK'
    BY <1>1 DEF WdbToCdb!IInv, WdbToCdb!TypeOK, WdbToCdb!Point
<1> QED BY <1>1, <1>2, WdbSame

LEMMA WdbFinish ==
    WdbToCdb!IInv /\ WdbToCdb!Finish => WdbToCdb!IInv'
<1> SUFFICES ASSUME WdbToCdb!IInv, WdbToCdb!Finish PROVE WdbToCdb!IInv'
    OBVIOUS
<1>1. /\ state = "source" /\ state' = "done"
      /\ UNCHANGED <<sources, area, gapin, rank_string, file, place, item, lat, lon, rank, pen, lines, curves>>
    BY DEF WdbToCdb!Finish
<1>2. WdbToCdb!TypeOK'
    BY <1>1 DEF WdbToCdb!IInv, WdbToCdb!TypeOK, WdbToCdb!Point
<1> QED BY <1>1, <1>2, WdbSame

\* Steps that leave the pen and the lines as pltpro left them.
LEMMA Kept ==
    ASSUME NEW s, TypedWork(s), WdbToCdb!Keep(s)
    PROVE  /\ pen' = s.pen /\ curves' = s.curves /\ lines' = s.lines
           /\ pen' \in [flag : BOOLEAN, prank : Nat, ray : Seq(WdbToCdb!Point)]
           /\ lines' \in Seq(Seq(WdbToCdb!Point) \ {<<>>}) /\ curves' \in Seq(Seq(WdbToCdb!Point))
           /\ WdbToCdb!Traced(s) => WdbToCdb!Traced(WdbToCdb!Work)'
<1>1. pen' = s.pen /\ curves' = s.curves /\ lines' = s.lines
    BY DEF WdbToCdb!Keep
<1>2. /\ pen' \in [flag : BOOLEAN, prank : Nat, ray : Seq(WdbToCdb!Point)]
      /\ lines' \in Seq(Seq(WdbToCdb!Point) \ {<<>>}) /\ curves' \in Seq(Seq(WdbToCdb!Point))
    BY <1>1 DEF TypedWork, TypedPieces
<1>3. WdbToCdb!Traced(s) => WdbToCdb!Traced(WdbToCdb!Work)'
    BY <1>1 DEF WdbToCdb!Traced, WdbToCdb!Work
<1> QED BY <1>1, <1>2, <1>3

LEMMA WdbFlushLine ==
    WdbToCdb!IInv /\ WdbToCdb!FlushLine => WdbToCdb!IInv'
<1> SUFFICES ASSUME WdbToCdb!IInv, WdbToCdb!FlushLine PROVE WdbToCdb!IInv'
    OBVIOUS
<1> DEFINE off == 4 * Half
           s == WdbToCdb!Work
           t == WdbToCdb!pltpro(s, off, off, 64, FALSE)
<1>1. WdbToCdb!TypeOK
    BY DEF WdbToCdb!IInv
<1>2. /\ file' = file + 1 /\ state = "cells" /\ state' = "source"
      /\ UNCHANGED <<sources, area, gapin, rank_string, place, item, lat, lon, rank>>
      /\ WdbToCdb!Keep(t)
    BY DEF WdbToCdb!FlushLine
<1>3. TypedWork(s)
    BY <1>1 DEF WdbToCdb!TypeOK, WdbToCdb!Work, TypedWork, TypedPieces
<1>4. off \in Int /\ ~WdbToCdb!inside(off, off)
    <2>1. Half \in Nat \ {0} /\ area.north \in Int /\ area.north <= Half \div 2
        BY <1>1, WdbConstants DEF WdbToCdb!TypeOK
    <2>2. off \in Int /\ Half \div 2 <= Half /\ Half \div 2 \in Int /\ ~(off <= area.north)
        BY <2>1
    <2> HIDE DEF off
    <2> QED BY <2>2 DEF WdbToCdb!inside
<1>5. s.pen = pen
    BY DEF WdbToCdb!Work
<1>6. gapin \in Int /\ 64 \in Nat /\ FALSE \in BOOLEAN
    BY <1>1, WdbGaps
<1> HIDE DEF off, s
<1>7. TypedWork(t)
    BY <1>3, <1>4, <1>6, PltproTyped
<1>8. ASSUME WdbToCdb!gap = 1
      PROVE  /\ WdbToCdb!Traced(t) /\ ~t.pen.flag /\ Len(t.pen.ray) <= 1
    <2>1. WdbToCdb!Traced(s) /\ (pen.flag /\ pen.ray # <<>> => pen.prank < 64)
        BY <1>8 DEF WdbToCdb!IInv, WdbToCdb!SameRank, s
    <2>2. s.pen.flag /\ s.pen.ray # <<>> /\ ~FALSE => 64 = s.pen.prank \/ ~WdbToCdb!inside(off, off)
        BY <1>4
    <2>3. Stepped(s, t, off, off, 64)
        BY ONLY <1>3, <1>4, <1>6, <1>8, <2>1, <2>2, PltproStep
    <2>4. s.pen.flag /\ s.pen.ray # <<>> => 64 # s.pen.prank
        <3>1. pen.prank \in Nat
            BY <1>1 DEF WdbToCdb!TypeOK
        <3> QED BY <1>5, <2>1, <3>1
    <2> HIDE DEF t
    <2> QED BY <1>4, <2>3, <2>4 DEF Stepped
<1> HIDE DEF t
<1>9. /\ pen' = t.pen /\ pen' \in [flag : BOOLEAN, prank : Nat, ray : Seq(WdbToCdb!Point)]
      /\ lines' \in Seq(Seq(WdbToCdb!Point) \ {<<>>}) /\ curves' \in Seq(Seq(WdbToCdb!Point))
      /\ WdbToCdb!Traced(t) => WdbToCdb!Traced(WdbToCdb!Work)'
    BY <1>2, <1>7, Kept
<1>10. WdbToCdb!TypeOK'
    BY <1>1, <1>2, <1>9 DEF WdbToCdb!TypeOK
<1>11. (WdbToCdb!gap = 1)' => WdbToCdb!gap = 1
    BY <1>2 DEF WdbToCdb!gap
<1>12. WdbToCdb!gap = 1 => ~pen.flag' /\ Len(pen.ray') <= 1
    BY <1>8, <1>9
<1> QED BY <1>8, <1>9, <1>10, <1>11, <1>12 DEF WdbToCdb!IInv, WdbToCdb!SameRank

\* The record that is read.
LEMMA RecordTyped ==
    ASSUME WdbToCdb!TypeOK, state = "cells", item < Len(WdbToCdb!Chain(place))
    PROVE  WdbToCdb!Chain(place)[item + 1] \in WdbToCdb!Records
<1> DEFINE ch == WdbToCdb!Chain(place)
           f == sources[file]
<1>1. /\ sources \in Sources /\ file \in 1 .. Len(sources) /\ f # Missing /\ item \in Nat
    BY DEF WdbToCdb!TypeOK
<1>2. \A c \in DOMAIN f : f[c] \in Seq(WdbToCdb!Records)
    BY <1>1, WdbConstants
<1>3. ch \in Seq(WdbToCdb!Records)
    <2>1. ch = <<>> \/ \E c \in DOMAIN f : ch = f[c]
        BY DEF WdbToCdb!Chain
    <2>2. <<>> \in Seq(WdbToCdb!Records)
        OBVIOUS
    <2> QED BY <1>2, <2>1, <2>2
<1> HIDE DEF ch
<1> QED BY <1>1, <1>3 DEF ch

LEMMA WdbPlotRecord ==
    WdbToCdb!IInv /\ WdbToCdb!PlotRecord => WdbToCdb!IInv'
<1> SUFFICES ASSUME WdbToCdb!IInv, WdbToCdb!PlotRecord PROVE WdbToCdb!IInv'
    OBVIOUS
<1> DEFINE r == WdbToCdb!Chain(place)[item + 1]
           pts == WdbToCdb!PointsOf(r)
           k == IF r.cont THEN rank ELSE r.rank
           n == Len(pts)
           after == CHOOSE R : IsAfter(pts, k, ~r.cont, n, R)
<1>1. WdbToCdb!TypeOK
    BY DEF WdbToCdb!IInv
<1>2. /\ state = "cells" /\ place <= WdbToCdb!NumCells /\ item < Len(WdbToCdb!Chain(place))
      /\ item' = item + 1 /\ UNCHANGED <<sources, area, gapin, rank_string, file, place, state>>
    BY DEF WdbToCdb!PlotRecord
<1>3. /\ rank' = k /\ lat' = pts[n][1] /\ lon' = pts[n][2]
      /\ IF WdbToCdb!ranks(k) THEN WdbToCdb!Keep(after[n]) ELSE UNCHANGED <<pen, cdb, curves, lines>>
    BY DEF WdbToCdb!PlotRecord, IsAfter
<1>4. r \in WdbToCdb!Records
    BY <1>1, <1>2, RecordTyped
<1> HIDE DEF r
<1>5. k \in 0 .. 63 /\ (~(~r.cont) => k = rank) /\ (~r.cont) \in BOOLEAN /\ k \in Nat
    <2>1. r.cont \in BOOLEAN /\ r.rank \in 0 .. 63 /\ rank \in 0 .. 63
        BY <1>1, <1>4 DEF WdbToCdb!Records, WdbToCdb!TypeOK
    <2>2. k = IF r.cont THEN rank ELSE r.rank
        OBVIOUS
    <2>3. (~r.cont) \in BOOLEAN
        OBVIOUS
    <2> HIDE DEF k
    <2>4. k = rank \/ k = r.rank
        BY <2>2
    <2>5. k \in 0 .. 63 /\ k \in Nat
        BY <2>1, <2>4
    <2>6. ~(~r.cont) => k = rank
        BY <2>2
    <2> QED BY <2>3, <2>5, <2>6
<1>6. pts \in Seq(WdbToCdb!Point) /\ n \in Nat \ {0}
    <2>1. WdbToCdb!Start(r) \in WdbToCdb!Point
        BY <1>1, <1>2, <1>4, StartTyped
    <2> QED BY <1>4, <2>1, PointsTyped
<1> HIDE DEF pts, k
<1>7. lat' \in Int /\ lon' \in Int
    <2>1. pts[n] \in WdbToCdb!Point
        BY <1>6
    <2> QED BY <1>3, <2>1 DEF WdbToCdb!Point
<1>8. IsAfter(pts, k, ~r.cont, n, after)
    <2>1. \E R : IsAfter(pts, k, ~r.cont, n, R)
        BY <1>6, AfterExists
    <2> QED BY <2>1
<1> HIDE DEF after
<1>9. /\ (WdbToCdb!gap = 1)' => WdbToCdb!gap = 1
      /\ \A j : WdbToCdb!ranks(j)' <=> WdbToCdb!ranks(j)
    BY <1>2 DEF WdbToCdb!gap, WdbToCdb!ranks
<1>10. CASE WdbToCdb!ranks(k)
    <2> DEFINE t == after[n]
    <2>1. \A i \in 0 .. n : Drawing(after[i], k, i)
        BY <1>5, <1>6, <1>8, <1>10, AfterTyped
    <2>2. Drawing(t, k, n)
        BY <1>6, <2>1
    <2>3. WdbToCdb!Keep(t)
        BY <1>3, <1>10
    <2> HIDE DEF t
    <2>4. TypedWork(t) /\ (WdbToCdb!gap = 1 => WdbToCdb!Traced(t)) /\ t.pen.prank = k
        BY <1>6, <2>2 DEF Drawing
    <2>5. /\ pen' = t.pen /\ pen' \in [flag : BOOLEAN, prank : Nat, ray : Seq(WdbToCdb!Point)]
          /\ lines' \in Seq(Seq(WdbToCdb!Point) \ {<<>>}) /\ curves' \in Seq(Seq(WdbToCdb!Point))
          /\ WdbToCdb!Traced(t) => WdbToCdb!Traced(WdbToCdb!Work)'
        BY <2>3, <2>4, Kept
    <2>6. WdbToCdb!TypeOK'
        BY <1>1, <1>2, <1>3, <1>5, <1>7, <2>5 DEF WdbToCdb!TypeOK
    <2>7. WdbToCdb!SameRank'
        <3>1. pen'.prank = k /\ rank' = k
            BY <1>3, <2>4, <2>5
        <3>2. k < 64
            BY <1>5
        <3> QED BY <3>1, <3>2 DEF WdbToCdb!SameRank
    <2> QED BY <1>2, <1>9, <2>4, <2>5, <2>6, <2>7 DEF WdbToCdb!IInv
<1>11. CASE ~WdbToCdb!ranks(k)
    <2>1. UNCHANGED <<pen, cdb, curves, lines>>
        BY <1>3, <1>11
    <2>2. WdbToCdb!TypeOK'
        BY <1>1, <1>2, <1>3, <1>5, <1>7, <2>1 DEF WdbToCdb!TypeOK, WdbToCdb!Point
    <2>3. WdbToCdb!gap = 1 => WdbToCdb!Traced(WdbToCdb!Work)'
        <3>1. WdbToCdb!gap = 1 => WdbToCdb!Traced(WdbToCdb!Work)
            BY DEF WdbToCdb!IInv
        <3> QED BY <2>1, <3>1 DEF WdbToCdb!Traced, WdbToCdb!Work
    <2>4. WdbToCdb!gap = 1 => WdbToCdb!SameRank'
        <3>1. WdbToCdb!gap = 1 /\ pen.flag /\ pen.ray # <<>> => pen.prank < 64
            BY DEF WdbToCdb!IInv, WdbToCdb!SameRank
        <3>2. ~(WdbToCdb!ranks(rank)')
            BY <1>2, <1>3, <1>11 DEF WdbToCdb!ranks
        <3> QED BY <2>1, <3>1, <3>2 DEF WdbToCdb!SameRank
    <2> QED BY <1>2, <1>9, <2>2, <2>3, <2>4 DEF WdbToCdb!IInv
<1> QED BY <1>10, <1>11

-----------------------------------------------------------------------------
\* Whatever the sources hold, wherever the area is and whichever ranks are
\* wanted, pltpro loses, doubles and reorders no point of a line: what it has
\* drawn and what it still holds in latray and lonray are the lines without
\* their last points, and it holds the end of the last line.
THEOREM WdbInvariance == WdbToCdb!Spec => []WdbToCdb!IInv
<1>1. WdbToCdb!IInv /\ [WdbToCdb!Next]_WdbToCdb!wdbVars => WdbToCdb!IInv'
    <2> SUFFICES ASSUME WdbToCdb!IInv, [WdbToCdb!Next]_WdbToCdb!wdbVars PROVE WdbToCdb!IInv'
        OBVIOUS
    <2>1. CASE WdbToCdb!OpenSource
        BY <2>1, WdbOpenSource
    <2>2. CASE WdbToCdb!PlotRecord
        BY <2>2, WdbPlotRecord
    <2>3. CASE WdbToCdb!NextCell
        BY <2>3, WdbNextCell
    <2>4. CASE WdbToCdb!FlushLine
        BY <2>4, WdbFlushLine
    <2>5. CASE WdbToCdb!Finish
        BY <2>5, WdbFinish
    <2>6. CASE WdbToCdb!WriteFails
        BY <2>6, WdbWriteFails
    <2>7. CASE UNCHANGED WdbToCdb!wdbVars
        <3>1. UNCHANGED <<sources, area, gapin, rank_string, file, place, item, lat, lon, rank, pen, state, lines, curves>>
            BY <2>7 DEF WdbToCdb!wdbVars
        <3>2. WdbToCdb!TypeOK'
            BY <3>1 DEF WdbToCdb!IInv, WdbToCdb!TypeOK, WdbToCdb!Point
        <3>3. WdbToCdb!IInv'
            BY <3>1, <3>2 DEF WdbToCdb!IInv, WdbToCdb!gap, WdbToCdb!Traced, WdbToCdb!Work,
                WdbToCdb!SameRank, WdbToCdb!ranks
        <3> QED BY <3>3
    <2> QED BY <2>1, <2>2, <2>3, <2>4, <2>5, <2>6, <2>7 DEF WdbToCdb!Next
<1> QED BY <1>1, WdbInit, PTL DEF WdbToCdb!Spec

\* Unless lines are thinned, every point of a source inside the area is drawn, once
\* and in order, except the last point of each line, and nothing is drawn between the
\* points of two lines: of pltpro and curve, for lines of any length, full arrays
\* and lines that leave the area or change their rank included.
THEOREM LinesKeptCorrect == WdbToCdb!Spec => []LinesKept
<1>1. WdbToCdb!IInv => LinesKept
    <2> SUFFICES ASSUME WdbToCdb!IInv, state \in {"source", "done"}, WdbToCdb!gap = 1
                 PROVE  /\ WdbToCdb!FlattenSeq(curves) = WdbToCdb!FlattenSeq(WdbToCdb!Fronts(lines))
                        /\ \A pts \in WdbToCdb!Range(curves) :
                                \E line \in WdbToCdb!Range(lines) : WdbToCdb!PartOf(pts, line)
        BY DEF LinesKept, WdbToCdb!LinesKept, WdbToCdb!Fronts
    <2>1. Len(pen.ray) <= 1 /\ WdbToCdb!Traced(WdbToCdb!Work)
        BY DEF WdbToCdb!IInv
    <2>2. Accounts(curves, lines, pen.ray)
        BY <2>1, TracedIs DEF WdbToCdb!Work
    <2>3. pen.ray \in Seq(WdbToCdb!Point) /\ curves \in Seq(Seq(WdbToCdb!Point))
          /\ lines \in Seq(Seq(WdbToCdb!Point) \ {<<>>})
        BY DEF WdbToCdb!IInv, WdbToCdb!TypeOK
    <2>4. Accounts(curves, lines, <<>>)
        BY <2>1, <2>2, <2>3, NothingDrawn DEF TypedPieces
    <2>5. WdbToCdb!FlattenSeq(curves) \o <<>> = WdbToCdb!FlattenSeq(curves)
        BY <2>3, FlattenIs, ConcatEmptySeq
    <2>6. WdbToCdb!Pending(<<>>) = <<>>
        BY DEF WdbToCdb!Pending
    <2> QED BY <2>4, <2>5, <2>6 DEF Accounts
<1> QED BY <1>1, WdbInvariance, PTL

-----------------------------------------------------------------------------
(***************************************************************************)
(* WdbToCdb: rounding to stroke units, NORMALIZE and sums of strokes.      *)
(***************************************************************************)

\* What the assumptions say of the angles.
LEMMA Angles ==
    /\ Q \in Nat \ {0} /\ Half \in Nat \ {0}
BY WdbToCdbHolds DEF WdbToCdb!WdbToCdbAssumption

\* Multiples of q are q apart.
LEMMA Multiples ==
    ASSUME NEW q \in Nat, NEW a \in Int, NEW b \in Int, a < b
    PROVE  q * a + q <= q * b
<1>1. b = (a + 1) + (b - (a + 1)) /\ b - (a + 1) \in Nat
    OBVIOUS
<1>2. \A x \in Int : \A y \in Nat : q * (x + y) = q * x + q * y /\ q * y \in Nat /\ q * x \in Int
    OBVIOUS
<1>3. q * b = q * (a + 1) + q * (b - (a + 1)) /\ q * (b - (a + 1)) \in Nat /\ q * (a + 1) = q * a + q
      /\ q * a \in Int
    BY <1>1, <1>2
<1> QED BY <1>3

\* Rounding is off by half a unit to one side, one and a half to the other.
LEMMA NintOff ==
    ASSUME NEW y \in Int
    PROVE  /\ WdbToCdb!nint(y) \in Int
           /\ -Q <= 2 * (Q * WdbToCdb!nint(y) - y) /\ 2 * (Q * WdbToCdb!nint(y) - y) <= 3 * Q
           /\ WdbToCdb!nint(y) > 0 => 2 * (Q * WdbToCdb!nint(y) - y) <= Q
<1> DEFINE z == 2 * y + Q
           d == 2 * Q
           m == WdbToCdb!nint(y)
<1>1. Q \in Nat \ {0} /\ z \in Int /\ d \in Nat \ {0} /\ d = Q + Q
    BY Angles
<1>2. m = IF z >= 0 THEN z \div d ELSE -((-z) \div d)
    BY DEF WdbToCdb!nint, WdbToCdb!Toward0
<1> HIDE DEF m, d
<1>3. \A x \in Nat : x \div d \in Nat /\ d * (x \div d) <= x /\ x < d * (x \div d) + d
    <2>1. \A x \in Nat : x \div d \in Int /\ d * (x \div d) <= x /\ x < d * (x \div d) + d
        BY <1>1
    <2> SUFFICES ASSUME NEW x \in Nat PROVE x \div d \in Nat
        BY <2>1
    <2> DEFINE p == x \div d
    <2>2. p \in Int /\ x < d * p + d
        BY <2>1
    <2>3. p < 0 => d * p + d <= d * 0
        <3> HIDE DEF p
        <3> QED BY <1>1, <2>2, Multiples
    <2> HIDE DEF p
    <2>4. p \in Nat
        BY <1>1, <2>2, <2>3
    <2> QED BY <2>4 DEF p
<1>4. \A n \in Int : d * n = 2 * (Q * n) /\ Q * n \in Int /\ Q * (-n) = -(Q * n)
    <2>1. \A n \in Int : (2 * Q) * n = 2 * (Q * n) /\ Q * n \in Int /\ Q * (-n) = -(Q * n)
        BY <1>1
    <2> QED BY <2>1 DEF d
<1>5. CASE z >= 0
    <2>1. m \in Int /\ d * m <= z /\ z < d * m + d
        <3> HIDE DEF z
        <3>1. z \in Nat /\ m = z \div d
            BY <1>1, <1>2, <1>5
        <3> QED BY <1>3, <3>1
    <2>2. d * m = 2 * (Q * m) /\ Q * m \in Int
        BY <1>4, <2>1
    <2> QED BY <1>1, <2>1, <2>2 DEF m
<1>6. CASE z < 0
    <2> DEFINE n == (-z) \div d
    <2>1. m = -n
        BY <1>1, <1>2, <1>6
    <2>2. n \in Nat /\ d * n <= -z /\ -z < d * n + d
        <3> HIDE DEF z
        <3>1. -z \in Nat
            BY <1>1, <1>6
        <3> QED BY <1>3, <3>1
    <2> HIDE DEF n
    <2>3. d * n = 2 * (Q * n) /\ Q * n \in Int /\ Q * m = -(Q * n) /\ m \in Int
        BY <1>4, <2>1, <2>2
    <2> QED BY <1>1, <2>2, <2>3 DEF m
<1> QED BY <1>1, <1>5, <1>6

\* 180 degrees in stroke units.
Units == Half \div Q

\* 180 degrees are a whole number of units.
LEMMA UnitsAre ==
    /\ Units \in Nat /\ Q * Units = Half
    /\ \A k \in -Units .. Units : Q * k \in -Half .. Half
<1>1. Q \in Nat \ {0} /\ Half \in Nat \ {0} /\ Half % Q = 0
    BY WdbToCdbHolds DEF WdbToCdb!WdbToCdbAssumption
<1>2. Units \in Nat /\ Q * Units = Half
    BY <1>1 DEF Units
<1>3. ASSUME NEW k \in -Units .. Units PROVE Q * k \in -Half .. Half
    <2>1. \A a \in Int, b \in Int : Q * a \in Int /\ (a <= b => Q * a <= Q * b) /\ Q * (-a) = -(Q * a)
        <3>1. \A a \in Int : Q * a \in Int /\ Q * (-a) = -(Q * a)
            BY <1>1
        <3>2. ASSUME NEW a \in Int, NEW b \in Int, a <= b PROVE Q * a <= Q * b
            <4>1. CASE a = b
                BY <1>1, <4>1
            <4>2. CASE a < b
                BY <1>1, <3>1, <4>2, Multiples
            <4> QED BY <3>2, <4>1, <4>2
        <3> QED BY <3>1, <3>2
    <2>2. k \in Int /\ -Units <= k /\ k <= Units /\ Units \in Int /\ -Units \in Int
        BY <1>2
    <2>3. Q * (-Units) <= Q * k /\ Q * k <= Q * Units /\ Q * (-Units) = -(Q * Units) /\ Q * k \in Int
        BY <2>1, <2>2
    <2> QED BY <1>1, <1>2, <2>3
<1> QED BY <1>2, <1>3

\* Rounding stays between -180 and 180.
LEMMA NintInRange ==
    ASSUME NEW x \in -Half .. Half
    PROVE  WdbToCdb!nint(x) \in -Units .. Units
<1> DEFINE m == WdbToCdb!nint(x)
<1>1. Q \in Nat \ {0} /\ Half \in Nat \ {0} /\ Units \in Nat /\ Q * Units = Half /\ x \in Int
    BY Angles, UnitsAre
<1>2. m \in Int /\ -Q <= 2 * (Q * m - x) /\ (m > 0 => 2 * (Q * m - x) <= Q)
    BY <1>1, NintOff
<1> HIDE DEF m
<1>3. \A k \in Int : Q * k \in Int /\ Q * (-k) = -(Q * k)
    BY <1>1
<1>4. ~(m > Units)
    <2> SUFFICES ASSUME m > Units PROVE FALSE
        OBVIOUS
    <2>1. Q * Units + Q <= Q * m
        BY <1>1, <1>2, Multiples
    <2>2. m > 0 /\ Q * m \in Int
        BY <1>1, <1>2, <1>3
    <2> QED BY <1>1, <1>2, <2>1, <2>2
<1>5. ~(m < -Units)
    <2> SUFFICES ASSUME m < -Units PROVE FALSE
        OBVIOUS
    <2>1. Q * m + Q <= Q * (-Units)
        BY <1>1, <1>2, Multiples
    <2>2. Q * m \in Int /\ Q * (-Units) = -Half
        BY <1>1, <1>2, <1>3
    <2> QED BY <1>1, <1>2, <2>1, <2>2
<1> QED BY <1>1, <1>2, <1>4, <1>5 DEF m

\* NORMALIZE does nothing between -180 and 180 and brings the rest there.
LEMMA Normalized ==
    ASSUME NEW x \in Int
    PROVE  /\ WdbToCdb!NORMALIZE(x) \in -Half .. Half
           /\ x \in -Half .. Half => WdbToCdb!NORMALIZE(x) = x
<1>1. Half \in Nat \ {0} /\ 2 * Half \in Nat \ {0}
    BY Angles
<1>2. \A y \in Int : y % (2 * Half) \in 0 .. 2 * Half - 1
    BY <1>1
<1>3. CASE x < -Half
    <2>1. (x + Half) % (2 * Half) \in 0 .. 2 * Half - 1
        BY <1>1, <1>2
    <2> QED BY <1>1, <1>3, <2>1 DEF WdbToCdb!NORMALIZE
<1>4. CASE x > Half
    <2>1. (Half - x) % (2 * Half) \in 0 .. 2 * Half - 1
        BY <1>1, <1>2
    <2> QED BY <1>1, <1>4, <2>1 DEF WdbToCdb!NORMALIZE
<1>5. CASE x \in -Half .. Half
    BY <1>1, <1>5 DEF WdbToCdb!NORMALIZE
<1> QED BY <1>1, <1>3, <1>4, <1>5

\* Sums of strokes.
IsLed(strokes, at, i, R) ==
    R = [k \in 0 .. Len(strokes) - at |-> IF k = 0 THEN 0 ELSE R[k - 1] + strokes[at + k][i]]

LEMMA LedUnfolded ==
    ASSUME NEW strokes, NEW at, NEW i
    PROVE  WdbToCdb!Led(strokes, at, i) = CHOOSE R : IsLed(strokes, at, i, R)
BY DEF WdbToCdb!Led, IsLed

\* The recursion of the sums, and their types.
LEMMA LedIs ==
    ASSUME NEW strokes \in Seq(WdbToCdb!Point), NEW at \in 0 .. Len(strokes), NEW i \in {1, 2}
    PROVE  /\ WdbToCdb!Led(strokes, at, i)[0] = 0
           /\ \A k \in 1 .. Len(strokes) - at :
                WdbToCdb!Led(strokes, at, i)[k] = WdbToCdb!Led(strokes, at, i)[k - 1] + strokes[at + k][i]
           /\ \A k \in 0 .. Len(strokes) - at : WdbToCdb!Led(strokes, at, i)[k] \in Int
<1> DEFINE n == Len(strokes) - at
           step == [k \in 1 .. n |-> [x \in Int |-> x + strokes[at + k][i]]]
           T == [k \in 0 .. n |-> Int]
<1>1. n \in Nat
    OBVIOUS
<1>2. ASSUME NEW k \in 1 .. n
      PROVE  strokes[at + k][i] \in Int /\ k - 1 \in 0 .. n /\ k \in 0 .. n
    <2>1. at + k \in 1 .. Len(strokes)
        OBVIOUS
    <2>2. strokes[at + k] \in Int \X Int
        BY <2>1 DEF WdbToCdb!Point
    <2> QED BY <2>2
<1>3. ASSUME NEW k \in 1 .. n, NEW x \in Int
      PROVE  step[k][x] = x + strokes[at + k][i] /\ step[k][x] \in Int
    BY <1>2
<1>4. PICK P : IsLoop(P, n, 0, step)
    BY <1>1, LoopExists
<1>5. \A k \in 0 .. n : P[k] \in Int
    <2>1. 0 \in T[0]
        BY <1>1
    <2>2. \A k \in 1 .. n : \A x \in T[k - 1] : step[k][x] \in T[k]
        <3>1. \A k \in 1 .. n : T[k - 1] = Int /\ T[k] = Int
            BY <1>2
        <3> HIDE DEF T, step
        <3> QED BY <1>3, <3>1
    <2>3. \A k \in 0 .. n : P[k] \in T[k]
        <3> HIDE DEF T, step, n
        <3> QED BY <1>1, <1>4, <2>1, <2>2, LoopTyped
    <2> QED BY <2>3
<1>6. IsLed(strokes, at, i, P)
    <2>1. ASSUME NEW k \in 0 .. n
          PROVE  (IF k = 0 THEN 0 ELSE step[k][P[k - 1]]) = IF k = 0 THEN 0 ELSE P[k - 1] + strokes[at + k][i]
        <3>1. CASE k = 0
            BY <3>1
        <3>2. CASE k # 0
            <4>1. k \in 1 .. n /\ k - 1 \in 0 .. n
                BY <1>1, <3>2
            <4>2. P[k - 1] \in Int
                BY <1>5, <4>1
            <4> HIDE DEF step
            <4> QED BY <1>3, <3>2, <4>1, <4>2
        <3> QED BY <3>1, <3>2
    <2>2. P = [k \in 0 .. n |-> IF k = 0 THEN 0 ELSE P[k - 1] + strokes[at + k][i]]
        <3> HIDE DEF step
        <3> QED BY <1>4, <2>1 DEF IsLoop
    <2> QED BY <2>2 DEF IsLed
<1> DEFINE L == WdbToCdb!Led(strokes, at, i)
<1>7. IsLed(strokes, at, i, L)
    BY <1>6, LedUnfolded
<1> HIDE DEF L, step, T
<1>8. L[0] = 0 /\ \A k \in 1 .. n : L[k] = L[k - 1] + strokes[at + k][i]
    <2>1. L = [k \in 0 .. n |-> IF k = 0 THEN 0 ELSE L[k - 1] + strokes[at + k][i]]
        BY <1>7 DEF IsLed
    <2> HIDE DEF n
    <2>2. 0 \in 0 .. n /\ \A k \in 1 .. n : k \in 0 .. n /\ k # 0
        BY <1>1
    <2> QED BY <2>1, <2>2
<1> DEFINE G == {k \in 0 .. n : L[k] \in Int}
<1>9. 0 .. n \subseteq G
    <2>1. 0 \in G
        BY <1>1, <1>8
    <2>2. ASSUME NEW k \in 1 .. n, k - 1 \in G PROVE k \in G
        BY <1>2, <1>8, <2>2
    <2> HIDE DEF G, n
    <2> QED BY <1>1, <2>1, <2>2, ByIndex
<1> QED BY <1>8, <1>9 DEF L

\* The same strokes at another place lead the same way.
LEMMA LedSame ==
    ASSUME NEW s \in Seq(WdbToCdb!Point), NEW a \in 0 .. Len(s), NEW t \in Seq(WdbToCdb!Point), NEW b \in 0 .. Len(t),
           NEW i \in {1, 2}, NEW n \in Nat, a + n <= Len(s), b + n <= Len(t),
           \A k \in 1 .. n : s[a + k] = t[b + k]
    PROVE  \A k \in 0 .. n : WdbToCdb!Led(s, a, i)[k] = WdbToCdb!Led(t, b, i)[k]
<1> DEFINE L == WdbToCdb!Led(s, a, i)
           M == WdbToCdb!Led(t, b, i)
           G == {k \in 0 .. n : L[k] = M[k]}
<1>1. L[0] = 0 /\ \A k \in 1 .. Len(s) - a : L[k] = L[k - 1] + s[a + k][i]
    BY LedIs
<1>2. M[0] = 0 /\ \A k \in 1 .. Len(t) - b : M[k] = M[k - 1] + t[b + k][i]
    BY LedIs
<1> HIDE DEF L, M
<1>3. 0 \in G
    BY <1>1, <1>2
<1>4. ASSUME NEW k \in 1 .. n, k - 1 \in G PROVE k \in G
    <2>1. k \in 1 .. Len(s) - a /\ k \in 1 .. Len(t) - b
        OBVIOUS
    <2>2. L[k] = L[k - 1] + s[a + k][i] /\ M[k] = M[k - 1] + t[b + k][i]
        BY <1>1, <1>2, <2>1
    <2> QED BY <1>4, <2>2
<1>5. 0 .. n \subseteq G
    <2> HIDE DEF G
    <2> QED BY <1>3, <1>4, ByIndex
<1> QED BY <1>5 DEF L, M

\* The larger and the smaller of two.
LEMMA Extremes ==
    ASSUME NEW a \in Int, NEW b \in Int
    PROVE  /\ WdbToCdb!Max({a, b}) \in Int /\ WdbToCdb!Max({a, b}) >= a /\ WdbToCdb!Max({a, b}) >= b
           /\ WdbToCdb!Min({a, b}) \in Int /\ WdbToCdb!Min({a, b}) <= a /\ WdbToCdb!Min({a, b}) <= b
<1>1. \E x \in {a, b} : \A y \in {a, b} : x >= y
    <2>1. CASE a >= b
        BY <2>1
    <2>2. CASE b >= a
        BY <2>2
    <2> QED BY <2>1, <2>2
<1>2. \E x \in {a, b} : \A y \in {a, b} : x <= y
    OBVIOUS
<1>3. WdbToCdb!Max({a, b}) \in {a, b} /\ \A y \in {a, b} : WdbToCdb!Max({a, b}) >= y
    BY <1>1 DEF WdbToCdb!Max
<1>4. WdbToCdb!Min({a, b}) \in {a, b} /\ \A y \in {a, b} : WdbToCdb!Min({a, b}) <= y
    BY <1>2 DEF WdbToCdb!Min
<1> QED BY <1>3, <1>4

-----------------------------------------------------------------------------
(***************************************************************************)
(* WdbToCdb: segments in memory, in the file, and on the way there.        *)
(***************************************************************************)

Exacts == Seq(Int \X (-Half .. Half))
Entries == [ilat0 : Int, ilon0 : -(Half \div Q) .. Half \div Q, ilat_max : Int, ilon_max : Int,
            ilat_min : Int, ilon_min : Int, addr : Int, size : Int]

\* Two entries of the index with the same start and bounds.
SameBounds(e, f) ==
    /\ e.ilat0 = f.ilat0 /\ e.ilon0 = f.ilon0
    /\ e.ilat_max = f.ilat_max /\ e.ilon_max = f.ilon_max /\ e.ilat_min = f.ilat_min /\ e.ilon_min = f.ilon_min

\* Strokes that are copied, for instance to the end of the file.
LEMMA HoldsCopied ==
    ASSUME NEW c, NEW d, NEW n, NEW s \in Seq(WdbToCdb!Point), NEW t \in Seq(WdbToCdb!Point),
           NEW a \in 0 .. Len(s), NEW b \in 0 .. Len(t), NEW size \in Nat,
           a + size <= Len(s), b + size <= Len(t), \A k \in 1 .. size : s[a + k] = t[b + k],
           d.exact[n] = c.exact[n], SameBounds(d.index[n], c.index[n]),
           c.max_seg_size \in Nat, d.max_seg_size \in Nat, c.max_seg_size <= d.max_seg_size, c.odd => d.odd,
           WdbToCdb!Holds(c, n, s, a, size)
    PROVE  WdbToCdb!Holds(d, n, t, b, size)
<1>1. \A k \in 0 .. size : /\ WdbToCdb!Led(s, a, 1)[k] = WdbToCdb!Led(t, b, 1)[k]
                           /\ WdbToCdb!Led(s, a, 2)[k] = WdbToCdb!Led(t, b, 2)[k]
    <2>1. 1 \in {1, 2} /\ 2 \in {1, 2}
        OBVIOUS
    <2>2. \A k \in 0 .. size : WdbToCdb!Led(s, a, 1)[k] = WdbToCdb!Led(t, b, 1)[k]
        BY <2>1, LedSame
    <2>3. \A k \in 0 .. size : WdbToCdb!Led(s, a, 2)[k] = WdbToCdb!Led(t, b, 2)[k]
        BY <2>1, LedSame
    <2> QED BY <2>2, <2>3
<1>2. size <= c.max_seg_size /\ Len(c.exact[n]) = size + 1
    BY DEF WdbToCdb!Holds
<1>3. ASSUME ~d.odd, NEW k \in 0 .. size
      PROVE  WdbToCdb!Follows(d.index[n], d.exact[n], t, b, k)
    <2>1. WdbToCdb!Follows(c.index[n], c.exact[n], s, a, k)
        BY <1>3 DEF WdbToCdb!Holds
    <2> QED BY <1>1, <2>1 DEF WdbToCdb!Follows, SameBounds
<1> QED BY <1>2, <1>3 DEF WdbToCdb!Holds

\* All segments are written.
AllStored(c) ==
    /\ Len(c.index) = Len(c.exact)
    /\ \A n \in 1 .. Len(c.index) : WdbToCdb!Stored(c, n)
    /\ WdbToCdb!AddressOf(c, Len(c.index) + 1) = Len(c.written)

\* The types of what a cdb file consists of.
LEMMA CdbIs ==
    ASSUME NEW c \in WdbToCdb!Cdbs
    PROVE  /\ c.index \in Seq(Entries) /\ c.data \in Seq(WdbToCdb!Point) /\ c.at \in Int \X (-Half .. Half)
           /\ c.written \in Seq(WdbToCdb!Point) /\ c.max_seg_size \in Nat /\ c.exact \in Seq(Exacts)
           /\ c.nan \in Int /\ c.odd \in BOOLEAN /\ c.ilat_extent \in Int /\ c.ilon_extent \in Int
BY DEF WdbToCdb!Cdbs, Entries, Exacts, WdbToCdb!Point

\* What write_segment_data changes.
LEMMA WriteIs ==
    ASSUME NEW c \in WdbToCdb!Cdbs, c.index # <<>>
    PROVE  LET d == WdbToCdb!write_segment_data(c)
               n == Len(c.index)
           IN  /\ d \in WdbToCdb!Cdbs /\ d.data = c.data /\ d.exact = c.exact /\ d.odd = c.odd
               /\ d.max_seg_size = c.max_seg_size /\ d.written = c.written \o c.data
               /\ Len(d.index) = n /\ n \in Nat \ {0} /\ \A k \in 1 .. n - 1 : d.index[k] = c.index[k]
               /\ SameBounds(d.index[n], c.index[n])
               /\ d.index[n].addr = Len(c.written) /\ d.index[n].size = Len(c.data)
<1> DEFINE d == WdbToCdb!write_segment_data(c)
           n == Len(c.index)
           e == [c.index[n] EXCEPT !.addr = Len(c.written), !.size = Len(c.data)]
<1>1. c.index \in Seq(Entries) /\ c.data \in Seq(WdbToCdb!Point) /\ c.written \in Seq(WdbToCdb!Point)
    BY CdbIs
<1>2. n \in Nat \ {0} /\ n \in 1 .. n /\ c.index[n] \in Entries
    BY <1>1
<1>3. e \in Entries /\ SameBounds(e, c.index[n]) /\ e.addr = Len(c.written) /\ e.size = Len(c.data)
    <2> DEFINE x == c.index[n]
               f(a, b) == [x EXCEPT !.addr = a, !.size = b]
    <2>1. x \in Entries
        BY <1>2
    <2> HIDE DEF x
    <2>2. ASSUME NEW a \in Int, NEW b \in Int
          PROVE  f(a, b) \in Entries /\ SameBounds(f(a, b), x) /\ f(a, b).addr = a /\ f(a, b).size = b
        BY <2>1 DEF Entries, SameBounds
    <2> HIDE DEF f
    <2>3. Len(c.written) \in Int /\ Len(c.data) \in Int
        BY <1>1
    <2>4. e = f(Len(c.written), Len(c.data))
        BY DEF f, x
    <2> HIDE DEF e
    <2> QED BY <2>2, <2>3, <2>4 DEF x
<1>4. d = [c EXCEPT !.index = [c.index EXCEPT ![n] = e], !.written = c.written \o c.data]
    BY DEF WdbToCdb!write_segment_data, WdbToCdb!Cdbs
<1> HIDE DEF e, d
<1>5. /\ [c.index EXCEPT ![n] = e] \in Seq(Entries) /\ Len([c.index EXCEPT ![n] = e]) = n
      /\ \A k \in 1 .. n - 1 : [c.index EXCEPT ![n] = e][k] = c.index[k]
      /\ [c.index EXCEPT ![n] = e][n] = e
    BY <1>1, <1>2, <1>3
<1>6. c.written \o c.data \in Seq(WdbToCdb!Point)
    BY <1>1
<1>7. /\ d.index = [c.index EXCEPT ![n] = e] /\ d.written = c.written \o c.data /\ d.data = c.data
      /\ d.exact = c.exact /\ d.odd = c.odd /\ d.max_seg_size = c.max_seg_size
    BY <1>4 DEF WdbToCdb!Cdbs
<1>8. d \in WdbToCdb!Cdbs
    BY <1>4, <1>5, <1>6 DEF WdbToCdb!Cdbs, Entries
<1> QED BY <1>2, <1>3, <1>5, <1>7, <1>8 DEF d

\* A stored segment stays one when more is written and the segments up to it stay.
LEMMA StoredSame ==
    ASSUME NEW c \in WdbToCdb!Cdbs, NEW d \in WdbToCdb!Cdbs, NEW n \in 1 .. Len(c.index),
           \A k \in 1 .. n : d.index[k] = c.index[k], d.exact[n] = c.exact[n],
           NEW more \in Seq(WdbToCdb!Point), d.written = c.written \o more,
           c.max_seg_size <= d.max_seg_size, c.odd => d.odd,
           WdbToCdb!Stored(c, n), c.index[n].addr \in Nat
    PROVE  WdbToCdb!Stored(d, n)
<1> DEFINE e == c.index[n]
<1>1. /\ c.index \in Seq(Entries) /\ c.written \in Seq(WdbToCdb!Point) /\ d.written \in Seq(WdbToCdb!Point)
      /\ c.max_seg_size \in Nat /\ d.max_seg_size \in Nat
    BY CdbIs
<1>2. e \in Entries /\ n \in Nat /\ n - 1 \in Nat /\ d.index[n] = e
    BY <1>1
<1>3. e.addr = WdbToCdb!AddressOf(c, n) /\ e.size > 0 /\ e.addr + e.size <= Len(c.written)
      /\ WdbToCdb!Holds(c, n, c.written, e.addr, e.size)
    BY DEF WdbToCdb!Stored
<1>4. e.addr \in Nat /\ e.size \in Nat
    BY <1>2, <1>3 DEF Entries
<1> HIDE DEF e
<1>5. WdbToCdb!AddressOf(d, n) = WdbToCdb!AddressOf(c, n)
    <2>1. n # 1 => n - 1 \in 1 .. n
        BY <1>2
    <2> QED BY <2>1 DEF WdbToCdb!AddressOf
<1>6. Len(d.written) = Len(c.written) + Len(more) /\ Len(more) \in Nat /\ Len(c.written) \in Nat
      /\ \A k \in 1 .. Len(c.written) : d.written[k] = c.written[k]
    BY <1>1
<1>7. WdbToCdb!Holds(d, n, d.written, e.addr, e.size)
    <2>1. \A k \in 1 .. e.size : c.written[e.addr + k] = d.written[e.addr + k]
        <3> TAKE k \in 1 .. e.size
        <3>1. e.addr + k \in 1 .. Len(c.written)
            BY <1>3, <1>4, <1>6
        <3> QED BY <1>6, <3>1
    <2>2. e.addr \in 0 .. Len(c.written) /\ e.addr \in 0 .. Len(d.written) /\ e.addr + e.size <= Len(d.written)
        BY <1>3, <1>4, <1>6
    <2>3. SameBounds(d.index[n], c.index[n])
        BY <1>2 DEF SameBounds, e
    <2> QED BY <1>1, <1>3, <1>4, <2>1, <2>2, <2>3, HoldsCopied
<1> QED BY <1>2, <1>3, <1>4, <1>5, <1>6, <1>7 DEF WdbToCdb!Stored

\* The addresses of stored segments.
LEMMA Addresses ==
    ASSUME NEW c \in WdbToCdb!Cdbs, NEW m \in Nat, m <= Len(c.index), \A n \in 1 .. m : WdbToCdb!Stored(c, n)
    PROVE  \A n \in 1 .. m : c.index[n].addr \in Nat /\ c.index[n].size \in Nat
<1> DEFINE G == {0} \cup {n \in 1 .. m : c.index[n].addr \in Nat /\ c.index[n].size \in Nat}
<1>1. ASSUME NEW n \in 1 .. m, n - 1 \in G PROVE n \in G
    <2>1. c.index \in Seq(Entries)
        BY CdbIs
    <2>2. c.index[n] \in Entries
        BY <2>1
    <2>3. c.index[n].size \in Nat /\ c.index[n].addr = WdbToCdb!AddressOf(c, n)
        BY <2>2 DEF WdbToCdb!Stored, Entries
    <2>4. WdbToCdb!AddressOf(c, n) \in Nat
        <3>1. CASE n = 1
            BY <3>1 DEF WdbToCdb!AddressOf
        <3>2. CASE n # 1
            <4>1. n - 1 # 0 /\ c.index[n - 1].addr \in Nat /\ c.index[n - 1].size \in Nat
                BY <1>1, <3>2
            <4> QED BY <3>2, <4>1 DEF WdbToCdb!AddressOf
        <3> QED BY <3>1, <3>2
    <2> QED BY <2>3, <2>4
<1>2. 0 .. m \subseteq G
    <2>1. 0 \in G
        OBVIOUS
    <2> HIDE DEF G
    <2> QED BY <1>1, <2>1, ByIndex
<1> QED BY <1>2

LEMMA InTheTail ==
    ASSUME NEW S, NEW u \in Seq(S), NEW v \in Seq(S), NEW w, w = u \o v
    PROVE  \A k \in 1 .. Len(v) : v[0 + k] = w[Len(u) + k]
OBVIOUS

LEMMA InParts ==
    ASSUME NEW x \in Nat, NEW y \in Nat, NEW z, z = x + y
    PROVE  0 \in 0 .. y /\ x \in 0 .. z /\ 0 + y <= y /\ x + y <= z
OBVIOUS

LEMMA Before ==
    ASSUME NEW n \in Nat, n # 0, n # 1
    PROVE  n - 1 \in 1 .. n - 1
OBVIOUS

\* A segment that is written is stored, and those before it still are.
LEMMA WriteSound ==
    ASSUME NEW c \in WdbToCdb!Cdbs, WdbToCdb!Sound(c), c.index # <<>>, c.data # <<>>
    PROVE  /\ WdbToCdb!write_segment_data(c) \in WdbToCdb!Cdbs
           /\ AllStored(WdbToCdb!write_segment_data(c))
<1> DEFINE d == WdbToCdb!write_segment_data(c)
           n == Len(c.index)
<1>1. /\ d \in WdbToCdb!Cdbs /\ d.data = c.data /\ d.exact = c.exact /\ d.odd = c.odd
      /\ d.max_seg_size = c.max_seg_size /\ d.written = c.written \o c.data
      /\ Len(d.index) = n /\ n \in Nat \ {0} /\ \A k \in 1 .. n - 1 : d.index[k] = c.index[k]
      /\ SameBounds(d.index[n], c.index[n])
      /\ d.index[n].addr = Len(c.written) /\ d.index[n].size = Len(c.data)
    BY WriteIs
<1> HIDE DEF d
<1>2. /\ c.index \in Seq(Entries) /\ c.data \in Seq(WdbToCdb!Point) /\ c.written \in Seq(WdbToCdb!Point)
      /\ c.max_seg_size \in Nat /\ c.odd \in BOOLEAN /\ d.written \in Seq(WdbToCdb!Point)
    BY <1>1, CdbIs
<1>3. /\ Len(c.index) = Len(c.exact) /\ \A k \in 1 .. n - 1 : WdbToCdb!Stored(c, k)
      /\ WdbToCdb!Holds(c, n, c.data, 0, Len(c.data)) /\ WdbToCdb!AddressOf(c, n) = Len(c.written)
    BY DEF WdbToCdb!Sound
<1>4. Len(c.data) \in Nat \ {0} /\ Len(c.written) \in Nat /\ Len(d.written) = Len(c.written) + Len(c.data)
    BY <1>1, <1>2
<1>5. ASSUME NEW k \in 1 .. n - 1 PROVE WdbToCdb!Stored(d, k)
    <2>1. n - 1 \in Nat /\ n - 1 <= Len(c.index) /\ k \in 1 .. Len(c.index)
        BY <1>1
    <2>2. c.index[k].addr \in Nat
        BY <1>3, <2>1, Addresses
    <2>3. \A j \in 1 .. k : d.index[j] = c.index[j]
        BY <1>1
    <2>4. c.max_seg_size <= d.max_seg_size
        BY <1>1, <1>2
    <2> QED BY <1>1, <1>2, <1>3, <2>1, <2>2, <2>3, <2>4, StoredSame
<1>6. WdbToCdb!Stored(d, n)
    <2>1. WdbToCdb!AddressOf(d, n) = WdbToCdb!AddressOf(c, n)
        <3>1. n # 1 => d.index[n - 1] = c.index[n - 1]
            <4> HIDE DEF n
            <4> QED BY <1>1, Before
        <3> HIDE DEF n
        <3> QED BY <3>1 DEF WdbToCdb!AddressOf
    <2>2. WdbToCdb!Holds(d, n, d.written, Len(c.written), Len(c.data))
        <3> DEFINE u == c.written
                   v == c.data
                   w == d.written
        <3>1. u \in Seq(WdbToCdb!Point) /\ v \in Seq(WdbToCdb!Point) /\ w \in Seq(WdbToCdb!Point) /\ w = u \o v
            BY <1>1, <1>2
        <3>2. c.max_seg_size \in Nat /\ d.max_seg_size \in Nat /\ c.max_seg_size <= d.max_seg_size
            BY <1>1, <1>2
        <3>3. d.exact[n] = c.exact[n] /\ SameBounds(d.index[n], c.index[n]) /\ (c.odd => d.odd)
              /\ WdbToCdb!Holds(c, n, v, 0, Len(v))
            BY <1>1, <1>3
        <3>4. WdbToCdb!Holds(d, n, w, Len(u), Len(v))
            <4> HIDE DEF n, u, v, w
            <4>1. \A k \in 1 .. Len(v) : v[0 + k] = w[Len(u) + k]
                BY <3>1, InTheTail
            <4>2. Len(u) \in Nat /\ Len(v) \in Nat /\ Len(w) = Len(u) + Len(v)
                BY <3>1
            <4>3. 0 \in 0 .. Len(v) /\ Len(u) \in 0 .. Len(w) /\ 0 + Len(v) <= Len(v) /\ Len(u) + Len(v) <= Len(w)
                BY <4>2, InParts
            <4> QED BY <3>1, <3>2, <3>3, <4>1, <4>2, <4>3, HoldsCopied
        <3> QED BY <3>4
    <2> QED BY <1>1, <1>3, <1>4, <2>1, <2>2 DEF WdbToCdb!Stored
<1>7. \A k \in 1 .. n : WdbToCdb!Stored(d, k)
    <2> TAKE k \in 1 .. n
    <2>1. k = n \/ k \in 1 .. n - 1
        BY <1>1
    <2> QED BY <1>5, <1>6, <2>1
<1>8. WdbToCdb!AddressOf(d, n + 1) = Len(d.written)
    <2>1. n + 1 # 1 /\ (n + 1) - 1 = n
        BY <1>1
    <2> QED BY <1>1, <1>4, <2>1 DEF WdbToCdb!AddressOf
<1> QED BY <1>1, <1>3, <1>7, <1>8 DEF AllStored, d

-----------------------------------------------------------------------------
(***************************************************************************)
(* WdbToCdb: move_pu and add_point.                                        *)
(***************************************************************************)

\* A segment is open in memory.
Ready(c) == c \in WdbToCdb!Cdbs /\ WdbToCdb!Sound(c) /\ c.index # <<>> /\ WdbToCdb!AtLast(c)

\* No strokes lead nowhere.
LEMMA LedNone ==
    ASSUME NEW i \in {1, 2}
    PROVE  WdbToCdb!Led(<<>>, 0, i)[0] = 0
<1>1. <<>> \in Seq(WdbToCdb!Point) /\ 0 \in 0 .. Len(<<>>)
    OBVIOUS
<1> QED BY <1>1, LedIs

LEMMA AppendIs ==
    ASSUME NEW S, NEW s \in Seq(S), NEW x \in S
    PROVE  /\ Append(s, x) \in Seq(S) /\ Len(Append(s, x)) = Len(s) + 1 /\ Len(s) \in Nat
           /\ \A k \in 1 .. Len(s) : Append(s, x)[k] = s[k]
           /\ Append(s, x)[Len(s) + 1] = x /\ Append(s, x) # <<>>
OBVIOUS

\* A new segment after those that are written.
NewSegment(d, e, la, lo) ==
    [d EXCEPT !.index = Append(@, e), !.data = <<>>, !.exact = Append(@, <<<<la, lo>>>>)]

LEMMA NewSegmentTyped ==
    ASSUME NEW d \in WdbToCdb!Cdbs, NEW i \in Seq(Entries), NEW x \in Seq(Exacts)
    PROVE  [d EXCEPT !.index = i, !.data = <<>>, !.exact = x] \in WdbToCdb!Cdbs
<1>1. <<>> \in Seq(WdbToCdb!Point)
    OBVIOUS
<1> HIDE DEF WdbToCdb!Point
<1> QED BY <1>1 DEF WdbToCdb!Cdbs, Entries, Exacts

\* move_pu opens a segment that holds its first point.
LEMMA NewSegmentReady ==
    ASSUME NEW d \in WdbToCdb!Cdbs, AllStored(d), NEW la \in Int, NEW lo \in -Half .. Half, NEW e \in Entries,
           e.ilat0 = WdbToCdb!nint(la), e.ilon0 = WdbToCdb!nint(lo), e.ilat_max = e.ilat0, e.ilat_min = e.ilat0,
           e.ilon_max = e.ilon0, e.ilon_min = e.ilon0
    PROVE  Ready(NewSegment(d, e, la, lo)) /\ NewSegment(d, e, la, lo).data = <<>>
<1> DEFINE r == NewSegment(d, e, la, lo)
           n == Len(d.index)
           p == <<<<la, lo>>>>
<1>1. /\ d.index \in Seq(Entries) /\ d.data \in Seq(WdbToCdb!Point) /\ d.written \in Seq(WdbToCdb!Point)
      /\ d.max_seg_size \in Nat /\ d.odd \in BOOLEAN /\ d.exact \in Seq(Exacts)
    BY CdbIs
<1>2. p \in Exacts /\ Len(p) = 1 /\ p[1] = <<la, lo>>
    BY DEF Exacts
<1>3. /\ Append(d.index, e) \in Seq(Entries) /\ Len(Append(d.index, e)) = n + 1 /\ n \in Nat
      /\ \A k \in 1 .. n : Append(d.index, e)[k] = d.index[k]
      /\ Append(d.index, e)[n + 1] = e /\ Append(d.index, e) # <<>>
    BY <1>1, AppendIs
<1>4. /\ Append(d.exact, p) \in Seq(Exacts) /\ Len(Append(d.exact, p)) = Len(d.exact) + 1
      /\ \A k \in 1 .. Len(d.exact) : Append(d.exact, p)[k] = d.exact[k]
      /\ Append(d.exact, p)[Len(d.exact) + 1] = p
    BY <1>1, <1>2, AppendIs
<1>5. /\ r.index = Append(d.index, e) /\ r.exact = Append(d.exact, p) /\ r.data = <<>> /\ r.odd = d.odd
      /\ r.written = d.written /\ r.max_seg_size = d.max_seg_size
    BY DEF WdbToCdb!Cdbs, NewSegment
<1>6. r \in WdbToCdb!Cdbs
    <2>1. r = [d EXCEPT !.index = Append(d.index, e), !.data = <<>>, !.exact = Append(d.exact, p)]
        BY DEF NewSegment
    <2>2. Append(d.index, e) \in Seq(Entries) /\ Append(d.exact, p) \in Seq(Exacts)
        BY <1>3, <1>4
    <2> HIDE DEF r
    <2> QED BY <2>1, <2>2, NewSegmentTyped
<1> HIDE DEF r, p
<1>7. Len(d.exact) = n /\ Len(r.index) = n + 1 /\ Len(r.exact) = n + 1 /\ r.index[n + 1] = e /\ r.exact[n + 1] = p
      /\ WdbToCdb!AddressOf(d, n + 1) = Len(d.written) /\ \A k \in 1 .. n : WdbToCdb!Stored(d, k)
    BY <1>3, <1>4, <1>5 DEF AllStored
<1>8. ASSUME NEW k \in 1 .. n PROVE WdbToCdb!Stored(r, k)
    <2>1. d.index[k].addr \in Nat
        <3>1. n <= Len(d.index)
            BY <1>3
        <3> HIDE DEF n
        <3> QED BY <1>3, <1>7, <3>1, Addresses
    <2>2. <<>> \in Seq(WdbToCdb!Point) /\ r.written = d.written \o <<>>
        BY <1>1, <1>5
    <2>3. d.max_seg_size <= r.max_seg_size /\ (d.odd => r.odd)
        BY <1>1, <1>5
    <2>4. \A j \in 1 .. k : r.index[j] = d.index[j]
        BY <1>3, <1>5
    <2>5. r.exact[k] = d.exact[k]
        BY <1>4, <1>5, <1>7
    <2> QED BY <1>6, <1>7, <2>1, <2>2, <2>3, <2>4, <2>5, StoredSame
<1>9. WdbToCdb!Holds(r, n + 1, <<>>, 0, 0)
    <2>1. 0 <= r.max_seg_size /\ Len(r.exact[n + 1]) = 0 + 1
        BY <1>1, <1>2, <1>5, <1>7
    <2>2. ASSUME NEW k \in 0 .. 0 PROVE WdbToCdb!Follows(r.index[n + 1], r.exact[n + 1], <<>>, 0, k)
        <3>1. k = 0 /\ r.index[n + 1] = e /\ r.exact[n + 1][k + 1] = <<la, lo>>
            BY <1>2, <1>7
        <3>2. WdbToCdb!Led(<<>>, 0, 1)[0] = 0 /\ WdbToCdb!Led(<<>>, 0, 2)[0] = 0
            BY LedNone
        <3>3. /\ WdbToCdb!nint(la) \in Int /\ WdbToCdb!nint(lo) \in Int
              /\ -Q <= 2 * (Q * WdbToCdb!nint(la) - la) /\ 2 * (Q * WdbToCdb!nint(la) - la) <= 3 * Q
              /\ -Q <= 2 * (Q * WdbToCdb!nint(lo) - lo) /\ 2 * (Q * WdbToCdb!nint(lo) - lo) <= 3 * Q
            BY NintOff
        <3>4. /\ e.ilat0 + 0 = WdbToCdb!nint(la) /\ e.ilon0 + 0 = WdbToCdb!nint(lo)
            BY <3>3
        <3>5. WdbToCdb!OffBy(WdbToCdb!nint(la), la, 0) /\ WdbToCdb!OffBy(WdbToCdb!nint(lo), lo, 0)
            <4>1. Q \in Nat
                BY Angles
            <4> QED BY <3>3, <4>1 DEF WdbToCdb!OffBy
        <3>6. WdbToCdb!nint(la) \in e.ilat_min .. e.ilat_max /\ WdbToCdb!nint(lo) \in e.ilon_min .. e.ilon_max
            BY <3>3
        <3>7. /\ e.ilat0 + WdbToCdb!Led(<<>>, 0, 1)[k] = WdbToCdb!nint(la)
              /\ e.ilon0 + WdbToCdb!Led(<<>>, 0, 2)[k] = WdbToCdb!nint(lo)
            BY <3>1, <3>2, <3>4
        <3>8. r.exact[n + 1][k + 1][1] = la /\ r.exact[n + 1][k + 1][2] = lo
            BY <3>1
        <3>9. /\ WdbToCdb!OffBy(e.ilat0 + WdbToCdb!Led(<<>>, 0, 1)[k], r.exact[n + 1][k + 1][1], k)
              /\ WdbToCdb!OffBy(e.ilon0 + WdbToCdb!Led(<<>>, 0, 2)[k], r.exact[n + 1][k + 1][2], k)
            BY <3>1, <3>5, <3>7, <3>8
        <3>10. /\ WdbToCdb!nint(r.exact[n + 1][k + 1][1]) \in e.ilat_min .. e.ilat_max
               /\ WdbToCdb!nint(r.exact[n + 1][k + 1][2]) \in e.ilon_min .. e.ilon_max
            BY <3>6, <3>8
        <3> QED BY <3>1, <3>9, <3>10 DEF WdbToCdb!Follows
    <2> QED BY <2>1, <2>2 DEF WdbToCdb!Holds
<1>10. WdbToCdb!AddressOf(r, n + 1) = Len(r.written)
    <2>1. n + 1 # 1 => r.index[(n + 1) - 1] = d.index[(n + 1) - 1]
        BY <1>3, <1>5
    <2> QED BY <1>5, <1>7, <2>1 DEF WdbToCdb!AddressOf
<1>11. WdbToCdb!Sound(r)
    <2>1. (n + 1) - 1 = n /\ Len(<<>>) = 0
        BY <1>3
    <2>2. r.index # <<>>
        BY <1>3, <1>5
    <2> HIDE DEF n
    <2> QED BY <1>5, <1>7, <1>8, <1>9, <1>10, <2>1, <2>2 DEF WdbToCdb!Sound
<1>12. r.index # <<>> /\ WdbToCdb!AtLast(r)
    BY <1>3, <1>5 DEF WdbToCdb!AtLast
<1> QED BY <1>5, <1>6, <1>11, <1>12 DEF Ready, r

\* What is in memory goes to the file.
LEMMA AllWritten ==
    ASSUME NEW c, WdbToCdb!Resting(c), NEW d, d = IF c.data # <<>> THEN WdbToCdb!write_segment_data(c) ELSE c
    PROVE  d \in WdbToCdb!Cdbs /\ AllStored(d)
<1>1. c \in WdbToCdb!Cdbs /\ WdbToCdb!Sound(c) /\ (c.index # <<>> => c.data # <<>>)
    BY DEF WdbToCdb!Resting
<1>2. CASE c.data # <<>>
    <2>1. c.index # <<>>
        BY <1>1, <1>2 DEF WdbToCdb!Sound
    <2> QED BY <1>1, <1>2, <2>1, WriteSound
<1>3. CASE c.data = <<>>
    <2>1. c.index = <<>> /\ c.written = <<>> /\ Len(c.index) = Len(c.exact)
        BY <1>1, <1>3 DEF WdbToCdb!Sound
    <2>2. AllStored(c)
        BY <2>1 DEF AllStored, WdbToCdb!AddressOf
    <2> QED BY <1>1, <1>3, <2>2
<1> QED BY <1>2, <1>3

\* move_pu: between two calls of curve, or when a stroke crosses 180.
LEMMA MovePuReady ==
    ASSUME NEW c, WdbToCdb!Resting(c), NEW la \in Int, NEW lo \in Int
    PROVE  Ready(WdbToCdb!move_pu(c, la, lo)) /\ WdbToCdb!move_pu(c, la, lo).data = <<>>
<1> DEFINE d == IF c.data # <<>> THEN WdbToCdb!write_segment_data(c) ELSE c
           la0 == WdbToCdb!nint(la)
           l == WdbToCdb!NORMALIZE(lo)
           lo0 == WdbToCdb!nint(l)
           e == [ilat0 |-> la0, ilon0 |-> lo0, ilat_max |-> la0, ilon_max |-> lo0,
                 ilat_min |-> la0, ilon_min |-> lo0, addr |-> -1, size |-> -1]
<1>1. d \in WdbToCdb!Cdbs /\ AllStored(d)
    BY AllWritten
<1>2. l \in -Half .. Half
    BY Normalized
<1>3. la0 \in Int /\ lo0 \in -Units .. Units
    BY <1>2, NintOff, NintInRange
<1>4. e \in Entries
    BY <1>3 DEF Entries, Units
<1>5. WdbToCdb!move_pu(c, la, lo) = NewSegment(d, e, la, l)
    BY DEF WdbToCdb!move_pu, NewSegment
<1> HIDE DEF d, l
<1> QED BY <1>1, <1>2, <1>4, <1>5, NewSegmentReady

\* The static lat1 and lon1 are what the next stroke starts from.
Begun(b) ==
    /\ Ready(b)
    /\ b.data = <<>> => b.at = <<b.index[Len(b.index)].ilat0 * Q, b.index[Len(b.index)].ilon0 * Q>>

LEMMA MovedTo ==
    ASSUME NEW c \in WdbToCdb!Cdbs, NEW la \in Int, NEW lo \in -Half .. Half
    PROVE  [c EXCEPT !.at = <<la, lo>>] \in WdbToCdb!Cdbs
BY DEF WdbToCdb!Cdbs

\* A stroke begins at the point before, or at the rounded start.
LEMMA BeginReady ==
    ASSUME NEW c, Ready(c)
    PROVE  /\ Begun(WdbToCdb!begin(c)) /\ WdbToCdb!begin(c).data = c.data
           /\ c.data # <<>> => WdbToCdb!begin(c) = c
           /\ WdbToCdb!begin(c).odd = c.odd
<1> DEFINE e == c.index[Len(c.index)]
           b == [c EXCEPT !.at = <<e.ilat0 * Q, e.ilon0 * Q>>]
<1>1. CASE c.data # <<>>
    BY <1>1 DEF Begun, WdbToCdb!begin
<1>2. CASE c.data = <<>>
    <2>1. c \in WdbToCdb!Cdbs /\ c.index \in Seq(Entries) /\ c.index # <<>>
        BY CdbIs DEF Ready
    <2>2. e \in Entries
        BY <2>1
    <2>3. e.ilat0 * Q \in Int /\ e.ilon0 * Q \in -Half .. Half
        <3>1. e.ilat0 \in Int /\ e.ilon0 \in -Units .. Units
            BY <2>2 DEF Entries, Units
        <3>2. Q \in Int /\ Q * e.ilon0 \in -Half .. Half
            BY <3>1, UnitsAre, Angles
        <3>3. Q * e.ilon0 = e.ilon0 * Q
            BY <3>1, <3>2, UnitsAre
        <3> HIDE DEF e
        <3> QED BY <3>1, <3>2, <3>3
    <2>4. b \in WdbToCdb!Cdbs
        BY <2>1, <2>3, MovedTo
    <2>5. /\ b.index = c.index /\ b.exact = c.exact /\ b.data = c.data /\ b.odd = c.odd
          /\ b.written = c.written /\ b.max_seg_size = c.max_seg_size /\ b.at = <<e.ilat0 * Q, e.ilon0 * Q>>
        BY <2>1 DEF WdbToCdb!Cdbs
    <2>6. WdbToCdb!begin(c) = b
        BY <1>2 DEF WdbToCdb!begin, WdbToCdb!Open
    <2>7. WdbToCdb!Sound(b)
        <3> HIDE DEF b
        <3>1. WdbToCdb!Sound(c)
            BY DEF Ready
        <3>2. \A n : WdbToCdb!AddressOf(b, n) = WdbToCdb!AddressOf(c, n)
            BY <2>5 DEF WdbToCdb!AddressOf
        <3>3. \A n, s, at, size : WdbToCdb!Holds(b, n, s, at, size) <=> WdbToCdb!Holds(c, n, s, at, size)
            BY <2>5 DEF WdbToCdb!Holds
        <3>4. \A n : WdbToCdb!Stored(b, n) <=> WdbToCdb!Stored(c, n)
            BY <2>5, <3>2, <3>3 DEF WdbToCdb!Stored
        <3> QED BY <2>5, <3>1, <3>2, <3>3, <3>4 DEF WdbToCdb!Sound
    <2>8. WdbToCdb!AtLast(b)
        <3> HIDE DEF b
        <3> QED BY <1>2, <2>5 DEF WdbToCdb!AtLast
    <2>9. b.at = <<b.index[Len(b.index)].ilat0 * Q, b.index[Len(b.index)].ilon0 * Q>>
        <3> HIDE DEF b
        <3> QED BY <2>5
    <2> HIDE DEF b
    <2> QED BY <1>2, <2>1, <2>4, <2>5, <2>6, <2>7, <2>8, <2>9 DEF Begun, Ready
<1> QED BY <1>1, <1>2

\* The error of one more stroke.
LEMMA OffFirst ==
    ASSUME NEW a \in Int, NEW t \in Int
    PROVE  WdbToCdb!OffBy(a + WdbToCdb!nint(t - a * Q), t, 1)
<1> DEFINE m == WdbToCdb!nint(t - a * Q)
<1>1. Q \in Nat /\ a * Q \in Int
    BY Angles
<1>2. m \in Int /\ -Q <= 2 * (Q * m - (t - a * Q)) /\ 2 * (Q * m - (t - a * Q)) <= 3 * Q
    BY <1>1, NintOff
<1> HIDE DEF m
<1>3. Q * (a + m) = a * Q + Q * m /\ Q * m \in Int
    BY <1>1, <1>2
<1>4. -Q * 1 = -Q /\ 3 * Q * 1 = 3 * Q
    BY <1>1
<1>5. -Q * 1 <= 2 * (Q * (a + m) - t) /\ 2 * (Q * (a + m) - t) <= 3 * Q * 1
    BY <1>1, <1>2, <1>3, <1>4
<1> QED BY <1>5 DEF WdbToCdb!OffBy, m

LEMMA OffAdded ==
    ASSUME NEW a \in Int, NEW x \in Int, NEW k \in Nat \ {0}, WdbToCdb!OffBy(a, x, k), NEW t \in Int
    PROVE  WdbToCdb!OffBy(a + WdbToCdb!nint(t - x), t, k + 1)
<1> DEFINE m == WdbToCdb!nint(t - x)
<1>1. Q \in Nat
    BY Angles
<1>2. m \in Int /\ -Q <= 2 * (Q * m - (t - x)) /\ 2 * (Q * m - (t - x)) <= 3 * Q
    BY NintOff
<1> HIDE DEF m
<1>3. -Q * k <= 2 * (Q * a - x) /\ 2 * (Q * a - x) <= 3 * Q * k
    BY DEF WdbToCdb!OffBy
<1>4. Q * (a + m) = Q * a + Q * m /\ Q * m \in Int /\ Q * a \in Int
    BY <1>1, <1>2
<1>5. -Q * (k + 1) = -Q * k - Q /\ 3 * Q * (k + 1) = 3 * Q * k + 3 * Q /\ -Q * k \in Int /\ 3 * Q * k \in Int
    BY <1>1
<1>6. -Q * (k + 1) <= 2 * (Q * (a + m) - t) /\ 2 * (Q * (a + m) - t) <= 3 * Q * (k + 1)
    BY <1>1, <1>2, <1>3, <1>4, <1>5
<1>7. k + 1 # 0
    OBVIOUS
<1> QED BY <1>6, <1>7 DEF WdbToCdb!OffBy, m

\* The bounds hold what they did and the new point.
LEMMA WidenedIs ==
    ASSUME NEW e \in Entries, NEW la \in Int, NEW lo \in Int
    PROVE  LET f == WdbToCdb!Widened(e, la, lo)
           IN  /\ f \in Entries /\ f.ilat0 = e.ilat0 /\ f.ilon0 = e.ilon0 /\ f.addr = e.addr /\ f.size = e.size
               /\ e.ilat_min .. e.ilat_max \subseteq f.ilat_min .. f.ilat_max
               /\ e.ilon_min .. e.ilon_max \subseteq f.ilon_min .. f.ilon_max
               /\ WdbToCdb!nint(la) >= f.ilat_min /\ WdbToCdb!nint(la) <= f.ilat_max
               /\ WdbToCdb!nint(lo) >= f.ilon_min /\ WdbToCdb!nint(lo) <= f.ilon_max
               /\ WdbToCdb!nint(la) \in Int /\ WdbToCdb!nint(lo) \in Int
<1> DEFINE f == WdbToCdb!Widened(e, la, lo)
           x == WdbToCdb!nint(la)
           y == WdbToCdb!nint(lo)
           a == WdbToCdb!Max({e.ilat_max, x})
           b == WdbToCdb!Max({e.ilon_max, y})
           c == WdbToCdb!Min({e.ilat_min, x})
           d == WdbToCdb!Min({e.ilon_min, y})
<1>1. x \in Int /\ y \in Int
    BY NintOff
<1> HIDE DEF x, y
<1>2. e.ilat_max \in Int /\ e.ilon_max \in Int /\ e.ilat_min \in Int /\ e.ilon_min \in Int
    BY DEF Entries
<1>3. /\ a \in Int /\ a >= e.ilat_max /\ a >= x /\ b \in Int /\ b >= e.ilon_max /\ b >= y
      /\ c \in Int /\ c <= e.ilat_min /\ c <= x /\ d \in Int /\ d <= e.ilon_min /\ d <= y
    BY <1>1, <1>2, Extremes
<1>4. f = [e EXCEPT !.ilat_max = a, !.ilon_max = b, !.ilat_min = c, !.ilon_min = d]
    BY DEF WdbToCdb!Widened, x, y, Entries
<1> HIDE DEF a, b, c, d, f
<1>5. /\ f.ilat0 = e.ilat0 /\ f.ilon0 = e.ilon0 /\ f.addr = e.addr /\ f.size = e.size
      /\ f.ilat_max = a /\ f.ilon_max = b /\ f.ilat_min = c /\ f.ilon_min = d
    BY <1>4 DEF Entries
<1>6. f \in Entries
    BY <1>3, <1>4 DEF Entries
<1>7. /\ e.ilat_min .. e.ilat_max \subseteq f.ilat_min .. f.ilat_max
      /\ e.ilon_min .. e.ilon_max \subseteq f.ilon_min .. f.ilon_max
    BY <1>2, <1>3, <1>5
<1> QED BY <1>1, <1>3, <1>5, <1>6, <1>7 DEF f, x, y

LEMMA AddPointTyped ==
    ASSUME NEW c \in WdbToCdb!Cdbs, NEW i \in Seq(Entries), NEW x \in Seq(Exacts), NEW s \in Seq(WdbToCdb!Point),
           NEW at \in Int \X (-Half .. Half), NEW m \in Nat,
           NEW r, r = [c EXCEPT !.data = s, !.at = at, !.max_seg_size = m, !.index = i, !.exact = x]
    PROVE  /\ r \in WdbToCdb!Cdbs /\ r.data = s /\ r.at = at /\ r.max_seg_size = m /\ r.index = i
           /\ r.exact = x /\ r.written = c.written /\ r.odd = c.odd
<1> HIDE DEF WdbToCdb!Point
<1> QED BY DEF WdbToCdb!Cdbs, Entries, Exacts

LEMMA EntryIs ==
    ASSUME NEW e \in Entries
    PROVE  /\ e.ilat0 \in Int /\ e.ilon0 \in Int /\ e.ilat_min \in Int /\ e.ilat_max \in Int
           /\ e.ilon_min \in Int /\ e.ilon_max \in Int /\ e.addr \in Int /\ e.size \in Int
<1>1. \A k \in -Units .. Units : k \in Int
    BY UnitsAre
<1> QED BY <1>1 DEF Entries, Units

LEMMA PlaceIs ==
    ASSUME NEW at \in Int \X (-Half .. Half)
    PROVE  at[1] \in Int /\ at[2] \in Int
<1>1. \A x \in -Half .. Half : x \in Int
    BY Angles
<1> QED BY <1>1

\* Where the strokes lead with one more.
LEMMA LedAdded ==
    ASSUME NEW s \in Seq(WdbToCdb!Point), NEW p \in WdbToCdb!Point, NEW i \in {1, 2}
    PROVE  /\ \A k \in 0 .. Len(s) : WdbToCdb!Led(Append(s, p), 0, i)[k] = WdbToCdb!Led(s, 0, i)[k]
           /\ WdbToCdb!Led(Append(s, p), 0, i)[Len(s) + 1] = WdbToCdb!Led(s, 0, i)[Len(s)] + p[i]
           /\ WdbToCdb!Led(s, 0, i)[Len(s)] \in Int /\ WdbToCdb!Led(s, 0, i)[0] = 0
<1> DEFINE t == Append(s, p)
           n == Len(s)
           L == WdbToCdb!Led(s, 0, i)
           M == WdbToCdb!Led(t, 0, i)
<1>1. /\ t \in Seq(WdbToCdb!Point) /\ Len(t) = n + 1 /\ n \in Nat /\ t[n + 1] = p
      /\ \A k \in 1 .. n : t[k] = s[k]
    BY AppendIs
<1> HIDE DEF t
<1>2. 0 \in 0 .. n /\ 0 \in 0 .. Len(t) /\ 0 + n <= n /\ 0 + n <= Len(t) /\ (n + 1) - 1 = n /\ n + 1 # 0
      /\ 0 + (n + 1) = n + 1 /\ n + 1 \in 1 .. Len(t) - 0 /\ n \in 0 .. n - 0
    BY <1>1
<1>3. \A k \in 1 .. n : s[0 + k] = t[0 + k]
    BY <1>1
<1>4. \A k \in 0 .. n : L[k] = M[k]
    BY <1>1, <1>2, <1>3, LedSame
<1>5. L[0] = 0 /\ L[n] \in Int
    BY <1>2, LedIs
<1>6. M[n + 1] = M[(n + 1) - 1] + t[0 + (n + 1)][i]
    BY <1>1, <1>2, LedIs
<1>7. n \in 0 .. n
    BY <1>1
<1> HIDE DEF L, M, n
<1>8. M[n + 1] = L[n] + p[i]
    BY <1>1, <1>2, <1>4, <1>6, <1>7
<1> QED BY <1>4, <1>5, <1>8 DEF t, n, L, M

LEMMA EmptyIs ==
    ASSUME NEW S, NEW s \in Seq(S), Len(s) = 0
    PROVE  s = <<>>
OBVIOUS

\* One more point of the segment in memory.
LEMMA AddPointHolds ==
    ASSUME NEW b, Begun(b), ~b.odd, NEW la \in Int, NEW lo \in -Half .. Half,
           NEW n, n = Len(b.index), NEW m, m = Len(b.data),
           NEW s, s = Append(b.data, <<WdbToCdb!nint(la - b.at[1]), WdbToCdb!nint(lo - b.at[2])>>),
           NEW q, q = Append(b.exact[n], <<la, lo>>)
    PROVE  \A k \in 0 .. m + 1 : WdbToCdb!Follows(WdbToCdb!Widened(b.index[n], la, lo), q, s, 0, k)
<1> DEFINE e == b.index[n]
           f == WdbToCdb!Widened(e, la, lo)
           p == b.exact[n]
           u == WdbToCdb!nint(la - b.at[1])
           v == WdbToCdb!nint(lo - b.at[2])
<1>1. /\ b \in WdbToCdb!Cdbs /\ WdbToCdb!Sound(b) /\ b.index # <<>> /\ WdbToCdb!AtLast(b)
      /\ b.data = <<>> => b.at = <<e.ilat0 * Q, e.ilon0 * Q>>
    BY DEF Begun, Ready
<1>2. /\ b.index \in Seq(Entries) /\ b.data \in Seq(WdbToCdb!Point) /\ b.at \in Int \X (-Half .. Half)
      /\ b.exact \in Seq(Exacts)
    BY <1>1, CdbIs
<1>3. Len(b.index) = Len(b.exact) /\ WdbToCdb!Holds(b, n, b.data, 0, m)
    BY <1>1 DEF WdbToCdb!Sound
<1>4. n \in Nat \ {0} /\ e \in Entries /\ p \in Exacts /\ n = Len(b.exact)
    BY <1>1, <1>2, <1>3
<1>5. Len(p) = m + 1 /\ m \in Nat /\ \A k \in 0 .. m : WdbToCdb!Follows(e, p, b.data, 0, k)
    BY <1>2, <1>3 DEF WdbToCdb!Holds
<1>6. b.at[1] \in Int /\ b.at[2] \in Int /\ lo \in Int
    <2>1. lo \in Int
        BY Angles
    <2> QED BY <1>2, <2>1, PlaceIs
<1>7. u \in Int /\ v \in Int
    <2>1. la - b.at[1] \in Int /\ lo - b.at[2] \in Int
        BY <1>6
    <2> QED BY <2>1, NintOff
<1>8. <<u, v>> \in WdbToCdb!Point
    BY <1>7 DEF WdbToCdb!Point
<1>9. /\ f.ilat0 = e.ilat0 /\ f.ilon0 = e.ilon0
      /\ e.ilat_min .. e.ilat_max \subseteq f.ilat_min .. f.ilat_max
      /\ e.ilon_min .. e.ilon_max \subseteq f.ilon_min .. f.ilon_max
      /\ WdbToCdb!nint(la) >= f.ilat_min /\ WdbToCdb!nint(la) <= f.ilat_max
      /\ WdbToCdb!nint(lo) >= f.ilon_min /\ WdbToCdb!nint(lo) <= f.ilon_max
      /\ WdbToCdb!nint(la) \in Int /\ WdbToCdb!nint(lo) \in Int /\ f \in Entries
    BY <1>4, <1>6, WidenedIs
<1>10. s = Append(b.data, <<u, v>>) /\ q = Append(p, <<la, lo>>)
    OBVIOUS
<1>11. /\ \A k \in 0 .. m : /\ WdbToCdb!Led(s, 0, 1)[k] = WdbToCdb!Led(b.data, 0, 1)[k]
                            /\ WdbToCdb!Led(s, 0, 2)[k] = WdbToCdb!Led(b.data, 0, 2)[k]
       /\ WdbToCdb!Led(s, 0, 1)[m + 1] = WdbToCdb!Led(b.data, 0, 1)[m] + u
       /\ WdbToCdb!Led(s, 0, 2)[m + 1] = WdbToCdb!Led(b.data, 0, 2)[m] + v
       /\ WdbToCdb!Led(b.data, 0, 1)[m] \in Int /\ WdbToCdb!Led(b.data, 0, 1)[0] = 0
       /\ WdbToCdb!Led(b.data, 0, 2)[m] \in Int /\ WdbToCdb!Led(b.data, 0, 2)[0] = 0
    <2>1. <<u, v>>[1] = u /\ <<u, v>>[2] = v /\ 1 \in {1, 2} /\ 2 \in {1, 2}
        OBVIOUS
    <2> HIDE DEF u, v
    <2> QED BY <1>2, <1>8, <1>10, <2>1, LedAdded
<1>12. /\ \A k \in 1 .. m + 1 : q[k] = p[k]
       /\ q[m + 2] = <<la, lo>>
    <2> DEFINE S == Int \X (-Half .. Half)
    <2>1. <<la, lo>> \in S /\ p \in Seq(S)
        BY <1>4 DEF Exacts
    <2>2. Len(p) + 1 = m + 2
        BY <1>5
    <2> HIDE DEF p, S
    <2>3. /\ \A k \in 1 .. Len(p) : Append(p, <<la, lo>>)[k] = p[k]
          /\ Append(p, <<la, lo>>)[Len(p) + 1] = <<la, lo>>
        BY <2>1, AppendIs
    <2> QED BY <1>5, <1>10, <2>2, <2>3
<1>13. ASSUME NEW k \in 0 .. m PROVE WdbToCdb!Follows(f, q, s, 0, k)
    <2>1. k + 1 \in 1 .. m + 1
        BY <1>5
    <2>2. q[k + 1] = p[k + 1] /\ WdbToCdb!Follows(e, p, b.data, 0, k)
        BY <1>5, <1>12, <2>1
    <2> HIDE DEF e, f, p
    <2> QED BY <1>9, <1>11, <2>2 DEF WdbToCdb!Follows
<1> DEFINE A == WdbToCdb!Led(b.data, 0, 1)[m]
           B == WdbToCdb!Led(b.data, 0, 2)[m]
<1>14. WdbToCdb!OffBy((e.ilat0 + A) + u, la, m + 1) /\ WdbToCdb!OffBy((e.ilon0 + B) + v, lo, m + 1)
    <2>1. e.ilat0 \in Int /\ e.ilon0 \in Int /\ A \in Int /\ B \in Int
        <3> HIDE DEF e
        <3> QED BY <1>4, <1>11, EntryIs
    <2>2. CASE m = 0
        <3>1. A = 0 /\ B = 0 /\ b.data = <<>>
            <4>1. b.data = <<>>
                BY <1>2, <2>2, EmptyIs
            <4>2. A = WdbToCdb!Led(b.data, 0, 1)[0] /\ B = WdbToCdb!Led(b.data, 0, 2)[0]
                BY <2>2
            <4> QED BY <1>11, <4>1, <4>2
        <3>2. b.at[1] = e.ilat0 * Q /\ b.at[2] = e.ilon0 * Q
            BY <1>1, <3>1
        <3>3. e.ilat0 + A = e.ilat0 /\ e.ilon0 + B = e.ilon0 /\ m + 1 = 1
            BY <2>1, <2>2, <3>1
        <3> HIDE DEF e, A, B
        <3> QED BY <1>6, <2>1, <3>2, <3>3, OffFirst
    <2>3. CASE m # 0
        <3>1. b.at = p[m + 1] /\ m \in Nat \ {0}
            BY <1>1, <1>2, <1>4, <1>5, <2>3 DEF WdbToCdb!AtLast
        <3>2. m \in 0 .. m
            BY <1>5
        <3>3. WdbToCdb!OffBy(e.ilat0 + A, p[m + 1][1], m) /\ WdbToCdb!OffBy(e.ilon0 + B, p[m + 1][2], m)
            <4>1. WdbToCdb!Follows(e, p, b.data, 0, m)
                BY <1>5, <3>2
            <4> HIDE DEF e, p
            <4> QED BY <4>1 DEF WdbToCdb!Follows
        <3>4. e.ilat0 + A \in Int /\ e.ilon0 + B \in Int
            <4> HIDE DEF e, A, B
            <4> QED BY <2>1
        <3> HIDE DEF e, A, B, p
        <3> QED BY <1>6, <3>1, <3>3, <3>4, OffAdded
    <2> QED BY <2>2, <2>3
<1>15. WdbToCdb!Follows(f, q, s, 0, m + 1)
    <2>1. (m + 1) + 1 = m + 2 /\ <<la, lo>>[1] = la /\ <<la, lo>>[2] = lo
        BY <1>5
    <2>2. q[(m + 1) + 1][1] = la /\ q[(m + 1) + 1][2] = lo
        BY <1>12, <2>1
    <2>3. e.ilat0 \in Int /\ e.ilon0 \in Int /\ A \in Int /\ B \in Int
        <3> HIDE DEF e
        <3> QED BY <1>4, <1>11, EntryIs
    <2>4. /\ f.ilat0 + WdbToCdb!Led(s, 0, 1)[m + 1] = (e.ilat0 + A) + u
          /\ f.ilon0 + WdbToCdb!Led(s, 0, 2)[m + 1] = (e.ilon0 + B) + v
        <3>1. f.ilat0 + (A + u) = (e.ilat0 + A) + u /\ f.ilon0 + (B + v) = (e.ilon0 + B) + v
            <4> HIDE DEF e, f, A, B, u, v
            <4> QED BY <1>7, <1>9, <2>3
        <3> QED BY <1>11, <3>1
    <2>5. /\ WdbToCdb!nint(la) \in f.ilat_min .. f.ilat_max
          /\ WdbToCdb!nint(lo) \in f.ilon_min .. f.ilon_max
        <3>1. f.ilat_min \in Int /\ f.ilat_max \in Int /\ f.ilon_min \in Int /\ f.ilon_max \in Int
            <4> HIDE DEF f
            <4> QED BY <1>9 DEF Entries
        <3> HIDE DEF f
        <3> QED BY <1>9, <3>1
    <2>6. /\ WdbToCdb!OffBy(f.ilat0 + WdbToCdb!Led(s, 0, 1)[m + 1], q[(m + 1) + 1][1], m + 1)
          /\ WdbToCdb!OffBy(f.ilon0 + WdbToCdb!Led(s, 0, 2)[m + 1], q[(m + 1) + 1][2], m + 1)
        <3> HIDE DEF f, e, A, B, u, v
        <3> QED BY <1>14, <2>2, <2>4
    <2>7. /\ WdbToCdb!nint(q[(m + 1) + 1][1]) \in f.ilat_min .. f.ilat_max
          /\ WdbToCdb!nint(q[(m + 1) + 1][2]) \in f.ilon_min .. f.ilon_max
        BY <2>2, <2>5
    <2> HIDE DEF f
    <2> QED BY <2>6, <2>7 DEF WdbToCdb!Follows
<1>16. \A k \in 0 .. m + 1 : WdbToCdb!Follows(f, q, s, 0, k)
    <2> TAKE k \in 0 .. m + 1
    <2>1. k \in 0 .. m \/ k = m + 1
        BY <1>5
    <2> QED BY <1>13, <1>15, <2>1
<1> QED BY <1>16

\* A point is added to the open segment.
LEMMA AddPointReady ==
    ASSUME NEW b, Begun(b), NEW la \in Int, NEW lo \in -Half .. Half
    PROVE  Ready(WdbToCdb!add_point(b, la, lo)) /\ WdbToCdb!add_point(b, la, lo).data # <<>>
<1> DEFINE n == Len(b.index)
           m == Len(b.data)
           e == b.index[n]
           f == WdbToCdb!Widened(e, la, lo)
           p == b.exact[n]
           q == Append(p, <<la, lo>>)
           stroke == <<WdbToCdb!nint(la - b.at[1]), WdbToCdb!nint(lo - b.at[2])>>
           s == Append(b.data, stroke)
           size == WdbToCdb!Max({b.max_seg_size, m + 1})
           i == [b.index EXCEPT ![n] = f]
           x == [b.exact EXCEPT ![n] = q]
           r == [b EXCEPT !.data = s, !.at = <<la, lo>>, !.max_seg_size = size, !.index = i, !.exact = x]
<1>1. b \in WdbToCdb!Cdbs /\ WdbToCdb!Sound(b) /\ b.index # <<>>
    BY DEF Begun, Ready
<1>2. /\ b.index \in Seq(Entries) /\ b.data \in Seq(WdbToCdb!Point) /\ b.at \in Int \X (-Half .. Half)
      /\ b.exact \in Seq(Exacts) /\ b.max_seg_size \in Nat /\ b.written \in Seq(WdbToCdb!Point) /\ b.odd \in BOOLEAN
    BY <1>1, CdbIs
<1>3. /\ Len(b.index) = Len(b.exact) /\ WdbToCdb!Holds(b, n, b.data, 0, m)
      /\ \A k \in 1 .. n - 1 : WdbToCdb!Stored(b, k)
      /\ WdbToCdb!AddressOf(b, n) = Len(b.written)
    BY <1>1 DEF WdbToCdb!Sound
<1>4. n \in Nat \ {0} /\ e \in Entries /\ p \in Exacts /\ n = Len(b.exact) /\ m \in Nat
    BY <1>1, <1>2, <1>3
<1>5. f \in Entries /\ f.addr = e.addr /\ f.size = e.size
    <2>1. lo \in Int
        BY Angles
    <2> HIDE DEF e
    <2> QED BY <1>4, <2>1, WidenedIs
<1>6. stroke \in WdbToCdb!Point
    <2>1. la - b.at[1] \in Int /\ lo - b.at[2] \in Int
        BY <1>2, Angles
    <2> QED BY <2>1, NintOff DEF WdbToCdb!Point
<1>7. s \in Seq(WdbToCdb!Point) /\ Len(s) = m + 1 /\ s # <<>>
    <2> HIDE DEF stroke
    <2> QED BY <1>2, <1>6, AppendIs
<1>8. q \in Exacts /\ Len(q) = Len(p) + 1 /\ q[Len(q)] = <<la, lo>>
    <2>1. <<la, lo>> \in Int \X (-Half .. Half)
        OBVIOUS
    <2> HIDE DEF p
    <2> QED BY <1>4, <2>1, AppendIs DEF Exacts
<1>9. size \in Nat /\ size >= m + 1 /\ b.max_seg_size <= size
    <2>1. b.max_seg_size \in Int /\ m + 1 \in Int /\ m + 1 \in Nat
        BY <1>2, <1>4
    <2> HIDE DEF m
    <2>2. size \in Int /\ size >= b.max_seg_size /\ size >= m + 1
        BY <2>1, Extremes
    <2> HIDE DEF size
    <2> QED BY <2>1, <2>2
<1>10. WdbToCdb!add_point(b, la, lo) = r
    BY <1>1 DEF WdbToCdb!add_point, WdbToCdb!Cdbs
<1> HIDE DEF e, f, p, q, stroke, s, size
<1>11. /\ i \in Seq(Entries) /\ Len(i) = n /\ i[n] = f /\ \A k \in 1 .. n - 1 : i[k] = b.index[k]
       /\ x \in Seq(Exacts) /\ Len(x) = n /\ x[n] = q /\ \A k \in 1 .. n - 1 : x[k] = b.exact[k]
    BY <1>2, <1>3, <1>4, <1>5, <1>8
<1> HIDE DEF i, x
<1>12. /\ r \in WdbToCdb!Cdbs /\ r.data = s /\ r.at = <<la, lo>> /\ r.max_seg_size = size /\ r.index = i
       /\ r.exact = x /\ r.written = b.written /\ r.odd = b.odd
    <2> DEFINE at == <<la, lo>>
    <2>1. at \in Int \X (-Half .. Half)
        OBVIOUS
    <2>2. r = [b EXCEPT !.data = s, !.at = at, !.max_seg_size = size, !.index = i, !.exact = x]
        OBVIOUS
    <2>3. s \in Seq(WdbToCdb!Point) /\ i \in Seq(Entries) /\ x \in Seq(Exacts) /\ size \in Nat
        BY <1>7, <1>9, <1>11
    <2> HIDE DEF n, m, r, at
    <2>4. /\ r \in WdbToCdb!Cdbs /\ r.data = s /\ r.at = at /\ r.max_seg_size = size /\ r.index = i
          /\ r.exact = x /\ r.written = b.written /\ r.odd = b.odd
        BY <1>1, <2>1, <2>2, <2>3 DEF WdbToCdb!Cdbs, Entries, Exacts
    <2> QED BY <2>4 DEF at
<1> HIDE DEF r
<1>13. ASSUME NEW k \in 1 .. n - 1 PROVE WdbToCdb!Stored(r, k)
    <2>1. n - 1 \in Nat /\ n - 1 <= Len(b.index) /\ k \in 1 .. Len(b.index)
        BY <1>4
    <2>2. b.index[k].addr \in Nat
        BY <1>1, <1>3, <2>1, Addresses
    <2>3. \A j \in 1 .. k : r.index[j] = b.index[j]
        BY <1>4, <1>11, <1>12
    <2>4. b.max_seg_size <= r.max_seg_size /\ (b.odd => r.odd) /\ r.exact[k] = b.exact[k]
        BY <1>9, <1>11, <1>12
    <2>5. <<>> \in Seq(WdbToCdb!Point) /\ r.written = b.written \o <<>>
        BY <1>2, <1>12
    <2> QED BY <1>1, <1>3, <1>12, <2>1, <2>2, <2>3, <2>4, <2>5, StoredSame
<1>14. WdbToCdb!Holds(r, n, s, 0, m + 1)
    <2>1. m + 1 <= r.max_seg_size /\ Len(r.exact[n]) = (m + 1) + 1
        <3>1. Len(p) = m + 1
            BY <1>3 DEF WdbToCdb!Holds, p
        <3> QED BY <1>4, <1>8, <1>9, <1>11, <1>12, <3>1
    <2>2. ASSUME ~r.odd PROVE \A k \in 0 .. m + 1 : WdbToCdb!Follows(r.index[n], r.exact[n], s, 0, k)
        <3>1. r.index[n] = WdbToCdb!Widened(b.index[n], la, lo) /\ r.exact[n] = q
            BY <1>11, <1>12 DEF f, e
        <3>2. /\ s = Append(b.data, <<WdbToCdb!nint(la - b.at[1]), WdbToCdb!nint(lo - b.at[2])>>)
              /\ q = Append(b.exact[n], <<la, lo>>)
            BY DEF s, stroke, q, p
        <3>3. ~b.odd
            BY <1>12, <2>2
        <3> QED BY <3>1, <3>2, <3>3, AddPointHolds
    <2> QED BY <2>1, <2>2 DEF WdbToCdb!Holds
<1>15. WdbToCdb!AddressOf(r, n) = Len(r.written)
    <2>1. n # 1 => r.index[n - 1] = b.index[n - 1]
        <3>1. n # 1 => n - 1 \in 1 .. n - 1
            <4> HIDE DEF n
            <4> QED BY <1>4, Before
        <3> QED BY <1>11, <1>12, <3>1
    <2> HIDE DEF n
    <2> QED BY <1>3, <1>12, <2>1 DEF WdbToCdb!AddressOf
<1>16. WdbToCdb!Sound(r)
    <2>1. r.index # <<>> /\ Len(r.index) = n /\ Len(r.exact) = n /\ r.data = s /\ Len(r.data) = m + 1
        BY <1>4, <1>7, <1>11, <1>12
    <2> HIDE DEF n, m
    <2> QED BY <1>13, <1>14, <1>15, <2>1 DEF WdbToCdb!Sound
<1>17. WdbToCdb!AtLast(r)
    <2>1. r.exact[Len(r.exact)] = q /\ r.at = q[Len(q)]
        BY <1>8, <1>11, <1>12
    <2> QED BY <2>1 DEF WdbToCdb!AtLast
<1>18. r.index # <<>> /\ r.data # <<>>
    BY <1>4, <1>7, <1>11, <1>12
<1> QED BY <1>10, <1>12, <1>16, <1>17, <1>18 DEF Ready

-----------------------------------------------------------------------------
(***************************************************************************)
(* WdbToCdb: strokes that cross 180 degrees.  CrossingReady is what one call of*)
(* draw_pd does if the calls within it are right; it is used for each of the*)
(* three levels of calls.                                                  *)
(***************************************************************************)

\* What lat1 and lon1 are does not matter to the segments.
LEMMA MovedSound ==
    ASSUME NEW c, WdbToCdb!Sound(c), NEW d, c.odd => d.odd, d.index = c.index, d.exact = c.exact, d.data = c.data,
           d.written = c.written, d.max_seg_size = c.max_seg_size
    PROVE  WdbToCdb!Sound(d)
<1>1. \A n : WdbToCdb!AddressOf(d, n) = WdbToCdb!AddressOf(c, n)
    BY DEF WdbToCdb!AddressOf
<1>2. \A n, s, a, size : WdbToCdb!Holds(c, n, s, a, size) => WdbToCdb!Holds(d, n, s, a, size)
    BY DEF WdbToCdb!Holds
<1>3. \A n : WdbToCdb!Stored(c, n) => WdbToCdb!Stored(d, n)
    BY <1>1, <1>2 DEF WdbToCdb!Stored
<1> QED BY <1>1, <1>2, <1>3 DEF WdbToCdb!Sound

\* Where a stroke crosses 180.
LEMMA CrossingIs ==
    ASSUME NEW b, b.nan \in Int, b.at \in Int \X (-Half .. Half), NEW la \in Int, NEW lon3 \in -Half .. Half,
           NEW split, split = WdbToCdb!Split(b.at[2], lon3), split # 0
    PROVE  /\ split \in {-1, 1} /\ split * Half \in -Half .. Half /\ -split * Half \in Int
           /\ WdbToCdb!Crossing(b, la, lon3, split) \in Int
           /\ split = 1 => b.at[2] > 0
           /\ split = -1 => 2 * lon3 > Half
<1> DEFINE x == b.at[1]
           y == b.at[2]
           p == WdbToCdb!Positive(y)
           q == WdbToCdb!Positive(lon3)
           far == split * (Half - p)
           run == split * (q - p)
<1>1. x \in Int /\ y \in -Half .. Half /\ Half \in Nat \ {0} /\ y \in Int /\ lon3 \in Int
    <2>1. y \in -Half .. Half
        OBVIOUS
    <2> QED BY <2>1, PlaceIs, Angles
<1> HIDE DEF x, y
<1>2. /\ split \in {-1, 1}
      /\ split = 1 => 2 * y > Half /\ 2 * lon3 < -Half
      /\ split = -1 => 2 * y < -Half /\ 2 * lon3 > Half
    BY DEF WdbToCdb!Split, y
<1>3. p = (IF y < 0 THEN y + 2 * Half ELSE y) /\ q = IF lon3 < 0 THEN lon3 + 2 * Half ELSE lon3
    BY DEF WdbToCdb!Positive
<1> HIDE DEF p, q
<1>4. p \in Int /\ q \in Int /\ (split = 1 => q - p >= 0) /\ (split = -1 => q - p <= 0)
    BY <1>1, <1>2, <1>3
<1>5. run \in Nat /\ far \in Int
    BY <1>1, <1>2, <1>4
<1>6. WdbToCdb!Crossing(b, la, lon3, split) = IF run = 0 THEN b.nan ELSE x + WdbToCdb!Toward0(far * (la - x), run)
    BY DEF WdbToCdb!Crossing, x, y, p, q
<1> HIDE DEF run, far
<1>7. far * (la - x) \in Int
    <2>1. la - x \in Int
        BY <1>1
    <2> DEFINE z == la - x
    <2> HIDE DEF z
    <2>2. far * z \in Int
        BY <1>5, <2>1 DEF z
    <2> QED BY <2>2 DEF z
<1>8. run # 0 => WdbToCdb!Toward0(far * (la - x), run) \in Int
    <2> DEFINE z == far * (la - x)
    <2>1. z \in Int
        BY <1>7
    <2> HIDE DEF z
    <2> SUFFICES ASSUME run # 0 PROVE WdbToCdb!Toward0(z, run) \in Int
        BY DEF z
    <2>2. run \in Nat \ {0}
        BY <1>5
    <2>3. z \div run \in Int /\ (-z) \div run \in Int
        BY <2>1, <2>2
    <2> QED BY <2>1, <2>3 DEF WdbToCdb!Toward0
<1>9. WdbToCdb!Crossing(b, la, lon3, split) \in Int
    BY <1>1, <1>6, <1>8
<1>10. split * Half \in -Half .. Half /\ -split * Half \in Int
    BY <1>1, <1>2
<1> QED BY <1>1, <1>2, <1>9, <1>10 DEF y

\* A longitude that is made positive and brought back is the same but for -180.
LEMMA BackAgain ==
    ASSUME NEW x \in -Half .. Half
    PROVE  /\ WdbToCdb!NORMALIZE(WdbToCdb!Positive(x)) \in -Half .. Half
           /\ WdbToCdb!Positive(x) \in Int
           /\ x # -Half => WdbToCdb!NORMALIZE(WdbToCdb!Positive(x)) = x
           /\ x = -Half => WdbToCdb!NORMALIZE(WdbToCdb!Positive(x)) = Half /\ WdbToCdb!Positive(x) = Half
<1> DEFINE h == 2 * Half
<1>1. Half \in Nat \ {0} /\ x \in Int /\ h \in Nat \ {0}
    BY Angles
<1>2. WdbToCdb!Positive(x) \in Int
    BY <1>1 DEF WdbToCdb!Positive
<1>3. WdbToCdb!NORMALIZE(WdbToCdb!Positive(x)) \in -Half .. Half
    BY <1>2, Normalized
<1>4. CASE x >= 0
    <2>1. WdbToCdb!Positive(x) = x /\ x # -Half
        BY <1>1, <1>4 DEF WdbToCdb!Positive
    <2> QED BY <1>2, <1>3, <2>1, Normalized
<1>5. CASE x < 0 /\ x # -Half
    <2>1. WdbToCdb!Positive(x) = x + 2 * Half
        BY <1>1, <1>5 DEF WdbToCdb!Positive
    <2>2. x + 2 * Half > Half /\ ~(x + 2 * Half < -Half) /\ Half - (x + 2 * Half) = -Half - x
          /\ -Half - x \in Int /\ -h < -Half - x /\ -Half - x < 0
        BY <1>1, <1>5
    <2>3. (-Half - x) % h = (-Half - x) + h
        <3>1. \A z \in Int : -h < z /\ z < 0 => z % h = z + h
            <4> HIDE DEF h
            <4> QED BY <1>1
        <3> QED BY <2>2, <3>1
    <2>4. WdbToCdb!NORMALIZE(x + 2 * Half) = Half - ((-Half - x) % h)
        BY <2>2 DEF WdbToCdb!NORMALIZE
    <2>5. Half - ((-Half - x) + h) = x
        BY <1>1
    <2> QED BY <1>2, <1>3, <1>5, <2>1, <2>3, <2>4, <2>5
<1>6. CASE x = -Half
    <2>1. WdbToCdb!Positive(x) = Half
        BY <1>1, <1>6 DEF WdbToCdb!Positive
    <2>2. Half \in Int /\ Half \in -Half .. Half
        BY <1>1
    <2>3. WdbToCdb!NORMALIZE(Half) = Half
        BY <2>2, Normalized
    <2> QED BY <1>2, <1>3, <1>6, <2>1, <2>3
<1> QED BY <1>1, <1>4, <1>5, <1>6

\* The stroke does not begin at -180 to be taken for one that begins at 180.
Unbent(c, lo) == c.data = <<>> \/ c.odd \/ ~(c.at[2] = -Half /\ 2 * WdbToCdb!NORMALIZE(lo) > Half)

LEMMA OpenIs ==
    ASSUME NEW b, Ready(b)
    PROVE  /\ b \in WdbToCdb!Cdbs /\ WdbToCdb!Sound(b) /\ b.index # <<>> /\ WdbToCdb!AtLast(b)
           /\ b.data \in Seq(WdbToCdb!Point) /\ b.at \in Int \X (-Half .. Half) /\ b.nan \in Int /\ b.odd \in BOOLEAN
           /\ b.at[1] \in Int /\ b.at[2] \in -Half .. Half
<1>1. b \in WdbToCdb!Cdbs /\ WdbToCdb!Sound(b) /\ b.index # <<>> /\ WdbToCdb!AtLast(b)
    BY DEF Ready
<1>2. b.data \in Seq(WdbToCdb!Point) /\ b.at \in Int \X (-Half .. Half) /\ b.nan \in Int /\ b.odd \in BOOLEAN
    BY <1>1, CdbIs
<1> QED BY <1>1, <1>2

\* A stroke that crosses 180 is prepared for its first half.
LEMMA TurnedSound ==
    ASSUME NEW b, b \in WdbToCdb!Cdbs, WdbToCdb!Sound(b), NEW lon3 \in -Half .. Half, NEW t, t = WdbToCdb!Turned(b, lon3)
    PROVE  /\ t \in WdbToCdb!Cdbs /\ WdbToCdb!Sound(t) /\ t.index = b.index /\ t.exact = b.exact /\ t.data = b.data
           /\ t.odd <=> b.odd \/ WdbToCdb!Positive(lon3) = WdbToCdb!Positive(b.at[2])
           /\ t.at = <<b.at[1], WdbToCdb!NORMALIZE(WdbToCdb!Positive(b.at[2]))>>
           /\ b.at[2] # -Half => t.at = b.at
<1> DEFINE at == <<b.at[1], WdbToCdb!NORMALIZE(WdbToCdb!Positive(b.at[2]))>>
           odd == b.odd \/ WdbToCdb!Positive(lon3) = WdbToCdb!Positive(b.at[2])
<1>1. b.at \in Int \X (-Half .. Half) /\ b.odd \in BOOLEAN /\ b.at[1] \in Int /\ b.at[2] \in -Half .. Half
    BY CdbIs
<1>2. /\ WdbToCdb!NORMALIZE(WdbToCdb!Positive(b.at[2])) \in -Half .. Half
      /\ b.at[2] # -Half => WdbToCdb!NORMALIZE(WdbToCdb!Positive(b.at[2])) = b.at[2]
    BY <1>1, BackAgain
<1>3. at \in Int \X (-Half .. Half) /\ odd \in BOOLEAN /\ (b.odd => odd)
    BY <1>1, <1>2
<1>4. t = [b EXCEPT !.at = at, !.odd = odd]
    BY DEF WdbToCdb!Turned, WdbToCdb!Cdbs
<1>5. b.at[2] # -Half => at = b.at
    BY <1>1, <1>2
<1> HIDE DEF at, odd
<1>6. t \in WdbToCdb!Cdbs
    BY <1>3, <1>4 DEF WdbToCdb!Cdbs
<1>7. /\ t.index = b.index /\ t.exact = b.exact /\ t.data = b.data /\ t.odd = odd
      /\ t.written = b.written /\ t.max_seg_size = b.max_seg_size /\ t.at = at
    BY <1>4 DEF WdbToCdb!Cdbs
<1>8. WdbToCdb!Sound(t)
    BY <1>3, <1>7, MovedSound
<1> QED BY <1>5, <1>6, <1>7, <1>8 DEF odd, at

LEMMA TurnedReady ==
    ASSUME NEW b, b \in WdbToCdb!Cdbs, WdbToCdb!Sound(b), b.index # <<>>, NEW lon3 \in -Half .. Half,
           NEW t, t = WdbToCdb!Turned(b, lon3), b.data = <<>> \/ t.odd \/ (WdbToCdb!AtLast(b) /\ b.at[2] # -Half)
    PROVE  Ready(t)
<1>1. /\ t \in WdbToCdb!Cdbs /\ WdbToCdb!Sound(t) /\ t.index = b.index /\ t.exact = b.exact /\ t.data = b.data
      /\ t.odd <=> b.odd \/ WdbToCdb!Positive(lon3) = WdbToCdb!Positive(b.at[2])
      /\ b.at[2] # -Half => t.at = b.at
    BY TurnedSound
<1>2. WdbToCdb!AtLast(t)
    <2> SUFFICES ASSUME t.data # <<>>, ~t.odd PROVE t.at = t.exact[Len(t.exact)][Len(t.exact[Len(t.exact)])]
        BY DEF WdbToCdb!AtLast
    <2>1. b.data # <<>> /\ ~b.odd /\ WdbToCdb!AtLast(b) /\ b.at[2] # -Half
        BY <1>1
    <2> QED BY <1>1, <2>1 DEF WdbToCdb!AtLast
<1> QED BY <1>1, <1>2 DEF Ready

\* A stroke that does not cross 180.
LEMMA UnsplitReady ==
    ASSUME NEW c, Ready(c), NEW la \in Int, NEW lo \in Int
    PROVE  Ready(WdbToCdb!Unsplit(c, la, lo)) /\ WdbToCdb!Unsplit(c, la, lo).data # <<>>
<1>1. Begun(WdbToCdb!begin(c)) /\ WdbToCdb!NORMALIZE(lo) \in -Half .. Half
    BY BeginReady, Normalized
<1> QED BY <1>1, AddPointReady DEF WdbToCdb!Unsplit

\* The steps of a stroke that crosses 180, whoever draws the halves.
LEMMA CrossingReady ==
    ASSUME NEW c, Ready(c), NEW la \in Int, NEW lo \in Int, Unbent(c, lo), NEW b, b = WdbToCdb!begin(c),
           NEW lon3, lon3 = WdbToCdb!NORMALIZE(lo), NEW split, split = WdbToCdb!Split(b.at[2], lon3), split # 0,
           NEW lat2, lat2 = WdbToCdb!Crossing(b, la, lon3, split)
    PROVE  /\ lat2 \in Int /\ split * Half \in Int /\ -split * Half \in Int
           /\ WdbToCdb!NORMALIZE(WdbToCdb!Positive(lon3)) \in Int
           /\ Ready(WdbToCdb!Turned(b, lon3)) /\ Unbent(WdbToCdb!Turned(b, lon3), split * Half)
<1>1. /\ Begun(b) /\ b.data = c.data /\ (c.data # <<>> => b = c) /\ b.odd = c.odd
    BY BeginReady
<1>2. Ready(b)
    BY <1>1 DEF Begun
<1>3. lon3 \in -Half .. Half
    BY Normalized
<1>4. b \in WdbToCdb!Cdbs /\ WdbToCdb!Sound(b) /\ b.index # <<>> /\ WdbToCdb!AtLast(b)
      /\ b.at \in Int \X (-Half .. Half) /\ b.nan \in Int /\ b.odd \in BOOLEAN
    BY <1>2, OpenIs
<1>5. /\ split \in {-1, 1} /\ split * Half \in -Half .. Half /\ -split * Half \in Int /\ lat2 \in Int
      /\ split = 1 => b.at[2] > 0
      /\ split = -1 => 2 * lon3 > Half
    <2>1. WdbToCdb!Crossing(b, la, lon3, split) \in Int
        BY <1>3, <1>4, CrossingIs
    <2>2. split \in {-1, 1}
        BY <1>3, <1>4, CrossingIs
    <2>3. split * Half \in -Half .. Half
        BY <1>3, <1>4, CrossingIs
    <2>4. -split * Half \in Int
        BY <1>3, <1>4, CrossingIs
    <2>5. split = 1 => b.at[2] > 0
        BY <1>3, <1>4, CrossingIs
    <2>6. split = -1 => 2 * lon3 > Half
        BY <1>3, <1>4, CrossingIs
    <2> QED BY <2>1, <2>2, <2>3, <2>4, <2>5, <2>6
<1>6. Half \in Nat \ {0} /\ split * Half \in Int
    <2>1. \A x \in -Half .. Half : x \in Int
        BY Angles
    <2> QED BY <1>5, <2>1, Angles
<1>7. WdbToCdb!NORMALIZE(WdbToCdb!Positive(lon3)) \in Int
    <2>1. \A x \in -Half .. Half : x \in Int
        BY Angles
    <2> QED BY <1>3, <2>1, BackAgain
<1>8. b.data = <<>> \/ b.odd \/ b.at[2] # -Half
    <2>1. CASE split = 1
        BY <1>5, <1>6, <2>1
    <2>2. CASE split = -1
        BY <1>1, <1>5, <2>2 DEF Unbent
    <2> QED BY <1>5, <2>1, <2>2
<1> DEFINE t == WdbToCdb!Turned(b, lon3)
<1>9. /\ t.odd <=> b.odd \/ WdbToCdb!Positive(lon3) = WdbToCdb!Positive(b.at[2])
      /\ b.at[2] # -Half => t.at = b.at
    BY <1>3, <1>4, TurnedSound
<1>10. Ready(t)
    BY <1>3, <1>4, <1>8, <1>9, TurnedReady
<1>11. Unbent(t, split * Half)
    <2>1. CASE split = 1
        <3>1. b.at[2] \in -Half .. Half /\ b.at[2] # -Half
            BY <1>4, <1>5, <1>6, <2>1
        <3>2. t.at[2] = b.at[2]
            BY <1>9, <3>1
        <3> QED BY <3>1, <3>2 DEF Unbent
    <2>2. CASE split = -1
        <3>1. split * Half = -Half /\ -Half \in -Half .. Half /\ -Half \in Int
            BY <1>6, <2>2
        <3>2. WdbToCdb!NORMALIZE(split * Half) = -Half
            BY <3>1, Normalized
        <3>3. ~(2 * (-Half) > Half)
            BY <1>6
        <3> QED BY <3>2, <3>3 DEF Unbent
    <2> QED BY <1>5, <2>1, <2>2
<1> QED BY <1>5, <1>6, <1>7, <1>10, <1>11

\* The second half starts a segment.
LEMMA SecondHalf ==
    ASSUME NEW c, Ready(c), c.data # <<>>, NEW la \in Int, NEW lo \in Int, NEW x
    PROVE  Ready(WdbToCdb!move_pu(c, la, lo)) /\ Unbent(WdbToCdb!move_pu(c, la, lo), x)
<1>1. WdbToCdb!Resting(c)
    BY OpenIs DEF WdbToCdb!Resting
<1> QED BY <1>1, MovePuReady DEF Unbent

\* A stroke that splits at most once.
LEMMA DrawnOnceReady ==
    ASSUME NEW c, Ready(c), NEW la \in Int, NEW lo \in Int, Unbent(c, lo)
    PROVE  Ready(WdbToCdb!DrawnOnce(c, la, lo)) /\ WdbToCdb!DrawnOnce(c, la, lo).data # <<>>
<1> DEFINE b == WdbToCdb!begin(c)
           lon3 == WdbToCdb!NORMALIZE(lo)
           split == WdbToCdb!Split(b.at[2], lon3)
           lat2 == WdbToCdb!Crossing(b, la, lon3, split)
           first == WdbToCdb!Unsplit(WdbToCdb!Turned(b, lon3), lat2, split * Half)
           next == WdbToCdb!move_pu(first, lat2, -split * Half)
           last == WdbToCdb!NORMALIZE(WdbToCdb!Positive(lon3))
<1>1. WdbToCdb!DrawnOnce(c, la, lo) =
        IF split = 0 THEN WdbToCdb!add_point(b, la, lon3) ELSE WdbToCdb!Unsplit(next, la, last)
    BY DEF WdbToCdb!DrawnOnce, WdbToCdb!Drawn
<1>2. CASE split = 0
    <2>1. Begun(b) /\ lon3 \in -Half .. Half
        BY BeginReady, Normalized
    <2> HIDE DEF b, lon3, split
    <2> QED BY <1>1, <1>2, <2>1, AddPointReady
<1>3. CASE split # 0
    <2>1. /\ lat2 \in Int /\ split * Half \in Int /\ -split * Half \in Int /\ last \in Int
          /\ Ready(WdbToCdb!Turned(b, lon3)) /\ Unbent(WdbToCdb!Turned(b, lon3), split * Half)
        BY <1>3, CrossingReady
    <2> HIDE DEF b, lon3, split, lat2, last
    <2>2. Ready(first) /\ first.data # <<>>
        BY <2>1, UnsplitReady
    <2> HIDE DEF first
    <2>3. Ready(next) /\ Unbent(next, last)
        BY <2>1, <2>2, SecondHalf
    <2> HIDE DEF next
    <2> QED BY <1>1, <1>3, <2>1, <2>3, UnsplitReady
<1> QED BY <1>2, <1>3

\* A half of a stroke, which may split once more at -180.
LEMMA DrawnTwiceReady ==
    ASSUME NEW c, Ready(c), NEW la \in Int, NEW lo \in Int, Unbent(c, lo)
    PROVE  Ready(WdbToCdb!DrawnTwice(c, la, lo)) /\ WdbToCdb!DrawnTwice(c, la, lo).data # <<>>
<1> DEFINE b == WdbToCdb!begin(c)
           lon3 == WdbToCdb!NORMALIZE(lo)
           split == WdbToCdb!Split(b.at[2], lon3)
           lat2 == WdbToCdb!Crossing(b, la, lon3, split)
           first == WdbToCdb!DrawnOnce(WdbToCdb!Turned(b, lon3), lat2, split * Half)
           next == WdbToCdb!move_pu(first, lat2, -split * Half)
           last == WdbToCdb!NORMALIZE(WdbToCdb!Positive(lon3))
<1>1. WdbToCdb!DrawnTwice(c, la, lo) =
        IF split = 0 THEN WdbToCdb!add_point(b, la, lon3) ELSE WdbToCdb!DrawnOnce(next, la, last)
    BY DEF WdbToCdb!DrawnTwice, WdbToCdb!Drawn
<1>2. CASE split = 0
    <2>1. Begun(b) /\ lon3 \in -Half .. Half
        BY BeginReady, Normalized
    <2> HIDE DEF b, lon3, split
    <2> QED BY <1>1, <1>2, <2>1, AddPointReady
<1>3. CASE split # 0
    <2>1. /\ lat2 \in Int /\ split * Half \in Int /\ -split * Half \in Int /\ last \in Int
          /\ Ready(WdbToCdb!Turned(b, lon3)) /\ Unbent(WdbToCdb!Turned(b, lon3), split * Half)
        BY <1>3, CrossingReady
    <2> HIDE DEF b, lon3, split, lat2, last
    <2>2. Ready(first) /\ first.data # <<>>
        BY <2>1, DrawnOnceReady
    <2> HIDE DEF first
    <2>3. Ready(next) /\ Unbent(next, last)
        BY <2>1, <2>2, SecondHalf
    <2> HIDE DEF next
    <2> QED BY <1>1, <1>3, <2>1, <2>3, DrawnOnceReady
<1> QED BY <1>2, <1>3

\* A stroke from 180 to -180 is odd: there is no way to split it.
LEMMA OddReady ==
    ASSUME NEW c, c \in WdbToCdb!Cdbs, WdbToCdb!Sound(c), c.index # <<>>, c.data # <<>>, c.at[2] = Half,
           NEW la \in Int, NEW lo, lo = -Half
    PROVE  Ready(WdbToCdb!DrawnTwice(c, la, lo)) /\ WdbToCdb!DrawnTwice(c, la, lo).data # <<>>
<1> DEFINE lat2 == WdbToCdb!Crossing(c, la, lo, 1)
           t == WdbToCdb!Turned(c, lo)
           first == WdbToCdb!DrawnOnce(t, lat2, 1 * Half)
           next == WdbToCdb!move_pu(first, lat2, -1 * Half)
           last == WdbToCdb!NORMALIZE(WdbToCdb!Positive(lo))
<1>1. Half \in Nat \ {0} /\ lo \in Int /\ lo \in -Half .. Half /\ Half \in -Half .. Half
      /\ 1 * Half \in Int /\ -1 * Half \in Int /\ Half # -Half
    BY Angles
<1>2. WdbToCdb!begin(c) = c /\ WdbToCdb!NORMALIZE(lo) = lo
    BY <1>1, Normalized DEF WdbToCdb!begin
<1>3. WdbToCdb!Split(c.at[2], lo) = 1
    BY <1>1 DEF WdbToCdb!Split
<1>4. c.at \in Int \X (-Half .. Half) /\ c.nan \in Int
    BY CdbIs
<1>5. lat2 \in Int
    <2>1. 1 # 0 /\ 1 = WdbToCdb!Split(c.at[2], lo)
        BY <1>3
    <2> QED BY <1>1, <1>4, <2>1, CrossingIs
<1>6. Ready(t) /\ Unbent(t, 1 * Half)
    <2>1. WdbToCdb!Positive(lo) = Half /\ WdbToCdb!Positive(c.at[2]) = Half
        BY <1>1 DEF WdbToCdb!Positive
    <2>2. t.odd
        BY <1>1, <2>1, TurnedSound
    <2> HIDE DEF t
    <2>3. t = WdbToCdb!Turned(c, lo)
        BY DEF t
    <2> QED BY <1>1, <2>2, <2>3, TurnedReady DEF Unbent
<1>7. last \in Int
    <2>1. \A x \in -Half .. Half : x \in Int
        BY Angles
    <2> QED BY <1>1, <2>1, BackAgain
<1>8. WdbToCdb!DrawnTwice(c, la, lo) = WdbToCdb!DrawnOnce(next, la, last)
    BY <1>2, <1>3 DEF WdbToCdb!DrawnTwice, WdbToCdb!Drawn
<1> HIDE DEF t, lat2, last
<1>9. Ready(first) /\ first.data # <<>>
    BY <1>1, <1>5, <1>6, DrawnOnceReady
<1> HIDE DEF first
<1>10. Ready(next) /\ Unbent(next, last)
    BY <1>1, <1>5, <1>9, SecondHalf
<1> HIDE DEF next
<1> QED BY <1>7, <1>8, <1>10, DrawnOnceReady

\* Whatever the stroke, draw_pd leaves an open segment with data.
LEMMA DrawPdReady ==
    ASSUME NEW c, Ready(c), NEW la \in Int, NEW lo \in Int
    PROVE  Ready(WdbToCdb!draw_pd(c, la, lo)) /\ WdbToCdb!draw_pd(c, la, lo).data # <<>>
<1> DEFINE b == WdbToCdb!begin(c)
           lon3 == WdbToCdb!NORMALIZE(lo)
           split == WdbToCdb!Split(b.at[2], lon3)
           lat2 == WdbToCdb!Crossing(b, la, lon3, split)
           turned == WdbToCdb!Turned(b, lon3)
           first == WdbToCdb!DrawnTwice(turned, lat2, split * Half)
           next == WdbToCdb!move_pu(first, lat2, -split * Half)
           last == WdbToCdb!NORMALIZE(WdbToCdb!Positive(lon3))
<1>1. WdbToCdb!draw_pd(c, la, lo) =
        IF split = 0 THEN WdbToCdb!add_point(b, la, lon3) ELSE WdbToCdb!DrawnTwice(next, la, last)
    BY DEF WdbToCdb!draw_pd, WdbToCdb!Drawn
<1>2. Begun(b) /\ lon3 \in -Half .. Half /\ b.data = c.data /\ (c.data # <<>> => b = c)
    BY BeginReady, Normalized
<1>3. CASE split = 0
    <2> HIDE DEF b, lon3, split
    <2> QED BY <1>1, <1>2, <1>3, AddPointReady
<1>4. CASE split # 0
    <2>1. /\ lat2 \in Int /\ split * Half \in Int /\ -split * Half \in Int /\ last \in Int
          /\ Ready(first) /\ first.data # <<>>
        <3>1. CASE Unbent(c, lo)
            <4>1. /\ lat2 \in Int /\ split * Half \in Int /\ -split * Half \in Int /\ last \in Int
                  /\ Ready(turned) /\ Unbent(turned, split * Half)
                BY <1>4, <3>1, CrossingReady
            <4> HIDE DEF b, lon3, split, lat2, last, turned
            <4> QED BY <4>1, DrawnTwiceReady
        <3>2. CASE ~Unbent(c, lo)
            <4>1. c.data # <<>> /\ c.at[2] = -Half /\ 2 * lon3 > Half /\ b = c
                BY <1>2, <3>2 DEF Unbent
            <4>2. /\ c \in WdbToCdb!Cdbs /\ WdbToCdb!Sound(c) /\ c.index # <<>>
                  /\ c.at \in Int \X (-Half .. Half) /\ c.nan \in Int
                BY OpenIs
            <4>3. Half \in Nat \ {0} /\ -Half \in -Half .. Half
                BY Angles
            <4>4. lat2 \in Int
                <5> HIDE DEF b, lon3
                <5> QED BY <1>2, <1>4, <4>1, <4>2, CrossingIs
            <4>5. split = -1
                <5>1. b.at[2] = -Half
                    BY <4>1
                <5> HIDE DEF b, lon3
                <5> QED BY <4>1, <4>3, <5>1 DEF WdbToCdb!Split
            <4>6. split * Half = -Half /\ split * Half \in Int /\ -split * Half \in Int
                <5> HIDE DEF split
                <5> QED BY <4>3, <4>5
            <4>7. /\ turned \in WdbToCdb!Cdbs /\ WdbToCdb!Sound(turned) /\ turned.index # <<>> /\ turned.data # <<>>
                  /\ turned.at = <<b.at[1], WdbToCdb!NORMALIZE(WdbToCdb!Positive(b.at[2]))>>
                <5> HIDE DEF b, lon3
                <5> QED BY <1>2, <4>1, <4>2, TurnedSound
            <4>8. turned.at[2] = Half
                <5>1. b.at[2] = -Half
                    BY <4>1
                <5> HIDE DEF b, turned
                <5> QED BY <4>3, <4>7, <5>1, BackAgain
            <4>9. last \in Int
                <5>1. \A x \in -Half .. Half : x \in Int
                    BY Angles
                <5> HIDE DEF lon3
                <5> QED BY <1>2, <5>1, BackAgain
            <4> HIDE DEF b, lon3, split, lat2, last, turned
            <4> QED BY <4>4, <4>6, <4>7, <4>8, <4>9, OddReady
        <3> QED BY <3>1, <3>2
    <2> HIDE DEF b, lon3, split, lat2, last, turned, first
    <2>2. Ready(next) /\ Unbent(next, last)
        BY <2>1, SecondHalf
    <2> HIDE DEF next
    <2> QED BY <1>1, <1>4, <2>1, <2>2, DrawnTwiceReady
<1> QED BY <1>3, <1>4

-----------------------------------------------------------------------------
(***************************************************************************)
(* WdbToCdb: the file, through curve, pltpro and the steps of the program. *)
(***************************************************************************)

\* The recursive function of curve.
IsDrawn(c, pts, R) ==
    R = [i \in 1 .. Len(pts) |->
            IF i = 1 THEN WdbToCdb!move_pu(c, pts[1][1], pts[1][2])
            ELSE WdbToCdb!draw_pd(R[i - 1], pts[i][1], pts[i][2])]

LEMMA CurveUnfolded ==
    ASSUME NEW c, NEW pts
    PROVE  WdbToCdb!curve(c, pts) =
            IF pts = <<>> THEN c
            ELSE IF Len(pts) = 1 THEN WdbToCdb!draw_pd((CHOOSE R : IsDrawn(c, pts, R))[1], pts[1][1], pts[1][2])
                 ELSE (CHOOSE R : IsDrawn(c, pts, R))[Len(pts)]
BY DEF WdbToCdb!curve, IsDrawn

\* curve leaves an open segment that is not empty.
LEMMA CurveResting ==
    ASSUME NEW c, WdbToCdb!Resting(c), NEW pts \in Seq(WdbToCdb!Point)
    PROVE  WdbToCdb!Resting(WdbToCdb!curve(c, pts))
<1> DEFINE n == Len(pts)
           T == {x \in WdbToCdb!Cdbs : Ready(x)}
           a == WdbToCdb!move_pu(c, pts[1][1], pts[1][2])
           step == [i \in 1 .. n |-> [x \in T |-> WdbToCdb!draw_pd(x, pts[i][1], pts[i][2])]]
<1>1. CASE pts = <<>>
    BY <1>1, CurveUnfolded
<1>2. CASE pts # <<>>
    <2>1. n \in Nat \ {0} /\ \A i \in 1 .. n : pts[i][1] \in Int /\ pts[i][2] \in Int
        BY <1>2 DEF WdbToCdb!Point
    <2>2. \A x : Ready(x) <=> x \in T
        BY DEF Ready
    <2>3. a \in T
        BY <2>1, <2>2, MovePuReady
    <2>4. ASSUME NEW i \in 1 .. n, NEW x \in T
          PROVE  /\ WdbToCdb!draw_pd(x, pts[i][1], pts[i][2]) \in T
                 /\ WdbToCdb!Resting(WdbToCdb!draw_pd(x, pts[i][1], pts[i][2]))
        <3> DEFINE d == WdbToCdb!draw_pd(x, pts[i][1], pts[i][2])
        <3>1. Ready(d) /\ d.data # <<>>
            BY <2>1, <2>2, DrawPdReady
        <3> QED BY <2>2, <3>1 DEF Ready, WdbToCdb!Resting
    <2>5. \A i \in 1 .. n : \A x \in T : step[i][x] = WdbToCdb!draw_pd(x, pts[i][1], pts[i][2])
        <3> HIDE DEF T
        <3> QED OBVIOUS
    <2> HIDE DEF T, a
    <2>6. PICK R : IsLoopFromOne(R, n, a, step) /\ \A i \in 1 .. n : R[i] \in T
        <3>1. \A i \in 1 .. n : i # 1 => \A x \in T : step[i][x] \in T
            BY <2>4, <2>5
        <3> HIDE DEF step, n
        <3> QED BY <2>1, <2>3, <3>1, LoopFromOne
    <2>7. IsDrawn(c, pts, R)
        <3>1. ASSUME NEW i \in 1 .. n
              PROVE  (IF i = 1 THEN a ELSE step[i][R[i - 1]]) =
                        IF i = 1 THEN a ELSE WdbToCdb!draw_pd(R[i - 1], pts[i][1], pts[i][2])
            <4>1. CASE i = 1
                BY <4>1
            <4>2. CASE i # 1
                <5>1. i - 1 \in 1 .. n
                    BY <2>1, <4>2
                <5>2. R[i - 1] \in T
                    BY <2>6, <5>1
                <5> HIDE DEF step, n
                <5> QED BY <2>5, <4>2, <5>2
            <4> QED BY <4>1, <4>2
        <3>2. R = [i \in 1 .. n |-> IF i = 1 THEN a ELSE WdbToCdb!draw_pd(R[i - 1], pts[i][1], pts[i][2])]
            <4> HIDE DEF step, n
            <4> QED BY <2>6, <3>1 DEF IsLoopFromOne
        <3> QED BY <3>2 DEF IsDrawn, a
    <2> DEFINE D == CHOOSE O : IsDrawn(c, pts, O)
    <2>8. IsDrawn(c, pts, D)
        BY <2>7
    <2> HIDE DEF D, step
    <2>9. \A i \in 1 .. n : D[i] = IF i = 1 THEN a ELSE WdbToCdb!draw_pd(D[i - 1], pts[i][1], pts[i][2])
        BY <2>8 DEF IsDrawn, a
    <2> DEFINE G == {0} \cup {i \in 1 .. n : D[i] \in T}
    <2>10. 0 .. n \subseteq G
        <3>1. 0 \in G /\ n \in Nat
            BY <2>1
        <3>2. ASSUME NEW i \in 1 .. n, i - 1 \in G PROVE i \in G
            <4>1. CASE i = 1
                BY <2>3, <2>9, <4>1
            <4>2. CASE i # 1
                <5>1. i - 1 # 0
                    BY <4>2
                <5>2. D[i - 1] \in T
                    BY <3>2, <5>1
                <5> QED BY <2>4, <2>9, <4>2, <5>2
            <4> QED BY <4>1, <4>2
        <3> HIDE DEF G, n
        <3> QED BY <3>1, <3>2, ByIndex
    <2>11. CASE n = 1
        <3>1. 1 \in 1 .. n /\ D[1] \in T
            BY <2>1, <2>10
        <3>2. WdbToCdb!curve(c, pts) = WdbToCdb!draw_pd(D[1], pts[1][1], pts[1][2])
            BY <1>2, <2>11, CurveUnfolded DEF D
        <3> QED BY <2>4, <3>1, <3>2
    <2>12. CASE n # 1
        <3>1. n \in 1 .. n /\ n - 1 \in 1 .. n
            <4>1. n \in Nat \ {0} /\ n # 1
                BY <2>1, <2>12
            <4> HIDE DEF n
            <4> QED BY <4>1
        <3>2. D[n - 1] \in T
            BY <2>10, <3>1
        <3>3. WdbToCdb!curve(c, pts) = D[n]
            BY <1>2, <2>12, CurveUnfolded DEF D
        <3>4. D[n] = WdbToCdb!draw_pd(D[n - 1], pts[n][1], pts[n][2])
            BY <2>9, <2>12, <3>1
        <3> QED BY <2>4, <3>1, <3>2, <3>3, <3>4
    <2> QED BY <2>11, <2>12
<1> QED BY <1>1, <1>2

\* One point of pltpro.
LEMMA PltproResting ==
    ASSUME gapin \in Int, NEW s, s.pen.ray \in Seq(WdbToCdb!Point), WdbToCdb!Resting(s.cdb),
           NEW la, NEW lo, NEW k, NEW fresh
    PROVE  WdbToCdb!Resting(WdbToCdb!pltpro(s, la, lo, k, fresh).cdb)
<1> DEFINE p == s.pen
           args == WdbToCdb!Counted(WdbToCdb!simple(p.ray))
           drawn == WdbToCdb!Flushes(p, fresh, k) /\ Len(p.ray) > 1
<1>1. WdbToCdb!pltpro(s, la, lo, k, fresh).cdb = IF drawn THEN WdbToCdb!curve(s.cdb, args) ELSE s.cdb
    BY DEF WdbToCdb!pltpro
<1>2. CASE drawn
    <2>1. WdbToCdb!simple(p.ray) \in Seq(WdbToCdb!Point) /\ WdbToCdb!simple(p.ray) # <<>>
        BY <1>2, SimpleTyped
    <2>2. args \in Seq(WdbToCdb!Point)
        BY <2>1, FrontIs DEF WdbToCdb!Counted
    <2> HIDE DEF args
    <2> QED BY <1>1, <1>2, <2>2, CurveResting
<1>3. CASE ~drawn
    BY <1>1, <1>3
<1> QED BY <1>2, <1>3

\* The points of a record, one after another.
LEMMA AfterResting ==
    ASSUME WdbToCdb!IInv, WdbToCdb!Resting(cdb), NEW pts \in Seq(WdbToCdb!Point), NEW k \in Nat, NEW begins \in BOOLEAN,
           WdbToCdb!ranks(k), ~begins => k = rank,
           NEW R, IsAfter(pts, k, begins, Len(pts), R)
    PROVE  WdbToCdb!Resting(R[Len(pts)].cdb)
<1> DEFINE n == Len(pts)
           G == {i \in 0 .. n : WdbToCdb!Resting(R[i].cdb)}
<1>1. n \in Nat /\ gapin \in Int
    BY WdbGaps DEF WdbToCdb!IInv
<1>2. 0 \in G
    <2>1. R[0] = WdbToCdb!Work
        BY <1>1 DEF IsAfter
    <2> QED BY <1>1, <2>1 DEF WdbToCdb!Work
<1>3. \A i \in 0 .. n : R[i].pen.ray \in Seq(WdbToCdb!Point)
    <2>1. \A i \in 0 .. n : Drawing(R[i], k, i)
        BY AfterTyped
    <2> QED BY <2>1 DEF Drawing, TypedWork
<1>4. ASSUME NEW i \in 1 .. n, i - 1 \in G PROVE i \in G
    <2>1. R[i] = WdbToCdb!pltpro(R[i - 1], pts[i][1], pts[i][2], k, i = 1 /\ begins)
        BY <1>1 DEF IsAfter
    <2>2. WdbToCdb!Resting(R[i - 1].cdb) /\ R[i - 1].pen.ray \in Seq(WdbToCdb!Point)
        BY <1>3, <1>4
    <2>3. WdbToCdb!Resting(R[i].cdb)
        BY <1>1, <2>1, <2>2, PltproResting
    <2> QED BY <2>3
<1>5. 0 .. n \subseteq G
    <2> HIDE DEF G, n
    <2> QED BY <1>1, <1>2, <1>4, ByIndex
<1>6. n \in G
    BY <1>1, <1>5
<1> QED BY <1>6

\* An empty file is sound.
LEMMA FileInit ==
    WdbToCdb!Init => WdbToCdb!FInv
<1> SUFFICES ASSUME WdbToCdb!Init PROVE WdbToCdb!FInv
    OBVIOUS
<1>1. state = "source" /\ \E x \in NanLats : cdb = [WdbToCdb!NoCdb EXCEPT !.nan = x]
    BY DEF WdbToCdb!Init
<1>2. NanLats \subseteq Int /\ Half \in Nat \ {0}
    BY WdbToCdbHolds DEF WdbToCdb!WdbToCdbAssumption
<1>3. PICK x \in Int : cdb = [WdbToCdb!NoCdb EXCEPT !.nan = x]
    BY <1>1, <1>2
<1>4. /\ cdb.index = <<>> /\ cdb.data = <<>> /\ cdb.written = <<>> /\ cdb.exact = <<>>
    BY <1>3 DEF WdbToCdb!NoCdb
<1>5. cdb \in WdbToCdb!Cdbs
    <2>1. <<0, 0>> \in Int \X (-Half .. Half)
        BY <1>2
    <2>2. \A S : <<>> \in Seq(S)
        OBVIOUS
    <2> QED BY <1>3, <2>1, <2>2 DEF WdbToCdb!NoCdb, WdbToCdb!Cdbs
<1>6. WdbToCdb!Sound(cdb)
    BY <1>4 DEF WdbToCdb!Sound
<1> QED BY <1>1, <1>4, <1>5, <1>6 DEF WdbToCdb!FInv, WdbToCdb!Resting

\* The extents in the header say nothing of the segments.
LEMMA HeaderStored ==
    ASSUME NEW d \in WdbToCdb!Cdbs, AllStored(d), NEW x, NEW y,
           NEW c, c = [d EXCEPT !.ilat_extent = x, !.ilon_extent = y]
    PROVE  AllStored(c)
<1>1. /\ c.index = d.index /\ c.exact = d.exact /\ c.odd = d.odd /\ c.written = d.written
      /\ c.max_seg_size = d.max_seg_size
    BY DEF WdbToCdb!Cdbs
<1>2. \A n : WdbToCdb!AddressOf(c, n) = WdbToCdb!AddressOf(d, n)
    BY <1>1 DEF WdbToCdb!AddressOf
<1>3. \A n, s, a, size : WdbToCdb!Holds(d, n, s, a, size) => WdbToCdb!Holds(c, n, s, a, size)
    BY <1>1 DEF WdbToCdb!Holds
<1>4. \A n : WdbToCdb!Stored(d, n) => WdbToCdb!Stored(c, n)
    BY <1>1, <1>2, <1>3 DEF WdbToCdb!Stored
<1> QED BY <1>1, <1>2, <1>4 DEF AllStored

\* The last segment is written, and all of them are stored.
LEMMA FileFinish ==
    WdbToCdb!FInv /\ WdbToCdb!Finish => WdbToCdb!FInv'
<1> SUFFICES ASSUME WdbToCdb!FInv, WdbToCdb!Finish PROVE WdbToCdb!FInv'
    OBVIOUS
<1> DEFINE d == IF cdb.data # <<>> THEN WdbToCdb!write_segment_data(cdb) ELSE cdb
<1>1. state = "source" /\ state' = "done" /\ WdbToCdb!Resting(cdb)
    BY DEF WdbToCdb!Finish, WdbToCdb!FInv
<1>2. d \in WdbToCdb!Cdbs /\ AllStored(d)
    BY <1>1, AllWritten
<1>3. \E x, y : cdb' = [d EXCEPT !.ilat_extent = x, !.ilon_extent = y]
    BY DEF WdbToCdb!Finish
<1> HIDE DEF d
<1>4. AllStored(cdb')
    BY <1>2, <1>3, HeaderStored
<1>5. cdb'.index \in Seq(Entries)
    BY <1>2, <1>3, CdbIs DEF WdbToCdb!Cdbs
<1>6. (\A n \in DOMAIN cdb'.index : WdbToCdb!Stored(cdb', n))
    BY <1>4, <1>5 DEF AllStored
<1>7. WdbToCdb!FileSound'
    BY <1>4, <1>6 DEF WdbToCdb!FileSound, AllStored
<1> QED BY <1>1, <1>7 DEF WdbToCdb!FInv

\* Steps that leave the file alone, or as pltpro left it.
LEMMA FileKept ==
    ASSUME WdbToCdb!FInv, state # "done", state' # "done", WdbToCdb!Resting(cdb) => WdbToCdb!Resting(cdb')
    PROVE  WdbToCdb!FInv'
<1>1. WdbToCdb!Resting(cdb')
    BY DEF WdbToCdb!FInv
<1> QED BY <1>1 DEF WdbToCdb!FInv

\* The last point of a source.
LEMMA FileFlushLine ==
    WdbToCdb!IInv /\ WdbToCdb!FInv /\ WdbToCdb!FlushLine => WdbToCdb!FInv'
<1> SUFFICES ASSUME WdbToCdb!IInv, WdbToCdb!FInv, WdbToCdb!FlushLine PROVE WdbToCdb!FInv'
    OBVIOUS
<1> DEFINE s == WdbToCdb!Work
           t == WdbToCdb!pltpro(s, 4 * Half, 4 * Half, 64, FALSE)
<1>1. state = "cells" /\ state' = "source" /\ cdb' = t.cdb
    BY DEF WdbToCdb!FlushLine, WdbToCdb!Keep
<1>2. s.pen.ray \in Seq(WdbToCdb!Point) /\ s.cdb = cdb /\ gapin \in Int
    BY WdbGaps DEF WdbToCdb!IInv, WdbToCdb!TypeOK, WdbToCdb!Work
<1> HIDE DEF s
<1>3. WdbToCdb!Resting(cdb) => WdbToCdb!Resting(t.cdb)
    BY <1>2, PltproResting
<1> HIDE DEF t
<1> QED BY <1>1, <1>3, FileKept

\* A record.
LEMMA FilePlotRecord ==
    WdbToCdb!IInv /\ WdbToCdb!FInv /\ WdbToCdb!PlotRecord => WdbToCdb!FInv'
<1> SUFFICES ASSUME WdbToCdb!IInv, WdbToCdb!FInv, WdbToCdb!PlotRecord PROVE WdbToCdb!FInv'
    OBVIOUS
<1> DEFINE r == WdbToCdb!Chain(place)[item + 1]
           pts == WdbToCdb!PointsOf(r)
           k == IF r.cont THEN rank ELSE r.rank
           n == Len(pts)
           after == CHOOSE R : IsAfter(pts, k, ~r.cont, n, R)
<1>1. WdbToCdb!TypeOK
    BY DEF WdbToCdb!IInv
<1>2. state = "cells" /\ state' = "cells" /\ item < Len(WdbToCdb!Chain(place)) /\ place <= WdbToCdb!NumCells
    BY DEF WdbToCdb!PlotRecord
<1>3. IF WdbToCdb!ranks(k) THEN WdbToCdb!Keep(after[n]) ELSE UNCHANGED <<pen, cdb, curves, lines>>
    BY DEF WdbToCdb!PlotRecord, IsAfter
<1>4. r \in WdbToCdb!Records
    BY <1>1, <1>2, RecordTyped
<1> HIDE DEF r
<1>5. k \in Nat /\ (~(~r.cont) => k = rank) /\ (~r.cont) \in BOOLEAN
    <2>1. r.cont \in BOOLEAN /\ r.rank \in 0 .. 63 /\ rank \in 0 .. 63
        BY <1>1, <1>4 DEF WdbToCdb!Records, WdbToCdb!TypeOK
    <2>2. k = rank \/ k = r.rank
        OBVIOUS
    <2>3. ~(~r.cont) => k = rank
        OBVIOUS
    <2> HIDE DEF k
    <2>4. k \in Nat
        BY <2>1, <2>2
    <2> QED BY <2>3, <2>4
<1>6. pts \in Seq(WdbToCdb!Point) /\ n \in Nat \ {0}
    <2>1. WdbToCdb!Start(r) \in WdbToCdb!Point
        BY <1>1, <1>2, <1>4, StartTyped
    <2> QED BY <1>4, <2>1, PointsTyped
<1> HIDE DEF pts, k
<1>7. IsAfter(pts, k, ~r.cont, n, after)
    <2>1. \E R : IsAfter(pts, k, ~r.cont, n, R)
        BY <1>6, AfterExists
    <2> QED BY <2>1
<1> HIDE DEF after
<1>8. CASE WdbToCdb!ranks(k)
    <2>1. WdbToCdb!Resting(cdb) => WdbToCdb!Resting(after[n].cdb)
        BY <1>5, <1>6, <1>7, <1>8, AfterResting
    <2>2. cdb' = after[n].cdb
        BY <1>3, <1>8 DEF WdbToCdb!Keep
    <2> QED BY <1>2, <2>1, <2>2, FileKept
<1>9. CASE ~WdbToCdb!ranks(k)
    <2>1. cdb' = cdb
        BY <1>3, <1>9
    <2> QED BY <1>2, <2>1, FileKept
<1> QED BY <1>8, <1>9

\* Whatever the sources hold, the segments before the last are written, one after
\* another and none of them empty, and the last one is in memory: their strokes lead
\* along the points of the lines and the bounds of the index hold them.
THEOREM FileInvariance == WdbToCdb!Spec => []WdbToCdb!FInv
<1>1. WdbToCdb!IInv /\ WdbToCdb!FInv /\ [WdbToCdb!Next]_WdbToCdb!wdbVars => WdbToCdb!FInv'
    <2> SUFFICES ASSUME WdbToCdb!IInv, WdbToCdb!FInv, [WdbToCdb!Next]_WdbToCdb!wdbVars PROVE WdbToCdb!FInv'
        OBVIOUS
    <2>1. CASE WdbToCdb!OpenSource
        <3>1. state # "done" /\ state' # "done" /\ cdb' = cdb
            BY <2>1 DEF WdbToCdb!OpenSource
        <3> QED BY <3>1, FileKept
    <2>2. CASE WdbToCdb!PlotRecord
        BY <2>2, FilePlotRecord
    <2>3. CASE WdbToCdb!NextCell
        <3>1. state # "done" /\ state' # "done" /\ cdb' = cdb
            BY <2>3 DEF WdbToCdb!NextCell
        <3> QED BY <3>1, FileKept
    <2>4. CASE WdbToCdb!FlushLine
        BY <2>4, FileFlushLine
    <2>5. CASE WdbToCdb!Finish
        BY <2>5, FileFinish
    <2>6. CASE WdbToCdb!WriteFails
        <3>1. state # "done" /\ state' # "done" /\ cdb' = cdb
            BY <2>6 DEF WdbToCdb!WriteFails
        <3> QED BY <3>1, FileKept
    <2>7. CASE UNCHANGED WdbToCdb!wdbVars
        <3>1. state' = state /\ cdb' = cdb
            BY <2>7 DEF WdbToCdb!wdbVars
        <3>2. CASE state = "done"
            <4>1. WdbToCdb!FileSound
                BY <3>2 DEF WdbToCdb!FInv
            <4>2. WdbToCdb!FileSound'
                BY <3>1, <4>1 DEF WdbToCdb!FileSound
            <4> QED BY <3>1, <3>2, <4>2 DEF WdbToCdb!FInv
        <3>3. CASE state # "done"
            BY <3>1, <3>3, FileKept
        <3> QED BY <3>2, <3>3
    <2> QED BY <2>1, <2>2, <2>3, <2>4, <2>5, <2>6, <2>7 DEF WdbToCdb!Next
<1> QED BY <1>1, FileInit, WdbInvariance, PTL DEF WdbToCdb!Spec

\* The finished file is one that draw_cdb and cdb_edit can read: its segments cover
\* the data one after another, none of them empty, max_seg_size is enough for each, and
\* the strokes lead along the points of the lines, to within the rounding of each
\* stroke, inside the bounds of the index, for any sources and lines across 180.
THEOREM FileSoundCorrect == WdbToCdb!Spec => []FileSound
<1>1. WdbToCdb!FInv => FileSound
    <2> SUFFICES ASSUME WdbToCdb!FInv, state = "done" PROVE FileSound
        BY DEF FileSound, WdbToCdb!FileSound
    <2> QED BY DEF WdbToCdb!FInv, FileSound
<1> QED BY <1>1, FileInvariance, PTL
===============================================================================
