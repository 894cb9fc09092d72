---------------------------- MODULE ResampProofs ----------------------------
(***************************************************************************)
(* What the runs of Resamp and Regrid check on grids of a few cells and    *)
(* values and for three runs of regrid, proved for grids of any size, any  *)
(* data and any number of runs.                                            *)
(***************************************************************************)
EXTENDS MCResampling, SumProofs

-----------------------------------------------------------------------------
(***************************************************************************)
(* Rounding.                                                               *)
(***************************************************************************)

LEMMA Division ==
    ASSUME NEW n \in Int, NEW m \in Nat \ {0}
    PROVE  n \div m \in Int /\ m * (n \div m) <= n /\ n < m * (n \div m) + m
BY SMT

\* nint is off by half to the one side and, because it cuts negative numbers
\* towards zero, by one and a half to the other.
LEMMA NintNear ==
    ASSUME NEW p \in Int, NEW q \in Nat \ {0}
    PROVE  /\ Nint(p, q) \in Int
           /\ -q < 2 * q * Nint(p, q) - 2 * p
           /\ 2 * q * Nint(p, q) - 2 * p < 3 * q
           /\ p >= 0 => 2 * q * Nint(p, q) - 2 * p <= q
<1> DEFINE n == 2 * p + q
           m == 2 * q
<1>1. n \in Int /\ m \in Nat \ {0} /\ -n \in Int
    OBVIOUS
<1>2. Nint(p, q) = IF n >= 0 THEN n \div m ELSE -((-n) \div m)
    BY DEF Nint, Cut
<1>3. CASE n >= 0
    <2> DEFINE d == n \div m
    <2>1. d \in Int /\ m * d <= n /\ n < m * d + m
        BY <1>1, Division
    <2>2. Nint(p, q) = d
        BY <1>2, <1>3
    <2> HIDE DEF d
    <2> QED BY <2>1, <2>2
<1>4. CASE ~(n >= 0)
    <2> DEFINE d == (-n) \div m
    <2>1. d \in Int /\ m * d <= -n /\ -n < m * d + m
        BY <1>1, Division
    <2>2. Nint(p, q) = -d
        BY <1>2, <1>4
    <2>3. 2 * q * (-d) = -(m * d)
        <3> HIDE DEF d
        <3> QED BY <2>1
    <2> HIDE DEF d
    <2> QED BY <1>4, <2>1, <2>2, <2>3
<1> QED BY <1>3, <1>4

\* A rounded quotient lies between bounds of the quotient, or one above where
\* the dividend is negative.
LEMMA NintBetween ==
    ASSUME NEW p \in Int, NEW q \in Nat \ {0}, NEW low \in Int, NEW high \in Int,
           low * q <= p, p <= high * q
    PROVE  /\ low <= Nint(p, q)
           /\ Nint(p, q) <= high + (IF p < 0 THEN 1 ELSE 0)
<1> DEFINE t == Nint(p, q)
<1>1. /\ t \in Int /\ -q < 2 * q * t - 2 * p /\ 2 * q * t - 2 * p < 3 * q
      /\ p >= 0 => 2 * q * t - 2 * p <= q
    BY NintNear
<1> HIDE DEF t
<1>2. \A a, b \in Int : a >= b + 1 => q * a >= q * b + q
    OBVIOUS
<1>3. low <= t
    <2> SUFFICES ASSUME low >= t + 1 PROVE FALSE
        BY <1>1
    <2>1. q * low >= q * t + q
        BY <1>1, <1>2
    <2> QED BY <1>1, <2>1
<1>4. CASE p >= 0
    <2> SUFFICES ASSUME t >= high + 1 PROVE FALSE
        BY <1>1, <1>3, <1>4 DEF t
    <2>1. q * t >= q * high + q
        BY <1>1, <1>2
    <2> QED BY <1>1, <1>4, <2>1
<1>5. CASE p < 0
    <2> SUFFICES ASSUME t >= (high + 1) + 1 PROVE FALSE
        BY <1>1, <1>3, <1>5 DEF t
    <2>1. q * t >= q * (high + 1) + q /\ q * (high + 1) = q * high + q
        BY <1>1, <1>2
    <2> QED BY <1>1, <1>5, <2>1
<1> QED BY <1>3, <1>4, <1>5 DEF t

\* One more value in a bucket of n: the rounding adds at most n + 1 halves.
LEMMA MeanStep ==
    ASSUME NEW n \in Nat, NEW mean \in Int, NEW sum \in Int, NEW v \in Int,
           -n * (n + 1) <= 4 * (n * mean - sum), 4 * (n * mean - sum) <= 3 * n * (n + 1)
    PROVE  LET m == n + 1
               off == 4 * (m * Nint(mean * n + v, m) - (sum + v))
           IN  -m * (m + 1) <= off /\ off <= 3 * m * (m + 1)
<1> DEFINE m == n + 1
           p == mean * n + v
           t == Nint(p, m)
<1>1. m \in Nat \ {0} /\ p \in Int /\ n * mean \in Int
    OBVIOUS
<1>2. t \in Int /\ -m < 2 * m * t - 2 * p /\ 2 * m * t - 2 * p < 3 * m
    BY <1>1, NintNear
<1>3. 4 * (m * t - (sum + v)) = 2 * (2 * m * t - 2 * p) + 4 * (n * mean - sum)
    <2> HIDE DEF t
    <2>1. m * t \in Int /\ 2 * m * t = 2 * (m * t)
        BY <1>2
    <2>2. p = n * mean + v
        OBVIOUS
    <2> HIDE DEF m, p
    <2> QED BY <1>1, <1>2, <2>1, <2>2
<1>4. /\ -m * (m + 1) = -n * (n + 1) - 2 * m
      /\ 3 * m * (m + 1) = 3 * n * (n + 1) + 6 * m
    OBVIOUS
<1> HIDE DEF t
<1>5. 2 * m * t - 2 * p \in Int
    BY <1>1, <1>2
<1> QED BY <1>1, <1>2, <1>3, <1>4, <1>5 DEF t

-----------------------------------------------------------------------------
(***************************************************************************)
(* The constants and the histories.                                        *)
(***************************************************************************)

LEMMA Constants ==
    /\ FromRows \in Nat \ {0} /\ FromCols \in Nat \ {0}
    /\ ToRows \in Nat \ {0} /\ ToCols \in Nat \ {0}
    /\ ToRows <= FromRows /\ ToCols <= FromCols
    /\ Values \subseteq Int /\ IsFiniteSet(Values)
    /\ Fill \in Int /\ Mask \in Int /\ Mask2 \in Int /\ Mask2 \in Bins
    /\ Bins \subseteq Int /\ Unread \notin Int
BY ResampAssumption DEF Bins

LEMMA Finite ==
    /\ IsFiniteSet(Bins) /\ Cardinality(Bins) \in Nat /\ IsFiniteSet(FromCells)
    /\ \A S \in SUBSET FromCells : IsFiniteSet(S) /\ Cardinality(S) \in Nat
<1>1. IsFiniteSet(Mask .. Mask2) /\ IsFiniteSet(0 .. FromRows - 1) /\ IsFiniteSet(0 .. FromCols - 1)
    BY Constants, FS_Interval
<1>2. IsFiniteSet(FromCells)
    BY <1>1, FS_Product DEF FromCells
<1>3. \A S \in SUBSET FromCells : IsFiniteSet(S) /\ Cardinality(S) \in Nat
    BY <1>2, FS_Subset, FS_CardinalityType
<1> QED BY <1>1, <1>2, <1>3, FS_CardinalityType DEF Bins

LEMMA Scores ==
    /\ \A v, whole \in Int : Scored(v, whole) \in Int
    /\ fill \in Int /\ OutFill \in Int /\ -1 \in Int
BY Constants DEF Scored, fill, OutFill

LEMMA MethodNames ==
    /\ {Methods[c] : c \in DOMAIN Methods} =
        {"nearest_neighbor", "drop_in_the_bucket", "bilinear", "minification", "reduction"}
    /\ {Methods[c] : c \in {"N", "B", "M", "R"}} =
        {"nearest_neighbor", "bilinear", "minification", "reduction"}
<1>1. /\ DOMAIN Methods = {"N", "D", "B", "M", "R"}
      /\ Methods["N"] = "nearest_neighbor" /\ Methods["D"] = "drop_in_the_bucket"
      /\ Methods["B"] = "bilinear" /\ Methods["M"] = "minification" /\ Methods["R"] = "reduction"
    BY DEF Methods
<1> QED BY <1>1

Taken == took \in [ToCells -> [Values -> Nat]]
Scoring(cell) == [v \in Values |-> took[cell][v] * Scored(v, 10000)]

\* The values a cell took, by number and in sum.
LEMMA TakenSums ==
    ASSUME Taken, NEW cell \in ToCells
    PROVE  /\ Number(cell) = SumFunctionOnSet(took[cell], Values)
           /\ Number(cell) \in Nat
           /\ Number(cell) = 0 <=> \A v \in Values : took[cell][v] = 0
           /\ Sum(cell, 10000) = SumFunctionOnSet(Scoring(cell), Values)
           /\ Sum(cell, 10000) \in Int
           /\ Number(cell) = 0 => Sum(cell, 10000) = 0
<1>0. IsFiniteSet(Values) /\ Values \subseteq Int
    BY Constants
<1>1. took[cell] \in [Values -> Nat] /\ DOMAIN took[cell] = Values
    BY DEF Taken
<1>2. Number(cell) = SumFunctionOnSet(took[cell], Values)
    BY <1>1 DEF Number, SumFunction
<1>3. Number(cell) \in Nat /\ (Number(cell) = 0 <=> \A v \in Values : took[cell][v] = 0)
    <2> DEFINE f == took[cell]
    <2>1. \A v \in Values : f[v] \in Nat
        BY <1>1
    <2> HIDE DEF f
    <2>2. /\ SumFunctionOnSet(f, Values) \in Nat
          /\ SumFunctionOnSet(f, Values) = 0 <=> \A v \in Values : f[v] = 0
        BY <1>0, <2>1, SumPositive
    <2> QED BY <1>2, <2>2 DEF f
<1> DEFINE f == [v \in Values |-> took[cell][v] * Scored(v, 10000)]
<1>4. Sum(cell, 10000) = SumFunctionOnSet(f, Values)
    BY DEF Sum, SumFunction
<1>5. \A v \in Values : f[v] \in Int
    <2> SUFFICES ASSUME NEW v \in Values PROVE f[v] \in Int
        OBVIOUS
    <2>1. v \in Int /\ 10000 \in Int
        BY <1>0
    <2>2. Scored(v, 10000) \in Int /\ took[cell][v] \in Int
        BY <1>1, <2>1, Constants DEF Scored
    <2> QED BY <2>2
<1>6. SumFunctionOnSet(f, Values) \in Int
    <2> HIDE DEF f
    <2> QED BY <1>0, <1>5, SumTyped
<1>7. ASSUME Number(cell) = 0 PROVE SumFunctionOnSet(f, Values) = 0
    <2>1. \A v \in Values : f[v] = 0
        <3> SUFFICES ASSUME NEW v \in Values PROVE f[v] = 0
            OBVIOUS
        <3>1. v \in Int /\ took[cell][v] = 0
            BY <1>0, <1>3, <1>7
        <3>2. Scored(v, 10000) \in Int
            BY <3>1, Constants DEF Scored
        <3> QED BY <3>1, <3>2
    <2> HIDE DEF f
    <2>2. 0 \in Int /\ IsFiniteSet(Values) /\ Cardinality(Values) \in Nat
        BY <1>0, FS_CardinalityType
    <2>3. SumFunctionOnSet(f, Values) = 0 * Cardinality(Values)
        BY <2>1, <2>2, SumConstant
    <2> QED BY <2>2, <2>3
<1>8. Scoring(cell) = f
    BY DEF Scoring
<1> HIDE DEF f
<1> QED BY <1>2, <1>3, <1>4, <1>6, <1>7, <1>8

\* Taking a value adds it to both.
LEMMA TakesAdds ==
    ASSUME Taken, NEW cell \in ToCells, NEW v \in Values, Takes(cell, v), opts' = opts
    PROVE  /\ Taken'
           /\ Number(cell)' = Number(cell) + 1
           /\ Sum(cell, 10000)' = Sum(cell, 10000) + Scored(v, 10000)
           /\ \A other \in ToCells : other # cell => took'[other] = took[other]
<1>0. IsFiniteSet(Values) /\ Values \subseteq Int
    BY Constants
<1>1. /\ Taken' /\ took'[cell] = [took[cell] EXCEPT ![v] = @ + 1]
      /\ \A other \in ToCells : other # cell => took'[other] = took[other]
    BY DEF Takes, Taken
<1>2. took[cell] \in [Values -> Nat] /\ took'[cell] \in [Values -> Nat]
    BY <1>1 DEF Taken
<1> DEFINE t == took[cell]
           u == took'[cell]
<1>3. Number(cell)' = SumFunctionOnSet(u, Values)
    BY <1>2 DEF Number, SumFunction
<1>4. \A x \in Values : t[x] \in Int /\ u[x] = IF x = v THEN t[x] + 1 ELSE t[x]
    BY <1>1, <1>2
<1>5. SumFunctionOnSet(u, Values) = SumFunctionOnSet(t, Values) + 1
    <2> HIDE DEF t, u
    <2>1. 1 \in Int
        OBVIOUS
    <2> QED BY <1>0, <1>4, <2>1, SumOneMore
<1> DEFINE f == [x \in Values |-> took[cell][x] * Scored(x, 10000)]
           g == [x \in Values |-> took'[cell][x] * Scored(x, 10000)]
<1>6. Sum(cell, 10000)' = SumFunctionOnSet(g, Values)
    BY DEF Sum, SumFunction, Scored, mask_only
<1>7. Sum(cell, 10000) = SumFunctionOnSet(f, Values) /\ Number(cell) = SumFunctionOnSet(t, Values)
    BY TakenSums DEF Scoring
<1>8. PICK d \in Int : d = Scored(v, 10000)
    <2>1. v \in Int
        BY <1>0
    <2> QED BY <2>1, Constants DEF Scored
<1>9. \A x \in Values : f[x] \in Int /\ g[x] = IF x = v THEN f[x] + d ELSE f[x]
    <2> SUFFICES ASSUME NEW x \in Values
                 PROVE  f[x] \in Int /\ g[x] = IF x = v THEN f[x] + d ELSE f[x]
        OBVIOUS
    <2>1. x \in Int
        BY <1>0
    <2>2. t[x] \in Nat
        BY <1>2
    <2>3. Scored(x, 10000) \in Int
        BY <2>1, Constants DEF Scored
    <2>4. \A a \in Nat, b \in Int : (a + 1) * b = a * b + b /\ a * b \in Int
        OBVIOUS
    <2>5. f[x] = t[x] * Scored(x, 10000) /\ g[x] = u[x] * Scored(x, 10000)
        OBVIOUS
    <2> HIDE DEF f, g, t, u
    <2>6. CASE x = v
        BY <1>4, <1>8, <2>2, <2>3, <2>4, <2>5, <2>6
    <2>7. CASE x # v
        BY <1>4, <2>2, <2>3, <2>4, <2>5, <2>7
    <2> QED BY <2>6, <2>7
<1> HIDE DEF f, g, t, u
<1>10. SumFunctionOnSet(g, Values) = SumFunctionOnSet(f, Values) + d
    <2>1. IsFiniteSet(Values)
        BY <1>0
    <2> QED BY <1>9, <2>1, SumOneMore
<1> QED BY <1>1, <1>3, <1>5, <1>6, <1>7, <1>8, <1>10

-----------------------------------------------------------------------------
(***************************************************************************)
(* The steps.                                                              *)
(***************************************************************************)

\* Cells are numbered row by row.
LEMMA HereIn ==
    ASSUME TypeOK, gathering
    PROVE  here \in ToCells /\ k + 1 \in 0 .. FromRows * FromCols
<1>1. k \in Nat /\ k < ToRows * ToCols
    BY Constants DEF TypeOK, gathering
<1> DEFINE d == k \div ToCols
           m == k % ToCols
<1>2. d \in Int /\ ToCols * d <= k /\ k < ToCols * d + ToCols
    BY <1>1, Constants, Division
<1>3. m \in 0 .. ToCols - 1
    BY <1>1, Constants
<1> HIDE DEF d, m
<1>4. d >= 0
    <2> SUFFICES ASSUME d <= -1 PROVE FALSE
        BY <1>2
    <2>1. \A a \in Nat, b \in Int : b <= -1 => a * b + a <= 0
        OBVIOUS
    <2>2. ToCols * d + ToCols <= 0 /\ ToCols * d + ToCols \in Int
        BY <1>2, <2>1, Constants
    <2> QED BY <1>1, <1>2, <2>2
<1>5. d <= ToRows - 1
    <2> SUFFICES ASSUME d >= ToRows PROVE FALSE
        BY <1>2, Constants
    <2>1. \A a, b \in Nat, c \in Int : c >= b => b * a <= a * c
        OBVIOUS
    <2>2. ToRows * ToCols <= ToCols * d /\ ToRows * ToCols \in Int /\ ToCols * d \in Int
        BY <1>2, <2>1, Constants
    <2> QED BY <1>1, <1>2, <2>2
<1>6. ToRows * ToCols <= FromRows * FromCols /\ ToRows * ToCols \in Int /\ FromRows * FromCols \in Int
    <2>1. \A a, b, c, e \in Nat : a <= b /\ c <= e => a * c <= b * e
        <3> SUFFICES ASSUME NEW a \in Nat, NEW b \in Nat, NEW c \in Nat, NEW e \in Nat, a <= b, c <= e
                     PROVE  a * c <= b * e
            OBVIOUS
        <3>1. a * c <= b * c /\ b * c <= b * e
            OBVIOUS
        <3> QED BY <3>1
    <2> QED BY <2>1, Constants
<1>7. here = <<d, m>>
    BY DEF here, CellAt, d, m
<1> QED BY <1>1, <1>2, <1>3, <1>4, <1>5, <1>6, <1>7, Constants DEF ToCells

\* What depends on the options and on what the cells took.
Same == opts' = opts /\ took' = took

LEMMA SameMeans ==
    ASSUME Same
    PROVE  /\ mask_only' = mask_only /\ fill' = fill /\ OutFill' = OutFill
           /\ \A cell : Number(cell)' = Number(cell)
           /\ \A cell : Sum(cell, 10000)' = Sum(cell, 10000)
           /\ \A cell : Untaken(cell)' <=> Untaken(cell)
BY DEF Same, mask_only, fill, OutFill, Number, Sum, Scored, Untaken

LEMMA SameCounts ==
    ASSUME UNCHANGED <<count, total>>
    PROVE  /\ \A cell : Counts(cell)' = Counts(cell)
           /\ \A b, cell : Percent(b, cell)' = Percent(b, cell)
BY DEF Counts, Percent

LEMMA CountedKept ==
    ASSUME Counted, Same, UNCHANGED <<method, count, total, bins>>, torn \subseteq torn'
    PROVE  Counted'
BY SameMeans, SameCounts DEF Counted

LEMMA WithinMoves ==
    ASSUME opts' = opts, NEW cell, NEW x, NEW values, to'[cell] = x, took'[cell] = values,
           Within(x, values)
    PROVE  Within(to[cell], took[cell])'
BY DEF Within, Scored, mask_only

\* Before the loop nothing was taken.
LEMMA FreshCells ==
    ASSUME TypeOK, Fresh, phase \in {"open", "check"}, NEW cell \in ToCells
    PROVE  /\ Untaken(cell) /\ Number(cell) = 0 /\ Sum(cell, 10000) = 0 /\ pitb[cell] = 0
           /\ Counts(cell) = 0
<1>1. Taken
    BY DEF TypeOK, Taken
<1>2. Untaken(cell) /\ pitb[cell] = 0
    BY DEF Fresh, Untaken, Every, Empty
<1>3. Number(cell) = 0 /\ Sum(cell, 10000) = 0
    <2>1. \A v \in Values : took[cell][v] = 0
        BY <1>2 DEF Untaken
    <2> QED BY <1>1, <2>1, TakenSums
<1> DEFINE f == [b \in Bins |-> count[b][cell]]
<1>4. \A b \in Bins : f[b] = 0
    BY DEF Fresh, Every
<1> HIDE DEF f
<1>5. SumFunctionOnSet(f, Bins) = 0 * Cardinality(Bins)
    <2>1. 0 \in Int /\ IsFiniteSet(Bins)
        BY Finite
    <2> QED BY <1>4, <2>1, SumConstant
<1>6. SumFunctionOnSet(f, Bins) = 0
    BY <1>5, Finite
<1> QED BY <1>2, <1>3, <1>6 DEF f, Counts, SumFunction

LEMMA InitIInv == Init => IInv
<1> SUFFICES ASSUME Init PROVE IInv
    OBVIOUS
<1>1. TypeOK
    <2>1. 0 \in 0 .. FromRows * FromCols
        <3>1. FromRows * FromCols \in Nat
            BY Constants
        <3> QED BY <3>1
    <2> QED BY <2>1 DEF Init, TypeOK, Every, Empty
<1>2. Fresh
    BY DEF Init, Fresh, Every, Empty
<1> QED BY <1>1, <1>2 DEF Init, IInv, MeanNear, Told, Counted, Between

LEMMA OpenStep == IInv /\ Open => IInv'
<1> SUFFICES ASSUME IInv, Open PROVE IInv'
    OBVIOUS
<1> USE DEF IInv, Open, accumulators
<1>1. Same /\ method = "none" /\ phase' = "check"
    BY DEF Same, Fresh
<1>2. to' \in [ToCells -> Int] /\ \A cell \in ToCells : to'[cell] = OutFill
    BY Scores DEF Every
<1>3. TypeOK'
    BY <1>2 DEF TypeOK
<1>4. Fresh'
    BY <1>2 DEF Fresh
<1>5. Told'
    BY <1>1, <1>2, SameMeans DEF Told, OutFill
<1> QED BY <1>1, <1>3, <1>4, <1>5 DEF MeanNear, Counted, Between

LEMMA GiveUpStep == IInv /\ GiveUp => IInv'
<1> SUFFICES ASSUME IInv, GiveUp PROVE IInv'
    OBVIOUS
<1> USE DEF IInv, GiveUp, accumulators
<1>1. method = "none" /\ phase' = "done" /\ status' = "failure"
    BY DEF Fresh
<1>2. TypeOK'
    BY DEF TypeOK
<1> QED BY <1>1, <1>2 DEF Fresh, MeanNear, Told, Counted, Between

LEMMA StartStep == IInv /\ Start => IInv'
<1> SUFFICES ASSUME IInv, Start PROVE IInv'
    OBVIOUS
<1> USE DEF IInv
<1>1. /\ Same /\ phase = "check" /\ phase' = "run" /\ method' = Resample
      /\ UNCHANGED <<opts, k, pitb, count, bins, npts, status, took, torn, edge>>
      /\ total' = [cell \in ToCells |-> -1] /\ method = "none"
    BY DEF Start, Same, Every, TotalStart, Fresh
<1>2. Resample \in {"distribution"} \cup {Methods[c] : c \in DOMAIN Methods}
    <2>1. opts.c \in {"", "N", "D", "B", "M", "R"}
        BY ResampAssumption DEF TypeOK, Options
    <2>2. opts.c # "" => Methods[opts.c] \in {Methods[c] : c \in DOMAIN Methods}
        BY <2>1 DEF Methods
    <2> QED BY <2>2, MethodNames DEF Resample
<1>3. /\ to' \in [ToCells -> Int] /\ restored' \in [ToCells -> Int \cup {Unread}]
      /\ \/ to' = to
         \/ /\ Resample = "drop_in_the_bucket" /\ mask_only
            /\ \A cell \in ToCells : to'[cell] = -1
    BY <1>1, Scores DEF Start, Every, Fresh, TypeOK
<1>4. TypeOK'
    BY <1>1, <1>2, <1>3 DEF TypeOK
<1>5. Fresh'
    BY <1>1, <1>3 DEF Fresh
<1>6. ASSUME NEW cell \in ToCells
      PROVE  /\ Number(cell)' = 0 /\ pitb'[cell] = 0 /\ total'[cell] = -1
             /\ Counts(cell)' = 0 /\ bins'[Mask2][cell] = Unread
    BY <1>1, FreshCells, SameMeans, Constants DEF Counts, Fresh, Every
<1>7. MeanNear' /\ Between' /\ Counted'
    <2>1. \A cell \in ToCells : Number(cell)' = 0 /\ ~(Number(cell)' > 0)
        BY <1>6
    <2>2. MeanNear'
        BY <1>6, <2>1 DEF MeanNear
    <2>3. Between'
        BY <2>1 DEF Between
    <2>4. Counted'
        BY <1>6 DEF Counted
    <2> QED BY <2>2, <2>3, <2>4
<1>8. Told'
    BY <1>1, <1>3, SameMeans DEF Told
<1> QED BY <1>4, <1>5, <1>7, <1>8

LEMMA SkipStep == IInv /\ Skip => IInv'
<1> SUFFICES ASSUME IInv, Skip PROVE IInv'
    OBVIOUS
<1> USE DEF IInv
<1>1. /\ Same /\ phase = "run" /\ k' = k + 1
      /\ UNCHANGED <<opts, phase, method, status, to, restored, pitb, count, total, bins, npts, took, torn, edge>>
    BY DEF Skip, Visit, Same, scattering, gathering
<1>2. k' \in 0 .. FromRows * FromCols
    <2>1. CASE scattering
        <3>1. FromRows * FromCols \in Nat
            BY Constants
        <3> QED BY <1>1, <2>1, <3>1 DEF scattering, TypeOK
    <2>2. CASE gathering
        BY <1>1, <2>2, HereIn
    <2> QED BY <2>1, <2>2 DEF Skip
<1>3. TypeOK'
    BY <1>1, <1>2 DEF TypeOK
<1>4. Fresh' /\ MeanNear'
    BY <1>1, SameMeans DEF Fresh, MeanNear
<1>5. Told'
    BY <1>1, SameMeans DEF Told
<1>6. Counted'
    BY <1>1, CountedKept
<1>7. Between'
    BY <1>1, SameMeans, WithinMoves DEF Between
<1> QED BY <1>3, <1>4, <1>5, <1>6, <1>7

LEMMA ScatterCount ==
    ASSUME TypeOK, scattering
    PROVE  k + 1 \in 0 .. FromRows * FromCols
<1>1. FromRows * FromCols \in Nat
    BY Constants
<1> QED BY <1>1 DEF scattering, TypeOK

LEMMA IntoBucketStep ==
    ASSUME NEW cell \in ToCells, NEW v \in Values, IInv, IntoBucket(cell, v)
    PROVE  IInv'
<1> USE DEF IInv
<1>1. /\ phase = "run" /\ method = "drop_in_the_bucket" /\ k' = k + 1 /\ npts' = TRUE
      /\ UNCHANGED <<opts, phase, method, status, restored, count, total, bins, edge>>
    BY DEF IntoBucket, Visit, scattering
<1>2. k' \in 0 .. FromRows * FromCols
    BY <1>1, ScatterCount DEF IntoBucket
<1>3. Taken /\ to \in [ToCells -> Int] /\ pitb \in [ToCells -> Nat] /\ v \in Int
    BY <1>1, Constants DEF TypeOK, Fresh, Taken
<1> DEFINE mean == Averaged(cell, v)
<1>4. mean \in Int
    <2>1. PICK n \in Nat, old \in Int, d \in Int :
            n = pitb[cell] /\ old = to[cell] /\ d = Scored(v, 10000)
        <3>1. 10000 \in Int /\ Scored(v, 10000) \in Int
            BY <1>3, Scores
        <3> QED BY <1>3, <3>1
    <2>2. n + 1 \in Nat \ {0} /\ old * n + d \in Int
        OBVIOUS
    <2>3. mean = Nint(old * n + d, n + 1)
        BY <2>1 DEF Averaged
    <2> HIDE DEF mean
    <2> QED BY <2>2, <2>3, NintNear
<1> HIDE DEF mean
<1>5. PICK s \in Stores :
        /\ to' = IF s = "none" THEN to ELSE [to EXCEPT ![cell] = mean]
        /\ IF s = "both" THEN pitb' = [pitb EXCEPT ![cell] = @ + 1] /\ Takes(cell, v)
           ELSE UNCHANGED <<pitb, took>>
        /\ torn' = IF s = "first" THEN torn \cup {cell} ELSE torn
    BY DEF IntoBucket, mean
<1>6. to' \in [ToCells -> Int]
    BY <1>3, <1>4, <1>5
<1>7. /\ Taken' /\ pitb' \in [ToCells -> Nat] /\ torn' \subseteq ToCells /\ torn \subseteq torn'
      /\ \A other \in ToCells : other # cell =>
            took'[other] = took[other] /\ to'[other] = to[other] /\ pitb'[other] = pitb[other]
    <2>1. CASE s = "both"
        <3>1. Takes(cell, v) /\ pitb' = [pitb EXCEPT ![cell] = @ + 1] /\ torn' = torn
            BY <1>5, <2>1
        <3>2. Taken' /\ \A other \in ToCells : other # cell => took'[other] = took[other]
            BY <1>1, <1>3, <3>1, TakesAdds
        <3> QED BY <1>3, <1>5, <3>1, <3>2 DEF TypeOK
    <2>2. CASE s # "both"
        BY <1>3, <1>5, <2>2 DEF Taken, TypeOK
    <2> QED BY <2>1, <2>2
<1>8. TypeOK'
    BY <1>1, <1>2, <1>6, <1>7 DEF TypeOK, Taken
<1>9. Fresh'
    BY <1>1, <1>6 DEF Fresh
<1>10. ASSUME NEW other \in ToCells, other # cell
       PROVE  /\ Number(other)' = Number(other) /\ Sum(other, 10000)' = Sum(other, 10000)
              /\ (\A x \in Values : took'[other][x] = 0) <=> (\A x \in Values : took[other][x] = 0)
    BY <1>1, <1>7, <1>10 DEF Number, Sum, Scored, mask_only
<1>11. CASE s = "both"
    <2>1. /\ Number(cell) \in Nat /\ Sum(cell, 10000) \in Int
          /\ Number(cell) = 0 => Sum(cell, 10000) = 0
        BY <1>3, TakenSums
    <2>2. /\ Number(cell)' = Number(cell) + 1
          /\ Sum(cell, 10000)' = Sum(cell, 10000) + Scored(v, 10000)
          /\ pitb'[cell] = pitb[cell] + 1 /\ to'[cell] = mean /\ torn' = torn
        <3>1. Takes(cell, v) /\ pitb' = [pitb EXCEPT ![cell] = @ + 1] /\ to' = [to EXCEPT ![cell] = mean]
            BY <1>5, <1>11
        <3>2. /\ Number(cell)' = Number(cell) + 1
              /\ Sum(cell, 10000)' = Sum(cell, 10000) + Scored(v, 10000)
            BY <1>1, <1>3, <3>1, TakesAdds
        <3> QED BY <1>3, <1>5, <1>11, <3>1, <3>2
    <2>3. ASSUME cell \notin torn
          PROVE  LET n == Number(cell)'
                     off == 4 * (n * to'[cell] - Sum(cell, 10000)')
                 IN  /\ pitb'[cell] = n
                     /\ n > 0 => -n * (n + 1) <= off /\ off <= 3 * n * (n + 1)
        <3>1. PICK n \in Nat, sum \in Int, old \in Int, d \in Int :
                n = Number(cell) /\ sum = Sum(cell, 10000) /\ old = to[cell] /\ d = Scored(v, 10000)
            BY <1>3, <2>1, Scores
        <3>2. pitb[cell] = n /\ (n > 0 => -n * (n + 1) <= 4 * (n * old - sum) /\ 4 * (n * old - sum) <= 3 * n * (n + 1))
            BY <1>1, <2>3, <3>1 DEF MeanNear
        <3>3. -n * (n + 1) <= 4 * (n * old - sum) /\ 4 * (n * old - sum) <= 3 * n * (n + 1)
            BY <2>1, <3>1, <3>2
        <3>4. mean = Nint(old * n + d, n + 1)
            BY <3>1, <3>2 DEF mean, Averaged
        <3>5. LET m == n + 1
                  off == 4 * (m * mean - (sum + d))
              IN  -m * (m + 1) <= off /\ off <= 3 * m * (m + 1)
            BY <3>3, <3>4, MeanStep
        <3> QED BY <2>2, <3>1, <3>2, <3>5
    <2>4. MeanNear'
        BY <1>1, <1>7, <1>10, <2>2, <2>3 DEF MeanNear
    <2>5. ~(\A x \in Values : took'[cell][x] = 0)
        <3>1. Takes(cell, v) /\ took[cell] \in [Values -> Nat]
            BY <1>3, <1>5, <1>11 DEF Taken
        <3>2. took'[cell][v] = took[cell][v] + 1
            BY <1>3, <3>1 DEF Takes, Taken
        <3> QED BY <3>1, <3>2
    <2>6. Told'
        <3>1. ASSUME NEW other \in ToCells \ torn, \A x \in Values : took'[other][x] = 0
              PROVE  to'[other] = IF mask_only THEN -1 ELSE fill
            <4>1. other # cell /\ \A x \in Values : took[other][x] = 0
                BY <1>10, <2>5, <3>1
            <4>2. to[other] = IF mask_only THEN -1 ELSE fill
                BY <1>1, <4>1 DEF Told, Untaken
            <4> QED BY <1>7, <4>1, <4>2
        <3> QED BY <1>1, <2>2, <3>1 DEF Told, Untaken, mask_only, fill
    <2> QED BY <1>1, <1>8, <1>9, <2>4, <2>6 DEF Counted, Between
<1>12. CASE s # "both"
    <2>1. Same /\ UNCHANGED pitb /\ \A other \in ToCells \ torn' : to'[other] = to[other] /\ other \notin torn
        BY <1>1, <1>3, <1>5, <1>12 DEF Same, Stores
    <2>2. MeanNear'
        BY <1>1, <2>1, SameMeans DEF MeanNear
    <2>3. Told'
        BY <1>1, <2>1, SameMeans DEF Told
    <2> QED BY <1>1, <1>8, <1>9, <2>2, <2>3 DEF Counted, Between
<1> QED BY <1>11, <1>12

LEMMA IntoBinStep ==
    ASSUME NEW cell \in ToCells, NEW v \in Values, IInv, IntoBin(cell, v)
    PROVE  IInv'
<1> USE DEF IInv
<1>1. /\ phase = "run" /\ method = "distribution" /\ v \in Bins /\ k' = k + 1 /\ npts' = TRUE
      /\ UNCHANGED <<opts, phase, method, status, to, restored, pitb, bins, edge>>
    BY DEF IntoBin, Visit, scattering
<1>2. k' \in 0 .. FromRows * FromCols
    BY <1>1, ScatterCount DEF IntoBin
<1>3. /\ Taken /\ count \in [Bins -> [ToCells -> Nat]] /\ total \in [ToCells -> Nat \cup {-1}]
      /\ \A other \in ToCells : bins[Mask2][other] = Unread
    BY <1>1, Constants DEF TypeOK, Fresh, Taken, Every
<1>4. PICK s \in Stores :
        /\ count' = IF s = "none" THEN count ELSE [count EXCEPT ![v][cell] = @ + 1]
        /\ IF s = "both" THEN total' = [total EXCEPT ![cell] = @ + 1] /\ Takes(cell, v)
           ELSE UNCHANGED <<total, took>>
        /\ torn' = IF s = "first" THEN torn \cup {cell} ELSE torn
    BY DEF IntoBin
<1>5. /\ count' \in [Bins -> [ToCells -> Nat]]
      /\ \A b \in Bins, other \in ToCells :
            count'[b][other] = count[b][other]
                                + (IF s # "none" /\ b = v /\ other = cell THEN 1 ELSE 0)
    <2>1. CASE s = "none"
        BY <1>3, <1>4, <2>1
    <2>2. CASE s # "none"
        <3>1. count' = [count EXCEPT ![v][cell] = @ + 1]
            BY <1>4, <2>2
        <3>2. count'[v] = [count[v] EXCEPT ![cell] = @ + 1] /\ \A b \in Bins : b # v => count'[b] = count[b]
            BY <1>1, <1>3, <3>1
        <3>3. count[v] \in [ToCells -> Nat] /\ count'[v] \in [ToCells -> Nat]
            BY <1>1, <1>3, <3>2
        <3> QED BY <1>1, <1>3, <2>2, <3>1, <3>2, <3>3
    <2> QED BY <2>1, <2>2
<1>6. /\ Taken' /\ total' \in [ToCells -> Nat \cup {-1}] /\ torn' \subseteq ToCells /\ torn \subseteq torn'
      /\ \A other \in ToCells : other # cell =>
            took'[other] = took[other] /\ total'[other] = total[other]
    <2>1. CASE s = "both"
        <3>1. Takes(cell, v) /\ total' = [total EXCEPT ![cell] = @ + 1] /\ torn' = torn
            BY <1>4, <2>1
        <3>2. Taken' /\ \A other \in ToCells : other # cell => took'[other] = took[other]
            BY <1>1, <1>3, <3>1, TakesAdds
        <3> QED BY <1>3, <3>1, <3>2 DEF TypeOK
    <2>2. CASE s # "both"
        BY <1>3, <1>4, <2>2 DEF Taken, TypeOK
    <2> QED BY <2>1, <2>2
<1>7. TypeOK'
    BY <1>1, <1>2, <1>5, <1>6 DEF TypeOK, Taken
<1>8. Fresh'
    BY <1>1 DEF Fresh
<1>9. ASSUME NEW other \in ToCells, other # cell \/ s = "none"
      PROVE  Counts(other)' = Counts(other)
    <2>1. [b \in Bins |-> count'[b][other]] = [b \in Bins |-> count[b][other]]
        BY <1>3, <1>5, <1>9
    <2> QED BY <2>1 DEF Counts
<1>10. ASSUME s # "none" PROVE Counts(cell)' = Counts(cell) + 1
    <2> DEFINE f == [b \in Bins |-> count[b][cell]]
               g == [b \in Bins |-> count'[b][cell]]
    <2>1. \A b \in Bins : f[b] \in Int /\ g[b] = IF b = v THEN f[b] + 1 ELSE f[b]
        BY <1>3, <1>5, <1>10
    <2>2. Counts(cell) = SumFunctionOnSet(f, Bins) /\ Counts(cell)' = SumFunctionOnSet(g, Bins)
        BY DEF Counts, SumFunction
    <2> HIDE DEF f, g
    <2>3. IsFiniteSet(Bins) /\ 1 \in Int
        BY Finite
    <2>4. SumFunctionOnSet(g, Bins) = SumFunctionOnSet(f, Bins) + 1
        BY <1>1, <2>1, <2>3, SumOneMore
    <2> QED BY <2>2, <2>4
<1>11. ASSUME NEW other \in ToCells \ torn'
       PROVE  total'[other] + 1 = Number(other)' /\ Counts(other)' = Number(other)'
    <2>1. other \notin torn /\ total[other] + 1 = Number(other) /\ Counts(other) = Number(other)
        BY <1>1, <1>6 DEF Counted
    <2>2. CASE other # cell
        <3>1. Number(other)' = Number(other)
            BY <1>6, <2>2 DEF Number
        <3> QED BY <1>6, <1>9, <2>1, <2>2, <3>1
    <2>3. CASE other = cell /\ s = "both"
        <3>1. Takes(cell, v) /\ total' = [total EXCEPT ![cell] = @ + 1]
            BY <1>4, <2>3
        <3>2. Number(cell)' = Number(cell) + 1
            BY <1>1, <1>3, <3>1, TakesAdds
        <3>3. total'[cell] = total[cell] + 1 /\ total[cell] \in Int
            BY <1>3, <3>1
        <3> QED BY <1>10, <2>1, <2>3, <3>2, <3>3
    <2>4. CASE other = cell /\ s # "both"
        <3>1. s = "none"
            BY <1>4, <2>4 DEF Stores
        <3>2. took' = took /\ total' = total
            BY <1>4, <2>4
        <3>3. Number(other)' = Number(other)
            BY <3>2 DEF Number
        <3> QED BY <1>9, <2>1, <3>1, <3>2, <3>3
    <2> QED BY <2>2, <2>3, <2>4
<1>12. Counted'
    BY <1>1, <1>3, <1>11 DEF Counted
<1>13. ASSUME NEW other \in ToCells, \A x \in Values : took'[other][x] = 0
       PROVE  \A x \in Values : took[other][x] = 0
    <2>1. CASE s = "both"
        <3>1. other # cell
            <4>1. took' = [took EXCEPT ![cell][v] = @ + 1] /\ took[cell] \in [Values -> Nat]
                BY <1>3, <1>4, <2>1 DEF Takes, Taken
            <4>2. took'[cell][v] = took[cell][v] + 1
                BY <1>3, <4>1 DEF Taken
            <4>3. took'[cell][v] # 0
                BY <4>1, <4>2
            <4> QED BY <1>13, <4>3
        <3> QED BY <1>6, <1>13, <3>1
    <2>2. CASE s # "both"
        BY <1>4, <1>13, <2>2
    <2> QED BY <2>1, <2>2
<1>14. Told'
    <2>1. ASSUME NEW other \in ToCells \ torn', \A x \in Values : took'[other][x] = 0
          PROVE  to'[other] = IF mask_only THEN -1 ELSE fill
        <3>1. other \notin torn /\ \A x \in Values : took[other][x] = 0
            BY <1>6, <1>13, <2>1
        <3> QED BY <1>1, <3>1 DEF Told, Untaken
    <2> QED BY <1>1, <2>1 DEF Told, Untaken, mask_only, fill
<1> QED BY <1>1, <1>7, <1>8, <1>12, <1>14 DEF MeanNear, Between

\* A cell that a method of the other kind puts in its place.  What it put is
\* the fill if it used nothing, and lies between what it used otherwise.
LEMMA PutStep ==
    ASSUME IInv, gathering, NEW x \in Int, NEW values \in [Values -> Nat], PutHere(x, values),
           npts' \in BOOLEAN, edge' = edge \/ edge' = edge \cup {here},
           (\A v \in Values : values[v] = 0) =>
                \/ x = IF mask_only THEN -1 ELSE fill
                \/ method = "bilinear" /\ x = fill,
           here \notin edge' /\ (\E v \in Values : values[v] # 0) => Within(x, values)
    PROVE  IInv'
<1> USE DEF IInv
<1>1. /\ phase = "run" /\ k' = k + 1 /\ method \in {"nearest_neighbor", "bilinear", "minification", "reduction"}
      /\ UNCHANGED <<opts, phase, method, status, restored, pitb, count, total, bins, torn>>
    BY MethodNames DEF PutHere, Visit, gathering
<1>2. here \in ToCells /\ k' \in 0 .. FromRows * FromCols /\ edge' \subseteq ToCells
    BY <1>1, HereIn DEF TypeOK
<1>3. to \in [ToCells -> Int] /\ Taken
    BY <1>1 DEF Fresh, TypeOK, Taken
<1>4. \/ to' = to /\ took' = took
      \/ to' = [to EXCEPT ![here] = x] /\ took' = [took EXCEPT ![here] = values]
    <2> HIDE DEF here
    <2>1. to' = [to EXCEPT ![here] = x] \/ to' = to
        BY DEF PutHere
    <2>2. CASE to' = to /\ x # to[here]
        BY <2>2 DEF PutHere
    <2>3. CASE ~(to' = to /\ x # to[here])
        <3>1. took' = [took EXCEPT ![here] = values]
            BY <2>3 DEF PutHere
        <3>2. to' = [to EXCEPT ![here] = x]
            <4>1. CASE to' = to
                BY <1>2, <1>3, <2>3, <4>1
            <4> QED BY <2>1, <4>1
        <3> QED BY <3>1, <3>2
    <2> QED BY <2>2, <2>3
<1> DEFINE h == here
<1>5. /\ to' \in [ToCells -> Int] /\ took' \in [ToCells -> [Values -> Nat]]
      /\ \A cell \in ToCells :
            \/ to'[cell] = to[cell] /\ took'[cell] = took[cell]
            \/ cell = h /\ to'[cell] = x /\ took'[cell] = values
    <2> HIDE DEF here, h
    <2> QED BY <1>2, <1>3, <1>4 DEF Taken, h
<1> HIDE DEF h
<1>6. TypeOK'
    BY <1>1, <1>2, <1>5 DEF TypeOK
<1>7. Fresh'
    BY <1>1, <1>5 DEF Fresh
<1>8. MeanNear' /\ Counted'
    BY <1>1 DEF MeanNear, Counted
<1>9. Told'
    <2>1. ASSUME NEW cell \in ToCells \ torn', \A v \in Values : took'[cell][v] = 0
          PROVE  \/ to'[cell] = IF mask_only THEN -1 ELSE fill
                 \/ method = "bilinear" /\ to'[cell] = fill
        <3>1. CASE to'[cell] = to[cell] /\ took'[cell] = took[cell]
            BY <1>1, <2>1, <3>1 DEF Told, Untaken
        <3>2. CASE to'[cell] = x /\ took'[cell] = values
            BY <2>1, <3>2
        <3> QED BY <1>5, <3>1, <3>2
    <2> QED BY <1>1, <2>1 DEF Told, Untaken, mask_only, fill
<1>10. Between'
    <2>1. ASSUME NEW cell \in ToCells \ edge', Number(cell)' > 0
          PROVE  Within(to[cell], took[cell])'
        <3>1. CASE to'[cell] = to[cell] /\ took'[cell] = took[cell]
            <4>1. Number(cell)' = Number(cell)
                BY <3>1 DEF Number
            <4>2. cell \notin edge
                BY <2>1
            <4>3. Within(to[cell], took[cell])
                BY <1>1, <2>1, <4>1, <4>2 DEF Between
            <4> QED BY <1>1, <3>1, <4>3, WithinMoves
        <3>2. CASE cell = h /\ to'[cell] = x /\ took'[cell] = values
            <4>1. \E v \in Values : values[v] # 0
                <5> SUFFICES ASSUME \A v \in Values : values[v] = 0 PROVE FALSE
                    OBVIOUS
                <5>1. DOMAIN values = Values /\ IsFiniteSet(Values) /\ \A v \in Values : values[v] \in Nat
                    BY Constants
                <5>2. SumFunctionOnSet(values, Values) = 0
                    BY <5>1, SumPositive
                <5>3. Number(cell)' = 0
                    BY <3>2, <5>1, <5>2 DEF Number, SumFunction
                <5> QED BY <2>1, <5>3
            <4>2. Within(x, values)
                BY <2>1, <3>2, <4>1 DEF h
            <4> QED BY <1>1, <3>2, <4>2, WithinMoves
        <3> QED BY <1>5, <3>1, <3>2
    <2> QED BY <1>1, <2>1 DEF Between
<1> QED BY <1>6, <1>7, <1>8, <1>9, <1>10

LEMMA SampleStep ==
    ASSUME NEW v \in Values, IInv, Sample(v)
    PROVE  IInv'
<1> DEFINE x == Scored(v, 100)
           values == [Empty EXCEPT ![v] = 1]
<1>1. gathering /\ npts' = TRUE /\ edge' = edge /\ PutHere(x, values)
    BY DEF Sample
<1>2. x \in Int /\ values \in [Values -> Nat] /\ \A y \in Values : values[y] = IF y = v THEN 1 ELSE 0
    <2>1. v \in Int /\ 100 \in Int
        BY Constants
    <2> QED BY <2>1, Scores DEF Empty
<1>3. Within(x, values)
    <2>1. {y \in Values : values[y] > 0} = {v}
        BY <1>2
    <2> HIDE DEF values, x
    <2>2. {Scored(y, 100) : y \in {z \in Values : values[z] > 0}} = {x}
        BY <2>1 DEF x
    <2>3. x <= x /\ x <= x + (IF \E u \in {x} : u < 0 THEN 1 ELSE 0)
        BY <1>2
    <2> QED BY <2>2, <2>3 DEF Within
<1>4. ~ \A y \in Values : values[y] = 0
    BY <1>2
<1> HIDE DEF x, values
<1> QED BY <1>1, <1>2, <1>3, <1>4, PutStep

-----------------------------------------------------------------------------
(***************************************************************************)
(* What a set of from cells gives.                                         *)
(***************************************************************************)

\* The used cells have values, and what took counts are these.
LEMMA UsedValues ==
    ASSUME NEW cells \in SUBSET FromCells, NEW f \in [cells -> Values \cup {Unread}], NEW used,
           used = Used(cells, f)
    PROVE  /\ used \subseteq FromCells /\ IsFiniteSet(used)
           /\ \A c \in used : f[c] \in Values
           /\ ValuesOf(used, f) \in [Values -> Nat]
           /\ \A v \in Values : ValuesOf(used, f)[v] # 0 <=> \E c \in used : f[c] = v
<1>1. used \subseteq FromCells /\ \A c \in used : f[c] \in Values
    BY DEF Used
<1>2. IsFiniteSet(used)
    BY <1>1, Finite
<1>3. ASSUME NEW v \in Values
      PROVE  LET s == {c \in used : f[c] = v}
             IN  Cardinality(s) \in Nat /\ (Cardinality(s) # 0 <=> \E c \in used : f[c] = v)
    <2> DEFINE s == {c \in used : f[c] = v}
    <2>1. IsFiniteSet(s)
        BY <1>2, FS_Subset
    <2>2. s # {} <=> \E c \in used : f[c] = v
        OBVIOUS
    <2> HIDE DEF s
    <2>3. Cardinality(s) \in Nat /\ (Cardinality(s) = 0 <=> s = {})
        BY <2>1, FS_CardinalityType, FS_EmptySet
    <2> QED BY <2>2, <2>3 DEF s
<1>4. ValuesOf(used, f) \in [Values -> Nat]
    BY <1>3 DEF ValuesOf
<1>5. \A v \in Values : ValuesOf(used, f)[v] # 0 <=> \E c \in used : f[c] = v
    BY <1>3 DEF ValuesOf
<1> QED BY <1>1, <1>2, <1>4, <1>5

\* A rounded mean with weights lies within what was used.
LEMMA MeanWithin ==
    ASSUME NEW cells \in SUBSET FromCells, NEW f \in [cells -> Values \cup {Unread}], NEW used,
           used = Used(cells, f), used # {}, NEW w \in [used -> Nat], NEW norm \in Nat \ {0},
           norm = SumFunction(w)
    PROVE  /\ Nint(Total(used, f, w), norm) \in Int
           /\ Within(Nint(Total(used, f, w), norm), ValuesOf(used, f))
<1>1. /\ used \subseteq FromCells /\ IsFiniteSet(used)
      /\ \A c \in used : f[c] \in Values
      /\ \A v \in Values : ValuesOf(used, f)[v] # 0 <=> \E c \in used : f[c] = v
      /\ ValuesOf(used, f) \in [Values -> Nat]
    BY UsedValues
<1> DEFINE g == [c \in used |-> Scored(f[c], 100)]
           p == [c \in used |-> Scored(f[c], 100) * w[c]]
           sum == SumFunctionOnSet(p, used)
<1>2. Total(used, f, w) = sum /\ norm = SumFunctionOnSet(w, used)
    BY DEF Total, SumFunction
<1>3. \A c \in used : g[c] \in Int /\ w[c] \in Nat /\ p[c] = g[c] * w[c]
    <2> SUFFICES ASSUME NEW c \in used PROVE g[c] \in Int /\ w[c] \in Nat /\ p[c] = g[c] * w[c]
        OBVIOUS
    <2>0. Values \subseteq Int
        BY Constants
    <2>1. f[c] \in Int
        BY <1>1, <2>0, Zenon
    <2>2. Scored(f[c], 100) \in Int
        <3>1. PICK v \in Int : v = f[c]
            BY <2>1, Zenon
        <3>2. Scored(v, 100) \in Int
            BY Scores
        <3> QED BY <3>1, <3>2, Zenon
    <2> QED BY <2>2
<1>4. sum \in Int
    <2> HIDE DEF g
    <2>1. \A c \in used : p[c] \in Int
        <3> SUFFICES ASSUME NEW c \in used PROVE p[c] \in Int
            OBVIOUS
        <3> HIDE DEF p
        <3>1. g[c] \in Int /\ w[c] \in Int /\ p[c] = g[c] * w[c]
            BY <1>3
        <3> QED BY <3>1
    <2> HIDE DEF p
    <2> QED BY <1>1, <2>1, SumTyped
<1>5. PICK low \in used, high \in used :
        /\ g[low] * norm <= sum /\ sum <= g[high] * norm
        /\ sum < 0 => g[low] < 0
    <2> HIDE DEF g, p
    <2>1. IsFiniteSet(used) /\ used # {}
        BY <1>1
    <2>2. \E low, high \in used :
                /\ g[low] * SumFunctionOnSet(w, used) <= SumFunctionOnSet(p, used)
                /\ SumFunctionOnSet(p, used) <= g[high] * SumFunctionOnSet(w, used)
                /\ SumFunctionOnSet(p, used) < 0 => g[low] < 0
        BY <1>3, <2>1, WeightedBetween
    <2> QED BY <1>2, <2>2
<1>6. /\ Nint(sum, norm) \in Int
      /\ g[low] <= Nint(sum, norm)
      /\ Nint(sum, norm) <= g[high] + (IF sum < 0 THEN 1 ELSE 0)
    <2>1. g[low] \in Int /\ g[high] \in Int
        BY <1>3
    <2> HIDE DEF g, sum
    <2> QED BY <1>4, <1>5, <2>1, NintBetween, NintNear
<1> DEFINE x == Nint(sum, norm)
           scores == {Scored(v, 100) : v \in {y \in Values : ValuesOf(used, f)[y] > 0}}
<1>7. \A c \in used : g[c] \in scores
    <2> SUFFICES ASSUME NEW c \in used PROVE g[c] \in scores
        OBVIOUS
    <2>1. f[c] \in Values /\ ValuesOf(used, f)[f[c]] # 0 /\ ValuesOf(used, f)[f[c]] \in Nat
        BY <1>1
    <2> QED BY <2>1
<1> HIDE DEF g, sum, scores, x
<1>8. /\ \E s \in scores : s <= x
      /\ \E s \in scores : x <= s + (IF \E u \in scores : u < 0 THEN 1 ELSE 0)
    <2>1. g[low] \in scores /\ g[high] \in scores /\ g[low] \in Int /\ g[high] \in Int
        BY <1>3, <1>7
    <2>2. g[low] <= x /\ x <= g[high] + (IF sum < 0 THEN 1 ELSE 0) /\ x \in Int
        BY <1>6 DEF x
    <2>3. CASE sum < 0
        <3>1. \E u \in scores : u < 0
            BY <1>5, <2>1, <2>3
        <3> QED BY <2>1, <2>2, <2>3, <3>1
    <2>4. CASE ~(sum < 0)
        <3>1. x <= g[high] /\ x <= g[high] + 1
            BY <2>1, <2>2, <2>4
        <3> QED BY <2>1, <2>2, <3>1
    <2> QED BY <2>3, <2>4
<1>9. Within(x, ValuesOf(used, f))
    BY <1>8 DEF Within, scores
<1> QED BY <1>2, <1>6, <1>9 DEF x

\* A quotient is an integer whatever the sign of the divisor.
LEMMA NintTyped ==
    ASSUME NEW p \in Int, NEW q \in Int, q # 0
    PROVE  Nint(p, q) \in Int
<1>1. CASE q > 0
    <2>1. q \in Nat \ {0}
        BY <1>1
    <2> QED BY <2>1, NintNear
<1>2. CASE q < 0
    <2> DEFINE n == -2 * p - q
               m == -2 * q
    <2>1. n \in Int /\ -n \in Int /\ m \in Nat \ {0}
        BY <1>2
    <2>2. Nint(p, q) = Cut(n, m)
        BY <1>2 DEF Nint
    <2> HIDE DEF n, m
    <2>3. n \div m \in Int /\ (-n) \div m \in Int
        BY <2>1, Division
    <2> QED BY <2>2, <2>3 DEF Cut
<1> QED BY <1>1, <1>2

\* Weights are natural numbers on and below the first row and column.
LEMMA Weights ==
    ASSUME NEW s \in Int, NEW r \in Int, NEW c \in Around(s, r)
    PROVE  Weight(s, r, c) \in Int /\ (s >= 0 /\ r >= 0 => Weight(s, r, c) \in Nat)
<1>1. c[1] \in Int /\ c[2] \in Int
    BY Constants DEF Around, FromCells
<1>2. Away(s, c[1]) \in Int /\ Away(r, c[2]) \in Int
    BY <1>1 DEF Away
<1>3. ASSUME NEW x \in Int, NEW n \in Int, x >= 0, n - Cut(x, 4) \in 0 .. 1
      PROVE  Away(x, n) \in Int /\ Away(x, n) <= 4
    <2> DEFINE d == x \div 4
    <2>1. d \in Int /\ 4 * d <= x /\ x < 4 * d + 4
        BY <1>3
    <2>2. Cut(x, 4) = d
        BY <1>3 DEF Cut
    <2> HIDE DEF d
    <2>3. n = d \/ n = d + 1
        BY <1>3, <2>1, <2>2
    <2> QED BY <1>3, <2>1, <2>3 DEF Away
<1>4. c[1] - Cut(s, 4) \in 0 .. 1 /\ c[2] - Cut(r, 4) \in 0 .. 1
    BY DEF Around
<1>5. s >= 0 => Away(s, c[1]) <= 4
    BY <1>1, <1>3, <1>4
<1>6. r >= 0 => Away(r, c[2]) <= 4
    BY <1>1, <1>3, <1>4
<1>7. PICK a \in Int, b \in Int : a = 4 - Away(s, c[1]) /\ b = 4 - Away(r, c[2])
    BY <1>2
<1>8. Weight(s, r, c) = a * b
    BY <1>7 DEF Weight
<1>9. s >= 0 /\ r >= 0 => a \in Nat /\ b \in Nat
    BY <1>2, <1>5, <1>6, <1>7
<1>10. a * b \in Int /\ (a \in Nat /\ b \in Nat => a * b \in Nat)
    OBVIOUS
<1> QED BY <1>8, <1>9, <1>10

\* What used cells add up to.
LEMMA TotalTyped ==
    ASSUME NEW cells \in SUBSET FromCells, NEW f \in [cells -> Values \cup {Unread}], NEW used,
           used = Used(cells, f), NEW w \in [used -> Int]
    PROVE  Total(used, f, w) \in Int /\ SumFunction(w) \in Int
<1>1. IsFiniteSet(used) /\ \A c \in used : f[c] \in Values
    BY UsedValues
<1> DEFINE p == [c \in used |-> Scored(f[c], 100) * w[c]]
<1>2. \A c \in used : p[c] \in Int
    <2> SUFFICES ASSUME NEW c \in used PROVE p[c] \in Int
        OBVIOUS
    <2>0. Values \subseteq Int
        BY Constants
    <2>1. f[c] \in Int
        BY <1>1, <2>0, Zenon
    <2>2. Scored(f[c], 100) \in Int
        <3>1. PICK v \in Int : v = f[c]
            BY <2>1, Zenon
        <3>2. Scored(v, 100) \in Int
            BY Scores
        <3> QED BY <3>1, <3>2, Zenon
    <2>3. w[c] \in Int
        OBVIOUS
    <2> QED BY <2>2, <2>3
<1>3. Total(used, f, w) = SumFunctionOnSet(p, used) /\ SumFunction(w) = SumFunctionOnSet(w, used)
    BY DEF Total, SumFunction
<1> HIDE DEF p
<1>4. SumFunctionOnSet(p, used) \in Int /\ SumFunctionOnSet(w, used) \in Int
    <2>1. \A c \in used : w[c] \in Int
        OBVIOUS
    <2> QED BY <1>1, <1>2, <2>1, SumTyped
<1> QED BY <1>3, <1>4

LEMMA BilinearStepStep == IInv /\ BilinearStep => IInv'
<1> SUFFICES ASSUME IInv, BilinearStep PROVE IInv'
    OBVIOUS
<1>1. gathering /\ method = "bilinear" /\ npts \in BOOLEAN
    BY DEF BilinearStep, IInv, TypeOK
<1>2a. PICK s \in Spots, r \in Spots : \E f \in [Around(s, r) -> Values \cup {Unread}] : Bilinear(s, r, f)
    BY DEF BilinearStep
<1>2. PICK f \in [Around(s, r) -> Values \cup {Unread}] : Bilinear(s, r, f)
    BY <1>2a
<1> DEFINE cells == Around(s, r)
           used == Used(cells, f)
           w == [c \in used |-> Weight(s, r, c)]
           norm == SumFunction(w)
           x == IF norm = 0 THEN fill ELSE Nint(Total(used, f, w), norm)
           values == IF norm = 0 THEN Empty ELSE ValuesOf(used, f)
<1>3. /\ npts' = (npts \/ used # {}) /\ PutHere(x, values)
      /\ edge' = IF s < 0 \/ r < 0 THEN edge \cup {here} ELSE edge
    BY <1>2 DEF Bilinear
<1>4. s \in Int /\ r \in Int
    BY ResampAssumption
<1>5. cells \in SUBSET FromCells /\ used \subseteq cells /\ f \in [cells -> Values \cup {Unread}]
    BY DEF Around, Used
<1>6. w \in [used -> Int] /\ (s >= 0 /\ r >= 0 => w \in [used -> Nat])
    BY <1>4, <1>5, Weights
<1> HIDE DEF cells, used, w, norm
<1>7. norm \in Int /\ Total(used, f, w) \in Int
    BY <1>5, <1>6, TotalTyped DEF used, norm
<1>8. x \in Int
    BY <1>7, Scores, NintTyped
<1>9. /\ used \subseteq FromCells /\ IsFiniteSet(used)
      /\ \A c \in used : f[c] \in Values
      /\ ValuesOf(used, f) \in [Values -> Nat]
      /\ \A v \in Values : ValuesOf(used, f)[v] # 0 <=> \E c \in used : f[c] = v
    BY <1>5, UsedValues DEF used
<1>10. values \in [Values -> Nat] /\ \A v \in Values : Empty[v] = 0
    BY <1>9 DEF Empty
<1>11. used = {} => norm = 0
    <2>1. SumFunction(w) = SumFunctionOnSet(w, used)
        BY <1>6 DEF SumFunction
    <2>2. SumFunctionOnSet(w, {}) = 0
        BY FS_EmptySet, SumIsRecursive
    <2> QED BY <2>1, <2>2 DEF norm
<1>12. ASSUME \A v \in Values : values[v] = 0 PROVE x = fill
    <2> SUFFICES ASSUME norm # 0 PROVE FALSE
        OBVIOUS
    <2>1. PICK c \in used : TRUE
        BY <1>11
    <2>2. f[c] \in Values /\ ValuesOf(used, f)[f[c]] # 0
        BY <1>9
    <2> QED BY <1>12, <2>2
<1>13. ASSUME here \notin edge', \E v \in Values : values[v] # 0 PROVE Within(x, values)
    <2>1. norm # 0 /\ used # {}
        BY <1>10, <1>11, <1>13
    <2>2. s >= 0 /\ r >= 0
        BY <1>3, <1>4, <1>13
    <2>3. w \in [used -> Nat]
        BY <1>6, <2>2
    <2>4. norm \in Nat \ {0}
        <3>1. SumFunction(w) = SumFunctionOnSet(w, used)
            BY <1>6 DEF SumFunction
        <3>2. \A c \in used : w[c] \in Nat
            BY <2>3
        <3>3. SumFunctionOnSet(w, used) \in Nat
            BY <1>9, <3>2, SumPositive
        <3> QED BY <2>1, <3>1, <3>3 DEF norm
    <2>5. Within(Nint(Total(used, f, w), norm), ValuesOf(used, f))
        BY <1>5, <2>1, <2>3, <2>4, MeanWithin DEF used, norm
    <2> QED BY <2>1, <2>5
<1>14. npts' \in BOOLEAN /\ (edge' = edge \/ edge' = edge \cup {here})
    BY <1>1, <1>3
<1> HIDE DEF x, values
<1> QED BY <1>1, <1>3, <1>8, <1>10, <1>12, <1>13, <1>14, PutStep

LEMMA ReductionStepStep == IInv /\ ReductionStep => IInv'
<1> SUFFICES ASSUME IInv, ReductionStep PROVE IInv'
    OBVIOUS
<1>1. gathering /\ npts \in BOOLEAN
    BY DEF ReductionStep, IInv, TypeOK
<1>2. PICK f \in [Square(here) -> Values \cup {Unread}] : Reduction(f)
    BY DEF ReductionStep
<1> DEFINE cells == Square(here)
           used == Used(cells, f)
           w == [c \in used |-> 1]
           x == IF used = {} THEN OutFill ELSE Nint(Total(used, f, w), Norm(used))
           values == ValuesOf(used, f)
<1>3. npts' = (npts \/ used # {}) /\ PutHere(x, values) /\ edge' = edge
    BY <1>2 DEF Reduction
<1>4. cells \in SUBSET FromCells /\ used \subseteq cells /\ f \in [cells -> Values \cup {Unread}]
    BY DEF Square, Used
<1>5. w \in [used -> Nat] /\ \A c \in used : w[c] = 1
    OBVIOUS
<1> HIDE DEF cells, used, w
<1>6. /\ used \subseteq FromCells /\ IsFiniteSet(used)
      /\ \A c \in used : f[c] \in Values
      /\ ValuesOf(used, f) \in [Values -> Nat]
      /\ \A v \in Values : ValuesOf(used, f)[v] # 0 <=> \E c \in used : f[c] = v
    BY <1>4, UsedValues DEF used
<1>7. SumFunction(w) = Norm(used)
    <2>1. SumFunction(w) = SumFunctionOnSet(w, used)
        BY <1>5 DEF SumFunction
    <2>2. 1 \in Int /\ Cardinality(used) \in Nat
        BY <1>6, FS_CardinalityType
    <2>3. SumFunctionOnSet(w, used) = 1 * Cardinality(used)
        BY <1>5, <1>6, <2>2, SumConstant
    <2> QED BY <2>1, <2>2, <2>3 DEF Norm
<1>8. used # {} => Norm(used) \in Nat \ {0}
    <2>1. used # {} => Cardinality(used) # 0
        BY <1>6, FS_EmptySet
    <2>2. Cardinality(used) \in Nat
        BY <1>6, FS_CardinalityType
    <2> QED BY <2>1, <2>2 DEF Norm
<1>9. ASSUME used # {}
      PROVE  Nint(Total(used, f, w), Norm(used)) \in Int /\ Within(Nint(Total(used, f, w), Norm(used)), values)
    BY <1>4, <1>5, <1>7, <1>8, <1>9, MeanWithin DEF used
<1>10. x \in Int /\ values \in [Values -> Nat]
    BY <1>6, <1>9, Scores
<1>11. ASSUME \A v \in Values : values[v] = 0 PROVE x = IF mask_only THEN -1 ELSE fill
    <2>1. used = {}
        <3> SUFFICES ASSUME used # {} PROVE FALSE
            OBVIOUS
        <3>1. PICK c \in used : TRUE
            OBVIOUS
        <3>2. f[c] \in Values /\ ValuesOf(used, f)[f[c]] # 0
            BY <1>6
        <3> QED BY <1>11, <3>2
    <2> QED BY <2>1 DEF OutFill
<1>12. ASSUME \E v \in Values : values[v] # 0 PROVE Within(x, values)
    <2>1. used # {}
        BY <1>6, <1>12
    <2> QED BY <1>9, <2>1
<1>13. npts' \in BOOLEAN
    BY <1>1, <1>3
<1> HIDE DEF x, values
<1> QED BY <1>1, <1>3, <1>10, <1>11, <1>12, <1>13, PutStep

LEMMA RestoringStep == IInv /\ Restoring => IInv'
<1> SUFFICES ASSUME IInv, Restoring PROVE IInv'
    OBVIOUS
<1> USE DEF IInv
<1>1. /\ phase = "run" /\ phase' = "write" /\ method = "drop_in_the_bucket" /\ mask_only
      /\ UNCHANGED <<opts, method, k, restored, pitb, count, total, bins, npts, status, took, edge>>
    BY DEF Restoring, finished
<1>2. PICK dropped \in SUBSET ToCells :
        /\ to' = [cell \in ToCells |-> IF cell \in dropped THEN restored[cell] ELSE Restore(to[cell])]
        /\ torn' = torn \cup dropped
    BY DEF Restoring
<1>3. to \in [ToCells -> Int]
    BY <1>1 DEF Fresh
<1>4. \A x \in Int : Restore(x) \in Int
    <2>1. 100 \in Int /\ 100 # 0
        OBVIOUS
    <2> QED BY <2>1, NintTyped DEF Restore
<1>5. to' \in [ToCells -> Int \cup {Unread}] /\ torn' \subseteq ToCells
    BY <1>2, <1>3, <1>4 DEF TypeOK
<1>6. TypeOK'
    BY <1>1, <1>5 DEF TypeOK
<1>7. Restore(-1) = 0
    <2>1. 98 \div 200 = 0
        OBVIOUS
    <2> QED BY <2>1 DEF Restore, Nint, Cut
<1>8. Told'
    <2>1. ASSUME NEW cell \in ToCells \ torn', \A v \in Values : took'[cell][v] = 0
          PROVE  to'[cell] = 0
        <3>1. cell \notin torn /\ cell \notin dropped /\ \A v \in Values : took[cell][v] = 0
            BY <1>1, <1>2, <2>1
        <3>2. to[cell] = -1
            BY <1>1, <3>1 DEF Told, Untaken
        <3> QED BY <1>2, <1>7, <3>1, <3>2
    <2> QED BY <1>1, <2>1 DEF Told, Untaken, mask_only
<1> QED BY <1>1, <1>6, <1>8 DEF Fresh, MeanNear, Counted, Between

LEMMA PercentTyped ==
    ASSUME TypeOK, NEW b \in Bins, NEW cell \in ToCells
    PROVE  Percent(b, cell) \in Int
<1>1. total[cell] \in Nat \cup {-1} /\ count[b][cell] \in Nat
    BY DEF TypeOK
<1>2. CASE total[cell] = -1
    BY <1>2 DEF Percent
<1>3. CASE total[cell] # -1
    <2>1. total[cell] + 1 \in Nat \ {0} /\ 100 * count[b][cell] \in Int
        BY <1>1, <1>3
    <2>2. Nint(100 * count[b][cell], total[cell] + 1) \in Int
        BY <2>1, NintNear
    <2> QED BY <1>3, <2>2 DEF Percent
<1> QED BY <1>2, <1>3

LEMMA WriteBinsStep == IInv /\ WriteBins => IInv'
<1> SUFFICES ASSUME IInv, WriteBins PROVE IInv'
    OBVIOUS
<1> USE DEF IInv
<1>1. /\ phase = "run" /\ phase' = "write" /\ method = "distribution"
      /\ UNCHANGED <<opts, method, k, to, restored, pitb, count, total, npts, status, took, torn, edge>>
    BY DEF WriteBins, finished
<1>2. PICK last \in Mask - 1 .. Mask2 :
        bins' = [b \in Bins |-> IF b <= last THEN [cell \in ToCells |-> Percent(b, cell)] ELSE bins[b]]
    <2>1. Mask2 \in Mask - 1 .. Mask2
        BY Constants DEF Bins
    <2> QED BY <2>1 DEF WriteBins
<1>3. bins' \in [Bins -> [ToCells -> Int \cup {Unread}]]
    BY <1>2, PercentTyped DEF TypeOK
<1>4. TypeOK'
    BY <1>1, <1>3 DEF TypeOK
<1>5. ASSUME NEW cell \in ToCells, bins'[Mask2][cell] # Unread, NEW b \in Bins
      PROVE  bins'[b][cell] = Percent(b, cell)
    <2>1. bins[Mask2][cell] = Unread
        BY <1>1, Constants DEF Fresh, Every
    <2>2. Mask2 <= last /\ b <= Mask2
        <3>1. Mask2 \in Bins
            BY Constants
        <3>2. ~(Mask2 <= last) => bins'[Mask2] = bins[Mask2]
            BY <1>2, <3>1
        <3> QED BY <1>5, <2>1, <3>2 DEF Bins
    <2>3. b <= last
        BY <2>2, Constants DEF Bins
    <2> QED BY <1>2, <2>3
<1>6. Counted'
    BY <1>1, <1>5, SameCounts DEF Counted, Number
<1>7. Told'
    BY <1>1, SameMeans DEF Told, Same
<1> QED BY <1>1, <1>4, <1>6, <1>7 DEF Fresh, MeanNear, Between

LEMMA ExitStep == IInv /\ Exit => IInv'
<1> SUFFICES ASSUME IInv, Exit PROVE IInv'
    OBVIOUS
<1> USE DEF IInv
<1>1. /\ phase \in {"run", "write"} /\ phase' = "done" /\ status' \in {"success", "failure"} /\ Same
      /\ UNCHANGED <<opts, method, k, to, restored, pitb, count, total, bins, npts, took, torn, edge>>
    BY DEF Exit, finished, accumulators, Same
<1>2. TypeOK'
    BY <1>1 DEF TypeOK
<1>3. Told'
    BY <1>1, SameMeans DEF Told
<1>4. Counted'
    BY <1>1, CountedKept
<1>5. Between'
    BY <1>1, SameMeans, WithinMoves DEF Between
<1> QED BY <1>1, <1>2, <1>3, <1>4, <1>5 DEF Fresh, MeanNear

LEMMA StutterStep == IInv /\ UNCHANGED vars => IInv'
<1> SUFFICES ASSUME IInv, UNCHANGED vars PROVE IInv'
    OBVIOUS
<1> USE DEF IInv
<1>1. /\ Same /\ UNCHANGED <<opts, phase, method, k, to, restored, pitb, count, total, bins>>
      /\ UNCHANGED <<npts, status, took, torn, edge>>
    BY DEF vars, Same
<1>2. TypeOK'
    BY <1>1 DEF TypeOK
<1>3. Fresh' /\ MeanNear'
    BY <1>1, SameMeans DEF Fresh, MeanNear
<1>4. Told'
    BY <1>1, SameMeans DEF Told
<1>5. Counted'
    BY <1>1, CountedKept
<1>6. Between'
    BY <1>1, SameMeans, WithinMoves DEF Between
<1> QED BY <1>2, <1>3, <1>4, <1>5, <1>6

LEMMA NextIInv == IInv /\ [Next]_vars => IInv'
<1> SUFFICES ASSUME IInv, [Next]_vars PROVE IInv'
    OBVIOUS
<1>1. CASE \E cell \in ToCells, v \in Values : IntoBucket(cell, v) \/ IntoBin(cell, v)
    BY <1>1, IntoBucketStep, IntoBinStep
<1>2. CASE \E v \in Values : Sample(v)
    BY <1>2, SampleStep
<1> QED BY <1>1, <1>2, OpenStep, GiveUpStep, StartStep, SkipStep, RestoringStep, WriteBinsStep,
           ExitStep, BilinearStepStep, ReductionStepStep, StutterStep DEF Next

-----------------------------------------------------------------------------
(***************************************************************************)
(* What the invariant says of the output.                                  *)
(***************************************************************************)

\* Each percent is off by half, so their sum by half for each mask.
LEMMA PercentsFollow ==
    ASSUME TypeOK, Counted
    PROVE  PercentsAddUp
<1> SUFFICES ASSUME method = "distribution", NEW cell \in ToCells \ torn
             PROVE  /\ Counts(cell) = total[cell] + 1
                    /\ bins[Mask2][cell] # Unread =>
                        IF Number(cell) = 0 THEN \A b \in Bins : bins[b][cell] = -1
                        ELSE 2 * Percents(cell) - 200 \in -Cardinality(Bins) .. Cardinality(Bins)
    BY DEF PercentsAddUp
<1>1. /\ total[cell] + 1 = Number(cell) /\ Counts(cell) = Number(cell)
      /\ bins[Mask2][cell] # Unread => \A b \in Bins : bins[b][cell] = Percent(b, cell)
    BY DEF Counted
<1>2. total[cell] \in Nat \cup {-1} /\ \A b \in Bins : count[b][cell] \in Nat
    BY DEF TypeOK
<1>3. ASSUME bins[Mask2][cell] # Unread, Number(cell) = 0, NEW b \in Bins
      PROVE  bins[b][cell] = -1
    <2>1. total[cell] = -1
        BY <1>1, <1>2, <1>3
    <2> QED BY <1>1, <1>3, <2>1 DEF Percent
<1>4. ASSUME bins[Mask2][cell] # Unread, Number(cell) # 0
      PROVE  2 * Percents(cell) - 200 \in -Cardinality(Bins) .. Cardinality(Bins)
    <2>1. PICK n \in Nat \ {0} : n = Number(cell)
        BY <1>1, <1>2, <1>4
    <2>2. total[cell] + 1 = n /\ total[cell] # -1
        BY <1>1, <1>2, <2>1
    <2> DEFINE c == [b \in Bins |-> count[b][cell]]
               q == [b \in Bins |-> bins[b][cell]]
               h == [b \in Bins |-> (2 * n) * q[b] + (-200) * c[b]]
               lows == [b \in Bins |-> -n]
               highs == [b \in Bins |-> n]
               C == SumFunctionOnSet(c, Bins)
               Q == SumFunctionOnSet(q, Bins)
               H == SumFunctionOnSet(h, Bins)
    <2>3. \A b \in Bins : /\ c[b] \in Int /\ q[b] \in Int
                          /\ -n <= (2 * n) * q[b] + (-200) * c[b]
                          /\ (2 * n) * q[b] + (-200) * c[b] <= n
        <3> SUFFICES ASSUME NEW b \in Bins
                     PROVE  /\ c[b] \in Int /\ q[b] \in Int
                            /\ -n <= (2 * n) * q[b] + (-200) * c[b]
                            /\ (2 * n) * q[b] + (-200) * c[b] <= n
            OBVIOUS
        <3>1. PICK m \in Nat : m = c[b]
            BY <1>2
        <3>2. q[b] = IF m = 0 THEN 0 ELSE Nint(100 * m, n)
            BY <1>1, <1>4, <2>2, <3>1 DEF Percent
        <3> HIDE DEF c, q
        <3>3. CASE m = 0
            BY <3>1, <3>2, <3>3
        <3>4. CASE m # 0
            <4>1. 100 * m \in Int /\ 100 * m >= 0
                OBVIOUS
            <4>2. PICK t \in Int : t = Nint(100 * m, n)
                BY <4>1, NintNear
            <4>3. -n < 2 * n * t - 2 * (100 * m) /\ 2 * n * t - 2 * (100 * m) <= n
                BY <4>1, <4>2, NintNear
            <4>4. q[b] = t /\ 2 * n * t = (2 * n) * t /\ (2 * n) * t \in Int
                BY <3>2, <3>4, <4>2
            <4> QED BY <3>1, <4>3, <4>4
        <3> QED BY <3>3, <3>4
    <2>4. C = n
        BY <1>1, <2>1 DEF Counts, SumFunction
    <2>5. Percents(cell) = Q
        BY DEF Percents, SumFunction
    <2>6. \A b \in Bins : /\ c[b] \in Int /\ q[b] \in Int /\ h[b] = (2 * n) * q[b] + (-200) * c[b]
                          /\ lows[b] = -n /\ highs[b] = n
                          /\ h[b] \in Int /\ lows[b] \in Int /\ highs[b] \in Int
                          /\ lows[b] <= h[b] /\ h[b] <= highs[b]
        <3> SUFFICES ASSUME NEW b \in Bins
                     PROVE  /\ c[b] \in Int /\ q[b] \in Int /\ h[b] = (2 * n) * q[b] + (-200) * c[b]
                            /\ lows[b] = -n /\ highs[b] = n
                            /\ h[b] \in Int /\ lows[b] \in Int /\ highs[b] \in Int
                            /\ lows[b] <= h[b] /\ h[b] <= highs[b]
            OBVIOUS
        <3>1. h[b] = (2 * n) * q[b] + (-200) * c[b] /\ lows[b] = -n /\ highs[b] = n
            OBVIOUS
        <3>2. c[b] \in Int /\ q[b] \in Int /\ -n <= h[b] /\ h[b] <= n
            BY <2>3, <3>1
        <3> HIDE DEF c, q, h, lows, highs
        <3>3. h[b] \in Int
            <4>1. (2 * n) * q[b] \in Int /\ (-200) * c[b] \in Int
                BY <3>2
            <4> QED BY <3>1, <4>1
        <3> QED BY <3>1, <3>2, <3>3
    <2> HIDE DEF c, q, h, lows, highs
    <2>7. IsFiniteSet(Bins) /\ 2 * n \in Int /\ -200 \in Int /\ -n \in Int /\ n \in Int /\ Cardinality(Bins) \in Nat
        BY Finite
    <2>8. H = (2 * n) * Q + (-200) * C
        <3>1. \A b \in Bins : q[b] \in Int /\ c[b] \in Int /\ h[b] = (2 * n) * q[b] + (-200) * c[b]
            BY <2>6
        <3>2. PICK a1 \in Int, a2 \in Int : a1 = 2 * n /\ a2 = -200
            BY <2>7
        <3>3. \A b \in Bins : q[b] \in Int /\ c[b] \in Int /\ h[b] = a1 * q[b] + a2 * c[b]
            BY <3>1, <3>2
        <3>4. H = a1 * Q + a2 * C
            BY <2>7, <3>3, SumLinear
        <3> QED BY <3>2, <3>4
    <2>9. SumFunctionOnSet(lows, Bins) <= H /\ H <= SumFunctionOnSet(highs, Bins)
        <3>1. \A b \in Bins : lows[b] \in Int /\ h[b] \in Int /\ highs[b] \in Int /\ lows[b] <= h[b] /\ h[b] <= highs[b]
            BY <2>6
        <3>2. IsFiniteSet(Bins)
            BY <2>7
        <3> QED BY <3>1, <3>2, SumMonotone
    <2>10. /\ SumFunctionOnSet(lows, Bins) = (-n) * Cardinality(Bins)
           /\ SumFunctionOnSet(highs, Bins) = n * Cardinality(Bins)
        <3>1. PICK a \in Int : a = -n
            OBVIOUS
        <3>2. (\A b \in Bins : lows[b] = a) /\ (\A b \in Bins : highs[b] = n) /\ IsFiniteSet(Bins) /\ n \in Int
            BY <2>6, <2>7, <3>1
        <3>3. SumFunctionOnSet(lows, Bins) = a * Cardinality(Bins) /\ SumFunctionOnSet(highs, Bins) = n * Cardinality(Bins)
            BY <3>2, SumConstant
        <3> QED BY <3>1, <3>3
    <2>11. Q \in Int
        <3>1. \A b \in Bins : q[b] \in Int
            BY <2>6
        <3>2. IsFiniteSet(Bins)
            BY <2>7
        <3> QED BY <3>1, <3>2, SumTyped
    <2> HIDE DEF C, Q, H
    <2>12. PICK p \in Int, all \in Nat : p = Q /\ all = Cardinality(Bins)
        BY <2>7, <2>11
    <2>13. (-n) * all <= (2 * n) * p + (-200) * n /\ (2 * n) * p + (-200) * n <= n * all
        BY <2>4, <2>8, <2>9, <2>10, <2>12
    <2>14. (2 * n) * p + (-200) * n = n * (2 * p - 200) /\ (-n) * all = n * (-all)
        OBVIOUS
    <2>15. \A x, y \in Int : n * x <= n * y => x <= y
        OBVIOUS
    <2>16. -all <= 2 * p - 200 /\ 2 * p - 200 <= all
        BY <2>13, <2>14, <2>15
    <2> QED BY <2>5, <2>12, <2>16
<1> QED BY <1>1, <1>3, <1>4

LEMMA EmptyFollows ==
    ASSUME TypeOK, Told
    PROVE  EmptyTold
<1> SUFFICES ASSUME phase = "done", status = "success", NEW cell \in ToCells \ torn, Number(cell) = 0
             PROVE  \/ to[cell] = IF mask_only THEN -1 ELSE fill
                    \/ mask_only /\ method = "bilinear" /\ to[cell] = fill
                    \/ mask_only /\ method = "drop_in_the_bucket" /\ to[cell] = 0
    BY DEF EmptyTold
<1>1. Taken
    BY DEF TypeOK, Taken
<1>2. \A v \in Values : took[cell][v] = 0
    BY <1>1, TakenSums
<1> QED BY <1>2 DEF Told, Untaken

-----------------------------------------------------------------------------
(***************************************************************************)
(* The theorems.                                                           *)
(***************************************************************************)

\* The invariant that the steps of every method of resamp keep.
THEOREM Invariance == Spec => []IInv
<1> QED BY InitIInv, NextIInv, PTL DEF Spec

\* resamp keeps its variables in their types.
THEOREM TypeCorrect == Spec => []TypeOK
<1>1. IInv => TypeOK
    BY DEF IInv
<1> QED BY <1>1, Invariance, PTL

\* drop_in_the_bucket (resamp.c:549): the mean that a bucket holds, rounded at
\* every value, is off by less than a quarter of the number of its values and
\* one, or three times that with negative data, whatever their order, and the
\* file of counts holds that number; for any grids and any data.
THEOREM MeanCorrect == Spec => []MeanNear
<1>1. IInv => MeanNear
    BY DEF IInv
<1> QED BY <1>1, Invariance, PTL

\* distribution (resamp.c:396-452): the counts of a cell add up to its total,
\* and the percents that are written to the files of the masks add up to 100
\* but for half a percent for each mask.
THEOREM PercentsCorrect == Spec => []PercentsAddUp
<1>1. IInv => PercentsAddUp
    BY PercentsFollow DEF IInv
<1> QED BY <1>1, Invariance, PTL

\* A cell of the output that got no value has the fill value of the output
\* (resamp.c:233), but for the two ways in which a mask shows it differently.
THEOREM EmptyCorrect == Spec => []EmptyTold
<1>1. IInv => EmptyTold
    BY EmptyFollows DEF IInv
<1> QED BY <1>1, Invariance, PTL

\* nearest_neighbor, minification, bilinear and reduction give a value between
\* the smallest and the largest they used, one above at most where nint pulls a
\* negative sum to zero, but where bilinear is before the first row or column.
THEOREM BetweenCorrect == Spec => []Between
<1>1. IInv => Between
    BY DEF IInv
<1> QED BY <1>1, Invariance, PTL

-----------------------------------------------------------------------------
(***************************************************************************)
(* regrid, over any number of runs on the same two files.  A run works on  *)
(* what its options let it preload and writes both files at its end; what  *)
(* the invariant says of the two files between the runs is what the next   *)
(* run has to find in memory.                                              *)
(***************************************************************************)
\* The constants of Regrid.
LEMMA RegridConstants ==
    /\ IsFiniteSet(DOMAIN Input)
    /\ \A c \in DOMAIN Input : Input[c] \in Int /\ c[1] \in Int /\ c[2] \in Int
    /\ RowSpots \cup ColSpots \subseteq Int
    /\ DatumLow \in Int /\ DatumSize \in Nat \ {0} /\ MaxRuns \in Nat /\ Fills \subseteq Int
    /\ \A x \in Samples : x[1] \in 0 .. 7 /\ x[2] \in Regrid!Datum
    /\ \A f \in [OutCells -> Int] : Regrid!IsFull(f)
    /\ ~Regrid!IsFull(Absent) /\ ~Regrid!IsFull(Short)
<1>1. DOMAIN Input \subseteq Nat \X Nat /\ Regrid!IsFiniteSet(DOMAIN Input)
    BY AssumptionsHold DEF Regrid!RegridAssumption
<1>3. IsFiniteSet(DOMAIN Input)
    BY <1>1 DEF Regrid!IsFiniteSet, IsFiniteSet
<1>4. \A c \in DOMAIN Input : c[1] \in Int /\ c[2] \in Int
    BY <1>1
<1>5. \A f \in [OutCells -> Int] : Regrid!IsFull(f)
    BY AssumptionsHold DEF Regrid!RegridAssumption, Regrid!IsFull
<1>6. ~Regrid!IsFull(Absent) /\ ~Regrid!IsFull(Short)
    BY DEF Regrid!IsFull
<1> QED BY <1>1, <1>3, <1>4, <1>5, <1>6, AssumptionsHold DEF Regrid!RegridAssumption, Regrid!Datum

\* Sums are the same operator in the instance.
LEMMA SameSum ==
    ASSUME NEW w
    PROVE  Regrid!SumFunction(w) = SumFunctionOnSet(w, DOMAIN w)
BY DEF Regrid!SumFunction, Regrid!SumFunctionOnSet, Regrid!FoldFunctionOnSet, Regrid!MapThenFoldSet,
       SumFunctionOnSet, FoldFunctionOnSet, MapThenFoldSet

\* A share of integer weights is a pair of integers.
LEMMA ShareTyped ==
    ASSUME NEW w, DOMAIN w \subseteq DOMAIN Input, \A c \in DOMAIN w : w[c] \in Int
    PROVE  Regrid!Share(w)[1] \in Int /\ Regrid!Share(w)[2] \in Int
<1> DEFINE S == DOMAIN w
           p == [c \in S |-> w[c] * Input[c]]
<1>1. IsFiniteSet(S)
    BY RegridConstants, FS_Subset
<1>2. \A c \in S : p[c] \in Int
    BY RegridConstants
<1>3. SumFunctionOnSet(w, S) \in Int
    BY <1>1, SumTyped
<1>4. SumFunctionOnSet(p, S) \in Int
    <2> HIDE DEF p
    <2> QED BY <1>1, <1>2, SumTyped
<1>5. Regrid!Share(w) = <<SumFunctionOnSet(w, S), SumFunctionOnSet(p, S)>>
    <2>1. DOMAIN p = S
        OBVIOUS
    <2>2. Regrid!Share(w) = <<Regrid!SumFunction(w), Regrid!SumFunction(p)>>
        BY DEF Regrid!Share
    <2> HIDE DEF p
    <2> QED BY <2>1, <2>2, SameSum
<1> HIDE DEF S, p
<1> QED BY <1>3, <1>4, <1>5

LEMMA QuotTyped ==
    ASSUME NEW x \in Int, NEW y \in Nat \ {0}
    PROVE  Regrid!Quot(x, y) \in Int
BY Division DEF Regrid!Quot

\* So is what each method gives a cell.
LEMMA SharesTyped ==
    ASSUME kind \in Regrid!Averaging, NEW h \in Regrid!Shares
    PROVE  h[1] \in Int /\ h[2] \in Int
<1>1. CASE kind = "bilinear"
    <2>1. PICK s \in RowSpots, r \in ColSpots : h = Regrid!BilinearShare(s, r)
        BY <1>1 DEF Regrid!Shares
    <2> DEFINE w == [c \in Regrid!Reached(s, r, 0, 1) |-> (4 - Regrid!Away(s - 4 * c[1])) * (4 - Regrid!Away(r - 4 * c[2]))]
    <2>2. DOMAIN w \subseteq DOMAIN Input
        BY DEF Regrid!Reached
    <2>3. \A c \in DOMAIN w : w[c] \in Int
        BY <2>2, RegridConstants DEF Regrid!Away
    <2>4. h = Regrid!Share(w)
        BY <2>1 DEF Regrid!BilinearShare
    <2> HIDE DEF w
    <2> QED BY <2>2, <2>3, <2>4, ShareTyped
<1>2. CASE kind = "cubiccon"
    <2>1. PICK s \in RowSpots, r \in ColSpots : h = Regrid!CubicShare(s, r)
        BY <1>2 DEF Regrid!Shares
    <2> DEFINE at(x, i) == Regrid!Cubic(i - Regrid!Quot(x, 4) + 1, x - 4 * Regrid!Quot(x, 4))
               w == [c \in Regrid!Reached(s, r, -1, 2) |-> at(s, c[1]) * at(r, c[2])]
    <2>2. DOMAIN w \subseteq DOMAIN Input
        BY DEF Regrid!Reached
    <2>3. ASSUME NEW x \in Int, NEW i \in Int, i - Regrid!Quot(x, 4) \in -1 .. 2
          PROVE  at(x, i) \in Int
        <3>1. Regrid!Quot(x, 4) \in Int
            BY QuotTyped
        <3>2. PICK n \in 0 .. 3, q \in Int : n = i - Regrid!Quot(x, 4) + 1 /\ q = x - 4 * Regrid!Quot(x, 4)
            BY <2>3, <3>1
        <3>3. Regrid!Cubic(n, q) \in Int
            <4>1. CASE n = 0
                BY <4>1 DEF Regrid!Cubic
            <4>2. CASE n = 1
                BY <4>2 DEF Regrid!Cubic
            <4>3. CASE n = 2
                BY <4>3 DEF Regrid!Cubic
            <4>4. CASE n = 3
                BY <4>4 DEF Regrid!Cubic
            <4> QED BY <4>1, <4>2, <4>3, <4>4
        <3> QED BY <3>2, <3>3
    <2>4. ASSUME NEW c \in DOMAIN w PROVE w[c] \in Int
        <3>1. /\ s \in Int /\ r \in Int /\ c[1] \in Int /\ c[2] \in Int
              /\ c[1] - Regrid!Quot(s, 4) \in -1 .. 2 /\ c[2] - Regrid!Quot(r, 4) \in -1 .. 2
            BY RegridConstants DEF Regrid!Reached
        <3>2. at(s, c[1]) \in Int /\ at(r, c[2]) \in Int
            <4> HIDE DEF at
            <4> QED BY <3>1, <2>3
        <3>3. w[c] = at(s, c[1]) * at(r, c[2])
            OBVIOUS
        <3> HIDE DEF w, at
        <3> QED BY <3>2, <3>3
    <2>5. h = Regrid!Share(w)
        BY <2>1 DEF Regrid!CubicShare
    <2> HIDE DEF w
    <2> QED BY <2>2, <2>4, <2>5, ShareTyped
<1>3. CASE kind = "ditb_avg"
    <2>1. PICK cells \in SUBSET DOMAIN Input : h = Regrid!BucketShare(cells)
        BY <1>3 DEF Regrid!Shares
    <2> DEFINE w == [c \in {x \in cells : ~(regrid_ignore_fill /\ regrid_fill = Input[x])} |-> 1]
    <2>2. DOMAIN w \subseteq DOMAIN Input /\ \A c \in DOMAIN w : w[c] \in Int
        OBVIOUS
    <2>3. h = Regrid!Share(w)
        BY <2>1 DEF Regrid!BucketShare
    <2> HIDE DEF w
    <2> QED BY <2>2, <2>3, ShareTyped
<1>4. CASE kind = "inv_dist"
    <2>1. PICK cell \in DOMAIN Input, s \in {0, 2}, r \in {2, 4} : h = Regrid!InverseShare(cell, s, r)
        BY <1>4 DEF Regrid!Shares
    <2> DEFINE w == [c \in {x \in {cell} : ~(regrid_ignore_fill /\ regrid_fill = Input[x])} |-> Regrid!InverseWeight(s, r)]
    <2>2. Regrid!InverseWeight(s, r) \in Int
        BY DEF Regrid!InverseWeight
    <2>3. DOMAIN w \subseteq DOMAIN Input /\ \A c \in DOMAIN w : w[c] \in Int
        BY <2>2
    <2>4. h = Regrid!Share(w)
        BY <2>1 DEF Regrid!InverseShare
    <2> HIDE DEF w
    <2> QED BY <2>3, <2>4, ShareTyped
<1> QED BY <1>1, <1>2, <1>3, <1>4 DEF Regrid!Averaging

\* ROUND is off by half at most, on either side of zero.
LEMMA RoundNear ==
    ASSUME NEW p \in Int, NEW q \in Int, q # 0
    PROVE  /\ Regrid!Round(p, q) \in Int
           /\ -Regrid!Away(q) <= 2 * (Regrid!Round(p, q) * q - p)
           /\ 2 * (Regrid!Round(p, q) * q - p) <= Regrid!Away(q)
<1>1. PICK a \in Nat \ {0} : a = Regrid!Away(q)
    BY DEF Regrid!Away
<1>2. PICK d \in Nat : d = IF p < 0 THEN -p ELSE p
    OBVIOUS
<1> DEFINE u == (2 * d + a) \div (2 * a)
<1>3. u \in Int /\ (2 * a) * u <= 2 * d + a /\ 2 * d + a < (2 * a) * u + 2 * a
    <2>1. 2 * d + a \in Int /\ 2 * a \in Nat \ {0}
        OBVIOUS
    <2> QED BY <2>1, Division
<1>4. Regrid!Round(p, q) = IF (p < 0) = (q < 0) THEN u ELSE -u
    <2>1. CASE q < 0 /\ p < 0
        <3>1. a = -q /\ d = -p /\ -2 * q = 2 * a /\ ~(2 * p + q >= 0) /\ -(2 * p + q) = 2 * d + a
            BY <1>1, <1>2, <2>1 DEF Regrid!Away
        <3>2. Regrid!Round(p, q) = -Regrid!Quot(2 * p + q, -2 * q)
            BY <2>1 DEF Regrid!Round
        <3>3. Regrid!Quot(2 * p + q, -2 * q) = -u
            BY <3>1 DEF Regrid!Quot
        <3> HIDE DEF u
        <3> QED BY <1>3, <2>1, <3>2, <3>3
    <2>2. CASE q < 0 /\ ~(p < 0)
        <3>1. a = -q /\ d = p /\ -2 * q = 2 * a /\ 2 * p - q >= 0 /\ 2 * p + (-q) = 2 * d + a /\ 2 * p + (-q) >= 0
            BY <1>1, <1>2, <2>2 DEF Regrid!Away
        <3>2. Regrid!Round(p, q) = -Regrid!Quot(2 * p + (-q), -2 * q)
            BY <2>2 DEF Regrid!Round
        <3>3. Regrid!Quot(2 * p + (-q), -2 * q) = u
            BY <3>1 DEF Regrid!Quot
        <3> HIDE DEF u
        <3> QED BY <1>3, <2>2, <3>2, <3>3
    <2>3. CASE ~(q < 0) /\ p < 0
        <3>1. a = q /\ d = -p /\ 2 * q = 2 * a /\ ~(2 * p + (-q) >= 0) /\ -(2 * p + (-q)) = 2 * d + a
            BY <1>1, <1>2, <2>3 DEF Regrid!Away
        <3>2. Regrid!Round(p, q) = Regrid!Quot(2 * p + (-q), 2 * q)
            BY <2>3 DEF Regrid!Round
        <3>3. Regrid!Quot(2 * p + (-q), 2 * q) = -u
            BY <3>1 DEF Regrid!Quot
        <3> HIDE DEF u
        <3> QED BY <1>3, <2>3, <3>2, <3>3
    <2>4. CASE ~(q < 0) /\ ~(p < 0)
        <3>1. a = q /\ d = p /\ 2 * q = 2 * a /\ 2 * p + q >= 0 /\ 2 * p + q = 2 * d + a
            BY <1>1, <1>2, <2>4 DEF Regrid!Away
        <3>2. Regrid!Round(p, q) = Regrid!Quot(2 * p + q, 2 * q)
            BY <2>4 DEF Regrid!Round
        <3>3. Regrid!Quot(2 * p + q, 2 * q) = u
            BY <3>1 DEF Regrid!Quot
        <3> HIDE DEF u
        <3> QED BY <1>3, <2>4, <3>2, <3>3
    <2> QED BY <2>1, <2>2, <2>3, <2>4
<1> HIDE DEF u
<1>5. /\ u * a \in Int /\ (2 * a) * u = 2 * (u * a)
      /\ -a <= 2 * (u * a - d) /\ 2 * (u * a - d) <= a
    BY <1>3
<1>6. CASE (p < 0) = (q < 0)
    <2>1. Regrid!Round(p, q) * q - p = (IF q < 0 THEN -1 ELSE 1) * (u * a - d)
        BY <1>1, <1>2, <1>3, <1>4, <1>6 DEF Regrid!Away
    <2> QED BY <1>1, <1>3, <1>4, <1>5, <1>6, <2>1
<1>7. CASE (p < 0) # (q < 0)
    <2>1. Regrid!Round(p, q) * q - p = (IF p < 0 THEN -1 ELSE 1) * (u * a - d)
        BY <1>1, <1>2, <1>3, <1>4, <1>7 DEF Regrid!Away
    <2> QED BY <1>1, <1>3, <1>4, <1>5, <1>7, <2>1
<1> QED BY <1>6, <1>7

LEMMA FoldFacts ==
    ASSUME NEW x \in Int
    PROVE  /\ Regrid!Fold(x) \in Regrid!Datum /\ Regrid!Fold(x) \in Int
           /\ x \in Regrid!Datum => Regrid!Fold(x) = x
<1>1. \A y \in Int, n \in Nat \ {0} : y % n \in 0 .. n - 1 /\ (y \in 0 .. n - 1 => y % n = y)
    OBVIOUS
<1>2. DatumLow \in Int /\ DatumSize \in Nat \ {0}
    BY RegridConstants
<1>3. PICK y \in Int : y = x - DatumLow
    BY <1>2
<1>4. Regrid!Fold(x) = (y % DatumSize) + DatumLow
    BY <1>3 DEF Regrid!Fold
<1>5. y % DatumSize \in 0 .. DatumSize - 1 /\ (y \in 0 .. DatumSize - 1 => y % DatumSize = y)
    BY <1>1, <1>2
<1>6. PICK z \in Int : z = y % DatumSize
    BY <1>2, <1>5
<1> QED BY <1>2, <1>3, <1>4, <1>5, <1>6 DEF Regrid!Datum

LEMMA DatumTyped == Regrid!Datum \subseteq Int
BY RegridConstants DEF Regrid!Datum

LEMMA NothingGiven ==
    /\ Regrid!Nothing \in [OutCells -> Regrid!Records]
    /\ \A c \in OutCells : Regrid!Keeps(0, 0, Regrid!Nothing[c], 0)
<1> DEFINE g == [w |-> 0, sum |-> 0, slack |-> 0, most |-> 0, last |-> {}, odd |-> FALSE]
<1>1. g \in Regrid!Records
    BY DEF Regrid!Records
<1>2. Regrid!Nothing = [c \in OutCells |-> g]
    BY DEF Regrid!Nothing
<1>3. Regrid!Keeps(0, 0, g, 0)
    BY DEF Regrid!Keeps, Regrid!Adds, Regrid!Largest, Regrid!Latest
<1> HIDE DEF g
<1> QED BY <1>1, <1>2, <1>3

\* What a run knows of the earlier ones is a record per cell.
LEMMA BeforeTyped ==
    ASSUME Regrid!IInv, NEW c \in OutCells
    PROVE  /\ Regrid!before \in [OutCells -> Regrid!Records]
           /\ Regrid!before[c] \in Regrid!Records /\ given[c] \in Regrid!Records
<1>1. Regrid!before \in [OutCells -> Regrid!Records] /\ given \in [OutCells -> Regrid!Records]
    BY NothingGiven DEF Regrid!IInv, Regrid!before
<1> QED BY <1>1

LEMMA SettledStays ==
    ASSUME kind' = kind, data_file' = data_file, given' = given,
           NEW c, NEW b, Regrid!Settled(c, b)
    PROVE  Regrid!Settled(c, b)'
BY DEF Regrid!Settled, Regrid!Keeps, Regrid!Adds, Regrid!Largest, Regrid!Latest

LEMMA RegridInit == Regrid!Init => Regrid!IInv
<1> SUFFICES ASSUME Regrid!Init PROVE Regrid!IInv
    OBVIOUS
<1>1. Regrid!Zeros \in [OutCells -> Int]
    BY DEF Regrid!Zeros
<1>2. Regrid!TypeOK
    <2>1. runs \in 0 .. MaxRuns /\ regrid_fill \in Fills \cup {0}
        BY RegridConstants DEF Regrid!Init
    <2>2. preload_data \in BOOLEAN /\ lost \in BOOLEAN /\ regrid_ignore_fill \in BOOLEAN
        BY DEF Regrid!Init
    <2> QED BY <1>1, <2>1, <2>2 DEF Regrid!Init, Regrid!TypeOK
<1>3. given \in [OutCells -> Regrid!Records]
    BY NothingGiven DEF Regrid!Init
<1>4. Regrid!FilesSettled
    BY RegridConstants DEF Regrid!Init, Regrid!FilesSettled
<1>5. Regrid!OnlyPreloaded /\ Regrid!MemoryKeeps
    BY DEF Regrid!Init, Regrid!OnlyPreloaded, Regrid!MemoryKeeps
<1> QED BY <1>2, <1>3, <1>4, <1>5 DEF Regrid!IInv

\* The files and what was given stay, or the weight file is created: so does what
\* is said of them.
LEMMA FilesStay ==
    ASSUME Regrid!IInv, step \in {"idle", "open", "read"},
           kind' = kind, with_z' = with_z, data_file' = data_file, given' = given, lost' = lost,
           beta_file' = beta_file \/ (with_z /\ beta_file' = Short),
           to_data' = Regrid!Zeros, to_beta' = Regrid!Zeros
    PROVE  Regrid!FilesSettled'
<1>1. Regrid!Zeros' = Regrid!Zeros
    BY DEF Regrid!Zeros
<1>2. ASSUME ~lost, Regrid!IsFull(data_file), with_z => Regrid!IsFull(beta_file'), NEW c \in OutCells
      PROVE  \E b \in Int : Regrid!Settled(c, b)' /\ (with_z => beta_file'[c] = b)
    <2>1. with_z => beta_file' = beta_file
        BY <1>2, RegridConstants
    <2>2. PICK b \in Int : Regrid!Settled(c, b) /\ (with_z => beta_file[c] = b)
        BY <1>2, <2>1 DEF Regrid!IInv, Regrid!FilesSettled
    <2>3. Regrid!Settled(c, b)'
        BY <2>2, SettledStays
    <2> QED BY <2>1, <2>2, <2>3
<1>3. Regrid!IsFull(data_file)' = Regrid!IsFull(data_file) /\ Regrid!IsFull(beta_file)' = Regrid!IsFull(beta_file')
    BY DEF Regrid!IsFull
<1> QED BY <1>1, <1>2, <1>3 DEF Regrid!FilesSettled

LEMMA RegridOptions ==
    ASSUME Regrid!IInv, NEW i \in BOOLEAN, NEW f \in Fills, Regrid!Options(i, f)
    PROVE  Regrid!IInv'
<1>1. Regrid!TypeOK'
    BY RegridConstants DEF Regrid!IInv, Regrid!TypeOK, Regrid!Options
<1>2. (given \in [OutCells -> Regrid!Records])'
    BY DEF Regrid!IInv, Regrid!Options, Regrid!Records
<1>3. Regrid!FilesSettled'
    <2>1. to_data = Regrid!Zeros /\ to_beta = Regrid!Zeros
        BY DEF Regrid!IInv, Regrid!Options, Regrid!FilesSettled
    <2> QED BY <2>1, FilesStay DEF Regrid!Options
<1>4. Regrid!OnlyPreloaded' /\ Regrid!MemoryKeeps'
    BY DEF Regrid!Options, Regrid!OnlyPreloaded, Regrid!MemoryKeeps
<1> QED BY <1>1, <1>2, <1>3, <1>4 DEF Regrid!IInv

LEMMA RegridAbort ==
    ASSUME Regrid!IInv, Regrid!Abort
    PROVE  Regrid!IInv'
<1>0. Regrid!Zeros \in [OutCells -> Int]
    BY DEF Regrid!Zeros
<1>1. Regrid!TypeOK'
    BY <1>0 DEF Regrid!IInv, Regrid!TypeOK, Regrid!Abort
<1>2. (given \in [OutCells -> Regrid!Records])'
    BY DEF Regrid!IInv, Regrid!Abort, Regrid!Records
<1>3. Regrid!FilesSettled'
    BY FilesStay DEF Regrid!Abort
<1>4. Regrid!OnlyPreloaded' /\ Regrid!MemoryKeeps'
    BY DEF Regrid!Abort, Regrid!OnlyPreloaded, Regrid!MemoryKeeps
<1> QED BY <1>1, <1>2, <1>3, <1>4 DEF Regrid!IInv

LEMMA RegridOpenFiles ==
    ASSUME Regrid!IInv, Regrid!OpenFiles
    PROVE  Regrid!IInv'
<1>1. Regrid!TypeOK'
    BY DEF Regrid!IInv, Regrid!TypeOK, Regrid!OpenFiles
<1>2. (given \in [OutCells -> Regrid!Records])'
    BY DEF Regrid!IInv, Regrid!OpenFiles, Regrid!Records
<1>3. Regrid!FilesSettled'
    <2>0. to_data = Regrid!Zeros /\ to_beta = Regrid!Zeros
        BY DEF Regrid!IInv, Regrid!OpenFiles, Regrid!FilesSettled
    <2>1. CASE preload_data
        BY <2>0, <2>1, FilesStay DEF Regrid!OpenFiles
    <2>2. CASE ~preload_data
        <3>1. ~Regrid!IsFull(data_file') /\ Regrid!Zeros' = Regrid!Zeros
            BY <2>2, RegridConstants DEF Regrid!OpenFiles, Regrid!Zeros
        <3>2. ~Regrid!IsFull(data_file)'
            BY <3>1 DEF Regrid!IsFull
        <3> QED BY <2>0, <3>1, <3>2 DEF Regrid!OpenFiles, Regrid!FilesSettled
    <2> QED BY <2>1, <2>2
<1>4. Regrid!OnlyPreloaded' /\ Regrid!MemoryKeeps'
    BY DEF Regrid!IInv, Regrid!OpenFiles, Regrid!OnlyPreloaded, Regrid!MemoryKeeps
<1> QED BY <1>1, <1>2, <1>3, <1>4 DEF Regrid!IInv

\* A full file has a number in every cell.
LEMMA FullTyped ==
    ASSUME Regrid!TypeOK
    PROVE  /\ Regrid!IsFull(data_file) => data_file \in [OutCells -> Regrid!Datum] /\ data_file \in [OutCells -> Int]
           /\ Regrid!IsFull(beta_file) => beta_file \in [OutCells -> Int]
<1>1. Regrid!IsFull(data_file) => data_file \in [OutCells -> Regrid!Datum]
    BY DEF Regrid!TypeOK, Regrid!IsFull, Regrid!Datum
<1>2. [OutCells -> Regrid!Datum] \subseteq [OutCells -> Int]
    BY DatumTyped
<1> QED BY <1>1, <1>2 DEF Regrid!TypeOK, Regrid!IsFull

LEMMA RegridRead ==
    ASSUME Regrid!IInv, Regrid!Read
    PROVE  Regrid!IInv'
<1>1. ASSUME preload_data
      PROVE  /\ to_beta' = beta_file /\ beta_file \in [OutCells -> Int]
             /\ to_data' \in [OutCells -> Int]
             /\ \A c \in OutCells : to_data'[c] = IF kind = "nearestn" THEN data_file[c] ELSE data_file[c] * beta_file[c]
    <2>1. /\ Regrid!IsFull(data_file) /\ Regrid!IsFull(beta_file) /\ to_beta' = beta_file
          /\ to_data' = IF kind = "nearestn" THEN data_file
                        ELSE [c \in OutCells |-> Regrid!Reweight(data_file[c], beta_file[c])]
        BY <1>1 DEF Regrid!Read
    <2>2. data_file \in [OutCells -> Int] /\ beta_file \in [OutCells -> Int]
        BY <2>1, FullTyped DEF Regrid!IInv
    <2>3. \A c \in OutCells : data_file[c] * beta_file[c] \in Int
        BY <2>2
    <2>4. CASE kind = "nearestn"
        BY <2>1, <2>2, <2>4
    <2>5. CASE kind # "nearestn"
        BY <2>1, <2>2, <2>3, <2>5 DEF Regrid!Reweight
    <2> QED BY <2>1, <2>2, <2>4, <2>5
<1>2. to_data' \in [OutCells -> Int] /\ to_beta' \in [OutCells -> Int]
    BY <1>1 DEF Regrid!IInv, Regrid!TypeOK, Regrid!Read
<1>3. Regrid!TypeOK'
    BY <1>2 DEF Regrid!IInv, Regrid!TypeOK, Regrid!Read
<1>4. (given \in [OutCells -> Regrid!Records])'
    BY DEF Regrid!IInv, Regrid!Read, Regrid!Records
<1>5. Regrid!FilesSettled' /\ Regrid!OnlyPreloaded'
    BY DEF Regrid!Read, Regrid!FilesSettled, Regrid!OnlyPreloaded
<1>6. ASSUME ~lost, NEW c \in OutCells
      PROVE  Regrid!Keeps(to_data'[c], to_beta'[c], Regrid!before'[c], 0)
    <2>1. CASE preload_data
        <3>1. with_z /\ Regrid!IsFull(data_file) /\ Regrid!IsFull(beta_file)
            BY <2>1 DEF Regrid!IInv, Regrid!OnlyPreloaded, Regrid!Read
        <3>2. PICK b \in Int : Regrid!Settled(c, b) /\ beta_file[c] = b
            BY <1>6, <3>1 DEF Regrid!IInv, Regrid!FilesSettled, Regrid!Read
        <3>3. to_beta'[c] = b /\ to_data'[c] = IF kind = "nearestn" THEN data_file[c] ELSE data_file[c] * b
            BY <1>1, <2>1, <3>2
        <3>4. Regrid!before' = given
            BY <2>1 DEF Regrid!before, Regrid!Read
        <3> QED BY <3>2, <3>3, <3>4 DEF Regrid!Settled
    <2>2. CASE ~preload_data
        <3>1. to_data'[c] = 0 /\ to_beta'[c] = 0
            BY <2>2 DEF Regrid!IInv, Regrid!FilesSettled, Regrid!Read, Regrid!Zeros
        <3>2. Regrid!before' = Regrid!Nothing
            BY <2>2 DEF Regrid!before, Regrid!Read, Regrid!Nothing
        <3> QED BY <3>1, <3>2, NothingGiven
    <2> QED BY <2>1, <2>2
<1>7. Regrid!MemoryKeeps'
    <2>1. kind' = kind /\ lost' = lost /\ step' = "resample"
        BY DEF Regrid!Read
    <2>2. ASSUME ~lost, NEW c \in OutCells
          PROVE  Regrid!Keeps(to_data[c], to_beta[c], Regrid!before[c], 0)'
        BY <1>6, <2>1, <2>2 DEF Regrid!Keeps, Regrid!Adds, Regrid!Largest, Regrid!Latest
    <2> QED BY <2>1, <2>2 DEF Regrid!MemoryKeeps
<1> QED BY <1>3, <1>4, <1>5, <1>7 DEF Regrid!IInv

\* What an averaging method adds to a cell: to the data in memory and, in the
\* same way, to what is known to be given.
More(g, b, d, hw, hs) ==
    [g EXCEPT !.w = @ + hw, !.sum = @ + hs, !.slack = @ + Regrid!Away(b), !.odd = @ \/ (b = 0 /\ d # 0)]
LEMMA AddsMore ==
    ASSUME NEW d \in Int, NEW b \in Int, NEW g \in Regrid!Records, NEW hw \in Int, NEW hs \in Int, NEW g2,
           g2 = More(g, b + hw, d + hs, hw, hs)
    PROVE  /\ g2 \in Regrid!Records
           /\ Regrid!Adds(d, b, g, 0) => Regrid!Adds(d + hs, b + hw, g2, Regrid!Away(b + hw))
           /\ ~g2.odd /\ b + hw = 0 => d + hs = 0
<1>1. g.w \in Int /\ g.sum \in Int /\ g.slack \in Nat /\ g.odd \in BOOLEAN
    BY DEF Regrid!Records
<1>2. PICK a \in Nat : a = Regrid!Away(b + hw)
    BY DEF Regrid!Away
<1> DEFINE o == b + hw = 0 /\ d + hs # 0
<1>3. /\ g2.w = g.w + hw /\ g2.sum = g.sum + hs /\ g2.slack = g.slack + a
      /\ g2.odd = (g.odd \/ o) /\ g2.most = g.most /\ g2.last = g.last
      /\ g2 = [w |-> g2.w, sum |-> g2.sum, slack |-> g2.slack, most |-> g2.most, last |-> g2.last, odd |-> g2.odd]
    BY <1>2 DEF Regrid!Records, More
<1>4. g2.w \in Int /\ g2.sum \in Int /\ g2.slack \in Nat /\ g2.odd \in BOOLEAN /\ g2.most \in Nat /\ g2.last \in SUBSET Int
    <2>1. g2.odd \in BOOLEAN
        <3> HIDE DEF o
        <3> QED BY <1>1, <1>3
    <2> QED BY <1>1, <1>2, <1>3, <2>1 DEF Regrid!Records
<1>5. /\ g2.w = g.w + hw /\ g2.sum = g.sum + hs /\ g2.slack = g.slack + a
      /\ g2.odd = (g.odd \/ o)
    BY <1>3
<1>6. g2 \in Regrid!Records
    BY <1>3, <1>4 DEF Regrid!Records
<1>7. ~g2.odd => ~g.odd /\ ~o
    BY <1>5
<1>8. ASSUME Regrid!Adds(d, b, g, 0)
      PROVE  Regrid!Adds(d + hs, b + hw, g2, Regrid!Away(b + hw))
    <2>1. b = g.w /\ (~g.odd => -g.slack <= 2 * (d - g.sum) /\ 2 * (d - g.sum) <= g.slack)
        BY <1>1, <1>8 DEF Regrid!Adds
    <2>2. ~g2.odd => a - g2.slack <= 2 * ((d + hs) - g2.sum) /\ 2 * ((d + hs) - g2.sum) <= g2.slack - a
        BY <1>1, <1>5, <1>7, <2>1
    <2>3. b + hw = g2.w
        BY <1>5, <2>1
    <2> QED BY <1>2, <2>2, <2>3 DEF Regrid!Adds
<1> QED BY <1>6, <1>7, <1>8

\* A step of the resampling keeps the invariant if what it leaves in memory is what
\* it says was given.
LEMMA Resampled ==
    ASSUME Regrid!IInv, step = "resample", step' = "write",
           UNCHANGED <<kind, with_z, regrid_ignore_fill, regrid_fill, data_file, beta_file, preload_data, runs, lost>>,
           to_data' \in [OutCells -> Int], to_beta' \in [OutCells -> Int],
           given' \in [OutCells -> Regrid!Records],
           ~lost => \A c \in OutCells :
                /\ Regrid!Keeps(to_data'[c], to_beta'[c], given'[c], Regrid!Away(to_beta'[c]))
                /\ kind \in Regrid!Averaging /\ ~given'[c].odd /\ to_beta'[c] = 0 => to_data'[c] = 0
    PROVE  Regrid!IInv'
<1>1. Regrid!TypeOK'
    BY DEF Regrid!IInv, Regrid!TypeOK
<1>2. (given \in [OutCells -> Regrid!Records])'
    BY DEF Regrid!Records
<1>3. Regrid!FilesSettled' /\ Regrid!OnlyPreloaded'
    BY DEF Regrid!FilesSettled, Regrid!OnlyPreloaded
<1>4. ASSUME ~lost, NEW c \in OutCells
      PROVE  Regrid!Keeps(to_data[c], to_beta[c], given[c], Regrid!Away(to_beta[c]))'
    <2>1. Regrid!Keeps(to_data'[c], to_beta'[c], given'[c], Regrid!Away(to_beta'[c]))
        BY <1>4
    <2> QED BY <2>1 DEF Regrid!Keeps, Regrid!Adds, Regrid!Largest, Regrid!Latest, Regrid!Away
<1>5. Regrid!MemoryKeeps'
    BY <1>4 DEF Regrid!MemoryKeeps, Regrid!Averaging
<1> QED BY <1>1, <1>2, <1>3, <1>5 DEF Regrid!IInv

LEMMA RegridAccumulate ==
    ASSUME Regrid!IInv, Regrid!Accumulate
    PROVE  Regrid!IInv'
<1>0. PICK h \in [OutCells -> Regrid!Shares] :
        /\ to_data' = [c \in OutCells |-> to_data[c] + h[c][2]]
        /\ to_beta' = [c \in OutCells |-> to_beta[c] + h[c][1]]
        /\ given' = [c \in OutCells |->
                [Regrid!before[c] EXCEPT !.w = @ + h[c][1], !.sum = @ + h[c][2], !.slack = @ + Regrid!Away(to_beta'[c]),
                                  !.odd = @ \/ (to_beta'[c] = 0 /\ to_data'[c] # 0)]]
    BY DEF Regrid!Accumulate
<1>1. /\ to_data' = [c \in OutCells |-> to_data[c] + h[c][2]]
      /\ to_beta' = [c \in OutCells |-> to_beta[c] + h[c][1]]
      /\ given' = [c \in OutCells |-> More(Regrid!before[c], to_beta'[c], to_data'[c], h[c][1], h[c][2])]
    BY <1>0 DEF More
<1>2. kind \in Regrid!Averaging /\ step = "resample"
    BY DEF Regrid!Accumulate
<1>3. ASSUME NEW c \in OutCells
      PROVE  /\ h[c][1] \in Int /\ h[c][2] \in Int /\ to_data[c] \in Int /\ to_beta[c] \in Int
             /\ to_data'[c] = to_data[c] + h[c][2] /\ to_beta'[c] = to_beta[c] + h[c][1]
    <2>1. h[c] \in Regrid!Shares
        OBVIOUS
    <2>2. h[c][1] \in Int /\ h[c][2] \in Int
        BY <1>2, <2>1, SharesTyped
    <2> QED BY <1>1, <2>2 DEF Regrid!IInv, Regrid!TypeOK
<1>4. to_data' \in [OutCells -> Int] /\ to_beta' \in [OutCells -> Int]
    BY <1>1, <1>3
<1>5. ASSUME NEW c \in OutCells
      PROVE  /\ given'[c] \in Regrid!Records
             /\ ~lost => /\ Regrid!Adds(to_data'[c], to_beta'[c], given'[c], Regrid!Away(to_beta'[c]))
                         /\ ~given'[c].odd /\ to_beta'[c] = 0 => to_data'[c] = 0
    <2>1. PICK d \in Int, b \in Int, hw \in Int, hs \in Int :
            d = to_data[c] /\ b = to_beta[c] /\ hw = h[c][1] /\ hs = h[c][2]
        BY <1>3
    <2>2. to_data'[c] = d + hs /\ to_beta'[c] = b + hw
        BY <1>3, <2>1
    <2>3. PICK g \in Regrid!Records : g = Regrid!before[c]
        BY BeforeTyped
    <2>4. PICK g2 : g2 = given'[c]
        OBVIOUS
    <2>5. g2 = More(g, b + hw, d + hs, hw, hs)
        BY <1>1, <2>1, <2>2, <2>3, <2>4
    <2>6. /\ g2 \in Regrid!Records
          /\ Regrid!Adds(d, b, g, 0) => Regrid!Adds(d + hs, b + hw, g2, Regrid!Away(b + hw))
          /\ ~g2.odd /\ b + hw = 0 => d + hs = 0
        BY <2>5, AddsMore
    <2>7. ~lost => Regrid!Adds(d, b, g, 0)
        BY <1>2, <2>1, <2>3 DEF Regrid!IInv, Regrid!MemoryKeeps, Regrid!Keeps
    <2> QED BY <2>2, <2>4, <2>6, <2>7
<1>6. given' \in [OutCells -> Regrid!Records]
    BY <1>1, <1>5
<1>7. ~lost => \A c \in OutCells :
                /\ Regrid!Keeps(to_data'[c], to_beta'[c], given'[c], Regrid!Away(to_beta'[c]))
                /\ kind \in Regrid!Averaging /\ ~given'[c].odd /\ to_beta'[c] = 0 => to_data'[c] = 0
    BY <1>2, <1>5 DEF Regrid!Keeps, Regrid!Averaging
<1> QED BY <1>4, <1>6, <1>7, Resampled DEF Regrid!Accumulate

LEMMA RegridKeepLargest ==
    ASSUME Regrid!IInv, Regrid!KeepLargest
    PROVE  Regrid!IInv'
<1> DEFINE taken(found, h) == {c \in found : Regrid!Larger(h[c][2], to_data[c])}
<1>1. PICK found \in SUBSET OutCells : \E h \in [found -> Samples] :
        /\ to_data' = [c \in OutCells |-> IF c \in taken(found, h) THEN h[c][2] ELSE to_data[c]]
        /\ to_beta' = [c \in OutCells |-> IF c \in taken(found, h) THEN 1 ELSE to_beta[c]]
        /\ given' = [c \in OutCells |->
                IF c \in found THEN [Regrid!before[c] EXCEPT !.most = Regrid!Max({@, h[c][2]})] ELSE Regrid!before[c]]
    BY DEF Regrid!KeepLargest
<1>2. PICK h \in [found -> Samples] :
        /\ to_data' = [c \in OutCells |-> IF c \in taken(found, h) THEN h[c][2] ELSE to_data[c]]
        /\ to_beta' = [c \in OutCells |-> IF c \in taken(found, h) THEN 1 ELSE to_beta[c]]
        /\ given' = [c \in OutCells |->
                IF c \in found THEN [Regrid!before[c] EXCEPT !.most = Regrid!Max({@, h[c][2]})] ELSE Regrid!before[c]]
    BY <1>1
<1>3. kind = "modified" /\ step = "resample"
    BY DEF Regrid!KeepLargest
<1>4. \A c \in found : h[c][2] \in Int /\ h[c][2] \in Regrid!Datum
    BY RegridConstants, DatumTyped
<1>5. to_data' \in [OutCells -> Int] /\ to_beta' \in [OutCells -> Int]
    BY <1>2, <1>4 DEF Regrid!IInv, Regrid!TypeOK
<1>6. ASSUME NEW c \in OutCells
      PROVE  /\ given'[c] \in Regrid!Records
             /\ ~lost => Regrid!Largest(to_data'[c], to_beta'[c], given'[c])
    <2>1. PICK g \in Regrid!Records : g = Regrid!before[c]
        BY BeforeTyped
    <2>2. g.most \in Nat
        BY DEF Regrid!Records
    <2>3. ~lost => Regrid!Largest(to_data[c], to_beta[c], g)
        BY <1>3, <2>1 DEF Regrid!IInv, Regrid!MemoryKeeps, Regrid!Keeps
    <2>4. CASE c \notin found
        <3>1. given'[c] = g /\ to_data'[c] = to_data[c] /\ to_beta'[c] = to_beta[c]
            BY <1>2, <2>1, <2>4
        <3> QED BY <2>1, <2>3, <3>1
    <2>5. CASE c \in found
        <3>1. PICK x \in Regrid!Datum : x = h[c][2]
            BY <1>4, <2>5
        <3>2. x \in Int
            BY <3>1, DatumTyped
        <3> DEFINE most == Regrid!Max({g.most, x})
        <3>3. most \in Nat /\ most = IF x > g.most THEN x ELSE g.most
            <4>1. \A y \in {g.most, x} : y <= (IF x > g.most THEN x ELSE g.most)
                BY <2>2, <3>2
            <4> QED BY <2>2, <3>2, <4>1 DEF Regrid!Max
        <3> HIDE DEF most
        <3>4. given'[c] = [g EXCEPT !.most = most]
            BY <1>2, <2>1, <2>5, <3>1 DEF most
        <3>5. given'[c].most = most /\ given'[c] \in Regrid!Records
            BY <2>1, <3>3, <3>4 DEF Regrid!Records
        <3>6. /\ to_data'[c] = IF x > to_data[c] THEN x ELSE to_data[c]
              /\ to_beta'[c] = IF x > to_data[c] THEN 1 ELSE to_beta[c]
            BY <1>2, <2>5, <3>1 DEF Regrid!Larger
        <3> QED BY <2>2, <2>3, <3>1, <3>2, <3>3, <3>5, <3>6 DEF Regrid!Largest
    <2> QED BY <2>4, <2>5
<1>7. given' \in [OutCells -> Regrid!Records]
    BY <1>2, <1>6
<1>8. ~lost => \A c \in OutCells :
                /\ Regrid!Keeps(to_data'[c], to_beta'[c], given'[c], Regrid!Away(to_beta'[c]))
                /\ kind \in Regrid!Averaging /\ ~given'[c].odd /\ to_beta'[c] = 0 => to_data'[c] = 0
    BY <1>3, <1>6 DEF Regrid!Keeps, Regrid!Averaging
<1> QED BY <1>5, <1>7, <1>8, Resampled DEF Regrid!KeepLargest

Meets(g, x, o) == [g EXCEPT !.last = {x}, !.odd = o]
LEMMA MeetsTyped ==
    ASSUME NEW g \in Regrid!Records, NEW x \in Int, NEW o \in BOOLEAN
    PROVE  /\ Meets(g, x, o) \in Regrid!Records
           /\ Meets(g, x, o).last = {x} /\ Meets(g, x, o).odd = o
BY DEF Meets, Regrid!Records

LEMMA RegridNearest ==
    ASSUME Regrid!IInv, Regrid!Nearest
    PROVE  Regrid!IInv'
<1> DEFINE taken(found, h) == {c \in found : Regrid!Replaces(c, h[c][1])}
           strange(c) == preload_data /\ to_beta[c] = 0 /\ to_data[c] # regrid_fill
<1>1. PICK found \in SUBSET OutCells : \E h \in [found -> Samples] :
        /\ to_data' = [c \in OutCells |-> IF c \in taken(found, h) THEN h[c][2] ELSE to_data[c]]
        /\ to_beta' = [c \in OutCells |-> IF c \in taken(found, h) THEN h[c][1] + 10 ELSE to_beta[c]]
        /\ given' = [c \in OutCells |-> IF c \notin found THEN Regrid!before[c]
                                        ELSE Meets(Regrid!before[c], h[c][2], strange(c) /\ h[c][1] > 0)]
    BY DEF Regrid!Nearest, Meets
<1>2. PICK h \in [found -> Samples] :
        /\ to_data' = [c \in OutCells |-> IF c \in taken(found, h) THEN h[c][2] ELSE to_data[c]]
        /\ to_beta' = [c \in OutCells |-> IF c \in taken(found, h) THEN h[c][1] + 10 ELSE to_beta[c]]
        /\ given' = [c \in OutCells |-> IF c \notin found THEN Regrid!before[c]
                                        ELSE Meets(Regrid!before[c], h[c][2], strange(c) /\ h[c][1] > 0)]
    BY <1>1
<1>3. kind = "nearestn" /\ step = "resample"
    BY DEF Regrid!Nearest
<1>4. \A c \in found : h[c][1] \in 0 .. 7 /\ h[c][2] \in Int /\ h[c][2] \in Regrid!Datum
    BY RegridConstants, DatumTyped
<1>5. to_data' \in [OutCells -> Int] /\ to_beta' \in [OutCells -> Int]
    <2>1. to_data \in [OutCells -> Int] /\ to_beta \in [OutCells -> Int]
        BY DEF Regrid!IInv, Regrid!TypeOK
    <2>2. /\ to_data' = [c \in OutCells |-> IF c \in taken(found, h) THEN h[c][2] ELSE to_data[c]]
          /\ to_beta' = [c \in OutCells |-> IF c \in taken(found, h) THEN h[c][1] + 10 ELSE to_beta[c]]
        BY <1>2
    <2> QED BY <1>4, <2>1, <2>2
<1>6. ASSUME NEW c \in OutCells
      PROVE  /\ given'[c] \in Regrid!Records
             /\ ~lost => Regrid!Latest(to_data'[c], to_beta'[c], given'[c])
    <2>1. PICK g \in Regrid!Records : g = Regrid!before[c]
        BY BeforeTyped
    <2>2. ~lost => Regrid!Latest(to_data[c], to_beta[c], g)
        BY <1>3, <2>1 DEF Regrid!IInv, Regrid!MemoryKeeps, Regrid!Keeps
    <2>3. CASE c \notin found
        <3>1. given'[c] = g /\ to_data'[c] = to_data[c] /\ to_beta'[c] = to_beta[c]
            BY <1>2, <2>1, <2>3
        <3> QED BY <2>1, <2>2, <3>1
    <2>4. CASE c \in found
        <3>1. PICK dd \in 0 .. 7, x \in Regrid!Datum : dd = h[c][1] /\ x = h[c][2]
            BY <1>4, <2>4
        <3>2. x \in Int /\ to_beta[c] \in Int
            BY DatumTyped DEF Regrid!IInv, Regrid!TypeOK
        <3>3. PICK o \in BOOLEAN : o = (strange(c) /\ h[c][1] > 0)
            OBVIOUS
        <3>4. given'[c] = Meets(g, x, o)
            BY <1>2, <2>1, <2>4, <3>1, <3>3
        <3>5. given'[c] \in Regrid!Records /\ given'[c].last = {x} /\ given'[c].odd = o
            BY <3>2, <3>4, MeetsTyped
        <3>6. CASE Regrid!Replaces(c, dd)
            <4>1. to_data'[c] = x /\ to_beta'[c] = dd + 10
                BY <1>2, <2>4, <3>1, <3>6
            <4> QED BY <3>1, <3>5, <4>1 DEF Regrid!Latest
        <3>7. CASE ~Regrid!Replaces(c, dd)
            <4>1. to_data'[c] = to_data[c] /\ to_beta'[c] = to_beta[c]
                BY <1>2, <2>4, <3>1, <3>7
            <4>2. /\ preload_data /\ ~(dd <= to_beta[c])
                  /\ ~(to_beta[c] = 0 /\ regrid_fill = to_data[c])
                BY <3>7 DEF Regrid!Replaces, Regrid!GapHere
            <4>3. ASSUME ~lost PROVE to_beta[c] = 0 /\ given'[c].odd
                <5>1. to_beta[c] = 0
                    BY <2>2, <3>2, <4>2, <4>3 DEF Regrid!Latest
                <5>2. strange(c) /\ h[c][1] > 0
                    BY <3>1, <4>2, <5>1
                <5> QED BY <3>3, <3>5, <5>1, <5>2
            <4> QED BY <3>5, <4>1, <4>3 DEF Regrid!Latest
        <3> QED BY <3>6, <3>7
    <2> QED BY <2>3, <2>4
<1>7. given' \in [OutCells -> Regrid!Records]
    <2>1. given' = [c \in OutCells |-> given'[c]]
        BY <1>2
    <2> QED BY <1>6, <2>1
<1>8. ~lost => \A c \in OutCells :
                /\ Regrid!Keeps(to_data'[c], to_beta'[c], given'[c], Regrid!Away(to_beta'[c]))
                /\ kind \in Regrid!Averaging /\ ~given'[c].odd /\ to_beta'[c] = 0 => to_data'[c] = 0
    BY <1>3, <1>6 DEF Regrid!Keeps, Regrid!Averaging
<1> QED BY <1>5, <1>7, <1>8, Resampled DEF Regrid!Nearest

LEMMA NormalizedTyped ==
    ASSUME Regrid!TypeOK, NEW c \in OutCells
    PROVE  Regrid!Normalized(c) \in Int /\ to_data[c] \in Int /\ to_beta[c] \in Int
<1>1. to_data[c] \in Int /\ to_beta[c] \in Int /\ regrid_fill \in Int
    BY RegridConstants DEF Regrid!TypeOK
<1>2. to_beta[c] # 0 => Regrid!Round(to_data[c], to_beta[c]) \in Int
    BY <1>1, RoundNear
<1> QED BY <1>1, <1>2 DEF Regrid!Normalized

LEMMA WrittenTyped ==
    ASSUME Regrid!TypeOK
    PROVE  Regrid!Written \in [OutCells -> Regrid!Datum]
<1>1. \A c \in OutCells : Regrid!Fold(Regrid!Normalized(c)) \in Regrid!Datum
    BY NormalizedTyped, FoldFacts
<1> QED BY <1>1 DEF Regrid!Written

Odder(g, o) == [g EXCEPT !.odd = @ \/ o]
LEMMA OdderTyped ==
    ASSUME NEW g \in Regrid!Records, NEW o \in BOOLEAN
    PROVE  /\ Odder(g, o) \in Regrid!Records
           /\ Odder(g, o).odd = (g.odd \/ o)
           /\ \A f \in {"w", "sum", "slack", "most", "last"} : Odder(g, o)[f] = g[f]
<1>1. PICK e \in BOOLEAN : e = (g.odd \/ o)
    OBVIOUS
<1>2. Odder(g, o) = [g EXCEPT !.odd = e]
    BY <1>1 DEF Odder, Regrid!Records
<1>3. /\ [g EXCEPT !.odd = e] \in Regrid!Records /\ [g EXCEPT !.odd = e].odd = e
      /\ \A f \in {"w", "sum", "slack", "most", "last"} : [g EXCEPT !.odd = e][f] = g[f]
    BY DEF Regrid!Records
<1> QED BY <1>1, <1>2, <1>3

\* What is written for a cell: the mean, rounded once, of what the memory holds.
LEMMA MeanWritten ==
    ASSUME NEW d \in Int, NEW b \in Int, NEW g \in Regrid!Records, NEW g2 \in Regrid!Records, NEW q \in Int,
           Regrid!Adds(d, b, g, Regrid!Away(b)), ~g.odd /\ b = 0 => d = 0,
           b # 0 => q = Regrid!Fold(Regrid!Round(d, b)),
           g2.w = g.w, g2.sum = g.sum, g2.slack = g.slack,
           ~g2.odd => ~g.odd /\ (b # 0 => q = Regrid!Round(d, b))
    PROVE  Regrid!Adds(q * b, b, g2, 0)
<1>1. g.w \in Int /\ g.sum \in Int /\ g.slack \in Nat
    BY DEF Regrid!Records
<1>2. PICK a \in Nat : a = Regrid!Away(b)
    BY DEF Regrid!Away
<1>3. b = g.w
    BY DEF Regrid!Adds
<1>4. ASSUME ~g2.odd
      PROVE  -g.slack <= 2 * (q * b - g.sum) /\ 2 * (q * b - g.sum) <= g.slack
    <2>1. a - g.slack <= 2 * (d - g.sum) /\ 2 * (d - g.sum) <= g.slack - a
        BY <1>2, <1>4 DEF Regrid!Adds
    <2>2. CASE b = 0
        <3>1. d = 0 /\ q * b = 0 /\ a = 0
            BY <1>2, <1>4, <2>2 DEF Regrid!Away
        <3> QED BY <1>1, <2>1, <3>1
    <2>3. CASE b # 0
        <3>1. PICK p \in Int : p = q * b
            OBVIOUS
        <3>2. -a <= 2 * (p - d) /\ 2 * (p - d) <= a
            BY <1>2, <1>4, <2>3, <3>1, RoundNear
        <3> QED BY <1>1, <1>2, <2>1, <3>1, <3>2
    <2> QED BY <2>2, <2>3
<1>5. 0 - g2.slack = -g.slack /\ g2.slack - 0 = g.slack
    BY <1>1
<1> QED BY <1>3, <1>4, <1>5 DEF Regrid!Adds

LEMMA RegridWriteData ==
    ASSUME Regrid!IInv, Regrid!WriteData
    PROVE  Regrid!IInv'
<1> DEFINE o(c) == kind \in Regrid!Averaging /\ to_beta[c] # 0 /\ Regrid!Normalized(c) # Regrid!Fold(Regrid!Normalized(c))
<1>1. given' = [c \in OutCells |-> Odder(given[c], o(c))]
    BY DEF Regrid!WriteData, Odder
<1>2. /\ data_file' = Regrid!Written /\ step' = "beta" /\ step = "write"
      /\ UNCHANGED <<kind, with_z, regrid_ignore_fill, regrid_fill, beta_file, preload_data, to_data, to_beta, runs, lost>>
    BY DEF Regrid!WriteData
<1>3. data_file' \in [OutCells -> Regrid!Datum] /\ data_file' \in [OutCells -> Int]
    BY <1>2, WrittenTyped, DatumTyped DEF Regrid!IInv
<1>4. Regrid!TypeOK'
    BY <1>2, <1>3 DEF Regrid!IInv, Regrid!TypeOK, Regrid!Datum
<1>5. ASSUME NEW c \in OutCells
      PROVE  /\ given[c] \in Regrid!Records
             /\ given'[c] \in Regrid!Records /\ (given'[c].odd <=> given[c].odd \/ o(c))
             /\ \A f \in {"w", "sum", "slack", "most", "last"} : given'[c][f] = given[c][f]
    <2>1. PICK e \in BOOLEAN : e = o(c)
        OBVIOUS
    <2>2. given'[c] = Odder(given[c], e)
        BY <1>1, <2>1
    <2>3. PICK g \in Regrid!Records : g = given[c]
        BY DEF Regrid!IInv
    <2>4. g.odd \in BOOLEAN
        BY DEF Regrid!Records
    <2> HIDE DEF o
    <2> QED BY <2>1, <2>2, <2>3, <2>4, OdderTyped
<1>6. (given \in [OutCells -> Regrid!Records])'
    <2>1. given' = [c \in OutCells |-> given'[c]]
        BY <1>1
    <2> QED BY <1>5, <2>1 DEF Regrid!Records
<1>7. Regrid!FilesSettled' /\ Regrid!OnlyPreloaded'
    BY <1>2 DEF Regrid!FilesSettled, Regrid!OnlyPreloaded
<1>8. ASSUME ~lost, NEW c \in OutCells
      PROVE  /\ Regrid!Keeps(IF kind = "nearestn" THEN data_file'[c] ELSE data_file'[c] * to_beta[c], to_beta[c], given'[c], 0)
             /\ to_beta[c] = 0 => data_file'[c] \in {Regrid!Fold(f) : f \in Fills \cup {0}}
    <2>1. PICK d \in Int, b \in Int, g \in Regrid!Records, g2 \in Regrid!Records, q \in Int :
            d = to_data[c] /\ b = to_beta[c] /\ g = given[c] /\ g2 = given'[c] /\ q = data_file'[c]
        BY <1>3, <1>5, NormalizedTyped DEF Regrid!IInv
    <2>2. Regrid!Keeps(d, b, g, Regrid!Away(b)) /\ (kind \in Regrid!Averaging /\ ~g.odd /\ b = 0 => d = 0)
        BY <1>2, <1>8, <2>1 DEF Regrid!IInv, Regrid!MemoryKeeps
    <2>3. g2.w = g.w /\ g2.sum = g.sum /\ g2.slack = g.slack /\ g2.most = g.most /\ g2.last = g.last
        BY <1>5, <2>1
    <2>4. q = Regrid!Fold(Regrid!Normalized(c))
        BY <1>2, <2>1 DEF Regrid!Written
    <2>5. b = 0 => q \in {Regrid!Fold(f) : f \in Fills \cup {0}}
        <3>1. b = 0 => Regrid!Normalized(c) = regrid_fill
            BY <2>1 DEF Regrid!Normalized
        <3> QED BY <2>4, <3>1 DEF Regrid!IInv, Regrid!TypeOK
    <2>6. ASSUME kind \in Regrid!Averaging PROVE Regrid!Adds(q * b, b, g2, 0)
        <3>1. b # 0 => Regrid!Normalized(c) = Regrid!Round(d, b)
            BY <2>1, <2>6 DEF Regrid!Normalized, Regrid!Averaging
        <3>2. ~g2.odd => ~g.odd /\ (b # 0 => q = Regrid!Round(d, b))
            BY <1>5, <2>1, <2>4, <2>6, <3>1
        <3>3. Regrid!Adds(d, b, g, Regrid!Away(b)) /\ (~g.odd /\ b = 0 => d = 0)
            BY <2>2, <2>6 DEF Regrid!Keeps
        <3>4. b # 0 => q = Regrid!Fold(Regrid!Round(d, b))
            BY <2>4, <3>1
        <3> QED BY <2>3, <3>2, <3>3, <3>4, MeanWritten
    <2>7. ASSUME kind = "modified" PROVE Regrid!Largest(q * b, b, g2)
        <3>1. Regrid!Largest(d, b, g) /\ g.most \in Nat
            BY <2>2, <2>7 DEF Regrid!Keeps, Regrid!Records
        <3>2. CASE g.most > 0
            <4>1. b = 1 /\ d = g.most /\ d \in Regrid!Datum
                BY <3>1, <3>2 DEF Regrid!Largest
            <4>2. Regrid!Round(d, 1) = d
                <5>1. /\ Regrid!Round(d, 1) \in Int
                      /\ -Regrid!Away(1) <= 2 * (Regrid!Round(d, 1) * 1 - d)
                      /\ 2 * (Regrid!Round(d, 1) * 1 - d) <= Regrid!Away(1)
                    BY RoundNear
                <5>2. Regrid!Away(1) = 1
                    BY DEF Regrid!Away
                <5> QED BY <5>1, <5>2
            <4>3. Regrid!Normalized(c) = Regrid!Round(d, 1)
                BY <2>1, <2>7, <4>1 DEF Regrid!Normalized
            <4>4. q = d
                BY <2>4, <4>1, <4>2, <4>3, FoldFacts
            <4>5. q * b = d
                BY <4>1, <4>4
            <4> QED BY <2>3, <3>1, <4>5 DEF Regrid!Largest
        <3>3. CASE ~(g.most > 0)
            <4>1. b = 0 /\ d = 0 /\ g.most = 0 /\ q * b = 0
                BY <3>1, <3>3 DEF Regrid!Largest
            <4> QED BY <2>3, <4>1 DEF Regrid!Largest
        <3> QED BY <3>2, <3>3
    <2>8. ASSUME kind = "nearestn" PROVE Regrid!Latest(q, b, g2)
        <3>1. Regrid!Latest(d, b, g)
            BY <2>2, <2>8 DEF Regrid!Keeps
        <3>2. ~g2.odd => ~g.odd
            BY <1>5, <2>1
        <3>3. CASE b = 0
            BY <2>3, <3>1, <3>2, <3>3 DEF Regrid!Latest
        <3>4. CASE b # 0
            <4>1. d \in Regrid!Datum
                BY <3>1, <3>4 DEF Regrid!Latest
            <4>2. Regrid!Normalized(c) = d
                BY <2>1, <2>8, <3>4 DEF Regrid!Normalized
            <4>3. q = d
                BY <2>4, <4>1, <4>2, FoldFacts
            <4> QED BY <2>3, <3>1, <3>2, <4>3 DEF Regrid!Latest
        <3> QED BY <3>3, <3>4
    <2> QED BY <2>1, <2>5, <2>6, <2>7, <2>8 DEF Regrid!Keeps, Regrid!Averaging
<1>9. Regrid!MemoryKeeps'
    <2>1. ASSUME ~lost, NEW c \in OutCells
          PROVE  Regrid!IsFull(data_file)' /\ Regrid!Settled(c, to_beta[c])'
        <3>1. Regrid!IsFull(data_file)'
            BY <1>3, RegridConstants DEF Regrid!IsFull
        <3>2. kind' = kind /\ to_beta'[c] = to_beta[c]
            BY <1>2
        <3> QED BY <1>8, <2>1, <3>1, <3>2
                DEF Regrid!Settled, Regrid!Keeps, Regrid!Adds, Regrid!Largest, Regrid!Latest, Regrid!Fold
    <2> QED BY <1>2, <2>1 DEF Regrid!MemoryKeeps
<1> QED BY <1>4, <1>6, <1>7, <1>9 DEF Regrid!IInv

\* What a write that fails leaves of a file is cells of the old and of the new one.
LEMMA TornTyped ==
    ASSUME NEW D, NEW old, old \in {Absent, Short} \/ old \in [OutCells -> D],
           NEW new \in [OutCells -> D], NEW f \in Regrid!Torn(old, new)
    PROVE  f \in {Absent, Short} \/ f \in [OutCells -> D]
<1>1. CASE Regrid!IsFull(old)
    <2>1. old \in [OutCells -> D]
        BY <1>1 DEF Regrid!IsFull
    <2>2. PICK part \in SUBSET OutCells : f = [c \in OutCells |-> IF c \in part THEN new[c] ELSE old[c]]
        BY <1>1 DEF Regrid!Torn, Regrid!MixOf
    <2> QED BY <2>1, <2>2
<1>2. CASE ~Regrid!IsFull(old)
    BY <1>2 DEF Regrid!Torn
<1> QED BY <1>1, <1>2

LEMMA RegridWriteDataFails ==
    ASSUME Regrid!IInv, Regrid!WriteDataFails
    PROVE  Regrid!IInv'
<1>1. /\ data_file' \in Regrid!Torn(data_file, Regrid!Written) /\ lost' = TRUE /\ step' = "idle"
      /\ to_data' = Regrid!Zeros /\ to_beta' = Regrid!Zeros
      /\ UNCHANGED <<kind, with_z, regrid_ignore_fill, regrid_fill, beta_file, preload_data, runs, given>>
    BY DEF Regrid!WriteDataFails
<1>2. data_file' \in {Absent, Short} \/ data_file' \in [OutCells -> Regrid!Datum]
    <2>1. Regrid!Written \in [OutCells -> Regrid!Datum]
        BY WrittenTyped DEF Regrid!IInv
    <2>2. data_file \in {Absent, Short} \/ data_file \in [OutCells -> Regrid!Datum]
        BY DEF Regrid!IInv, Regrid!TypeOK, Regrid!Datum
    <2> QED BY <1>1, <2>1, <2>2, TornTyped
<1>3. Regrid!Zeros \in [OutCells -> Int]
    BY DEF Regrid!Zeros
<1>4. Regrid!TypeOK'
    BY <1>1, <1>2, <1>3 DEF Regrid!IInv, Regrid!TypeOK, Regrid!Datum
<1>5. (given \in [OutCells -> Regrid!Records])'
    BY <1>1 DEF Regrid!IInv, Regrid!Records
<1>6. Regrid!FilesSettled' /\ Regrid!OnlyPreloaded' /\ Regrid!MemoryKeeps'
    BY <1>1 DEF Regrid!FilesSettled, Regrid!OnlyPreloaded, Regrid!MemoryKeeps, Regrid!Zeros
<1> QED BY <1>4, <1>5, <1>6 DEF Regrid!IInv

LEMMA RegridWriteBeta ==
    ASSUME Regrid!IInv, Regrid!WriteBeta
    PROVE  Regrid!IInv'
<1>1. /\ step = "beta" /\ step' = "idle" /\ to_data' = Regrid!Zeros /\ to_beta' = Regrid!Zeros
      /\ UNCHANGED <<kind, with_z, regrid_ignore_fill, regrid_fill, data_file, preload_data, runs, given>>
      /\ \/ beta_file' = (IF with_z THEN to_beta ELSE beta_file) /\ lost' = lost
         \/ with_z /\ beta_file' \in Regrid!Torn(beta_file, to_beta) /\ lost' = TRUE
    BY DEF Regrid!WriteBeta
<1>2. to_beta \in [OutCells -> Int] /\ (beta_file \in {Absent, Short} \/ beta_file \in [OutCells -> Int])
    BY DEF Regrid!IInv, Regrid!TypeOK
<1>3. (beta_file' \in {Absent, Short} \/ beta_file' \in [OutCells -> Int]) /\ lost' \in BOOLEAN
    <2>1. CASE beta_file' = (IF with_z THEN to_beta ELSE beta_file) /\ lost' = lost
        BY <1>2, <2>1 DEF Regrid!IInv, Regrid!TypeOK
    <2>2. CASE beta_file' \in Regrid!Torn(beta_file, to_beta) /\ lost' = TRUE
        BY <1>2, <2>2, TornTyped
    <2> QED BY <1>1, <2>1, <2>2
<1>4. Regrid!Zeros \in [OutCells -> Int] /\ Regrid!Zeros' = Regrid!Zeros
    BY DEF Regrid!Zeros
<1>5. Regrid!TypeOK'
    BY <1>1, <1>3, <1>4 DEF Regrid!IInv, Regrid!TypeOK
<1>6. (given \in [OutCells -> Regrid!Records])'
    BY <1>1 DEF Regrid!IInv, Regrid!Records
<1>7. ASSUME ~lost', NEW c \in OutCells
      PROVE  \E b \in Int : Regrid!Settled(c, b)' /\ (with_z => beta_file'[c] = b)
    <2>1. ~lost /\ beta_file' = IF with_z THEN to_beta ELSE beta_file
        BY <1>1, <1>7
    <2>2. PICK b \in Int : b = to_beta[c]
        BY <1>2
    <2>3. Regrid!Settled(c, b)
        BY <1>1, <2>1, <2>2 DEF Regrid!IInv, Regrid!MemoryKeeps
    <2>4. Regrid!Settled(c, b)'
        BY <1>1, <2>3, SettledStays
    <2> QED BY <2>1, <2>2, <2>4
<1>8. Regrid!FilesSettled'
    BY <1>1, <1>4, <1>7 DEF Regrid!FilesSettled
<1>9. Regrid!OnlyPreloaded' /\ Regrid!MemoryKeeps'
    BY <1>1 DEF Regrid!OnlyPreloaded, Regrid!MemoryKeeps
<1> QED BY <1>5, <1>6, <1>8, <1>9 DEF Regrid!IInv

LEMMA RegridStutter ==
    ASSUME Regrid!IInv, UNCHANGED Regrid!regridVars
    PROVE  Regrid!IInv'
<1>1. /\ UNCHANGED <<kind, with_z, regrid_ignore_fill, regrid_fill, data_file, beta_file, step>>
      /\ UNCHANGED <<preload_data, to_data, to_beta, runs, given, lost>>
    BY DEF Regrid!regridVars
<1>2. Regrid!TypeOK' /\ (given \in [OutCells -> Regrid!Records])'
    BY <1>1 DEF Regrid!IInv, Regrid!TypeOK, Regrid!Records
<1>3. Regrid!FilesSettled'
    <2>1. CASE step \in {"idle", "open", "read"}
        BY <1>1, <2>1, FilesStay DEF Regrid!IInv, Regrid!FilesSettled
    <2>2. CASE step \notin {"idle", "open", "read"}
        BY <1>1, <2>2 DEF Regrid!FilesSettled
    <2> QED BY <2>1, <2>2
<1>4. Regrid!OnlyPreloaded' /\ Regrid!MemoryKeeps'
    BY <1>1 DEF Regrid!IInv, Regrid!OnlyPreloaded, Regrid!MemoryKeeps, Regrid!Settled, Regrid!Keeps, Regrid!Adds,
                Regrid!Largest, Regrid!Latest, Regrid!before, Regrid!Nothing, Regrid!Away, Regrid!Averaging,
                Regrid!IsFull, Regrid!Fold
<1> QED BY <1>2, <1>3, <1>4 DEF Regrid!IInv

\* Every step of regrid keeps its invariant.
LEMMA RegridStep == Regrid!IInv /\ [Regrid!Next]_(Regrid!regridVars) => Regrid!IInv'
<1> SUFFICES ASSUME Regrid!IInv, [Regrid!Next]_(Regrid!regridVars) PROVE Regrid!IInv'
    OBVIOUS
<1>1. ASSUME NEW i \in BOOLEAN, NEW f \in Fills, Regrid!Options(i, f) PROVE Regrid!IInv'
    BY <1>1, RegridOptions
<1>2. CASE Regrid!Abort
    BY <1>2, RegridAbort
<1>3. CASE Regrid!OpenFiles
    BY <1>3, RegridOpenFiles
<1>4. CASE Regrid!Read
    BY <1>4, RegridRead
<1>5. CASE Regrid!Accumulate
    BY <1>5, RegridAccumulate
<1>6. CASE Regrid!KeepLargest
    BY <1>6, RegridKeepLargest
<1>7. CASE Regrid!Nearest
    BY <1>7, RegridNearest
<1>8. CASE Regrid!WriteData
    BY <1>8, RegridWriteData
<1>9. CASE Regrid!WriteDataFails
    BY <1>9, RegridWriteDataFails
<1>10. CASE Regrid!WriteBeta
    BY <1>10, RegridWriteBeta
<1>11. CASE UNCHANGED Regrid!regridVars
    BY <1>11, RegridStutter
<1> QED BY <1>1, <1>2, <1>3, <1>4, <1>5, <1>6, <1>7, <1>8, <1>9, <1>10, <1>11 DEF Regrid!Next

\* The data and weight files of regrid say what its runs were given, at every
\* point where a run may start or be aborted.
THEOREM RegridInvariance == Regrid!Spec => []Regrid!IInv
<1> QED BY RegridInit, RegridStep, PTL DEF Regrid!Spec

\* The variables of regrid keep their types: in particular the product of data and
\* weights that a run undoes never leaves the integers, nor a cell its data type.
THEOREM RegridTypeCorrect == Regrid!Spec => []Regrid!TypeOK
<1>1. Regrid!IInv => Regrid!TypeOK
    BY DEF Regrid!IInv
<1> QED BY <1>1, RegridInvariance, PTL

\* Adding inputs one run at a time adds them up: after any number of runs, data times
\* weights are the sum of all that was given but for the rounding of each run.
THEOREM AddUpCorrect == Regrid!Spec => []RunsAddUp
<1>1. ASSUME Regrid!IInv, Regrid!usable, kind \in Regrid!Averaging, NEW c \in OutCells
      PROVE  /\ with_z => beta_file[c] = given[c].w
             /\ ~given[c].odd =>
                    IF given[c].w = 0 THEN data_file[c] \in {Regrid!Fold(f) : f \in Fills \cup {0}}
                    ELSE LET off == 2 * (data_file[c] * given[c].w - given[c].sum)
                         IN  -given[c].slack <= off /\ off <= given[c].slack
    <2>1. PICK b \in Int : Regrid!Settled(c, b) /\ (with_z => beta_file[c] = b)
        BY <1>1 DEF Regrid!IInv, Regrid!FilesSettled, Regrid!usable
    <2>2. kind # "nearestn"
        BY <1>1 DEF Regrid!Averaging
    <2>3. Regrid!Adds(data_file[c] * b, b, given[c], 0) /\ (b = 0 => data_file[c] \in {Regrid!Fold(f) : f \in Fills \cup {0}})
        BY <1>1, <2>1, <2>2 DEF Regrid!Settled, Regrid!Keeps
    <2>4. PICK g \in Regrid!Records : g = given[c]
        BY <1>1 DEF Regrid!IInv
    <2>5. g.slack \in Nat /\ b = g.w
        BY <2>3, <2>4 DEF Regrid!Records, Regrid!Adds
    <2>6. ~g.odd => /\ -g.slack <= 2 * (data_file[c] * g.w - g.sum)
                    /\ 2 * (data_file[c] * g.w - g.sum) <= g.slack
        BY <2>3, <2>4, <2>5 DEF Regrid!Adds
    <2> QED BY <2>1, <2>3, <2>4, <2>5, <2>6
<1>2. Regrid!IInv => RunsAddUp
    BY <1>1 DEF RunsAddUp, Regrid!RunsAddUp
<1> QED BY <1>2, RegridInvariance, PTL

\* The methods that keep one value keep the right one, across runs.
THEOREM OneValueCorrect == Regrid!Spec => []OneValueKept
<1>1. ASSUME Regrid!IInv, Regrid!usable, NEW c \in OutCells
      PROVE  /\ kind = "modified" /\ given[c].most > 0 => data_file[c] = given[c].most
             /\ kind = "nearestn" /\ ~given[c].odd => \A v \in given[c].last : data_file[c] = v
    <2>1. PICK b \in Int : Regrid!Settled(c, b) /\ (with_z => beta_file[c] = b)
        BY <1>1 DEF Regrid!IInv, Regrid!FilesSettled, Regrid!usable
    <2>2. ASSUME kind = "modified", given[c].most > 0 PROVE data_file[c] = given[c].most
        <3>1. Regrid!Largest(data_file[c] * b, b, given[c])
            BY <2>1, <2>2 DEF Regrid!Settled, Regrid!Keeps
        <3>2. b = 1 /\ data_file[c] * b = given[c].most
            BY <2>2, <3>1 DEF Regrid!Largest
        <3>3. data_file[c] \in Int
            BY <1>1, FullTyped DEF Regrid!IInv, Regrid!usable
        <3> QED BY <3>2, <3>3
    <2>3. ASSUME kind = "nearestn", ~given[c].odd PROVE \A v \in given[c].last : data_file[c] = v
        BY <2>1, <2>3 DEF Regrid!Settled, Regrid!Keeps, Regrid!Latest
    <2> QED BY <2>2, <2>3
<1>2. Regrid!IInv => OneValueKept
    BY <1>1 DEF OneValueKept, Regrid!OneValueKept
<1> QED BY <1>2, RegridInvariance, PTL

=============================================================================
