----------------------------- MODULE MapxProofs -----------------------------
(***************************************************************************)
(* What the run of MCMapx checks for longitudes in steps of 30 degrees and *)
(* for some files, proved for any step and any files: the bounds of a map, *)
(* then what maps and grids made from files own, and the integerized       *)
(* sinusoidal projection there and back.                                   *)
(***************************************************************************)
EXTENDS MCMapx, SumProofs

\* The bounds asked for, and what reinit_mapx makes of them.
LeftOf == asked[1] - Turn(asked[1], asked[2])
RightOf == asked[2] - Turn(asked[1], asked[2])
Legal(w, e) == /\ e >= -Half /\ e <= 2 * Half
               /\ w >= -Half /\ w <= 2 * Half
               /\ Abs(e - w) <= 2 * Half

\* The bounds are a function of those asked for; the flag is one too, but not
\* the same the second time, when the bounds are normalized already.
Taken ==
    /\ used = "not" => west = asked[1] /\ east = asked[2]
    /\ used # "not" => /\ Legal(asked[1], asked[2])
                       /\ west = Normalize(LeftOf)
                       /\ east = Normalize(RightOf)
    /\ used = "once" => map_stradles_180 = Straddles(LeftOf, RightOf)
    /\ used = "again" => map_stradles_180 = (east < west)

IInv == TypeOK /\ Taken

-----------------------------------------------------------------------------
LEMMA HalfNat == Half \in Nat /\ Half > 0 /\ Half \in Int /\ 2 * Half \in Int
BY MapxAssumption

\* A longitude that a map may have as a bound is at most one turn away.
LEMMA NormalizeLegal ==
    ASSUME NEW x \in Int, -Half <= x, x <= 2 * Half
    PROVE  /\ Normalize(x) = IF x > Half THEN x - 2 * Half ELSE x
           /\ Normalize(x) \in -Half .. Half
<1>1. ASSUME x > Half PROVE Normalize(x) = x - 2 * Half
    <2> DEFINE y == Half - x
    <2>1. y \in Int /\ y < 0 /\ -(2 * Half) <= y BY <1>1, HalfNat
    <2>2. y % (2 * Half) = y + 2 * Half
        <3>1. \A d \in Nat \ {0}, z \in Int : -d <= z /\ z < 0 => z % d = z + d OBVIOUS
        <3>2. 2 * Half \in Nat \ {0} BY HalfNat
        <3> QED BY <2>1, <3>1, <3>2
    <2> QED BY <1>1, <2>1, <2>2, HalfNat DEF Normalize
<1>2. ASSUME x <= Half PROVE Normalize(x) = x
    BY <1>2, HalfNat DEF Normalize
<1> QED BY <1>1, <1>2, HalfNat

\* Both halves of reinit_mapx on bounds that are legal.
LEMMA LegalTurn ==
    ASSUME NEW w \in Int, NEW e \in Int, Legal(w, e)
    PROVE  LET l == w - Turn(w, e)
               r == e - Turn(w, e)
           IN  /\ l \in Int /\ -Half <= l /\ l <= 2 * Half
               /\ r \in Int /\ -Half <= r /\ r <= 2 * Half
               /\ ~(l > Half /\ r > Half)
               /\ r - l <= 2 * Half /\ l - r <= 2 * Half
BY HalfNat DEF Legal, Turn, Abs

\* Normalized bounds are taken as they are.
LEMMA NormalizedTurn ==
    ASSUME NEW w \in -Half .. Half, NEW e \in -Half .. Half
    PROVE  /\ Turn(w, e) = 0
           /\ Normalize(w) = w /\ Normalize(e) = e
           /\ Straddles(w, e) = (e < w)
BY HalfNat DEF Turn, Normalize, Straddles

LEMMA NewBoundsStep ==
    ASSUME IInv, MapxAssumption, LegalBounds, NewBounds, asked' = asked
    PROVE  /\ Taken'
           /\ west' \in -Half .. Half /\ east' \in -Half .. Half
           /\ map_stradles_180' \in BOOLEAN
           /\ used' \in {"once", "again"}
<1>1. /\ west \in Int /\ east \in Int /\ asked \in Bounds \X Bounds
      /\ used \in {"not", "once", "again"}
      /\ used # "not" => west \in -Half .. Half /\ east \in -Half .. Half
    BY DEF IInv, TypeOK
<1>2. asked[1] \in Int /\ asked[2] \in Int BY <1>1, MapxAssumption
<1>3. CASE used = "not"
    <2>1. west = asked[1] /\ east = asked[2] /\ used' = "once"
        BY <1>3 DEF IInv, Taken, NewBounds
    <2>2. Legal(asked[1], asked[2]) BY <2>1 DEF LegalBounds, Legal
    <2>3. /\ west' = Normalize(LeftOf) /\ east' = Normalize(RightOf)
          /\ map_stradles_180' = Straddles(LeftOf, RightOf)
        BY <2>1 DEF NewBounds, LeftOf, RightOf
    <2>4. /\ LeftOf \in Int /\ -Half <= LeftOf /\ LeftOf <= 2 * Half
          /\ RightOf \in Int /\ -Half <= RightOf /\ RightOf <= 2 * Half
        BY <1>2, <2>2, LegalTurn DEF LeftOf, RightOf
    <2>5. west' \in -Half .. Half /\ east' \in -Half .. Half
        BY <2>3, <2>4, NormalizeLegal
    <2>6. Taken' BY <2>1, <2>2, <2>3 DEF Taken, LeftOf, RightOf
    <2> QED BY <2>1, <2>3, <2>5, <2>6 DEF Straddles
<1>4. CASE used # "not"
    <2>1. /\ Legal(asked[1], asked[2])
          /\ west = Normalize(LeftOf) /\ east = Normalize(RightOf)
          /\ west \in -Half .. Half /\ east \in -Half .. Half
        BY <1>1, <1>4 DEF IInv, Taken
    <2>2. west' = west /\ east' = east /\ used' = "again"
          /\ map_stradles_180' = (east < west)
        BY <1>1, <1>4, <2>1, NormalizedTurn DEF NewBounds
    <2> QED BY <2>1, <2>2 DEF Taken, LeftOf, RightOf
<1> QED BY <1>3, <1>4

LEMMA InitIInv == Init => IInv
<1> SUFFICES ASSUME Init PROVE IInv OBVIOUS
<1>1. west \in Int /\ east \in Int BY MapxAssumption DEF Init
<1>2. asked \in Bounds \X Bounds /\ asked[1] = west /\ asked[2] = east BY DEF Init
<1>3. used = "not" /\ map_stradles_180 \in BOOLEAN BY DEF Init
<1>4. TypeOK BY <1>1, <1>2, <1>3 DEF Init, TypeOK
<1> QED BY <1>2, <1>3, <1>4 DEF IInv, Taken

LEMMA StepIInv == IInv /\ [Next]_vars => IInv'
<1> SUFFICES ASSUME IInv, [Next]_vars PROVE IInv' OBVIOUS
<1> USE MapxAssumption
<1>0. TypeOK BY DEF IInv
<1>1. ASSUME reinit_mapx PROVE IInv'
    <2>1. /\ Taken' /\ west' \in -Half .. Half /\ east' \in -Half .. Half
          /\ map_stradles_180' \in BOOLEAN /\ used' \in {"once", "again"}
        BY <1>1, NewBoundsStep DEF reinit_mapx
    <2>2. x0' \in {UNSET, GIVEN} \cup Position
        BY <1>0, <1>1 DEF reinit_mapx, TypeOK, ProjectedCenter, Position
    <2>3. TypeOK' BY <1>0, <1>1, <2>1, <2>2, HalfNat DEF reinit_mapx, TypeOK
    <2> QED BY <2>1, <2>3 DEF IInv
<1>2. ASSUME ReinitFails PROVE IInv'
    <2>1. /\ Taken' /\ west' \in -Half .. Half /\ east' \in -Half .. Half
          /\ map_stradles_180' \in BOOLEAN /\ used' \in {"once", "again"}
        BY <1>2, NewBoundsStep DEF ReinitFails
    <2>2. TypeOK' BY <1>0, <1>2, <2>1, HalfNat DEF ReinitFails, TypeOK
    <2> QED BY <2>1, <2>2 DEF IInv
<1>3. ASSUME UNCHANGED vars PROVE IInv'
    BY <1>3 DEF vars, IInv, TypeOK, Taken, LeftOf, RightOf
<1>4. ASSUME NEW w \in Bounds, NEW e \in Bounds, SetBounds(w, e) PROVE IInv'
    BY <1>0, <1>4 DEF SetBounds, IInv, TypeOK, Taken
<1>5. ASSUME NEW s \in Scales, SetScale(s) PROVE IInv'
    BY <1>0, <1>5 DEF SetScale, IInv, TypeOK, Taken, LeftOf, RightOf
<1>6. ASSUME NEW p \in Places, Recenter(p) PROVE IInv'
    BY <1>0, <1>6 DEF Recenter, IInv, TypeOK, Taken, LeftOf, RightOf
<1> QED BY <1>1, <1>2, <1>3, <1>4, <1>5, <1>6 DEF Next, ReinitRefused

LEMMA Invariance == Spec => []IInv
<1>1. Init => IInv BY InitIInv
<1>2. IInv /\ [Next]_vars => IInv' BY StepIInv
<1> QED BY <1>1, <1>2, PTL DEF Spec

-----------------------------------------------------------------------------
\* What the invariant says of the bounds, without Normalize.
LEMMA Facts ==
    ASSUME IInv, used # "not"
    PROVE  LET w == asked[1]
               e == asked[2]
               l == LeftOf
               r == RightOf
           IN  /\ w \in Int /\ e \in Int
               /\ l \in Int /\ r \in Int
               /\ -Half <= w /\ w <= 2 * Half /\ -Half <= e /\ e <= 2 * Half
               /\ e - w <= 2 * Half /\ w - e <= 2 * Half
               /\ IF e > Half /\ w > Half THEN l = w - 2 * Half /\ r = e - 2 * Half ELSE l = w /\ r = e
               /\ west = IF l > Half THEN l - 2 * Half ELSE l
               /\ east = IF r > Half THEN r - 2 * Half ELSE r
               /\ used = "once" => (map_stradles_180 <=> (r < l \/ r > Half))
               /\ used = "again" => (map_stradles_180 <=> east < west)
               /\ used \in {"once", "again"}
               /\ map_stradles_180 \in BOOLEAN
<1>1. /\ asked[1] \in Int /\ asked[2] \in Int
      /\ used \in {"once", "again"} /\ map_stradles_180 \in BOOLEAN
    BY MapxAssumption DEF IInv, TypeOK
<1>2. /\ Legal(asked[1], asked[2])
      /\ west = Normalize(LeftOf) /\ east = Normalize(RightOf)
      /\ used = "once" => map_stradles_180 = Straddles(LeftOf, RightOf)
      /\ used = "again" => map_stradles_180 = (east < west)
    BY DEF IInv, Taken
<1>3. /\ LeftOf \in Int /\ -Half <= LeftOf /\ LeftOf <= 2 * Half
      /\ RightOf \in Int /\ -Half <= RightOf /\ RightOf <= 2 * Half
    BY <1>1, <1>2, LegalTurn DEF LeftOf, RightOf
<1>4. /\ west = IF LeftOf > Half THEN LeftOf - 2 * Half ELSE LeftOf
      /\ east = IF RightOf > Half THEN RightOf - 2 * Half ELSE RightOf
    BY <1>2, <1>3, NormalizeLegal
<1>5. IF asked[2] > Half /\ asked[1] > Half
      THEN LeftOf = asked[1] - 2 * Half /\ RightOf = asked[2] - 2 * Half
      ELSE LeftOf = asked[1] /\ RightOf = asked[2]
    BY <1>1, HalfNat DEF LeftOf, RightOf, Turn
<1>6. /\ -Half <= asked[1] /\ asked[1] <= 2 * Half /\ -Half <= asked[2] /\ asked[2] <= 2 * Half
      /\ asked[2] - asked[1] <= 2 * Half /\ asked[1] - asked[2] <= 2 * Half
    BY <1>1, <1>2, HalfNat DEF Legal, Abs
<1> QED BY <1>1, <1>2, <1>3, <1>4, <1>5, <1>6 DEF Straddles

\* An arc that wraps at most once, without the quantifier.
LEMMA ArcFacts ==
    ASSUME NEW w \in Int, NEW e \in Int, NEW lon \in Longitude
    PROVE  OnArc(w, e, lon) <=>
             LET r == IF e < w THEN e + 2 * Half ELSE e
             IN  \/ w <= lon /\ lon <= r
                 \/ w <= lon + 2 * Half /\ lon + 2 * Half <= r
                 \/ w <= lon + 4 * Half /\ lon + 4 * Half <= r
BY HalfNat DEF OnArc, Longitude

LEMMA WindowFromIInv == IInv => WindowRight
<1> SUFFICES ASSUME IInv, used # "not", ~Misread(asked[1], asked[2]), NEW lon \in Longitude
             PROVE  Within(lon) <=> OnArc(asked[1], asked[2], lon)
    BY DEF WindowRight
<1> DEFINE w == asked[1]
           e == asked[2]
<1>1. lon \in Int /\ -Half < lon /\ lon < Half BY HalfNat DEF Longitude
<1>2. w \in Int /\ e \in Int BY Facts
<1>3. CASE used = "once"
    <2>1. ~(w > Half /\ e <= Half) BY <1>3 DEF Misread
    <2> QED BY <1>1, <1>2, <1>3, <2>1, Facts, ArcFacts, HalfNat DEF Within
<1>4. CASE used = "again"
    <2>1. ~(e - w = 2 * Half /\ w # -Half) BY <1>4 DEF Misread
    <2>2. CASE w > Half BY <1>1, <1>2, <1>4, <2>1, <2>2, Facts, ArcFacts, HalfNat DEF Within
    <2>3. CASE w <= Half /\ e > Half BY <1>1, <1>2, <1>4, <2>1, <2>3, Facts, ArcFacts, HalfNat DEF Within
    <2>4. CASE w <= Half /\ e <= Half BY <1>1, <1>2, <1>4, <2>1, <2>4, Facts, ArcFacts, HalfNat DEF Within
    <2> QED BY <1>2, <2>2, <2>3, <2>4, HalfNat
<1> QED BY <1>3, <1>4, Facts

LEMMA GraticuleFromIInv == IInv => GraticuleMatches
<1> SUFFICES ASSUME IInv, used # "not", NEW lon \in Longitude
             PROVE  Within(lon) <=> \E turn \in {0, 2 * Half} :
                                        west <= lon + turn /\ lon + turn <= LastMeridian
    BY DEF GraticuleMatches
<1>1. lon \in Int /\ -Half < lon /\ lon < Half BY HalfNat DEF Longitude
<1>2. /\ west \in Int /\ -Half <= west /\ west <= Half
      /\ east \in Int /\ -Half <= east /\ east <= Half
      /\ map_stradles_180 \in BOOLEAN
    BY HalfNat DEF IInv, TypeOK
<1>3. ~map_stradles_180 => west <= east
    BY Facts, HalfNat
<1>4. CASE map_stradles_180
    BY <1>1, <1>2, <1>4, HalfNat DEF Within, LastMeridian
<1>5. CASE ~map_stradles_180
    BY <1>1, <1>2, <1>3, <1>5, HalfNat DEF Within, LastMeridian
<1> QED BY <1>4, <1>5

LEMMA CoastlinesFromIInv == IInv => CoastlinesCover
<1> SUFFICES ASSUME IInv, used # "not", ~Misread(asked[1], asked[2]),
                    NEW lon \in Longitude, Within(lon)
             PROVE  DrawnArc(lon)
    BY DEF CoastlinesCover
<1>1. lon \in Int /\ west \in Int /\ east \in Int /\ map_stradles_180 \in BOOLEAN
    BY HalfNat DEF Longitude, IInv, TypeOK
<1>2. CASE map_stradles_180
    <2>1. east <= west
        <3>1. CASE used = "again" BY <1>1, <1>2, <3>1, Facts
        <3>2. CASE used = "once"
            <4>1. ~(asked[1] > Half /\ asked[2] <= Half) BY <3>2 DEF Misread
            <4> QED BY <1>1, <1>2, <3>2, <4>1, Facts, HalfNat
        <3> QED BY <3>1, <3>2, Facts
    <2> QED BY <1>1, <1>2, <2>1 DEF Within, DrawnArc
<1>3. CASE ~map_stradles_180
    BY <1>1, <1>3 DEF Within, DrawnArc
<1> QED BY <1>2, <1>3

\* The members of mapx_class have their types, and bounds that were taken are
\* normalized.
THEOREM TypeCorrect == Spec => []TypeOK
<1>1. IInv => TypeOK BY DEF IInv
<1> QED BY <1>1, Invariance, PTL

\* within_mapx accepts what lies between the bounds the client set, however
\* fine the longitudes are and whatever was called before.
THEOREM WindowCorrect == Spec => []WindowRight
BY WindowFromIInv, Invariance, PTL

\* The graticule covers the window of the map and nothing else.
THEOREM GraticuleCorrect == Spec => []GraticuleMatches
BY GraticuleFromIInv, Invariance, PTL

\* The coastlines that mapenum draws cover the window of the map.
THEOREM CoastlinesCorrect == Spec => []CoastlinesCover
BY CoastlinesFromIInv, Invariance, PTL

-----------------------------------------------------------------------------
(***************************************************************************)
(* Maps and grids made from files.                                         *)
(***************************************************************************)

LEMMA LifeConstants ==
    /\ \A kind \in Life!Resources, n \in Nat : <<kind, n>> # NULL
    /\ HalfTurn \in Nat \ {0} /\ NRowMax \in Nat
    /\ \A n \in 2 .. NRowMax : \A i \in 0 .. n \div 2 - 1 : Columns(n, i) \in Int /\ Even(n, i) \in Int
    /\ \A t \in DOMAIN Num : Num[t] \in Int
    /\ NewMeridians \subseteq Int
<1>1. NULL \notin Life!Resources \X Nat
    BY LifeHolds DEF Life!MapLifeAssumption
<1>2. \A kind \in Life!Resources, n \in Nat : <<kind, n>> \in Life!Resources \X Nat
    OBVIOUS
<1>3. /\ HalfTurn \in Nat \ {0} /\ NRowMax \in Nat
      /\ \A n \in 2 .. NRowMax : \A i \in 0 .. n \div 2 - 1 : Columns(n, i) \in Int /\ Even(n, i) \in Int
    BY LifeHolds DEF Life!MapLifeAssumption
<1>4. /\ \A t \in DOMAIN Num : Num[t] \in Int
      /\ NewMeridians \subseteq Int
    BY LifeHolds DEF Life!MapLifeAssumption
<1> QED BY <1>1, <1>2, <1>3, <1>4

\* In the instance the sets and sequences are the same.
LEMMA LifeSets ==
    ASSUME NEW S
    PROVE  Life!IsFiniteSet(S) <=> IsFiniteSet(S)
BY DEF Life!IsFiniteSet, IsFiniteSet

LEMMA LifeCardinality ==
    ASSUME NEW S
    PROVE  Life!Cardinality(S) = Cardinality(S)
BY DEF Life!Cardinality, Cardinality

\* The least element of a set of integers.
LEMMA MinIs ==
    ASSUME NEW S \in SUBSET Int, IsFiniteSet(S), S # {}
    PROVE  Life!Min(S) \in S /\ \A x \in S : Life!Min(S) <= x
<1> DEFINE id == [x \in S |-> x]
<1>1. \A x \in S : id[x] \in Int
    OBVIOUS
<1> HIDE DEF id
<1>2. \E m \in S : \A x \in S : id[m] <= id[x]
    BY <1>1, LeastAt
<1>3. \E m \in S : \A x \in S : m <= x
    BY <1>2 DEF id
<1> QED BY <1>3 DEF Life!Min

\* What is allocated was not there before.
LEMMA Fresh ==
    ASSUME NEW h, IsFiniteSet(h.live), NEW kind \in Life!Resources
    PROVE  /\ Life!Got(h, kind) \notin h.live
           /\ Life!Got(h, kind) # NULL
           /\ Life!Got(h, kind)[1] = kind
<1> DEFINE c == Cardinality(h.live)
           N == {n \in 1 .. c + 1 : <<kind, n>> \notin h.live}
           f == [n \in 1 .. c + 1 |-> <<kind, n>>]
<1>1. c \in Nat
    BY FS_CardinalityType
<1>2. IsFiniteSet(1 .. c + 1) /\ Cardinality(1 .. c + 1) = c + 1
    BY <1>1, FS_Interval
<1>3. N # {}
    <2> SUFFICES ASSUME N = {} PROVE FALSE
        OBVIOUS
    <2>1. f \in [1 .. c + 1 -> h.live]
        OBVIOUS
    <2>2. \A x, y \in 1 .. c + 1 : x # y => f[x] # f[y]
        OBVIOUS
    <2>3. Cardinality(h.live) < Cardinality(1 .. c + 1)
        BY <1>1, <1>2
    <2> HIDE DEF f, N
    <2> QED BY <1>2, <2>1, <2>2, <2>3, FS_PigeonHole
<1>4. N \in SUBSET (1 .. c + 1) /\ N \in SUBSET Int
    BY <1>1
<1>5. IsFiniteSet(N)
    BY <1>2, <1>4, FS_Subset
<1>6. Life!Min(N) \in N
    <2> HIDE DEF N
    <2> QED BY <1>3, <1>4, <1>5, MinIs
<1>7. Life!Got(h, kind) = <<kind, Life!Min(N)>>
    BY LifeCardinality DEF Life!Got
<1>8. PICK n \in 1 .. c + 1 : Life!Got(h, kind) = <<kind, n>> /\ <<kind, n>> \notin h.live
    BY <1>6, <1>7
<1> QED BY <1>1, <1>8, LifeConstants

-----------------------------------------------------------------------------
\* What the members M of an object hold.
Holds(o, M) == {o[k] : k \in M} \ {NULL}
Members(o, M) == M \subseteq DOMAIN o /\ M \subseteq Life!Resources /\ \A k \in M : o[k] # NULL => o[k][1] = k

\* Nothing was freed twice, what o holds and, apart from it, R is there, and what is
\* there beyond is of the kinds K.
Fine(h, o, M, R, K) ==
    /\ ~h.bad /\ IsFiniteSet(h.live)
    /\ Members(o, M)
    /\ Holds(o, M) \subseteq h.live /\ R \subseteq h.live /\ Holds(o, M) \cap R = {}
    /\ NULL \notin R
    /\ \A x \in h.live : x \in Holds(o, M) \/ x \in R \/ x[1] \in K

\* An object with the same of its members.
LEMMA FineSame ==
    ASSUME NEW h, NEW o, NEW p, NEW M, NEW R, NEW K,
           Fine(h, o, M, R, K), M \subseteq DOMAIN p, \A k \in M : p[k] = o[k]
    PROVE  Fine(h, p, M, R, K) /\ Holds(p, M) = Holds(o, M)
<1>1. Holds(p, M) = Holds(o, M)
    BY DEF Holds
<1>2. Members(p, M)
    BY DEF Fine, Members
<1> QED BY <1>1, <1>2 DEF Fine

\* More kinds may be lost.
LEMMA FineKinds ==
    ASSUME NEW h, NEW o, NEW M, NEW R, NEW K, NEW L,
           Fine(h, o, M, R, K), K \subseteq L
    PROVE  Fine(h, o, M, R, L)
BY DEF Fine

\* Two objects, one seen from the other.
LEMMA FineSwap ==
    ASSUME NEW h, NEW o, NEW M, NEW p, NEW N, NEW R, NEW K,
           Fine(h, o, M, R \cup Holds(p, N), K), Members(p, N), R \cap Holds(p, N) = {}
    PROVE  Fine(h, p, N, R \cup Holds(o, M), K)
<1>1. NULL \notin Holds(o, M)
    BY DEF Holds
<1> QED BY <1>1 DEF Fine

LEMMA GiveIs ==
    ASSUME NEW s, NEW k, k \in DOMAIN s.o
    PROVE  /\ Life!Give(s, k).h.live = s.h.live \cup {Life!Got(s.h, k)}
           /\ Life!Give(s, k).h.bad = s.h.bad
           /\ DOMAIN Life!Give(s, k).o = DOMAIN s.o
           /\ Life!Give(s, k).o[k] = Life!Got(s.h, k)
           /\ \A j \in DOMAIN s.o : j # k => Life!Give(s, k).o[j] = s.o[j]
<1>1. Life!Give(s, k) = [h |-> Life!Alloc(s.h, k), o |-> [s.o EXCEPT ![k] = Life!Got(s.h, k)]]
    BY DEF Life!Give
<1>2. Life!Give(s, k).h = [live |-> s.h.live \cup {Life!Got(s.h, k)}, bad |-> s.h.bad]
    BY <1>1 DEF Life!Alloc
<1> QED BY <1>1, <1>2

\* A member that held nothing gets a new resource.
LEMMA GiveFine ==
    ASSUME NEW s, NEW k, NEW M, NEW R, NEW K,
           Fine(s.h, s.o, M, R, K), k \in M, s.o[k] = NULL
    PROVE  /\ Fine(Life!Give(s, k).h, Life!Give(s, k).o, M, R, K)
           /\ Life!Give(s, k).o[k] # NULL
<1> DEFINE r == Life!Give(s, k)
           got == Life!Got(s.h, k)
<1>1. k \in DOMAIN s.o /\ k \in Life!Resources /\ IsFiniteSet(s.h.live)
    BY DEF Fine, Members
<1>2. got \notin s.h.live /\ got # NULL /\ got[1] = k
    BY <1>1, Fresh
<1>3. /\ r.h.live = s.h.live \cup {got} /\ r.h.bad = s.h.bad
      /\ DOMAIN r.o = DOMAIN s.o /\ r.o[k] = got
      /\ \A j \in DOMAIN s.o : j # k => r.o[j] = s.o[j]
    BY <1>1, GiveIs
<1> HIDE DEF r, got
<1>4. M \subseteq DOMAIN s.o /\ M \subseteq Life!Resources /\ \A j \in M : s.o[j] # NULL => s.o[j][1] = j
    BY DEF Fine, Members
<1>5. Holds(r.o, M) = Holds(s.o, M) \cup {got}
    BY <1>2, <1>3, <1>4 DEF Holds
<1>6. Members(r.o, M)
    BY <1>2, <1>3, <1>4 DEF Members
<1>7. IsFiniteSet(r.h.live)
    BY <1>1, <1>3, FS_AddElement
<1>8. Fine(r.h, r.o, M, R, K)
    BY <1>2, <1>3, <1>5, <1>6, <1>7 DEF Fine
<1> QED BY <1>2, <1>3, <1>8 DEF r

\* Resources that are there, each once, are freed.
LEMMA FreeAllIs ==
    ASSUME NEW h, NEW rs, NEW n \in Nat, ~h.bad, DOMAIN rs = 1 .. n,
           \A i \in DOMAIN rs : rs[i] # NULL => rs[i] \in h.live,
           \A i, j \in DOMAIN rs : i # j /\ rs[i] # NULL => rs[i] # rs[j]
    PROVE  /\ ~Life!FreeAll(h, rs).bad
           /\ Life!FreeAll(h, rs).live = h.live \ {rs[i] : i \in DOMAIN rs}
<1>1. Life!Range(rs) = {rs[i] : i \in DOMAIN rs}
    BY DEF Life!Range
<1>2. ASSUME NEW i \in DOMAIN rs, rs[i] # NULL
      PROVE  rs[i] \in h.live \ {rs[j] : j \in 1 .. i - 1}
    <2> SUFFICES ASSUME NEW j \in 1 .. i - 1, rs[i] = rs[j] PROVE FALSE
        BY <1>2
    <2>1. j # i /\ j \in DOMAIN rs
        OBVIOUS
    <2> QED BY <1>2, <2>1
<1> QED BY <1>1, <1>2 DEF Life!FreeAll

\* rs is what the members F of an object hold, in the order ks of the members.
Listed(rs, ks, n, F, o) ==
    /\ n \in Nat /\ DOMAIN rs = 1 .. n
    /\ \A i \in 1 .. n : ks[i] \in F /\ rs[i] = o[ks[i]]
    /\ \A i, j \in 1 .. n : i # j => ks[i] # ks[j]
    /\ \A k \in F : \E i \in 1 .. n : ks[i] = k

\* They are freed, one after the other; what stays of the object is p.
LEMMA FreeFine ==
    ASSUME NEW h, NEW o, NEW M, NEW R, NEW K, Fine(h, o, M, R, K),
           NEW rs, NEW ks, NEW n, NEW F, Listed(rs, ks, n, F, o), F \subseteq M,
           NEW p, NEW N, Members(p, N), Holds(p, N) = Holds(o, M \ F)
    PROVE  Fine(Life!FreeAll(h, rs), p, N, R, K)
<1> DEFINE freed == {rs[i] : i \in 1 .. n}
           r == Life!FreeAll(h, rs)
<1>1. /\ M \subseteq DOMAIN o /\ M \subseteq Life!Resources /\ \A k \in M : o[k] # NULL => o[k][1] = k
      /\ ~h.bad /\ IsFiniteSet(h.live)
      /\ Holds(o, M) \subseteq h.live /\ R \subseteq h.live /\ Holds(o, M) \cap R = {}
      /\ \A x \in h.live : x \in Holds(o, M) \/ x \in R \/ x[1] \in K
    BY DEF Fine, Members
<1>0. /\ n \in Nat /\ DOMAIN rs = 1 .. n
      /\ \A i \in 1 .. n : ks[i] \in F /\ rs[i] = o[ks[i]]
      /\ \A i, j \in 1 .. n : i # j => ks[i] # ks[j]
      /\ \A k \in F : \E i \in 1 .. n : ks[i] = k
    BY DEF Listed
<1>2. ASSUME NEW i \in 1 .. n, rs[i] # NULL
      PROVE  rs[i] \in Holds(o, M) /\ rs[i][1] = ks[i]
    BY <1>0, <1>1, <1>2 DEF Holds
<1>3. ASSUME NEW i \in 1 .. n, NEW j \in 1 .. n, i # j, rs[i] # NULL
      PROVE  rs[i] # rs[j]
    <2> SUFFICES ASSUME rs[i] = rs[j] PROVE FALSE
        OBVIOUS
    <2>1. rs[i][1] = ks[i] /\ rs[j][1] = ks[j]
        BY <1>2, <1>3
    <2> QED BY <1>0, <1>3, <2>1
<1>4. ~r.bad /\ r.live = h.live \ freed
    <2>1. \A i \in DOMAIN rs : rs[i] # NULL => rs[i] \in h.live
        BY <1>0, <1>1, <1>2
    <2>2. \A i, j \in DOMAIN rs : i # j /\ rs[i] # NULL => rs[i] # rs[j]
        BY <1>0, <1>3
    <2>3. ~r.bad /\ r.live = h.live \ {rs[i] : i \in DOMAIN rs}
        BY <1>0, <1>1, <2>1, <2>2, FreeAllIs
    <2> QED BY <1>0, <2>3
<1> HIDE DEF r
<1>5. Holds(p, N) = Holds(o, M) \ freed
    <2>1. ASSUME NEW k \in M, o[k] # NULL
          PROVE  o[k] \in freed <=> k \in F
        <3>1. ASSUME NEW i \in 1 .. n, ks[i] = k PROVE rs[i] = o[k]
            BY <1>0, <3>1
        <3>2. ASSUME NEW i \in 1 .. n, rs[i] = o[k] PROVE ks[i] = k
            BY <1>1, <1>2, <2>1, <3>2
        <3> QED BY <1>0, <3>1, <3>2
    <2>2. \A x : x \in Holds(p, N) <=> \E k \in M : x = o[k] /\ x # NULL /\ k \notin F
        BY DEF Holds
    <2>3. \A x : x \in Holds(o, M) <=> \E k \in M : x = o[k] /\ x # NULL
        BY DEF Holds
    <2>4. \A k \in M : o[k] # NULL => (o[k] \in freed <=> k \in F)
        BY <2>1
    <2> HIDE DEF freed
    <2>5. \A x : x \in Holds(p, N) <=> x \in Holds(o, M) /\ x \notin freed
        BY <2>2, <2>3, <2>4
    <2> QED BY <2>5
<1>6. \A x \in freed : x # NULL => x \in Holds(o, M)
    BY <1>2
<1>7. NULL \notin Holds(o, M) /\ NULL \notin R
    BY DEF Holds, Fine
<1> HIDE DEF freed
<1>8. IsFiniteSet(r.live)
    BY <1>1, <1>4, FS_Subset
<1> QED BY <1>1, <1>4, <1>5, <1>6, <1>7, <1>8 DEF Fine, r

-----------------------------------------------------------------------------
\* Maps.

\* An object that holds nothing.
LEMMA NoMapMembers ==
    /\ Life!MapMembers \subseteq DOMAIN Life!NoMap
    /\ \A k \in Life!MapMembers : Life!NoMap[k] = NULL
BY DEF Life!NoMap, Life!MapMembers

LEMMA NoMapHoldsNone ==
    /\ Members(Life!NoMap, Life!MapMembers)
    /\ Holds(Life!NoMap, Life!MapMembers) = {}
<1>1. /\ Life!MapMembers \subseteq DOMAIN Life!NoMap
      /\ \A k \in Life!MapMembers : Life!NoMap[k] = NULL
    BY NoMapMembers
<1>2. Life!MapMembers \subseteq Life!Resources
    BY DEF Life!Resources
<1> QED BY <1>1, <1>2 DEF Members, Holds

LEMMA CloseFine ==
    ASSUME NEW h, NEW m, NEW R, NEW K, Fine(h, m, Life!MapMembers, R, K),
           m.self = NULL => Holds(m, Life!MapMembers) = {}
    PROVE  Fine(Life!close_mapx(h, m), Life!NoMap, Life!MapMembers, R, K)
<1>1. CASE m.self = NULL
    <2>1. Holds(m, Life!MapMembers) = {} /\ Life!close_mapx(h, m) = h
        BY <1>1 DEF Life!close_mapx
    <2> QED BY <2>1, NoMapHoldsNone DEF Fine
<1>2. CASE m.self # NULL
    <2> DEFINE rs == <<m.projection_name, m.mpp_file, m.mpp_filename, m.isin_row, m.isin_data, m.self>>
               ks == <<"projection_name", "mpp_file", "mpp_filename", "isin_row", "isin_data", "self">>
    <2>1. Life!close_mapx(h, m) = Life!FreeAll(h, rs)
        BY <1>2 DEF Life!close_mapx
    <2>2. Listed(rs, ks, 6, Life!MapMembers, m)
        <3>1. 6 \in Nat /\ DOMAIN rs = 1 .. 6
            OBVIOUS
        <3>2. \A i \in 1 .. 6 : ks[i] \in Life!MapMembers /\ rs[i] = m[ks[i]]
            BY DEF Life!MapMembers
        <3>3. \A i, j \in 1 .. 6 : i # j => ks[i] # ks[j]
            OBVIOUS
        <3>4. /\ ks[1] = "projection_name" /\ ks[2] = "mpp_file" /\ ks[3] = "mpp_filename"
              /\ ks[4] = "isin_row" /\ ks[5] = "isin_data" /\ ks[6] = "self"
            OBVIOUS
        <3> HIDE DEF rs, ks
        <3>5. \A k \in Life!MapMembers : \E i \in 1 .. 6 : ks[i] = k
            BY <3>4 DEF Life!MapMembers
        <3> QED BY <3>1, <3>2, <3>3, <3>5 DEF Listed
    <2> HIDE DEF rs, ks
    <2>3. Holds(Life!NoMap, Life!MapMembers) = Holds(m, Life!MapMembers \ Life!MapMembers)
        BY NoMapHoldsNone DEF Holds
    <2>4. Members(Life!NoMap, Life!MapMembers)
        BY NoMapHoldsNone
    <2>5. Fine(Life!FreeAll(h, rs), Life!NoMap, Life!MapMembers, R, K)
        BY <2>2, <2>3, <2>4, FreeFine
    <2> QED BY <2>1, <2>5
<1> QED BY <1>1, <1>2

\* A heap and a map, and what of the map its initialisation leaves alone.
HeapAndMap(s) == {"h", "o"} \subseteq DOMAIN s /\ DOMAIN s.o = DOMAIN Life!NoMap
Alike(s, t, fields) == t.h = s.h /\ HeapAndMap(t) /\ \A k \in fields : t.o[k] = s.o[k]
Lasting == Life!MapMembers \cup {"name", "table"}

LEMMA LastingFields ==
    /\ Lasting \subseteq DOMAIN Life!NoMap /\ Life!MapMembers \subseteq Lasting
    /\ {"name", "table", "lon0", "false_easting", "nzone", "justify", "Rg", "lat1", "x0", "y0"} \subseteq DOMAIN Life!NoMap
    /\ {"Rg", "lat1", "x0", "y0", "zone", "lat0", "lon0", "center_lat", "center_lon", "false_easting"} \cap Lasting = {}
BY DEF Lasting, Life!MapMembers, Life!NoMap

LEMMA ScaledAlike ==
    ASSUME NEW s, HeapAndMap(s), NEW v
    PROVE  Alike(s, [s EXCEPT !.o.Rg = v], DOMAIN Life!NoMap \ {"Rg"})
<1> DEFINE t == [s EXCEPT !.o.Rg = v]
<1>1. {"h", "o"} \subseteq DOMAIN s /\ DOMAIN s.o = DOMAIN Life!NoMap
    BY DEF HeapAndMap
<1>2. t.h = s.h /\ DOMAIN t = DOMAIN s /\ t.o = [s.o EXCEPT !.Rg = v]
    BY <1>1
<1> HIDE DEF t
<1>3. DOMAIN t.o = DOMAIN s.o /\ \A k \in DOMAIN s.o : k # "Rg" => t.o[k] = s.o[k]
    BY <1>2
<1>4. HeapAndMap(t)
    BY <1>1, <1>2, <1>3 DEF HeapAndMap
<1> QED BY <1>1, <1>2, <1>3, <1>4 DEF Alike, t

LEMMA CenteredAlike ==
    ASSUME NEW r, HeapAndMap(r)
    PROVE  /\ Alike(r, Life!Centered(r), Lasting)
           /\ Life!Centered(r).ok = r.ok
           /\ r.o.name # "CYLINDRICALEQUIDISTANT" => Life!Centered(r) = r
<1> DEFINE xy == Life!cylindrical_equidistant(r.o, r.o.center_lat, r.o.center_lon, 1)
           t == [r EXCEPT !.o.x0 = xy[1], !.o.y0 = xy[2]]
<1>1. {"h", "o"} \subseteq DOMAIN r /\ DOMAIN r.o = DOMAIN Life!NoMap
    BY DEF HeapAndMap
<1>2. Life!Centered(r) = t \/ Life!Centered(r) = r
    BY DEF Life!Centered
<1>3. r.o.name # "CYLINDRICALEQUIDISTANT" => Life!Centered(r) = r
    BY DEF Life!Centered
<1> HIDE DEF xy
<1>4. /\ t.h = r.h /\ t.ok = r.ok /\ DOMAIN t = DOMAIN r
      /\ t.o = [[r.o EXCEPT !.x0 = xy[1]] EXCEPT !.y0 = xy[2]]
    BY <1>1
<1> HIDE DEF t
<1>5. DOMAIN t.o = DOMAIN r.o /\ \A k \in DOMAIN r.o : k \notin {"x0", "y0"} => t.o[k] = r.o[k]
    BY <1>4
<1>6. HeapAndMap(t)
    BY <1>1, <1>4, <1>5 DEF HeapAndMap
<1>7. Alike(r, t, Lasting)
    BY <1>1, <1>4, <1>5, <1>6, LastingFields DEF Alike
<1>8. Alike(r, r, Lasting)
    BY DEF Alike
<1> QED BY <1>2, <1>3, <1>4, <1>7, <1>8

LEMMA OutcomeAlike ==
    ASSUME NEW s, HeapAndMap(s)
    PROVE  /\ Alike(s, Life!Done(s), DOMAIN Life!NoMap) /\ Life!Done(s).ok = TRUE
           /\ Alike(s, Life!Error(s), DOMAIN Life!NoMap) /\ Life!Error(s).ok = FALSE
BY DEF HeapAndMap, Alike, Life!Done, Life!Error

LEMMA AlikeTwice ==
    ASSUME NEW s, NEW t, NEW u, NEW F, NEW G, NEW E, Alike(s, t, F), Alike(t, u, G), E \subseteq F \cap G
    PROVE  Alike(s, u, E)
BY DEF Alike

LEMMA AlikeLess ==
    ASSUME NEW s, NEW t, NEW F, NEW E, Alike(s, t, F), E \subseteq F
    PROVE  Alike(s, t, E)
BY DEF Alike

LEMMA CylinderAlike ==
    ASSUME NEW s, HeapAndMap(s)
    PROVE  Alike(s, Life!init_cylindrical_equidistant(s), Lasting)
<1> DEFINE lat1 == IF s.o.lat1 = 999 THEN 0 ELSE s.o.lat1
           t == [s EXCEPT !.o.lat1 = lat1]
<1>1. {"h", "o"} \subseteq DOMAIN s /\ DOMAIN s.o = DOMAIN Life!NoMap
    BY DEF HeapAndMap
<1>2. Life!init_cylindrical_equidistant(s) = Life!Done(t)
    BY DEF Life!init_cylindrical_equidistant
<1> HIDE DEF lat1
<1>3. t.h = s.h /\ DOMAIN t = DOMAIN s /\ t.o = [s.o EXCEPT !.lat1 = lat1]
    BY <1>1
<1> HIDE DEF t
<1>4. DOMAIN t.o = DOMAIN s.o /\ \A k \in DOMAIN s.o : k # "lat1" => t.o[k] = s.o[k]
    BY <1>3
<1>5. HeapAndMap(t)
    BY <1>1, <1>3, <1>4 DEF HeapAndMap
<1>6. Alike(s, t, Lasting)
    BY <1>1, <1>3, <1>4, <1>5, LastingFields DEF Alike
<1>7. Alike(t, Life!Done(t), DOMAIN Life!NoMap)
    BY <1>5, OutcomeAlike
<1> QED BY <1>2, <1>6, <1>7, LastingFields, AlikeTwice

LEMMA ZoneAlike ==
    ASSUME NEW s, HeapAndMap(s), NEW fault
    PROVE  Alike(s, Life!init_universal_transverse_mercator(s), Lasting)
<1> DEFINE t == [s EXCEPT !.o = Life!process_utm_zone(@)]
<1>1. {"h", "o"} \subseteq DOMAIN s /\ DOMAIN s.o = DOMAIN Life!NoMap
    BY DEF HeapAndMap
<1>2. CASE Life!ZoneBad(s.o)
    <2>1. Life!init_universal_transverse_mercator(s) = Life!Error(s)
        BY <1>2 DEF Life!init_universal_transverse_mercator
    <2>2. Alike(s, Life!Error(s), DOMAIN Life!NoMap)
        BY OutcomeAlike
    <2> QED BY <2>1, <2>2, LastingFields, AlikeLess
<1>3. CASE ~Life!ZoneBad(s.o)
    <2>1. Life!init_universal_transverse_mercator(s) = Life!Done(t)
        BY <1>3 DEF Life!init_universal_transverse_mercator
    <2>2. t.h = s.h /\ DOMAIN t = DOMAIN s /\ t.o = Life!process_utm_zone(s.o)
        BY <1>1
    <2> HIDE DEF t
    <2>3. PICK zone, lon0, lat, lon, easting : t.o = Life!Zoned(s.o, zone, lon0, lat, lon, easting)
        BY <2>2 DEF Life!process_utm_zone
    <2> DEFINE a == [s.o EXCEPT !.zone = zone, !.lat0 = 0]
               b == [a EXCEPT !.lon0 = lon0, !.center_lat = lat]
               c == [b EXCEPT !.center_lon = lon, !.false_easting = easting]
    <2>4. /\ DOMAIN t.o = DOMAIN s.o
          /\ \A k \in DOMAIN s.o :
                k \notin {"zone", "lat0", "lon0", "center_lat", "center_lon", "false_easting"} => t.o[k] = s.o[k]
        <3>0. t.o = c
            BY <2>3, Zenon DEF Life!Zoned
        <3>1. DOMAIN a = DOMAIN s.o /\ \A k \in DOMAIN s.o : k \notin {"zone", "lat0"} => a[k] = s.o[k]
            OBVIOUS
        <3> HIDE DEF a
        <3>2. DOMAIN b = DOMAIN a /\ \A k \in DOMAIN a : k \notin {"lon0", "center_lat"} => b[k] = a[k]
            OBVIOUS
        <3> HIDE DEF b
        <3>3. DOMAIN c = DOMAIN b /\ \A k \in DOMAIN b : k \notin {"center_lon", "false_easting"} => c[k] = b[k]
            OBVIOUS
        <3> HIDE DEF c
        <3> QED BY <3>0, <3>1, <3>2, <3>3
    <2>5. HeapAndMap(t)
        BY <1>1, <2>2, <2>4 DEF HeapAndMap
    <2>6. Alike(s, t, Lasting)
        BY <1>1, <2>2, <2>4, <2>5, LastingFields DEF Alike
    <2>7. Alike(t, Life!Done(t), DOMAIN Life!NoMap)
        BY <2>5, OutcomeAlike
    <2> QED BY <2>1, <2>6, <2>7, LastingFields, AlikeTwice
<1> QED BY <1>2, <1>3

\* A map of another projection keeps what it holds.
LEMMA ReinitOther ==
    ASSUME NEW s, HeapAndMap(s), s.o.name # "INTEGERIZEDSINUSOIDAL", NEW fault
    PROVE  Alike(s, Life!reinit_mapx(s, fault), Lasting)
<1> DEFINE t == [s EXCEPT !.o.Rg = s.o.radius \div s.o.scale]
           r == Life!Initialized(t, fault)
<1>1. Alike(s, t, DOMAIN Life!NoMap \ {"Rg"})
    BY ScaledAlike
<1>2. Life!reinit_mapx(s, fault) = Life!Centered(r)
    BY DEF Life!reinit_mapx
<1> HIDE DEF t
<1>3. HeapAndMap(t) /\ t.o.name # "INTEGERIZEDSINUSOIDAL"
    BY <1>1, LastingFields DEF Alike
<1>4. Alike(t, r, Lasting)
    <2>1. Alike(t, Life!Done(t), Lasting)
        BY <1>3, OutcomeAlike, LastingFields, AlikeLess
    <2>2. \/ r = Life!init_cylindrical_equidistant(t)
          \/ r = Life!init_universal_transverse_mercator(t)
          \/ r = Life!Done(t)
        BY <1>3, Zenon DEF Life!Initialized
    <2> QED BY <1>3, <2>1, <2>2, CylinderAlike, ZoneAlike
<1> HIDE DEF r
<1>5. Alike(r, Life!Centered(r), Lasting)
    BY <1>4, CenteredAlike DEF Alike
<1> QED BY <1>1, <1>2, <1>4, <1>5, LastingFields DEF Alike

\* The tables that are made are sound.
LEMMA TableFromInit ==
    ASSUME NEW lon \in Int, NEW easting \in Int, NEW n \in Int, NEW j \in Int, ~Life!IsinBad(lon, n, j)
    PROVE  Life!TableSound(Life!Isin_inv_init(lon, easting, 0, n, j))
<1> DEFINE t == Life!Isin_inv_init(lon, easting, 0, n, j)
           up == IF lon < HalfTurn THEN lon + 2 * HalfTurn ELSE lon
           at == IF up >= HalfTurn THEN up - 2 * HalfTurn ELSE up
           meridian == IF at - HalfTurn < -HalfTurn THEN at + HalfTurn ELSE at - HalfTurn
           cols(i) == IF j < 2 THEN Columns(n, i) ELSE Even(n, i)
           ncol(i) == IF cols(i) < 1 THEN 1 ELSE cols(i)
<1>1. /\ lon >= -2 * HalfTurn /\ lon <= 2 * HalfTurn /\ n >= 2 /\ n <= NRowMax
    BY LifeConstants DEF Life!IsinBad
<1>2. t.nrow = n /\ t.ref_lon = meridian /\ t.false_east = easting /\ t.false_north = 0
    BY DEF Life!Isin_inv_init
<1>3. \A i \in 0 .. n \div 2 - 1 :
          t.row[i].ncol = ncol(i) /\ t.row[i].icol_cen = Life!CentralLeft(ncol(i), j)
    BY Zenon DEF Life!Isin_inv_init
<1>4. meridian \in -HalfTurn .. HalfTurn
    BY <1>1, LifeConstants
<1>5. ASSUME NEW i \in 0 .. n \div 2 - 1
      PROVE  ncol(i) \in Nat \ {0} /\ Life!CentralLeft(ncol(i), j) \in Int
    <2>1. n \in 2 .. NRowMax
        BY <1>1, LifeConstants
    <2>2. Columns(n, i) \in Int /\ Even(n, i) \in Int
        BY <2>1, LifeConstants
    <2>3. cols(i) \in Int
        BY <2>2
    <2>4. ncol(i) \in Nat \ {0}
        <3> HIDE DEF cols
        <3> QED BY <2>3
    <2>5. \A k \in Nat : (k + 1) \div 2 \in Int /\ k \div 2 \in Int
        OBVIOUS
    <2> HIDE DEF ncol
    <2> QED BY <2>4, <2>5 DEF Life!CentralLeft
<1> HIDE DEF t, meridian, ncol, cols, up, at
<1>6. n \in Nat \ {0, 1} /\ n % 2 = 0
    BY <1>1 DEF Life!IsinBad
<1>7. \A i \in 0 .. t.nrow \div 2 - 1 : t.row[i].ncol \in Nat \ {0} /\ t.row[i].icol_cen \in Int
    BY <1>2, <1>3, <1>5
<1>8. Life!TableSound(t)
    BY <1>2, <1>4, <1>6, <1>7 DEF Life!TableSound
<1> QED BY <1>8 DEF t

\* What else is asked of a map, besides Members.
LEMMA MapSoundIs ==
    ASSUME NEW m, Members(m, Life!MapMembers), DOMAIN m = DOMAIN Life!NoMap,
           m.isin_data = NULL <=> m.isin_row = NULL,
           m.name = "INTEGERIZEDSINUSOIDAL" => {m.lon0, m.false_easting, m.nzone, m.justify} \subseteq Int,
           m.isin_data # NULL => Life!TableSound(m.table)
    PROVE  Life!MapSound(m)
BY DEF Life!MapSound, Life!KindsRight, Members

\* The tables that a map may have had are forgotten.
LEMMA WithoutTables ==
    ASSUME NEW s, HeapAndMap(s), NEW R, NEW K, Fine(s.h, s.o, Life!MapMembers, R, K),
           s.o.isin_data # NULL \/ s.o.isin_row # NULL => {"isin_data", "isin_row"} \subseteq K,
           NEW t, t = [s EXCEPT !.o.isin_data = NULL, !.o.isin_row = NULL]
    PROVE  /\ Alike(s, t, DOMAIN Life!NoMap \ {"isin_data", "isin_row"})
           /\ t.o.isin_data = NULL /\ t.o.isin_row = NULL
           /\ Fine(t.h, t.o, Life!MapMembers, R, K)
<1>1. {"h", "o"} \subseteq DOMAIN s /\ DOMAIN s.o = DOMAIN Life!NoMap
    BY DEF HeapAndMap
<1>2. /\ t.h = s.h /\ DOMAIN t = DOMAIN s
      /\ t.o = [[s.o EXCEPT !.isin_data = NULL] EXCEPT !.isin_row = NULL]
    BY <1>1
<1>3. /\ "isin_data" \in DOMAIN s.o /\ "isin_row" \in DOMAIN s.o
      /\ "isin_data" \in Life!MapMembers /\ "isin_row" \in Life!MapMembers
    BY <1>1 DEF Life!NoMap, Life!MapMembers
<1>4. /\ DOMAIN t.o = DOMAIN s.o /\ t.o["isin_data"] = NULL /\ t.o["isin_row"] = NULL
      /\ \A k \in DOMAIN s.o : k \notin {"isin_data", "isin_row"} => t.o[k] = s.o[k]
    BY <1>2, <1>3
<1>5. Alike(s, t, DOMAIN Life!NoMap \ {"isin_data", "isin_row"})
    BY <1>1, <1>2, <1>4 DEF Alike, HeapAndMap
<1>6. Members(s.o, Life!MapMembers) /\ \A x \in s.h.live : x \in Holds(s.o, Life!MapMembers) \/ x \in R \/ x[1] \in K
    BY DEF Fine
<1>7. Members(t.o, Life!MapMembers)
    BY <1>4, <1>6 DEF Members
<1>8. Holds(t.o, Life!MapMembers) \subseteq Holds(s.o, Life!MapMembers)
    BY <1>4, <1>6 DEF Holds, Members
<1>9. ASSUME NEW x \in Holds(s.o, Life!MapMembers) PROVE x \in Holds(t.o, Life!MapMembers) \/ x[1] \in K
    <2>1. PICK k \in Life!MapMembers : x = s.o[k] /\ x # NULL
        BY DEF Holds
    <2>2. CASE k \in {"isin_data", "isin_row"}
        <3>1. s.o.isin_data # NULL \/ s.o.isin_row # NULL
            BY <2>1, <2>2
        <3>2. x[1] = k
            BY <1>6, <2>1 DEF Members
        <3> QED BY <2>2, <3>1, <3>2
    <2>3. CASE k \notin {"isin_data", "isin_row"}
        BY <1>4, <1>6, <2>1, <2>3 DEF Holds, Members
    <2> QED BY <2>2, <2>3
<1>10. Fine(t.h, t.o, Life!MapMembers, R, K)
    BY <1>2, <1>6, <1>7, <1>8, <1>9 DEF Fine
<1> QED BY <1>4, <1>5, <1>10

LEMMA WithTableIs ==
    ASSUME NEW s, HeapAndMap(s)
    PROVE  /\ Alike(s, Life!WithTable(s), DOMAIN Life!NoMap \ {"table"})
           /\ Life!WithTable(s).o.table =
                Life!Isin_inv_init(s.o.lon0, s.o.false_easting, 0, s.o.nzone, s.o.justify)
<1> DEFINE v == Life!Isin_inv_init(s.o.lon0, s.o.false_easting, 0, s.o.nzone, s.o.justify)
           t == [s EXCEPT !.o.table = v]
<1>1. {"h", "o"} \subseteq DOMAIN s /\ DOMAIN s.o = DOMAIN Life!NoMap /\ "table" \in DOMAIN Life!NoMap
    BY LastingFields DEF HeapAndMap
<1>2. Life!WithTable(s) = t
    BY DEF Life!WithTable
<1> HIDE DEF v
<1>3. t.h = s.h /\ DOMAIN t = DOMAIN s /\ t.o = [s.o EXCEPT !.table = v]
    BY <1>1
<1> HIDE DEF t
<1>4. /\ DOMAIN t.o = DOMAIN s.o /\ t.o["table"] = v
      /\ \A k \in DOMAIN s.o : k # "table" => t.o[k] = s.o[k]
    BY <1>1, <1>3
<1>5. Alike(s, t, DOMAIN Life!NoMap \ {"table"})
    BY <1>1, <1>3, <1>4 DEF Alike, HeapAndMap
<1> QED BY <1>2, <1>4, <1>5 DEF v

\* What a map needs to be initialised, and what it then is: of the tables it had
\* nothing is left but their kind.
LEMMA ReinitFine ==
    ASSUME NEW s, HeapAndMap(s), NEW R, NEW K, Fine(s.h, s.o, Life!MapMembers, R, K), Life!MapSound(s.o),
           s.o.isin_data # NULL => {"isin_data", "isin_row"} \subseteq K, NEW fault
    PROVE  LET r == Life!reinit_mapx(s, fault)
           IN  /\ Fine(r.h, r.o, Life!MapMembers, R, K) /\ Life!MapSound(r.o)
               /\ r.o.self = s.o.self /\ r.o.mpp_file = s.o.mpp_file /\ r.o.mpp_filename = s.o.mpp_filename
<1> DEFINE r == Life!reinit_mapx(s, fault)
           Goal == /\ Fine(r.h, r.o, Life!MapMembers, R, K) /\ Life!MapSound(r.o)
                   /\ r.o.self = s.o.self /\ r.o.mpp_file = s.o.mpp_file /\ r.o.mpp_filename = s.o.mpp_filename
           ints(m) == {m.lon0, m.false_easting, m.nzone, m.justify} \subseteq Int
           others == {"self", "mpp_file", "mpp_filename"}
<1>1. /\ s.o.isin_data = NULL <=> s.o.isin_row = NULL
      /\ s.o.name = "INTEGERIZEDSINUSOIDAL" => ints(s.o)
      /\ s.o.isin_data # NULL => Life!TableSound(s.o.table)
    BY DEF Life!MapSound
<1>2. DOMAIN s.o = DOMAIN Life!NoMap /\ {"h", "o"} \subseteq DOMAIN s
    BY DEF HeapAndMap
<1>3. /\ Life!MapMembers \subseteq DOMAIN Life!NoMap /\ others \subseteq Life!MapMembers
      /\ {"isin_data", "isin_row"} \subseteq Life!MapMembers
      /\ others \cap {"isin_data", "isin_row", "table", "Rg"} = {}
    BY LastingFields DEF Life!MapMembers
<1>4. CASE s.o.name # "INTEGERIZEDSINUSOIDAL"
    <2>1. Alike(s, r, Lasting)
        BY <1>4, ReinitOther
    <2> HIDE DEF r
    <2>2. /\ r.h = s.h /\ DOMAIN r.o = DOMAIN Life!NoMap
          /\ \A k \in Life!MapMembers : r.o[k] = s.o[k]
          /\ r.o.name = s.o.name /\ r.o.table = s.o.table
        BY <2>1, LastingFields DEF Alike, HeapAndMap, Lasting
    <2>3. Life!MapMembers \subseteq DOMAIN r.o
        BY <1>3, <2>2
    <2>4. Fine(r.h, r.o, Life!MapMembers, R, K)
        BY <2>2, <2>3, FineSame
    <2>5. Members(r.o, Life!MapMembers)
        BY <2>4 DEF Fine
    <2>6. r.o.isin_data = s.o.isin_data /\ r.o.isin_row = s.o.isin_row
        BY <1>3, <2>2
    <2>7. Life!MapSound(r.o)
        BY <1>1, <1>4, <2>2, <2>5, <2>6, MapSoundIs
    <2>8. r.o.self = s.o.self /\ r.o.mpp_file = s.o.mpp_file /\ r.o.mpp_filename = s.o.mpp_filename
        BY <1>3, <2>2
    <2> QED BY <2>4, <2>7, <2>8 DEF r
<1>5. CASE s.o.name = "INTEGERIZEDSINUSOIDAL"
    <2> DEFINE t == [s EXCEPT !.o.Rg = s.o.radius \div s.o.scale]
               without == [t EXCEPT !.o.isin_data = NULL, !.o.isin_row = NULL]
               one == Life!Give(without, "isin_data")
               both == Life!Give(one, "isin_row")
               i == Life!init_integerized_sinusoidal(t, fault)
    <2>1. Alike(s, t, DOMAIN Life!NoMap \ {"Rg"})
        BY ScaledAlike
    <2>2. r = Life!Centered(Life!Initialized(t, fault))
        BY DEF Life!reinit_mapx
    <2>3. /\ Life!IsinBad(t.o.lon0, t.o.nzone, t.o.justify) \/ fault = "isin_row" => i = Life!Error(without)
          /\ ~(Life!IsinBad(t.o.lon0, t.o.nzone, t.o.justify) \/ fault = "isin_row") =>
                 i = Life!Done(Life!WithTable(both))
        BY DEF Life!init_integerized_sinusoidal
    <2>4. t.o.name = "INTEGERIZEDSINUSOIDAL" => Life!Initialized(t, fault) = i
        BY Zenon DEF Life!Initialized
    <2> HIDE DEF t
    <2>5. /\ HeapAndMap(t) /\ t.h = s.h /\ DOMAIN t.o = DOMAIN Life!NoMap
          /\ \A k \in Life!MapMembers : t.o[k] = s.o[k]
          /\ t.o.name = s.o.name /\ t.o.table = s.o.table /\ t.o.lon0 = s.o.lon0
          /\ t.o.false_easting = s.o.false_easting /\ t.o.nzone = s.o.nzone /\ t.o.justify = s.o.justify
        BY <1>3, <2>1, LastingFields DEF Alike, HeapAndMap, Life!MapMembers
    <2>6. Fine(t.h, t.o, Life!MapMembers, R, K)
        BY <1>3, <2>5, FineSame
    <2>7. t.o.isin_data # NULL \/ t.o.isin_row # NULL => {"isin_data", "isin_row"} \subseteq K
        BY <1>1, <1>3, <2>5
    <2>8. /\ Alike(t, without, DOMAIN Life!NoMap \ {"isin_data", "isin_row"})
          /\ without.o.isin_data = NULL /\ without.o.isin_row = NULL
          /\ Fine(without.h, without.o, Life!MapMembers, R, K)
        BY <2>5, <2>6, <2>7, WithoutTables
    <2> HIDE DEF without
    <2>9. /\ HeapAndMap(without) /\ DOMAIN without.o = DOMAIN Life!NoMap
          /\ \A k \in DOMAIN Life!NoMap \ {"isin_data", "isin_row"} : without.o[k] = t.o[k]
        BY <2>8 DEF Alike, HeapAndMap
    <2>10. PICK u : /\ Life!Initialized(t, fault) \in {Life!Done(u), Life!Error(u)}
                    /\ HeapAndMap(u) /\ Fine(u.h, u.o, Life!MapMembers, R, K)
                    /\ \A k \in others : u.o[k] = t.o[k]
                    /\ u.o.name = t.o.name /\ ints(u.o)
                    /\ u.o.isin_data = NULL <=> u.o.isin_row = NULL
                    /\ u.o.isin_data # NULL => Life!TableSound(u.o.table)
        <3>1. /\ \A k \in others : without.o[k] = t.o[k]
              /\ without.o.name = t.o.name /\ without.o.lon0 = t.o.lon0
              /\ without.o.false_easting = t.o.false_easting /\ without.o.nzone = t.o.nzone
              /\ without.o.justify = t.o.justify
            BY <1>3, <2>9, LastingFields
        <3>2. ints(without.o)
            BY <1>1, <1>5, <2>5, <3>1
        <3>3. CASE Life!IsinBad(t.o.lon0, t.o.nzone, t.o.justify) \/ fault = "isin_row"
            <4>1. Life!Initialized(t, fault) = Life!Error(without)
                BY <1>5, <2>3, <2>4, <2>5, <3>3
            <4> QED BY <2>8, <2>9, <3>1, <3>2, <4>1
        <3>4. CASE ~(Life!IsinBad(t.o.lon0, t.o.nzone, t.o.justify) \/ fault = "isin_row")
            <4> DEFINE u == Life!WithTable(both)
            <4>1. Life!Initialized(t, fault) = Life!Done(u)
                BY <1>5, <2>3, <2>4, <2>5, <3>4
            <4>2. Fine(one.h, one.o, Life!MapMembers, R, K) /\ one.o["isin_data"] # NULL
                BY <1>3, <2>8, GiveFine
            <4>3. /\ DOMAIN one.o = DOMAIN without.o
                  /\ \A k \in DOMAIN without.o : k # "isin_data" => one.o[k] = without.o[k]
                BY <1>3, <2>9, GiveIs
            <4> HIDE DEF one
            <4>4. one.o["isin_row"] = NULL
                BY <1>3, <2>8, <2>9, <4>3
            <4>5. Fine(both.h, both.o, Life!MapMembers, R, K) /\ both.o["isin_row"] # NULL
                BY <1>3, <4>2, <4>4, GiveFine
            <4>6. /\ DOMAIN both.o = DOMAIN one.o
                  /\ \A k \in DOMAIN one.o : k # "isin_row" => both.o[k] = one.o[k]
                BY <1>3, <2>9, <4>3, GiveIs
            <4>7. HeapAndMap(both)
                <5>1. {"h", "o"} \subseteq DOMAIN both
                    BY DEF Life!Give
                <5> QED BY <2>9, <4>3, <4>6, <5>1 DEF HeapAndMap
            <4> HIDE DEF both
            <4>8. /\ Alike(both, u, DOMAIN Life!NoMap \ {"table"})
                  /\ u.o.table = Life!Isin_inv_init(both.o.lon0, both.o.false_easting, 0, both.o.nzone, both.o.justify)
                BY <4>7, WithTableIs
            <4> HIDE DEF u
            <4>9. /\ HeapAndMap(u) /\ u.h = both.h /\ DOMAIN u.o = DOMAIN Life!NoMap
                  /\ \A k \in DOMAIN Life!NoMap : k # "table" => u.o[k] = both.o[k]
                BY <4>8 DEF Alike, HeapAndMap
            <4>10. "table" \notin Life!MapMembers
                BY DEF Life!MapMembers
            <4>11. Fine(u.h, u.o, Life!MapMembers, R, K)
                BY <1>3, <4>5, <4>9, <4>10, FineSame
            <4>12. /\ \A k \in DOMAIN Life!NoMap \ {"isin_data", "isin_row", "table"} :
                          u.o[k] = without.o[k] /\ both.o[k] = without.o[k]
                BY <2>9, <4>3, <4>6, <4>9
            <4>13. /\ \A k \in others : u.o[k] = t.o[k]
                   /\ u.o.name = t.o.name /\ u.o.lon0 = t.o.lon0 /\ u.o.false_easting = t.o.false_easting
                   /\ u.o.nzone = t.o.nzone /\ u.o.justify = t.o.justify
                BY <1>3, <3>1, <4>12, LastingFields
            <4>14. /\ both.o.lon0 = t.o.lon0 /\ both.o.false_easting = t.o.false_easting
                   /\ both.o.nzone = t.o.nzone /\ both.o.justify = t.o.justify
                BY <3>1, <4>12, LastingFields
            <4>15. ints(u.o) /\ ints(t.o)
                BY <1>1, <1>5, <2>5, <4>13
            <4>16. Life!TableSound(u.o.table)
                BY <3>4, <4>8, <4>14, <4>15, TableFromInit
            <4>17. u.o.isin_data # NULL /\ u.o.isin_row # NULL
                BY <1>3, <2>9, <4>2, <4>3, <4>5, <4>6, <4>9
            <4> QED BY <4>1, <4>9, <4>11, <4>13, <4>15, <4>16, <4>17
        <3> QED BY <3>3, <3>4
    <2> DEFINE v == Life!Initialized(t, fault)
    <2>11. v.h = u.h /\ v.o = u.o /\ HeapAndMap(v)
        BY <2>10, OutcomeAlike DEF Life!Done, Life!Error, HeapAndMap
    <2>12. r = v
        <3>1. v.o.name # "CYLINDRICALEQUIDISTANT"
            BY <1>5, <2>5, <2>10, <2>11
        <3> QED BY <2>2, <2>11, <3>1, CenteredAlike
    <2> HIDE DEF v, r
    <2>13. r.h = u.h /\ r.o = u.o
        BY <2>11, <2>12
    <2>14. Life!MapSound(r.o)
        <3>1. Members(u.o, Life!MapMembers)
            BY <2>10 DEF Fine
        <3>2. DOMAIN u.o = DOMAIN Life!NoMap
            BY <2>10 DEF HeapAndMap
        <3> QED BY <2>10, <2>13, <3>1, <3>2, MapSoundIs
    <2>15. \A k \in others : r.o[k] = s.o[k]
        BY <1>3, <2>5, <2>10, <2>13
    <2> QED BY <2>10, <2>13, <2>14, <2>15 DEF r
<1> QED BY <1>4, <1>5

-----------------------------------------------------------------------------
\* Labels.

\* A value that was read is a number, or there is none.
Reading(v) == v = <<>> \/ \E n \in Int : v = <<n>>

LEMMA ReadAsNumber ==
    ASSUME NEW field, NEW format
    PROVE  Reading(Life!ReadAs(format, field))
<1>1. Reading(Life!lat_lon_keyval(field, format))
    <2>1. PICK t \in DOMAIN Num \cup {<<>>} :
              \/ Life!lat_lon_keyval(field, format) = <<>>
              \/ t \in DOMAIN Num /\ Life!lat_lon_keyval(field, format) \in {<<Num[t]>>, <<-Num[t]>>}
        BY DEF Life!lat_lon_keyval
    <2>2. CASE Life!lat_lon_keyval(field, format) = <<>>
        BY <2>2 DEF Reading
    <2>3. CASE t \in DOMAIN Num /\ Life!lat_lon_keyval(field, format) \in {<<Num[t]>>, <<-Num[t]>>}
        <3>1. Num[t] \in Int /\ -Num[t] \in Int
            BY <2>3, LifeConstants
        <3> QED BY <2>3, <3>1 DEF Reading
    <2> QED BY <2>1, <2>2, <2>3
<1>2. Reading(Life!sscanf(field))
    BY LifeConstants DEF Life!sscanf, Reading
<1> QED BY <1>1, <1>2 DEF Life!ReadAs

LEMMA ValueRead ==
    ASSUME NEW label, NEW keyword, NEW format, NEW default, Reading(default)
    PROVE  Reading(Life!get_value_keyval(label, keyword, format, default))
BY ReadAsNumber DEF Life!get_value_keyval

LEMMA ValueNumber ==
    ASSUME NEW label, NEW keyword, NEW format, NEW default \in Int
    PROVE  Life!Value(label, keyword, format, default) \in Int
<1>1. Reading(<<default>>)
    BY DEF Reading
<1>2. Reading(Life!get_value_keyval(label, <<keyword>>, format, <<default>>))
    BY <1>1, ValueRead
<1> QED BY <1>2 DEF Life!Value, Life!First, Reading

\* Every map begins with all members NULL.
Ints(m) == {m.lon0, m.false_easting, m.nzone, m.justify} \subseteq Int
Plain(d) ==
    /\ DOMAIN d.o = DOMAIN Life!NoMap
    /\ \A k \in Life!MapMembers : d.o[k] = NULL
    /\ d.ok /\ d.o.name = "INTEGERIZEDSINUSOIDAL" => Ints(d.o)

LEMMA BadPlain ==
    ASSUME NEW name
    PROVE  Plain(Life!Bad(name))
<1> DEFINE m == Life!NoMap
           p == [m EXCEPT !.name = name]
<1>1. Life!Bad(name) = [ok |-> FALSE, o |-> p]
    BY DEF Life!Bad
<1>2. \A k \in Life!MapMembers : m[k] = NULL /\ k # "name" /\ k \in DOMAIN m
    <2>1. \A k \in Life!MapMembers : k # "name"
        BY DEF Life!MapMembers
    <2> QED BY <2>1, NoMapMembers
<1> HIDE DEF m
<1>3. DOMAIN p = DOMAIN m /\ \A k \in DOMAIN m : k # "name" => p[k] = m[k]
    OBVIOUS
<1> HIDE DEF p
<1> QED BY <1>1, <1>2, <1>3 DEF Plain, m

\* The fields that are read are not members that hold something.
LEMMA FieldsDecoded ==
    ASSUME NEW label, NEW name, NEW lat0, NEW lon0, NEW x, NEW y, NEW shape, Reading(lon0)
    PROVE  Plain(Life!Fields(label, name, lat0, lon0, x, y, shape))
<1> DEFINE refused == <<>> \in {lat0, lon0, shape} \/ ~(x = Life!UNINITIALIZED <=> y = Life!UNINITIALIZED)
           a3 == lon0[1]
           a6 == Life!Value(label, "Map Second Reference Latitude", "%lat", 999)
           a7 == Life!Value(label, "Map Scale", "%lf", 1)
           a8 == Life!Assumed(Life!Value(label, "Map Origin Latitude", "%lat", 999), lat0[1], name, x)
           a9 == Life!Assumed(Life!Value(label, "Map Origin Longitude", "%lon", 999), lon0[1], name, x)
           easting == IF name = "UNIVERSALTRANSVERSEMERCATOR" THEN Life!UNINITIALIZED ELSE 0
           a10 == Life!Value(label, "Map False Easting", "%lf", easting)
           a11 == Life!Value(label, "Map UTM Zone", "%d", 0)
           a12 == Life!Value(label, "Map ISin NZone", "%d", 2)
           a13 == Life!Value(label, "Map ISin Justify", "%d", 1)
<1>1. CASE refused
    <2>1. Life!Fields(label, name, lat0, lon0, x, y, shape) = Life!Bad(name)
        BY <1>1 DEF Life!Fields
    <2> QED BY <2>1, BadPlain
<1>2. CASE ~refused
    <2> DEFINE m == Life!NoMap
               p == [m EXCEPT !.name = name, !.lat0 = lat0[1], !.lon0 = a3, !.x0 = x, !.y0 = y,
                         !.lat1 = a6, !.scale = a7, !.center_lat = a8, !.center_lon = a9, !.false_easting = a10,
                         !.zone = a11, !.nzone = a12, !.justify = a13, !.radius = shape[1]]
               fields == {"name", "lat0", "lon0", "x0", "y0", "lat1", "scale", "center_lat", "center_lon",
                          "false_easting", "zone", "nzone", "justify", "radius"}
    <2>1. Life!Fields(label, name, lat0, lon0, x, y, shape) = [ok |-> TRUE, o |-> p]
        BY <1>2 DEF Life!Fields
    <2>2. a3 \in Int
        BY <1>2 DEF Reading
    <2>3. easting \in Int
        BY DEF Life!UNINITIALIZED
    <2> HIDE DEF easting
    <2>4. a10 \in Int
        BY <2>3, ValueNumber
    <2>5. a12 \in Int /\ a13 \in Int
        <3>1. 1 \in Int /\ 2 \in Int
            OBVIOUS
        <3> QED BY <3>1, ValueNumber
    <2> HIDE DEF a3, a6, a7, a8, a9, a10, a11, a12, a13
    <2>6. \A k \in Life!MapMembers : m[k] = NULL /\ k \in DOMAIN m
        BY NoMapMembers
    <2>7. \A k \in Life!MapMembers : k \notin fields
        BY DEF Life!MapMembers
    <2>8. {"lon0", "false_easting", "nzone", "justify"} \subseteq DOMAIN m
        BY LastingFields
    <2> HIDE DEF m
    <2>9. DOMAIN p = DOMAIN m /\ \A k \in DOMAIN m : k \notin fields => p[k] = m[k]
        OBVIOUS
    <2>10. p.lon0 = a3 /\ p.false_easting = a10 /\ p.nzone = a12 /\ p.justify = a13
        BY <2>8
    <2> HIDE DEF p, fields
    <2> QED BY <2>1, <2>2, <2>4, <2>5, <2>6, <2>7, <2>9, <2>10 DEF Plain, Ints, m
<1> QED BY <1>1, <1>2

LEMMA KeyvalDecoded ==
    ASSUME NEW label
    PROVE  Plain(Life!decode_keyval(label))
<1> DEFINE name == Life!standard_name(Life!get_field_keyval(label, <<"Map Projection">>))
           meridian == Life!DefaultReference(name)
           lat0 == Life!get_value_keyval(label, <<"Map Reference Latitude">>, "%lat", meridian)
           lon0 == Life!get_value_keyval(label, <<"Map Reference Longitude">>, "%lon", meridian)
<1>1. Reading(meridian)
    <2>1. meridian = <<999>> \/ meridian = <<0>> \/ meridian = <<>>
        BY Zenon DEF Life!DefaultReference
    <2>2. 999 \in Int /\ 0 \in Int
        OBVIOUS
    <2> QED BY <2>1, <2>2 DEF Reading
<1>2. Reading(lon0)
    BY <1>1, ValueRead
<1> DEFINE x == Life!Value(label, "Map Origin X", "%lf", Life!UNINITIALIZED)
           y == Life!Value(label, "Map Origin Y", "%lf", Life!UNINITIALIZED)
           q == Life!Value(label, "Map Equatorial Radius", "%lf", 0)
           p == Life!Value(label, "Map Polar Radius", "%lf", 0)
           e == Life!Value(label, "Map Eccentricity", "%lf", 999)
           e2 == Life!First(Life!get_value_keyval(label, <<"Map Eccentricity", " Squared">>, "%lf", <<999>>))
           shape == Life!Ellipsoid(name, q, p, e, e2)
<1>3. Life!decode_keyval(label) = Life!DecodeNamed(label, name, meridian)
    BY DEF Life!decode_keyval
<1> HIDE DEF name, meridian
<1>4. Life!DecodeNamed(label, name, meridian) = Life!Fields(label, name, lat0, lon0, x, y, shape)
    BY DEF Life!DecodeNamed
<1> HIDE DEF lon0, lat0, x, y, shape
<1> QED BY <1>2, <1>3, <1>4, FieldsDecoded

LEMMA NthNumber ==
    ASSUME NEW line, NEW wanted \in Nat, NEW k \in Nat \ {0}, NEW default \in Int
    PROVE  Life!Nth(Life!Numbers(line, wanted), k, default) \in Int
<1> DEFINE tokens == SelectSeq(line, LAMBDA t : t \notin Life!blank)
           D == {n \in 1 .. wanted : n <= Len(tokens) /\ \A i \in 1 .. n : tokens[i] \in DOMAIN Num}
<1>1. Life!Numbers(line, wanted) = [j \in D |-> Num[tokens[j]]]
    BY DEF Life!Numbers
<1> HIDE DEF tokens
<1>2. k \in D => Num[tokens[k]] \in Int
    BY LifeConstants
<1> HIDE DEF D
<1> QED BY <1>1, <1>2 DEF Life!Nth

LEMMA OldDecoded ==
    ASSUME NEW line
    PROVE  Plain(Life!OldFields(line))
<1> DEFINE at(n, k, default) == Life!Nth(Life!Numbers(line[n], 4), k, default)
           name == Life!standard_name(line[1])
           utm == name = "UNIVERSALTRANSVERSEMERCATOR"
           refused == ~utm /\ name # "MERCATORELLIPSOID" /\ Len(line) >= 12 /\ at(12, 1, 0) # 0
           m == Life!NoMap
           a2 == at(2, 1, 0)
           a3 == at(2, 2, 0)
           a6 == at(2, 3, 999)
           a7 == at(4, 1, 1)
           a8 == at(5, 1, 0)
           a9 == at(5, 2, 0)
           a10 == IF utm THEN Life!UNINITIALIZED ELSE 0
           a14 == IF Len(line) >= 11 THEN at(11, 1, Radius) ELSE Radius
           p == [m EXCEPT !.name = name, !.x0 = Life!UNINITIALIZED, !.y0 = Life!UNINITIALIZED,
                     !.lat0 = a2, !.lon0 = a3, !.lat1 = a6, !.scale = a7, !.center_lat = a8, !.center_lon = a9,
                     !.false_easting = a10, !.nzone = 2, !.justify = 1, !.radius = a14]
           fields == {"name", "lat0", "lon0", "x0", "y0", "lat1", "scale", "center_lat", "center_lon",
                      "false_easting", "zone", "nzone", "justify", "radius"}
<1>1. CASE line = <<>>
    BY <1>1, BadPlain DEF Life!OldFields
<1>2. CASE line # <<>> /\ (Len(line) < 10 \/ refused)
    <2>1. Life!OldFields(line) = Life!Bad(name)
        BY <1>2 DEF Life!OldFields
    <2> QED BY <2>1, BadPlain
<1>3. CASE line # <<>> /\ ~(Len(line) < 10 \/ refused)
    <2>1. Life!OldFields(line) = [ok |-> TRUE, o |-> p]
        BY <1>3 DEF Life!OldFields
    <2>2. a3 \in Int
        BY NthNumber
    <2>3. a10 \in Int
        BY DEF Life!UNINITIALIZED
    <2> HIDE DEF a2, a3, a6, a7, a8, a9, a10, a14, name
    <2>4. \A k \in Life!MapMembers : m[k] = NULL /\ k \in DOMAIN m
        BY NoMapMembers
    <2>5. \A k \in Life!MapMembers : k \notin fields
        BY DEF Life!MapMembers
    <2>6. {"lon0", "false_easting", "nzone", "justify"} \subseteq DOMAIN m
        BY LastingFields
    <2> HIDE DEF m
    <2>7. DOMAIN p = DOMAIN m /\ \A k \in DOMAIN m : k \notin fields => p[k] = m[k]
        OBVIOUS
    <2>8. p.lon0 = a3 /\ p.false_easting = a10 /\ p.nzone = 2 /\ p.justify = 1
        BY <2>6
    <2> HIDE DEF p, fields
    <2> QED BY <2>1, <2>2, <2>3, <2>4, <2>5, <2>7, <2>8 DEF Plain, Ints, m
<1> QED BY <1>1, <1>2, <1>3

-----------------------------------------------------------------------------
\* Maps from labels and files.

\* Apart from R nothing is there but what is of the kinds K.
Base(h, R, K) ==
    /\ ~h.bad /\ IsFiniteSet(h.live)
    /\ R \subseteq h.live /\ NULL \notin R
    /\ \A x \in h.live : x \in R \/ x[1] \in K

\* A map that was made, or none.
NewMap(r, R, K) ==
    /\ HeapAndMap(r) /\ Fine(r.h, r.o, Life!MapMembers, R, K) /\ Life!MapSound(r.o)
    /\ r.o.self = NULL => r.o = Life!NoMap

LEMMA BaseFine ==
    ASSUME NEW h, NEW R, NEW K, Base(h, R, K), NEW o, NEW M, Members(o, M), Holds(o, M) = {}
    PROVE  Fine(h, o, M, R, K)
BY DEF Base, Fine

LEMMA FineBase ==
    ASSUME NEW h, NEW o, NEW M, NEW R, NEW K, Fine(h, o, M, R, K)
    PROVE  Base(h, R \cup Holds(o, M), K)
BY DEF Base, Fine, Holds

LEMMA BaseAlloc ==
    ASSUME NEW h, NEW R, NEW K, Base(h, R, K), NEW kind \in Life!Resources, kind \in K
    PROVE  Base(Life!Alloc(h, kind), R, K)
<1>1. IsFiniteSet(h.live)
    BY DEF Base
<1>2. Life!Got(h, kind)[1] = kind
    BY <1>1, Fresh
<1>3. Life!Alloc(h, kind).live = h.live \cup {Life!Got(h, kind)} /\ Life!Alloc(h, kind).bad = h.bad
    BY DEF Life!Alloc
<1>4. IsFiniteSet(Life!Alloc(h, kind).live)
    BY <1>1, <1>3, FS_AddElement
<1> QED BY <1>2, <1>3, <1>4 DEF Base

LEMMA NoMapSound ==
    /\ Life!MapSound(Life!NoMap) /\ Life!NoMap.self = NULL
    /\ Life!NoMap.mpp_file = NULL /\ Life!NoMap.mpp_filename = NULL
<1>1. Members(Life!NoMap, Life!MapMembers)
    BY NoMapHoldsNone
<1>2. /\ Life!NoMap.self = NULL /\ Life!NoMap.mpp_file = NULL /\ Life!NoMap.mpp_filename = NULL
      /\ Life!NoMap.isin_data = NULL /\ Life!NoMap.isin_row = NULL /\ Life!NoMap.name = ""
    BY DEF Life!NoMap
<1>3. Life!NoMap.name # "INTEGERIZEDSINUSOIDAL"
    BY <1>2
<1> QED BY <1>1, <1>2, <1>3, MapSoundIs

LEMMA NoMapNew ==
    ASSUME NEW h, NEW R, NEW K, Base(h, R, K)
    PROVE  NewMap([h |-> h, o |-> Life!NoMap], R, K)
<1>1. Fine(h, Life!NoMap, Life!MapMembers, R, K)
    BY NoMapHoldsNone, BaseFine
<1>2. HeapAndMap([h |-> h, o |-> Life!NoMap])
    BY DEF HeapAndMap
<1> QED BY <1>1, <1>2, NoMapSound DEF NewMap

\* A map that is given up.
LEMMA WithoutNew ==
    ASSUME NEW s, NEW R, NEW K, Fine(s.h, s.o, Life!MapMembers, R, K), s.o.self # NULL
    PROVE  NewMap(Life!Without(s), R, K) /\ Life!Without(s).o = Life!NoMap
<1>1. Fine(Life!close_mapx(s.h, s.o), Life!NoMap, Life!MapMembers, R, K)
    BY CloseFine
<1>2. Life!Without(s) = [h |-> Life!close_mapx(s.h, s.o), o |-> Life!NoMap]
    BY DEF Life!Without
<1>3. HeapAndMap(Life!Without(s))
    BY <1>2 DEF HeapAndMap
<1> QED BY <1>1, <1>2, <1>3, NoMapSound DEF NewMap

LEMMA DecodedNew ==
    ASSUME NEW h, NEW R, NEW K, Base(h, R, K), NEW d, Plain(d), NEW fault
    PROVE  LET r == Life!Decoded(h, d, fault)
           IN  NewMap(r, R, K) /\ r.o.mpp_file = NULL /\ r.o.mpp_filename = NULL
<1> DEFINE s == [h |-> h, o |-> d.o]
           one == Life!Give(s, "self")
           named == IF d.o.name = "" THEN one ELSE Life!Give(one, "projection_name")
           v == Life!reinit_mapx(named, fault)
           r == Life!Decoded(h, d, fault)
<1>1. DOMAIN d.o = DOMAIN Life!NoMap /\ \A k \in Life!MapMembers : d.o[k] = NULL
    BY DEF Plain
<1>2. s.h = h /\ s.o = d.o
    OBVIOUS
<1>3. Fine(s.h, s.o, Life!MapMembers, R, K)
    <2>1. Members(d.o, Life!MapMembers) /\ Holds(d.o, Life!MapMembers) = {}
        BY <1>1, NoMapHoldsNone DEF Members, Holds
    <2> QED BY <1>2, <2>1, BaseFine
<1>4. /\ {"self", "projection_name", "mpp_file", "mpp_filename", "isin_data", "isin_row"} \subseteq Life!MapMembers
      /\ Life!MapMembers \subseteq DOMAIN Life!NoMap
    BY NoMapMembers DEF Life!MapMembers
<1>5. /\ ~d.ok \/ d.o.name \notin Life!Projections => r = Life!Without(named)
      /\ ~(~d.ok \/ d.o.name \notin Life!Projections) => r = Life!Reinitialized(v)
    BY DEF Life!Decoded
<1> HIDE DEF s, r
<1>6. Fine(one.h, one.o, Life!MapMembers, R, K) /\ one.o["self"] # NULL
    BY <1>1, <1>2, <1>3, <1>4, GiveFine
<1>7. DOMAIN one.o = DOMAIN s.o /\ \A k \in DOMAIN s.o : k # "self" => one.o[k] = s.o[k]
    BY <1>1, <1>2, <1>4, GiveIs
<1>8. {"h", "o"} \subseteq DOMAIN one
    BY DEF Life!Give
<1> HIDE DEF one
<1>9. /\ Fine(named.h, named.o, Life!MapMembers, R, K) /\ HeapAndMap(named) /\ named.o.self # NULL
      /\ \A k \in DOMAIN Life!NoMap \ {"self", "projection_name"} : named.o[k] = d.o[k]
    <2>1. CASE d.o.name = ""
        BY <1>1, <1>2, <1>4, <1>6, <1>7, <1>8, <2>1 DEF HeapAndMap
    <2>2. CASE d.o.name # ""
        <3> DEFINE two == Life!Give(one, "projection_name")
        <3>1. one.o["projection_name"] = NULL
            BY <1>1, <1>2, <1>4, <1>7
        <3>2. Fine(two.h, two.o, Life!MapMembers, R, K)
            BY <1>4, <1>6, <3>1, GiveFine
        <3>3. DOMAIN two.o = DOMAIN one.o /\ \A k \in DOMAIN one.o : k # "projection_name" => two.o[k] = one.o[k]
            BY <1>1, <1>2, <1>4, <1>7, GiveIs
        <3>4. {"h", "o"} \subseteq DOMAIN two
            BY DEF Life!Give
        <3>5. named = two
            BY <2>2
        <3> HIDE DEF two, named
        <3> QED BY <1>1, <1>2, <1>4, <1>6, <1>7, <3>2, <3>3, <3>4, <3>5 DEF HeapAndMap
    <2> QED BY <2>1, <2>2
<1> HIDE DEF named
<1>10. NewMap(Life!Without(named), R, K) /\ Life!Without(named).o = Life!NoMap
    BY <1>9, WithoutNew
<1>11. CASE ~d.ok \/ d.o.name \notin Life!Projections
    BY <1>5, <1>10, <1>11, NoMapSound DEF r
<1>12. CASE ~(~d.ok \/ d.o.name \notin Life!Projections)
    <2>1. named.o.isin_data = NULL /\ named.o.isin_row = NULL /\ named.o.mpp_file = NULL /\ named.o.mpp_filename = NULL
        BY <1>1, <1>4, <1>9
    <2>2. /\ named.o.name = d.o.name /\ named.o.lon0 = d.o.lon0 /\ named.o.false_easting = d.o.false_easting
          /\ named.o.nzone = d.o.nzone /\ named.o.justify = d.o.justify
        BY <1>9, LastingFields
    <2>3. named.o.name = "INTEGERIZEDSINUSOIDAL" =>
              {named.o.lon0, named.o.false_easting, named.o.nzone, named.o.justify} \subseteq Int
        BY <1>12, <2>2 DEF Plain, Ints
    <2>4. Life!MapSound(named.o)
        <3>1. Members(named.o, Life!MapMembers) /\ DOMAIN named.o = DOMAIN Life!NoMap
            BY <1>9 DEF Fine, HeapAndMap
        <3> QED BY <2>1, <2>3, <3>1, MapSoundIs
    <2>5. /\ Fine(v.h, v.o, Life!MapMembers, R, K) /\ Life!MapSound(v.o)
          /\ v.o.self = named.o.self /\ v.o.mpp_file = named.o.mpp_file /\ v.o.mpp_filename = named.o.mpp_filename
        BY <1>9, <2>1, <2>4, ReinitFine
    <2> HIDE DEF v
    <2>6. v.o.self # NULL /\ v.o.mpp_file = NULL /\ v.o.mpp_filename = NULL
        BY <1>9, <2>1, <2>5
    <2>7. r = Life!Reinitialized(v)
        BY <1>5, <1>12
    <2>8. CASE v.ok
        <3>1. r = [h |-> v.h, o |-> v.o]
            BY <2>7, <2>8 DEF Life!Reinitialized
        <3>2. HeapAndMap(r)
            BY <2>5, <3>1 DEF HeapAndMap, Life!MapSound
        <3> QED BY <2>5, <2>6, <3>1, <3>2 DEF NewMap, r
    <2>9. CASE ~v.ok
        <3>1. r = Life!Without(v)
            BY <2>7, <2>9 DEF Life!Reinitialized
        <3> QED BY <2>5, <2>6, <3>1, WithoutNew, NoMapSound DEF r
    <2> QED BY <2>8, <2>9
<1> QED BY <1>11, <1>12

LEMMA NewMapxNew ==
    ASSUME NEW h, NEW R, NEW K, Base(h, R, K), "field" \in K, NEW label, NEW beyond, NEW fault
    PROVE  LET r == Life!new_mapx(h, label, beyond, fault)
           IN  NewMap(r, R, K) /\ r.o.mpp_file = NULL /\ r.o.mpp_filename = NULL
<1>1. CASE fault = "mapx"
    <2> DEFINE none == [h |-> h, o |-> Life!NoMap]
    <2>1. Life!new_mapx(h, label, beyond, fault) = none
        BY <1>1 DEF Life!new_mapx
    <2>2. NewMap(none, R, K)
        BY NoMapNew
    <2>3. none.o = Life!NoMap
        OBVIOUS
    <2> HIDE DEF none
    <2> QED BY <2>1, <2>2, <2>3, NoMapSound
<1>2. CASE fault # "mapx" /\ Life!IsOld(label)
    <2> DEFINE g == Life!Alloc(h, "field")
               d == Life!old_fixed_format_decode_mpp(label, beyond)
    <2>1. Life!new_mapx(h, label, beyond, fault) = Life!Decoded(g, d, fault)
        BY <1>2 DEF Life!new_mapx
    <2>2. "field" \in Life!Resources
        BY DEF Life!Resources
    <2>3. Base(g, R, K)
        BY <2>2, BaseAlloc
    <2>4. Plain(d)
        BY OldDecoded DEF Life!old_fixed_format_decode_mpp
    <2> HIDE DEF g, d
    <2> QED BY <2>1, <2>3, <2>4, DecodedNew
<1>3. CASE fault # "mapx" /\ ~Life!IsOld(label)
    <2> DEFINE d == Life!decode_keyval(label)
    <2>1. Life!new_mapx(h, label, beyond, fault) = Life!Decoded(h, d, fault)
        BY <1>3 DEF Life!new_mapx
    <2>2. Plain(d)
        BY KeyvalDecoded
    <2> HIDE DEF d
    <2> QED BY <2>1, <2>2, DecodedNew
<1> QED BY <1>1, <1>2, <1>3

\* What was held by locals is from now on held by members of the object.
LEMMA FineJoin ==
    ASSUME NEW h, NEW l, NEW N, NEW o, NEW M, NEW R, NEW K,
           Fine(h, l, N, R \cup Holds(o, M), K), Members(o, M), R \cap Holds(o, M) = {},
           N \subseteq M, \A k \in N : o[k] = NULL,
           NEW p, M \subseteq DOMAIN p, \A k \in M : p[k] = IF k \in N THEN l[k] ELSE o[k]
    PROVE  Fine(h, p, M, R, K)
<1>1. Members(p, M)
    BY DEF Members, Fine
<1>2. \A x : x \in Holds(p, M) <=> x \in Holds(l, N) \/ x \in Holds(o, M)
    BY DEF Holds
<1>3. Holds(p, M) = Holds(l, N) \cup Holds(o, M)
    BY <1>2
<1> QED BY <1>1, <1>3 DEF Fine

LocalMembers == {"mpp_filename", "mpp_file", "label"}

\* The file and its name go with the map, or are given up with the label.
LEMMA KeptNew ==
    ASSUME NEW s, NEW l, NEW R, NEW K, NewMap(s, R \cup Holds(l, LocalMembers), K),
           Members(l, LocalMembers), R \cap Holds(l, LocalMembers) = {},
           s.o.mpp_file = NULL, s.o.mpp_filename = NULL
    PROVE  NewMap(Life!Kept(s, l), R, K)
<1>1. /\ Fine(s.h, s.o, Life!MapMembers, R \cup Holds(l, LocalMembers), K) /\ HeapAndMap(s)
      /\ Life!MapSound(s.o)
      /\ s.o.self = NULL => s.o = Life!NoMap
    BY DEF NewMap
<1>2. Fine(s.h, l, LocalMembers, R \cup Holds(s.o, Life!MapMembers), K)
    BY <1>1, FineSwap
<1>3. Members(s.o, Life!MapMembers) /\ R \cap Holds(s.o, Life!MapMembers) = {}
    BY <1>1 DEF Fine
<1>4. CASE s.o.self = NULL
    <2> DEFINE rs == <<l.label, l.mpp_filename, l.mpp_file>>
               ks == <<"label", "mpp_filename", "mpp_file">>
               t == [s EXCEPT !.h = Life!FreeAll(s.h, rs)]
    <2>1. Life!Kept(s, l) = t
        BY <1>4 DEF Life!Kept
    <2>2. Listed(rs, ks, 3, LocalMembers, l)
        <3>1. 3 \in Nat /\ DOMAIN rs = 1 .. 3
            OBVIOUS
        <3>2. \A i \in 1 .. 3 : ks[i] \in LocalMembers /\ rs[i] = l[ks[i]]
            BY DEF LocalMembers
        <3>3. \A i, j \in 1 .. 3 : i # j => ks[i] # ks[j]
            OBVIOUS
        <3>4. ks[1] = "label" /\ ks[2] = "mpp_filename" /\ ks[3] = "mpp_file"
            OBVIOUS
        <3> HIDE DEF rs, ks
        <3>5. \A k \in LocalMembers : \E i \in 1 .. 3 : ks[i] = k
            BY <3>4 DEF LocalMembers
        <3> QED BY <3>1, <3>2, <3>3, <3>5 DEF Listed
    <2>3. t.o = s.o /\ t.h = Life!FreeAll(s.h, rs) /\ DOMAIN t = DOMAIN s
        BY <1>1 DEF HeapAndMap
    <2> HIDE DEF rs, ks, t
    <2>4. Holds(s.o, Life!MapMembers) = {} /\ s.o = Life!NoMap
        BY <1>1, <1>4, NoMapHoldsNone
    <2>5. Fine(s.h, l, LocalMembers, R, K)
        BY <1>2, <2>4
    <2>6. Holds(s.o, Life!MapMembers) = Holds(l, LocalMembers \ LocalMembers)
        BY <2>4 DEF Holds
    <2>7. Fine(Life!FreeAll(s.h, rs), s.o, Life!MapMembers, R, K)
        BY <1>3, <2>2, <2>5, <2>6, FreeFine
    <2> QED BY <1>1, <2>1, <2>3, <2>7 DEF NewMap, HeapAndMap
<1>5. CASE s.o.self # NULL
    <2> DEFINE rs == <<l.label>>
               ks == <<"label">>
               N == {"mpp_filename", "mpp_file"}
               p == [s.o EXCEPT !.mpp_filename = l.mpp_filename, !.mpp_file = l.mpp_file]
    <2>1. Life!Kept(s, l) = [h |-> Life!FreeAll(s.h, rs), o |-> p]
        BY <1>5 DEF Life!Kept, Life!Free
    <2>2. Listed(rs, ks, 1, {"label"}, l)
        BY DEF Listed
    <2> HIDE DEF rs, ks
    <2>3. LocalMembers \ {"label"} = N
        BY DEF LocalMembers
    <2>4. Members(l, N)
        BY <2>3 DEF Members
    <2>5. "label" \in LocalMembers
        BY DEF LocalMembers
    <2>6. Holds(l, N) = Holds(l, LocalMembers \ {"label"})
        BY <2>3
    <2>7. Fine(Life!FreeAll(s.h, rs), l, N, R \cup Holds(s.o, Life!MapMembers), K)
        <3> HIDE DEF N
        <3>1. {"label"} \subseteq LocalMembers
            BY <2>5
        <3> QED BY <1>2, <2>2, <2>4, <2>6, <3>1, FreeFine
    <2>8. /\ DOMAIN s.o = DOMAIN Life!NoMap /\ Life!MapMembers \subseteq DOMAIN Life!NoMap
          /\ N \subseteq Life!MapMembers
        BY <1>1, NoMapMembers DEF HeapAndMap, Life!MapMembers
    <2>9. /\ DOMAIN p = DOMAIN s.o
          /\ \A k \in DOMAIN s.o : p[k] = IF k \in N THEN l[k] ELSE s.o[k]
        BY <2>8
    <2> HIDE DEF p
    <2>10. \A k \in N : s.o[k] = NULL
        OBVIOUS
    <2>11. "self" \notin N /\ "isin_data" \notin N /\ "isin_row" \notin N /\ "name" \notin N /\ "lon0" \notin N
           /\ "false_easting" \notin N /\ "nzone" \notin N /\ "justify" \notin N /\ "table" \notin N
        OBVIOUS
    <2> HIDE DEF N
    <2>12. Fine(Life!FreeAll(s.h, rs), p, Life!MapMembers, R, K)
        <3>1. Life!MapMembers \subseteq DOMAIN p /\ \A k \in Life!MapMembers : p[k] = IF k \in N THEN l[k] ELSE s.o[k]
            BY <2>8, <2>9
        <3> QED BY <1>3, <2>7, <2>8, <2>10, <3>1, FineJoin
    <2>13. /\ p.self = s.o.self /\ p.isin_data = s.o.isin_data /\ p.isin_row = s.o.isin_row
           /\ p.name = s.o.name /\ p.lon0 = s.o.lon0 /\ p.false_easting = s.o.false_easting
           /\ p.nzone = s.o.nzone /\ p.justify = s.o.justify /\ p.table = s.o.table
        <3>1. {"self", "isin_data", "isin_row"} \subseteq DOMAIN Life!NoMap
            BY <2>8 DEF Life!MapMembers
        <3> QED BY <2>8, <2>9, <2>11, <3>1, LastingFields
    <2>14. Life!MapSound(p)
        <3>1. Members(p, Life!MapMembers) /\ DOMAIN p = DOMAIN Life!NoMap
            BY <2>8, <2>9, <2>12 DEF Fine
        <3>2. /\ p.isin_data = NULL <=> p.isin_row = NULL
              /\ p.name = "INTEGERIZEDSINUSOIDAL" => {p.lon0, p.false_easting, p.nzone, p.justify} \subseteq Int
              /\ p.isin_data # NULL => Life!TableSound(p.table)
            BY <1>1, <2>13 DEF Life!MapSound
        <3> QED BY <3>1, <3>2, MapSoundIs
    <2>15. HeapAndMap(Life!Kept(s, l)) /\ Life!Kept(s, l).o.self # NULL
        BY <1>5, <2>1, <2>8, <2>9, <2>13 DEF HeapAndMap
    <2> QED BY <2>1, <2>12, <2>14, <2>15 DEF NewMap
<1> QED BY <1>4, <1>5

LEMMA LocalsHoldNone ==
    /\ Members(Life!Locals, LocalMembers) /\ Holds(Life!Locals, LocalMembers) = {}
    /\ DOMAIN Life!Locals = LocalMembers /\ \A k \in LocalMembers : Life!Locals[k] = NULL
<1>1. DOMAIN Life!Locals = LocalMembers /\ \A k \in LocalMembers : Life!Locals[k] = NULL
    BY DEF Life!Locals, LocalMembers
<1>2. LocalMembers \subseteq Life!Resources
    BY DEF LocalMembers, Life!Resources, Life!MapMembers
<1> QED BY <1>1, <1>2 DEF Members, Holds

\* The map of a file: whatever fails, what was allocated on the way is freed again.
LEMMA InitMapxNew ==
    ASSUME NEW h, NEW R, NEW K, Base(h, R, K), "field" \in K, NEW name, NEW beyond, NEW fault
    PROVE  NewMap(Life!init_mapx(h, name, beyond, fault), R, K)
<1> DEFINE file == Life!search_path_fopen(name)
           s == [h |-> h, o |-> Life!Locals]
           a == Life!Give(s, "mpp_filename")
           b == Life!Give(a, "mpp_file")
           c == Life!Give(b, "label")
           r == Life!init_mapx(h, name, beyond, fault)
<1>1. CASE file = NULL
    <2>1. r = [h |-> h, o |-> Life!NoMap]
        BY <1>1 DEF Life!init_mapx
    <2> QED BY <2>1, NoMapNew
<1>2. CASE file # NULL
    <2>1. r = Life!Opened(b, file, beyond, fault)
        BY <1>2 DEF Life!init_mapx
    <2>2. s.h = h /\ s.o = Life!Locals
        OBVIOUS
    <2> HIDE DEF s, r
    <2>3. {"mpp_filename", "mpp_file", "label"} = LocalMembers
        BY DEF LocalMembers
    <2>0. DOMAIN s.o = LocalMembers /\ \A k \in LocalMembers : s.o[k] = NULL
        BY <2>2, LocalsHoldNone
    <2>4. Fine(s.h, s.o, LocalMembers, R, K)
        BY <2>2, LocalsHoldNone, BaseFine
    <2>5. Fine(a.h, a.o, LocalMembers, R, K)
        BY <2>0, <2>3, <2>4, GiveFine
    <2>6. /\ DOMAIN a.o = LocalMembers
          /\ \A k \in LocalMembers : k # "mpp_filename" => a.o[k] = NULL
        <3>1. "mpp_filename" \in DOMAIN s.o
            BY <2>0, <2>3
        <3>2. DOMAIN a.o = DOMAIN s.o /\ \A k \in DOMAIN s.o : k # "mpp_filename" => a.o[k] = s.o[k]
            BY <3>1, GiveIs
        <3> QED BY <2>0, <3>2
    <2> HIDE DEF a
    <2>7. a.o["mpp_file"] = NULL
        BY <2>3, <2>6
    <2>8. Fine(b.h, b.o, LocalMembers, R, K)
        BY <2>3, <2>5, <2>7, GiveFine
    <2>9. /\ DOMAIN b.o = LocalMembers
          /\ \A k \in LocalMembers : k # "mpp_file" => b.o[k] = a.o[k]
        <3>1. "mpp_file" \in DOMAIN a.o
            BY <2>3, <2>6
        <3>2. DOMAIN b.o = DOMAIN a.o /\ \A k \in DOMAIN a.o : k # "mpp_file" => b.o[k] = a.o[k]
            BY <3>1, GiveIs
        <3> QED BY <2>6, <3>2
    <2> HIDE DEF b
    <2>10. b.o["label"] = NULL
        BY <2>3, <2>6, <2>9
    <2>11. Fine(c.h, c.o, LocalMembers, R, K)
        BY <2>3, <2>8, <2>10, GiveFine
    <2>12. CASE fault = "mpp_label"
        <3> DEFINE rs == <<b.o.mpp_filename, b.o.mpp_file>>
                   ks == <<"mpp_filename", "mpp_file">>
                   F == {"mpp_filename", "mpp_file"}
        <3>1. r = [h |-> Life!FreeAll(b.h, rs), o |-> Life!NoMap]
            BY <2>1, <2>12 DEF Life!Opened
        <3>2. Listed(rs, ks, 2, F, b.o)
            <4>1. /\ DOMAIN rs = 1 .. 2 /\ rs[1] = b.o["mpp_filename"] /\ rs[2] = b.o["mpp_file"]
                  /\ ks[1] = "mpp_filename" /\ ks[2] = "mpp_file"
                OBVIOUS
            <4> HIDE DEF rs, ks
            <4>2. 2 \in Nat /\ \A i \in 1 .. 2 : i = 1 \/ i = 2
                OBVIOUS
            <4>3. \A i \in 1 .. 2 : ks[i] \in F /\ rs[i] = b.o[ks[i]]
                BY <4>1, <4>2
            <4>4. \A i, j \in 1 .. 2 : i # j => ks[i] # ks[j]
                BY <4>1, <4>2
            <4>5. \A k \in F : \E i \in 1 .. 2 : ks[i] = k
                BY <4>1
            <4> QED BY <4>1, <4>2, <4>3, <4>4, <4>5 DEF Listed
        <3>3. F \subseteq LocalMembers /\ \A k \in LocalMembers \ F : b.o[k] = NULL
            BY <2>3, <2>10
        <3> HIDE DEF rs, ks, F
        <3>4. Holds(Life!NoMap, Life!MapMembers) = Holds(b.o, LocalMembers \ F)
            BY <3>3, NoMapHoldsNone DEF Holds
        <3>5. Members(Life!NoMap, Life!MapMembers)
            BY NoMapHoldsNone
        <3>6. Fine(Life!FreeAll(b.h, rs), Life!NoMap, Life!MapMembers, R, K)
            BY <2>8, <3>2, <3>3, <3>4, <3>5, FreeFine
        <3>7. HeapAndMap(r) /\ r.h = Life!FreeAll(b.h, rs) /\ r.o = Life!NoMap
            BY <3>1 DEF HeapAndMap
        <3>8. NewMap(r, R, K)
            BY <3>6, <3>7, NoMapSound DEF NewMap
        <3> QED BY <3>8 DEF r
    <2>13. CASE fault # "mpp_label"
        <3> DEFINE n == Life!new_mapx(c.h, Life!get_label_keyval(files[file]), beyond, fault)
        <3>1. r = Life!Kept(n, c.o)
            BY <2>1, <2>13 DEF Life!Opened, Life!Read
        <3>2. Base(c.h, R \cup Holds(c.o, LocalMembers), K)
            BY <2>11, FineBase
        <3>3. NewMap(n, R \cup Holds(c.o, LocalMembers), K) /\ n.o.mpp_file = NULL /\ n.o.mpp_filename = NULL
            <4> DEFINE label == Life!get_label_keyval(files[file])
            <4> HIDE DEF label
            <4>1. /\ NewMap(Life!new_mapx(c.h, label, beyond, fault), R \cup Holds(c.o, LocalMembers), K)
                  /\ Life!new_mapx(c.h, label, beyond, fault).o.mpp_file = NULL
                  /\ Life!new_mapx(c.h, label, beyond, fault).o.mpp_filename = NULL
                BY <3>2, NewMapxNew
            <4> QED BY <4>1 DEF label
        <3> HIDE DEF n, c
        <3>4. Members(c.o, LocalMembers) /\ R \cap Holds(c.o, LocalMembers) = {}
            BY <2>11 DEF Fine
        <3>5. NewMap(Life!Kept(n, c.o), R, K)
            BY <3>3, <3>4, KeptNew
        <3> QED BY <3>1, <3>5 DEF r
    <2> QED BY <2>12, <2>13
<1> QED BY <1>1, <1>2

-----------------------------------------------------------------------------
\* Grids: what a grid holds itself and what its map holds.

GridFine(h, g, R, K) ==
    /\ Fine(h, g, Life!GridMembers, R \cup Holds(g.mapx, Life!MapMembers), K)
    /\ Members(g.mapx, Life!MapMembers) /\ R \cap Holds(g.mapx, Life!MapMembers) = {}
    /\ Life!MapSound(g.mapx) /\ DOMAIN g = DOMAIN Life!NoGrid
    /\ g.mapx.self = NULL => g.mapx = Life!NoMap

\* A grid that was made, or none.
NewGrid(r, R, K) ==
    /\ {"h", "o"} \subseteq DOMAIN r /\ GridFine(r.h, r.o, R, K)
    /\ IF r.o.self = NULL THEN r.o = Life!NoGrid ELSE r.o.mapx.self # NULL

LEMMA NoGridMembers ==
    /\ Life!GridMembers \subseteq DOMAIN Life!NoGrid /\ "mapx" \in DOMAIN Life!NoGrid
    /\ \A k \in Life!GridMembers : Life!NoGrid[k] = NULL
    /\ Life!NoGrid.mapx = Life!NoMap
    /\ Members(Life!NoGrid, Life!GridMembers) /\ Holds(Life!NoGrid, Life!GridMembers) = {}
    /\ {"self", "gpd_file", "gpd_filename"} = Life!GridMembers /\ "mapx" \notin Life!GridMembers
    /\ Life!NoGrid.self = NULL
<1>1. /\ Life!GridMembers \subseteq DOMAIN Life!NoGrid /\ "mapx" \in DOMAIN Life!NoGrid
      /\ \A k \in Life!GridMembers : Life!NoGrid[k] = NULL
    BY DEF Life!NoGrid, Life!GridMembers
<1>2. Life!NoGrid.mapx = Life!NoMap
    BY DEF Life!NoGrid
<1>3. {"self", "gpd_file", "gpd_filename"} = Life!GridMembers /\ "mapx" \notin Life!GridMembers
    BY DEF Life!GridMembers
<1>4. Life!GridMembers \subseteq Life!Resources
    BY DEF Life!Resources
<1>5. Members(Life!NoGrid, Life!GridMembers) /\ Holds(Life!NoGrid, Life!GridMembers) = {}
    BY <1>1, <1>4 DEF Members, Holds
<1> QED BY <1>1, <1>2, <1>3, <1>5

\* What remains when nothing is held.
LEMMA NoGridFine ==
    ASSUME NEW h, NEW R, NEW K, Base(h, R, K)
    PROVE  GridFine(h, Life!NoGrid, R, K)
<1>1. Holds(Life!NoGrid.mapx, Life!MapMembers) = {} /\ Members(Life!NoGrid.mapx, Life!MapMembers)
    BY NoGridMembers, NoMapHoldsNone
<1>2. Fine(h, Life!NoGrid, Life!GridMembers, R, K)
    BY NoGridMembers, BaseFine
<1>3. Life!MapSound(Life!NoGrid.mapx)
    BY NoGridMembers, NoMapSound
<1>4. R \cup {} = R
    OBVIOUS
<1>5. Fine(h, Life!NoGrid, Life!GridMembers, R \cup Holds(Life!NoGrid.mapx, Life!MapMembers), K)
    BY <1>1, <1>2, <1>4
<1> QED BY <1>1, <1>3, <1>5, NoGridMembers DEF GridFine

LEMMA NoGridNew ==
    ASSUME NEW h, NEW R, NEW K, Base(h, R, K)
    PROVE  NewGrid([h |-> h, o |-> Life!NoGrid], R, K)
<1> DEFINE r == [h |-> h, o |-> Life!NoGrid]
<1>1. {"h", "o"} \subseteq DOMAIN r /\ r.h = h /\ r.o = Life!NoGrid
    OBVIOUS
<1> HIDE DEF r
<1>2. GridFine(r.h, r.o, R, K)
    BY <1>1, NoGridFine
<1>3. r.o.self = NULL
    BY <1>1, NoGridMembers
<1>4. NewGrid(r, R, K)
    BY <1>1, <1>2, <1>3 DEF NewGrid
<1> QED BY <1>4 DEF r

\* The grid is closed: the file and its name, the map, and the grid itself.
LEMMA CloseGridFine ==
    ASSUME NEW h, NEW g, NEW R, NEW K, GridFine(h, g, R, K), g.self # NULL
    PROVE  Base(Life!close_grid(h, g), R, K)
<1> DEFINE rs == <<g.gpd_file, g.gpd_filename>>
           ks == <<"gpd_file", "gpd_filename">>
           F == {"gpd_file", "gpd_filename"}
           h1 == Life!FreeAll(h, rs)
           h2 == Life!close_mapx(h1, g.mapx)
           qs == <<g.self>>
           js == <<"self">>
           h3 == Life!FreeAll(h2, qs)
           RM == R \cup Holds(g.mapx, Life!MapMembers)
           RS == R \cup Holds(g, {"self"})
<1>1. /\ Fine(h, g, Life!GridMembers, RM, K)
      /\ Members(g.mapx, Life!MapMembers) /\ R \cap Holds(g.mapx, Life!MapMembers) = {}
      /\ g.mapx.self = NULL => g.mapx = Life!NoMap
    BY DEF GridFine
<1>2. Life!close_grid(h, g) = h3
    BY DEF Life!close_grid, Life!Free
<1>3. Listed(rs, ks, 2, F, g)
    <2>1. /\ DOMAIN rs = 1 .. 2 /\ rs[1] = g["gpd_file"] /\ rs[2] = g["gpd_filename"]
          /\ ks[1] = "gpd_file" /\ ks[2] = "gpd_filename"
        OBVIOUS
    <2> HIDE DEF rs, ks
    <2>2. 2 \in Nat /\ \A i \in 1 .. 2 : i = 1 \/ i = 2
        OBVIOUS
    <2>3. \A i \in 1 .. 2 : ks[i] \in F /\ rs[i] = g[ks[i]]
        BY <2>1, <2>2
    <2>4. \A i, j \in 1 .. 2 : i # j => ks[i] # ks[j]
        BY <2>1, <2>2
    <2>5. \A k \in F : \E i \in 1 .. 2 : ks[i] = k
        BY <2>1
    <2> QED BY <2>1, <2>2, <2>3, <2>4, <2>5 DEF Listed
<1>4. Listed(qs, js, 1, {"self"}, g)
    BY DEF Listed
<1>5. F \subseteq Life!GridMembers /\ Life!GridMembers \ F = {"self"} /\ {"self"} \subseteq Life!GridMembers
    BY DEF Life!GridMembers
<1> HIDE DEF rs, ks, F, qs, js, h3
<1>6. Members(g, {"self"})
    BY <1>1, <1>5 DEF Fine, Members
<1>7. Fine(h1, g, {"self"}, RM, K)
    <2>1. Holds(g, {"self"}) = Holds(g, Life!GridMembers \ F)
        BY <1>5
    <2> HIDE DEF RM
    <2> QED BY <1>1, <1>3, <1>5, <1>6, <2>1, FreeFine
<1> HIDE DEF h1
<1>8. Fine(h1, g.mapx, Life!MapMembers, RS, K)
    BY <1>1, <1>7, FineSwap
<1>9. Fine(h2, Life!NoMap, Life!MapMembers, RS, K)
    <2>1. g.mapx.self = NULL => Holds(g.mapx, Life!MapMembers) = {}
        BY <1>1, NoMapHoldsNone
    <2> HIDE DEF RS
    <2> QED BY <1>8, <2>1, CloseFine
<1> HIDE DEF h2
<1>10. Fine(h2, g, {"self"}, R, K)
    <2>1. R \cap Holds(g, {"self"}) = {}
        BY <1>7 DEF Fine
    <2>2. Fine(h2, g, {"self"}, R \cup Holds(Life!NoMap, Life!MapMembers), K)
        BY <1>6, <1>9, <2>1, FineSwap
    <2>3. R \cup Holds(Life!NoMap, Life!MapMembers) = R
        BY NoMapHoldsNone
    <2> QED BY <2>2, <2>3
<1>11. Fine(h3, g, {}, R, K)
    <2>1. Members(g, {}) /\ Holds(g, {}) = Holds(g, {"self"} \ {"self"})
        BY DEF Members, Holds
    <2> QED BY <1>4, <1>10, <2>1, FreeFine DEF h3
<1>12. Base(h3, R \cup Holds(g, {}), K)
    BY <1>11, FineBase
<1>13. R \cup Holds(g, {}) = R
    BY DEF Holds
<1> QED BY <1>2, <1>12, <1>13

LEMMA GridSame ==
    ASSUME NEW h, NEW g, NEW R, NEW K, GridFine(h, g, R, K),
           NEW p, DOMAIN p = DOMAIN Life!NoGrid, \A k \in Life!GridMembers : p[k] = g[k], p.mapx = g.mapx
    PROVE  GridFine(h, p, R, K)
<1> DEFINE RM == R \cup Holds(g.mapx, Life!MapMembers)
<1>1. Fine(h, g, Life!GridMembers, RM, K)
    BY DEF GridFine
<1>2. Life!GridMembers \subseteq DOMAIN p
    BY NoGridMembers
<1> HIDE DEF RM
<1>3. Fine(h, p, Life!GridMembers, RM, K)
    BY <1>1, <1>2, FineSame
<1> QED BY <1>3 DEF GridFine, RM

\* A grid in the making, without its file yet.
Made(t, R, K) ==
    /\ {"h", "o"} \subseteq DOMAIN t /\ GridFine(t.h, t.o, R, K)
    /\ t.o.self # NULL /\ t.o.gpd_file = NULL /\ t.o.gpd_filename = NULL

LEMMA MadeSame ==
    ASSUME NEW t, NEW R, NEW K, Made(t, R, K), NEW v, {"h", "o"} \subseteq DOMAIN v, v.h = t.h,
           DOMAIN v.o = DOMAIN Life!NoGrid, \A k \in Life!GridMembers \cup {"mapx"} : v.o[k] = t.o[k]
    PROVE  Made(v, R, K) /\ v.o.mapx = t.o.mapx
<1>1. /\ v.o.self = t.o.self /\ v.o.gpd_file = t.o.gpd_file /\ v.o.gpd_filename = t.o.gpd_filename
      /\ v.o.mapx = t.o.mapx /\ \A k \in Life!GridMembers : v.o[k] = t.o[k]
    BY NoGridMembers
<1>2. GridFine(v.h, v.o, R, K)
    BY <1>1, GridSame DEF Made
<1> QED BY <1>1, <1>2 DEF Made

\* A grid p that is g with the map m.
WithMap(g, p, m) == DOMAIN p = DOMAIN g /\ p.mapx = m /\ \A k \in DOMAIN g : k # "mapx" => p[k] = g[k]

LEMMA OnFine ==
    ASSUME NEW g, NEW r, NEW R, NEW K,
           DOMAIN g = DOMAIN Life!NoGrid, Members(g, Life!GridMembers), R \cap Holds(g, Life!GridMembers) = {},
           NewMap(r, R \cup Holds(g, Life!GridMembers), K),
           NEW p, WithMap(g, p, r.o)
    PROVE  GridFine(r.h, p, R, K)
<1>1. /\ Fine(r.h, r.o, Life!MapMembers, R \cup Holds(g, Life!GridMembers), K) /\ Life!MapSound(r.o)
      /\ r.o.self = NULL => r.o = Life!NoMap
    BY DEF NewMap
<1>2. /\ \A k \in Life!GridMembers : p[k] = g[k]
      /\ DOMAIN p = DOMAIN g /\ p.mapx = r.o
    BY NoGridMembers DEF WithMap
<1>3. Fine(r.h, g, Life!GridMembers, R \cup Holds(r.o, Life!MapMembers), K)
    BY <1>1, FineSwap
<1>4. Fine(r.h, p, Life!GridMembers, R \cup Holds(r.o, Life!MapMembers), K)
    <2> DEFINE RM == R \cup Holds(r.o, Life!MapMembers)
    <2>1. Life!GridMembers \subseteq DOMAIN p
        BY <1>2, NoGridMembers
    <2>2. Fine(r.h, g, Life!GridMembers, RM, K)
        BY <1>3
    <2> HIDE DEF RM
    <2>3. Fine(r.h, p, Life!GridMembers, RM, K)
        BY <1>2, <2>1, <2>2, FineSame
    <2> QED BY <2>3 DEF RM
<1>5. Members(r.o, Life!MapMembers) /\ R \cap Holds(r.o, Life!MapMembers) = {}
    BY <1>1 DEF Fine
<1> QED BY <1>1, <1>2, <1>4, <1>5 DEF GridFine

LEMMA OnMade ==
    ASSUME NEW t, NEW r, NEW R, NEW K,
           DOMAIN t.o = DOMAIN Life!NoGrid, Members(t.o, Life!GridMembers), R \cap Holds(t.o, Life!GridMembers) = {},
           t.o.self # NULL, t.o.gpd_file = NULL, t.o.gpd_filename = NULL,
           NewMap(r, R \cup Holds(t.o, Life!GridMembers), K)
    PROVE  Made(Life!On(t.o, r), R, K) /\ Life!On(t.o, r).o.mapx = r.o /\ Life!On(t.o, r).h = r.h
<1> DEFINE g == t.o
           p == [g EXCEPT !.mapx = r.o]
           v == Life!On(g, r)
<1>1. v = [h |-> r.h, o |-> p]
    BY DEF Life!On
<1>2. DOMAIN p = DOMAIN g /\ p.mapx = r.o /\ \A k \in DOMAIN g : k # "mapx" => p[k] = g[k]
    BY NoGridMembers
<1> HIDE DEF p, v
<1>3. GridFine(r.h, p, R, K) /\ \A k \in Life!GridMembers : p[k] = g[k]
    <2>1. WithMap(g, p, r.o)
        BY <1>2 DEF WithMap
    <2>2. /\ DOMAIN g = DOMAIN Life!NoGrid /\ Members(g, Life!GridMembers) /\ R \cap Holds(g, Life!GridMembers) = {}
          /\ NewMap(r, R \cup Holds(g, Life!GridMembers), K)
        OBVIOUS
    <2>3. \A k \in Life!GridMembers : p[k] = g[k]
        BY <1>2, <2>2, NoGridMembers
    <2> HIDE DEF g
    <2>4. GridFine(r.h, p, R, K)
        BY <2>1, <2>2, OnFine
    <2> QED BY <2>3, <2>4 DEF g
<1>4. p.self = g.self /\ p.gpd_file = g.gpd_file /\ p.gpd_filename = g.gpd_filename
    BY <1>3, NoGridMembers
<1>5. v.h = r.h /\ v.o = p /\ {"h", "o"} \subseteq DOMAIN v
    BY <1>1
<1>6. Made(v, R, K) /\ v.o.mapx = r.o /\ v.h = r.h
    BY <1>2, <1>3, <1>4, <1>5 DEF Made
<1> QED BY <1>6 DEF v

LEMMA MadeOutcome ==
    ASSUME NEW t, NEW R, NEW K, Made(t, R, K)
    PROVE  /\ Made(Life!Error(t), R, K) /\ Life!Error(t).o.mapx = t.o.mapx /\ Life!Error(t).ok = FALSE
           /\ Made(Life!Done(t), R, K) /\ Life!Done(t).o.mapx = t.o.mapx
BY DEF Made, Life!Error, Life!Done

LEMMA DecodeMade ==
    ASSUME NEW t, NEW R, NEW K, Made(t, R, K), NEW label, NEW stack
    PROVE  LET v == Life!decode_gpd(t, label, stack)
           IN  Made(v, R, K) /\ v.o.mapx = t.o.mapx
<1> DEFINE width == Life!get_value_keyval(label, <<"Grid Width">>, "%d", <<>>)
           height == Life!get_value_keyval(label, <<"Grid Height">>, "%d", <<>>)
           a3 == 2 * Life!Value(label, "Grid Map Origin Column", "%lf", 0)
           a4 == 2 * Life!Value(label, "Grid Map Origin Row", "%lf", 0)
           a5 == Life!PerMapUnit(label, "Grid Columns per Map Unit", "Grid Map Units per Column", stack)
           a6 == Life!PerMapUnit(label, "Grid Rows per Map Unit", "Grid Map Units per Row", stack)
           v == Life!decode_gpd(t, label, stack)
           p == [t.o EXCEPT !.cols = width[1], !.rows = height[1], !.origin_col = a3, !.origin_row = a4,
                    !.per_col = a5, !.per_row = a6]
           w == [h |-> t.h, o |-> p]
<1>1. v = Life!Sized(t, label, width, height, stack)
    BY DEF Life!decode_gpd
<1>2. v = Life!Error(t) \/ v = Life!Done(w)
    <2> HIDE DEF v, width, height
    <2> QED BY <1>1 DEF Life!Sized
<1> HIDE DEF a3, a4, a5, a6, width, height, v
<1>3. DOMAIN t.o = DOMAIN Life!NoGrid
    BY DEF Made, GridFine
<1>4. DOMAIN p = DOMAIN Life!NoGrid /\ \A k \in Life!GridMembers \cup {"mapx"} : p[k] = t.o[k]
    <2> DEFINE g == t.o
               fields == {"cols", "rows", "origin_col", "origin_row", "per_col", "per_row"}
               b1 == width[1]
               b2 == height[1]
               q == [g EXCEPT !.cols = b1, !.rows = b2, !.origin_col = a3, !.origin_row = a4, !.per_col = a5, !.per_row = a6]
    <2>1. p = q
        OBVIOUS
    <2> HIDE DEF g, b1, b2, p
    <2>2. DOMAIN q = DOMAIN g /\ \A k \in DOMAIN g : k \notin fields => q[k] = g[k]
        OBVIOUS
    <2>3. \A k \in Life!GridMembers \cup {"mapx"} : k \notin fields
        BY DEF Life!GridMembers
    <2> HIDE DEF q, fields
    <2>4. \A k \in Life!GridMembers \cup {"mapx"} : k \in DOMAIN g
        BY <1>3, NoGridMembers DEF g
    <2> QED BY <1>3, <2>1, <2>2, <2>3, <2>4 DEF g
<1>5. {"h", "o"} \subseteq DOMAIN w /\ w.h = t.h /\ w.o = p
    OBVIOUS
<1> HIDE DEF w, p
<1>6. Made(w, R, K) /\ w.o.mapx = t.o.mapx
    BY <1>4, <1>5, MadeSame
<1>7. Made(v, R, K) /\ v.o.mapx = t.o.mapx
    BY <1>2, <1>6, MadeOutcome
<1> QED BY <1>7 DEF v

LEMMA OldDecodeMade ==
    ASSUME NEW t, NEW R, NEW K, Made(t, R, K), NEW line
    PROVE  LET v == Life!old_fixed_format_decode_gpd(t, line)
           IN  Made(v, R, K) /\ (v.ok => v.o.mapx.self # NULL)
<1> DEFINE at(n, k, default) == Life!Nth(Life!Numbers(line[n], 2), k, default)
           origin(k, size) == IF k \in DOMAIN Life!Numbers(line[4], 2) THEN 2 * at(4, k, 0) ELSE size
           a1 == at(2, 1, 512)
           a2 == at(2, 2, 512)
           a3 == origin(1, at(2, 1, 512))
           a4 == origin(2, at(2, 2, 512))
           a5 == <<at(3, 1, 64), 1>>
           a6 == <<at(3, 2, at(3, 1, 64)), 1>>
           v == Life!old_fixed_format_decode_gpd(t, line)
           b == [t.o EXCEPT !.cols = a1, !.rows = a2, !.per_col = a5, !.per_row = a6, !.origin_col = a3, !.origin_row = a4]
           w == [h |-> t.h, o |-> b]
<1>1. /\ t.o.mapx.self = NULL \/ Len(line) < 4 => v = Life!Error(t)
      /\ ~(t.o.mapx.self = NULL \/ Len(line) < 4) => v = Life!Done(w)
    BY DEF Life!old_fixed_format_decode_gpd
<1> HIDE DEF a1, a2, a3, a4, a5, a6, v
<1>2. DOMAIN t.o = DOMAIN Life!NoGrid
    BY DEF Made, GridFine
<1>4. DOMAIN b = DOMAIN Life!NoGrid /\ \A k \in Life!GridMembers \cup {"mapx"} : b[k] = t.o[k]
    <2> DEFINE g == t.o
               fields == {"cols", "rows", "origin_col", "origin_row", "per_col", "per_row"}
               q == [g EXCEPT !.cols = a1, !.rows = a2, !.per_col = a5, !.per_row = a6, !.origin_col = a3, !.origin_row = a4]
    <2>1. b = q
        OBVIOUS
    <2> HIDE DEF g, b
    <2>2. DOMAIN q = DOMAIN g /\ \A k \in DOMAIN g : k \notin fields => q[k] = g[k]
        OBVIOUS
    <2>3. \A k \in Life!GridMembers \cup {"mapx"} : k \notin fields
        BY DEF Life!GridMembers
    <2> HIDE DEF q, fields
    <2>4. \A k \in Life!GridMembers \cup {"mapx"} : k \in DOMAIN g
        BY <1>2, NoGridMembers DEF g
    <2> QED BY <1>2, <2>1, <2>2, <2>3, <2>4 DEF g
<1>5. {"h", "o"} \subseteq DOMAIN w /\ w.h = t.h /\ w.o = b
    OBVIOUS
<1> HIDE DEF w, b
<1>6. Made(w, R, K) /\ w.o.mapx = t.o.mapx
    BY <1>4, <1>5, MadeSame
<1>7. CASE t.o.mapx.self = NULL \/ Len(line) < 4
    BY <1>1, <1>7, MadeOutcome DEF v
<1>8. CASE ~(t.o.mapx.self = NULL \/ Len(line) < 4)
    <2>1. Made(v, R, K) /\ v.o.mapx = t.o.mapx
        BY <1>1, <1>6, <1>8, MadeOutcome
    <2>2. v.o.mapx.self # NULL
        BY <1>8, <2>1
    <2> QED BY <2>1, <2>2 DEF v
<1> QED BY <1>7, <1>8

\* A grid that has no map and no file yet.
Bare(g, R) ==
    /\ DOMAIN g = DOMAIN Life!NoGrid /\ Members(g, Life!GridMembers) /\ R \cap Holds(g, Life!GridMembers) = {}
    /\ g.self # NULL /\ g.gpd_file = NULL /\ g.gpd_filename = NULL /\ g.mapx = Life!NoMap

LEMMA BareOn ==
    ASSUME NEW s, NEW r, NEW R, NEW K, Bare(s.o, R), NewMap(r, R \cup Holds(s.o, Life!GridMembers), K)
    PROVE  Made(Life!On(s.o, r), R, K) /\ Life!On(s.o, r).o.mapx = r.o /\ Life!On(s.o, r).h = r.h
BY OnMade DEF Bare

LEMMA OldGridMade ==
    ASSUME NEW s, NEW h, NEW R, NEW K, Bare(s.o, R), Base(h, R \cup Holds(s.o, Life!GridMembers), K),
           "field" \in K, NEW line, NEW beyond, NEW fault
    PROVE  LET v == Life!OldGrid(s.o, h, line, beyond, fault)
           IN  Made(v, R, K) /\ (v.ok => v.o.mapx.self # NULL)
<1> DEFINE v == Life!OldGrid(s.o, h, line, beyond, fault)
           RG == R \cup Holds(s.o, Life!GridMembers)
<1>1. CASE line = <<>>
    <2> DEFINE none == [h |-> h, o |-> Life!NoMap]
               t == [h |-> h, o |-> s.o]
    <2>1. v = Life!Error(t)
        BY <1>1 DEF Life!OldGrid
    <2>2. NewMap(none, RG, K) /\ none.o = Life!NoMap /\ none.h = h
        BY NoMapNew
    <2>3. {"h", "o"} \subseteq DOMAIN t /\ t.h = h /\ t.o = s.o
        OBVIOUS
    <2> HIDE DEF none, t, v
    <2>4. Made(Life!On(s.o, none), R, K) /\ Life!On(s.o, none).o.mapx = Life!NoMap /\ Life!On(s.o, none).h = h
        BY <2>2, BareOn
    <2>5. \A k \in Life!GridMembers \cup {"mapx"} : s.o[k] = Life!On(s.o, none).o[k]
        <3> DEFINE g == s.o
                   a == none.o
        <3>1. Life!On(g, none) = [h |-> none.h, o |-> [g EXCEPT !.mapx = a]]
            BY DEF Life!On
        <3>2. g.mapx = a /\ DOMAIN g = DOMAIN Life!NoGrid
            BY <2>2 DEF Bare
        <3> HIDE DEF g, a
        <3>3. \A k \in DOMAIN g : [g EXCEPT !.mapx = a][k] = g[k]
            BY <3>2
        <3>4. \A k \in Life!GridMembers \cup {"mapx"} : k \in DOMAIN g
            BY <3>2, NoGridMembers
        <3>5. \A k \in Life!GridMembers \cup {"mapx"} : g[k] = Life!On(g, none).o[k]
            BY <3>1, <3>3, <3>4
        <3> QED BY <3>5 DEF g
    <2>6. DOMAIN t.o = DOMAIN Life!NoGrid
        BY <2>3 DEF Bare
    <2>7. Made(t, R, K)
        BY <2>3, <2>4, <2>5, <2>6, MadeSame
    <2>8. Made(v, R, K) /\ v.ok = FALSE
        BY <2>1, <2>7, MadeOutcome
    <2> QED BY <2>8 DEF v
<1>2. CASE line # <<>>
    <2> DEFINE r == Life!init_mapx(h, line[1][1], beyond, fault)
               t == Life!On(s.o, r)
    <2>1. v = Life!old_fixed_format_decode_gpd(t, line)
        BY <1>2 DEF Life!OldGrid
    <2>2. NewMap(r, RG, K)
        BY InitMapxNew
    <2> HIDE DEF r, v
    <2>3. Made(t, R, K)
        BY <2>2, BareOn
    <2> HIDE DEF t
    <2>4. Made(v, R, K) /\ (v.ok => v.o.mapx.self # NULL)
        BY <2>1, <2>3, OldDecodeMade
    <2> QED BY <2>4 DEF v
<1> QED BY <1>1, <1>2

\* The map of a new grid is in a file, in the label itself, or in the file that a
\* label of the old format begins with.
LEMMA GridFromMade ==
    ASSUME NEW s, NEW R, NEW K, Bare(s.o, R), Base(s.h, R \cup Holds(s.o, Life!GridMembers), K),
           "field" \in K, NEW label, NEW beyond, NEW stack, NEW fault
    PROVE  LET v == Life!GridFrom(s, label, beyond, stack, fault)
           IN  Made(v, R, K) /\ (v.ok => v.o.mapx.self # NULL)
<1> DEFINE v == Life!GridFrom(s, label, beyond, stack, fault)
           RG == R \cup Holds(s.o, Life!GridMembers)
           named == Life!KeywordEnds(label, <<"Grid MPP File">>) # {}
           name == Life!get_field_keyval(label, <<"Grid MPP File">>)[1]
           r == Life!init_mapx(s.h, name, beyond, fault)
           n == Life!new_mapx(s.h, label, beyond, fault)
           t == Life!On(s.o, r)
           u == Life!On(s.o, n)
           line == Life!LinesOf(label, beyond)
<1>1. /\ named => v = Life!Elsewhere(t, label, stack)
      /\ ~named => v = Life!Embedded(s.o, n, label, beyond, stack, fault)
    BY DEF Life!GridFrom
<1>2. NewMap(r, RG, K)
    <2> HIDE DEF name
    <2> QED BY InitMapxNew
<1>3. NewMap(n, RG, K)
    BY NewMapxNew
<1> HIDE DEF v, r, n, line, named, name
<1>4. CASE named
    <2>1. Made(t, R, K)
        BY <1>2, BareOn
    <2> HIDE DEF t
    <2>2. CASE t.o.mapx.self = NULL
        <3>1. v = Life!Error(t)
            BY <1>1, <1>4, <2>2 DEF Life!Elsewhere
        <3> QED BY <2>1, <3>1, MadeOutcome DEF v
    <2>3. CASE t.o.mapx.self # NULL
        <3>1. v = Life!decode_gpd(t, label, stack)
            BY <1>1, <1>4, <2>3 DEF Life!Elsewhere
        <3>2. Made(v, R, K) /\ v.o.mapx = t.o.mapx
            BY <2>1, <3>1, DecodeMade
        <3>3. v.o.mapx.self # NULL
            BY <2>3, <3>2
        <3> QED BY <3>2, <3>3 DEF v
    <2> QED BY <2>2, <2>3
<1>5. CASE ~named /\ n.o.self = NULL
    <2>1. v = Life!OldGrid(s.o, n.h, line, beyond, fault)
        BY <1>1, <1>5 DEF Life!Embedded, line
    <2>2. Holds(n.o, Life!MapMembers) = {}
        BY <1>3, <1>5, NoMapHoldsNone DEF NewMap
    <2>3. Base(n.h, RG \cup Holds(n.o, Life!MapMembers), K)
        BY <1>3, FineBase DEF NewMap
    <2>4. RG \cup {} = RG
        OBVIOUS
    <2> HIDE DEF RG
    <2>5. Base(n.h, RG, K)
        BY <2>2, <2>3, <2>4
    <2>6. Made(v, R, K) /\ (v.ok => v.o.mapx.self # NULL)
        BY <2>1, <2>5, OldGridMade DEF RG
    <2> QED BY <2>6 DEF v
<1>6. CASE ~named /\ n.o.self # NULL
    <2>1. v = Life!decode_gpd(u, label, stack)
        BY <1>1, <1>6 DEF Life!Embedded
    <2>2. Made(u, R, K) /\ u.o.mapx = n.o
        BY <1>3, BareOn
    <2> HIDE DEF u
    <2>3. Made(v, R, K) /\ v.o.mapx = u.o.mapx
        BY <2>1, <2>2, DecodeMade
    <2>4. v.o.mapx.self # NULL
        BY <1>6, <2>2, <2>3
    <2> QED BY <2>3, <2>4 DEF v
<1> QED BY <1>4, <1>5, <1>6

\* The grid of a label, without its file, or none.
LEMMA NewGridNew ==
    ASSUME NEW h, NEW R, NEW K, Base(h, R, K), "field" \in K, NEW label, NEW beyond, NEW stack, NEW fault
    PROVE  LET r == Life!new_grid(h, label, beyond, stack, fault)
           IN  NewGrid(r, R, K) /\ r.o.gpd_file = NULL /\ r.o.gpd_filename = NULL
<1> DEFINE none == [h |-> h, o |-> Life!NoGrid]
           s == Life!Give(none, "self")
           v == Life!GridFrom(s, label, beyond, stack, fault)
           r == Life!new_grid(h, label, beyond, stack, fault)
           Goal == NewGrid(r, R, K) /\ r.o.gpd_file = NULL /\ r.o.gpd_filename = NULL
<1>1. /\ fault = "grid" => r = none
      /\ fault # "grid" => r = Life!Finished(v)
    BY DEF Life!new_grid
<1>2. NewGrid(none, R, K) /\ none.o = Life!NoGrid /\ none.h = h
    BY NoGridNew
<1>3. Life!NoGrid.self = NULL /\ Life!NoGrid.gpd_file = NULL /\ Life!NoGrid.gpd_filename = NULL
    BY NoGridMembers
<1> HIDE DEF none, r
<1>4. Fine(none.h, none.o, Life!GridMembers, R, K)
    BY <1>2, NoGridMembers, BaseFine
<1>5. "self" \in Life!GridMembers /\ none.o["self"] = NULL /\ "self" \in DOMAIN none.o
    BY <1>2, NoGridMembers
<1>6. Fine(s.h, s.o, Life!GridMembers, R, K) /\ s.o["self"] # NULL
    BY <1>4, <1>5, GiveFine
<1>7. DOMAIN s.o = DOMAIN none.o /\ \A j \in DOMAIN none.o : j # "self" => s.o[j] = none.o[j]
    BY <1>5, GiveIs
<1> HIDE DEF s
<1>8. Bare(s.o, R)
    <2>1. s.o.gpd_file = NULL /\ s.o.gpd_filename = NULL /\ s.o.mapx = Life!NoMap
        BY <1>2, <1>3, <1>7, NoGridMembers
    <2> QED BY <1>2, <1>6, <1>7, <2>1 DEF Bare, Fine
<1>9. Base(s.h, R \cup Holds(s.o, Life!GridMembers), K)
    BY <1>6, FineBase
<1>10. Made(v, R, K) /\ (v.ok => v.o.mapx.self # NULL)
    BY <1>8, <1>9, GridFromMade
<1> HIDE DEF v
<1>11. CASE fault = "grid"
    <2>1. Goal
        BY <1>1, <1>2, <1>3, <1>11
    <2> QED BY <2>1 DEF r
<1>12. CASE fault # "grid" /\ v.ok
    <2> DEFINE g == v.o
               a == Life!NewUMax(g.mapx)
               p == [g EXCEPT !.u_max = a]
               w == [h |-> v.h, o |-> p]
    <2>1. r = w
        BY <1>1, <1>12 DEF Life!Finished
    <2> HIDE DEF a
    <2>2. DOMAIN g = DOMAIN Life!NoGrid
        BY <1>10 DEF Made, GridFine
    <2>3. DOMAIN p = DOMAIN g /\ \A k \in DOMAIN g : k # "u_max" => p[k] = g[k]
        OBVIOUS
    <2> HIDE DEF p
    <2>4. \A k \in Life!GridMembers \cup {"mapx"} : k \in DOMAIN g /\ k # "u_max"
        BY <2>2, NoGridMembers
    <2>5. {"h", "o"} \subseteq DOMAIN w /\ w.h = v.h /\ w.o = p
        OBVIOUS
    <2> HIDE DEF w
    <2>6. Made(w, R, K) /\ w.o.mapx = v.o.mapx
        BY <1>10, <2>2, <2>3, <2>4, <2>5, MadeSame
    <2>7. Goal
        BY <1>10, <1>12, <2>1, <2>6 DEF Made, NewGrid
    <2> QED BY <2>7 DEF r
<1>13. CASE fault # "grid" /\ ~v.ok
    <2> DEFINE c == [h |-> Life!close_grid(v.h, v.o), o |-> Life!NoGrid]
    <2>1. r = c
        BY <1>1, <1>13 DEF Life!Finished
    <2>2. Base(Life!close_grid(v.h, v.o), R, K)
        BY <1>10, CloseGridFine DEF Made
    <2>3. NewGrid(c, R, K)
        BY <2>2, NoGridNew
    <2>4. c.o = Life!NoGrid
        OBVIOUS
    <2> HIDE DEF c
    <2>5. Goal
        BY <1>3, <2>1, <2>3, <2>4
    <2> QED BY <2>5 DEF r
<1> QED BY <1>11, <1>12, <1>13

\* The map of a grid gets a copy of the grid's name unless it has one.
LEMMA NamedNew ==
    ASSUME NEW t, NEW R, NEW K, NewGrid(t, R, K), t.o.self # NULL
    PROVE  NewGrid(Life!Named(t), R, K)
<1> DEFINE m == t.o.mapx
           s == [h |-> t.h, o |-> m]
           r == Life!Give(s, "mpp_filename")
           HG == Holds(t.o, Life!GridMembers)
           n == Life!Named(t)
<1>1. /\ Fine(t.h, t.o, Life!GridMembers, R \cup Holds(m, Life!MapMembers), K)
      /\ Members(m, Life!MapMembers) /\ R \cap Holds(m, Life!MapMembers) = {}
      /\ Life!MapSound(m) /\ DOMAIN t.o = DOMAIN Life!NoGrid /\ m.self # NULL
    BY DEF NewGrid, GridFine
<1>2. CASE m.mpp_filename # NULL
    BY <1>2 DEF Life!Named
<1>3. CASE m.mpp_filename = NULL
    <2> DEFINE g == t.o
               a == Life!Got(t.h, "mpp_filename")
               p == [g EXCEPT !.mapx.mpp_filename = a]
               q == [m EXCEPT !["mpp_filename"] = a]
    <2>1. n = [h |-> Life!Alloc(t.h, "mpp_filename"), o |-> p]
        BY <1>3 DEF Life!Named
    <2>2. r = [h |-> Life!Alloc(t.h, "mpp_filename"), o |-> q]
        BY DEF Life!Give
    <2>3. s.h = t.h /\ s.o = m
        OBVIOUS
    <2>4. DOMAIN p = DOMAIN g /\ p.mapx = q /\ \A k \in DOMAIN g : k # "mapx" => p[k] = g[k]
        BY <1>1, NoGridMembers
    <2> HIDE DEF s, a, p, q, n
    <2>5. Fine(s.h, s.o, Life!MapMembers, R \cup HG, K)
        BY <1>1, <2>3, FineSwap
    <2>6. "mpp_filename" \in Life!MapMembers /\ s.o["mpp_filename"] = NULL /\ "mpp_filename" \in DOMAIN s.o
        <3>1. "mpp_filename" \in Life!MapMembers
            BY DEF Life!MapMembers
        <3> QED BY <1>1, <1>3, <2>3, <3>1 DEF Members
    <2>7. Fine(r.h, r.o, Life!MapMembers, R \cup HG, K)
        <3> HIDE DEF HG
        <3> QED BY <2>5, <2>6, GiveFine
    <2>8. DOMAIN r.o = DOMAIN s.o /\ \A j \in DOMAIN s.o : j # "mpp_filename" => r.o[j] = s.o[j]
        BY <2>6, GiveIs
    <2>9. r.h = Life!Alloc(t.h, "mpp_filename") /\ r.o = q /\ {"h", "o"} \subseteq DOMAIN r
        BY <2>2
    <2> HIDE DEF r
    <2>10. DOMAIN m = DOMAIN Life!NoMap
        BY <1>1 DEF Life!MapSound
    <2>11. /\ r.o.self = m.self /\ r.o.isin_data = m.isin_data /\ r.o.isin_row = m.isin_row
           /\ r.o.name = m.name /\ r.o.lon0 = m.lon0 /\ r.o.false_easting = m.false_easting
           /\ r.o.nzone = m.nzone /\ r.o.justify = m.justify /\ r.o.table = m.table
        <3>1. {"self", "isin_data", "isin_row"} \subseteq DOMAIN Life!NoMap
            BY NoMapMembers DEF Life!MapMembers
        <3> QED BY <2>3, <2>8, <2>10, <3>1, LastingFields
    <2>12. Life!MapSound(r.o)
        <3>1. Members(r.o, Life!MapMembers) /\ DOMAIN r.o = DOMAIN Life!NoMap
            BY <2>3, <2>7, <2>8, <2>10 DEF Fine
        <3>2. /\ r.o.isin_data = NULL <=> r.o.isin_row = NULL
              /\ r.o.name = "INTEGERIZEDSINUSOIDAL" => {r.o.lon0, r.o.false_easting, r.o.nzone, r.o.justify} \subseteq Int
              /\ r.o.isin_data # NULL => Life!TableSound(r.o.table)
            BY <1>1, <2>11 DEF Life!MapSound
        <3> QED BY <3>1, <3>2, MapSoundIs
    <2>13. NewMap(r, R \cup HG, K)
        BY <1>1, <2>3, <2>7, <2>8, <2>9, <2>10, <2>11, <2>12 DEF NewMap, HeapAndMap
    <2>14. GridFine(r.h, p, R, K) /\ p.self = g.self
        <3>1. Members(g, Life!GridMembers) /\ R \cap Holds(g, Life!GridMembers) = {}
            BY <1>1 DEF Fine
        <3>2. WithMap(g, p, r.o)
            BY <2>4, <2>9 DEF WithMap
        <3>3. DOMAIN g = DOMAIN Life!NoGrid /\ NewMap(r, R \cup Holds(g, Life!GridMembers), K)
            BY <1>1, <2>13
        <3>4. p.self = g.self
            BY <2>4, <3>3, NoGridMembers
        <3> HIDE DEF g
        <3>5. GridFine(r.h, p, R, K)
            BY <3>1, <3>2, <3>3, OnFine
        <3> QED BY <3>4, <3>5
    <2>15. n.h = r.h /\ n.o = p /\ {"h", "o"} \subseteq DOMAIN n /\ p.mapx.self # NULL
        BY <1>1, <2>1, <2>4, <2>9, <2>11
    <2>16. NewGrid(n, R, K)
        BY <2>14, <2>15 DEF NewGrid
    <2> QED BY <2>16 DEF n
<1> QED BY <1>2, <1>3

GridLocalMembers == {"gpd_filename", "gpd_file", "label"}

\* The file and its name go with the grid, or are given up with the label.
LEMMA KeptGridNew ==
    ASSUME NEW s, NEW l, NEW R, NEW K, NewGrid(s, R \cup Holds(l, GridLocalMembers), K),
           Members(l, GridLocalMembers), R \cap Holds(l, GridLocalMembers) = {}, NULL \notin R,
           s.o.gpd_file = NULL, s.o.gpd_filename = NULL
    PROVE  NewGrid(Life!KeptGrid(s, l), R, K)
<1> DEFINE RL == R \cup Holds(l, GridLocalMembers)
           HM == Holds(s.o.mapx, Life!MapMembers)
           RM == R \cup HM
<1>1. /\ Fine(s.h, s.o, Life!GridMembers, RL \cup HM, K)
      /\ Members(s.o.mapx, Life!MapMembers) /\ RL \cap HM = {}
      /\ Life!MapSound(s.o.mapx) /\ DOMAIN s.o = DOMAIN Life!NoGrid
      /\ s.o.mapx.self = NULL => s.o.mapx = Life!NoMap
      /\ IF s.o.self = NULL THEN s.o = Life!NoGrid ELSE s.o.mapx.self # NULL
    BY DEF NewGrid, GridFine
<1>2. RL \cup HM = RM \cup Holds(l, GridLocalMembers) /\ RM \cap Holds(l, GridLocalMembers) = {}
    BY <1>1
<1> HIDE DEF RL, RM
<1>3. Fine(s.h, l, GridLocalMembers, RM \cup Holds(s.o, Life!GridMembers), K)
    BY <1>1, <1>2, FineSwap
<1>4. Members(s.o, Life!GridMembers) /\ RM \cap Holds(s.o, Life!GridMembers) = {}
    BY <1>1, <1>2 DEF Fine, RM
<1>5. CASE s.o.self = NULL
    <2> DEFINE rs == <<l.label, l.gpd_filename, l.gpd_file>>
               ks == <<"label", "gpd_filename", "gpd_file">>
               h1 == Life!FreeAll(s.h, rs)
               t == [s EXCEPT !.h = h1]
    <2>1. Life!KeptGrid(s, l) = t
        BY <1>5 DEF Life!KeptGrid
    <2>2. Listed(rs, ks, 3, GridLocalMembers, l)
        <3>1. 3 \in Nat /\ DOMAIN rs = 1 .. 3
            OBVIOUS
        <3>2. \A i \in 1 .. 3 : ks[i] \in GridLocalMembers /\ rs[i] = l[ks[i]]
            BY DEF GridLocalMembers
        <3>3. \A i, j \in 1 .. 3 : i # j => ks[i] # ks[j]
            OBVIOUS
        <3>4. ks[1] = "label" /\ ks[2] = "gpd_filename" /\ ks[3] = "gpd_file"
            OBVIOUS
        <3> HIDE DEF rs, ks
        <3>5. \A k \in GridLocalMembers : \E i \in 1 .. 3 : ks[i] = k
            BY <3>4 DEF GridLocalMembers
        <3> QED BY <3>1, <3>2, <3>3, <3>5 DEF Listed
    <2>3. s.o = Life!NoGrid /\ Holds(s.o, Life!GridMembers) = {} /\ HM = {}
        BY <1>1, <1>5, NoGridMembers, NoMapHoldsNone
    <2>4. RM \cup Holds(s.o, Life!GridMembers) = R
        BY <2>3 DEF RM
    <2>5. t.o = s.o /\ t.h = h1 /\ DOMAIN t = DOMAIN s /\ {"h", "o"} \subseteq DOMAIN s
        BY DEF NewGrid
    <2> HIDE DEF rs, ks, t
    <2>6. Fine(s.h, l, GridLocalMembers, R, K)
        BY <1>3, <2>4
    <2>7. Holds(s.o, Life!GridMembers) = Holds(l, GridLocalMembers \ GridLocalMembers)
        BY <2>3 DEF Holds
    <2>8. Fine(h1, s.o, Life!GridMembers, R, K)
        BY <1>4, <2>2, <2>6, <2>7, FreeFine
    <2> HIDE DEF h1
    <2>9. Base(h1, R \cup Holds(s.o, Life!GridMembers), K)
        BY <2>8, FineBase
    <2>10. R \cup {} = R
        OBVIOUS
    <2>11. Base(h1, R, K)
        BY <2>3, <2>9, <2>10
    <2>12. GridFine(h1, Life!NoGrid, R, K)
        BY <2>11, NoGridFine
    <2> QED BY <1>5, <2>1, <2>3, <2>5, <2>12 DEF NewGrid
<1>6. CASE s.o.self # NULL
    <2> DEFINE rs == <<l.label>>
               ks == <<"label">>
               N == {"gpd_filename", "gpd_file"}
               g == s.o
               a1 == l.gpd_filename
               a2 == l.gpd_file
               p == [g EXCEPT !.gpd_filename = a1, !.gpd_file = a2]
               h1 == Life!FreeAll(s.h, rs)
               t == [h |-> h1, o |-> p]
    <2>1. Life!KeptGrid(s, l) = Life!Named(t)
        BY <1>6 DEF Life!KeptGrid, Life!Free
    <2>2. Listed(rs, ks, 1, {"label"}, l)
        BY DEF Listed
    <2> HIDE DEF rs, ks
    <2>3. GridLocalMembers \ {"label"} = N /\ {"label"} \subseteq GridLocalMembers
        BY DEF GridLocalMembers
    <2>4. Members(l, N)
        BY <2>3 DEF Members
    <2>5. Holds(l, N) = Holds(l, GridLocalMembers \ {"label"})
        BY <2>3
    <2>6. N \subseteq Life!GridMembers /\ N \subseteq DOMAIN Life!NoGrid
        BY NoGridMembers DEF Life!GridMembers
    <2>7. "self" \notin N /\ "mapx" \notin N
        OBVIOUS
    <2>8. \A k \in N : g[k] = NULL
        OBVIOUS
    <2>9. l["gpd_filename"] = a1 /\ l["gpd_file"] = a2
        OBVIOUS
    <2>10. t.h = h1 /\ t.o = p /\ {"h", "o"} \subseteq DOMAIN t
        OBVIOUS
    <2>11. g = s.o
        OBVIOUS
    <2> HIDE DEF g, a1, a2
    <2>12. DOMAIN p = DOMAIN g /\ \A k \in DOMAIN g : p[k] = IF k \in N THEN l[k] ELSE g[k]
        <3>1. DOMAIN p = DOMAIN g /\ \A k \in DOMAIN g : k \notin N => p[k] = g[k]
            OBVIOUS
        <3>2. p["gpd_filename"] = a1 /\ p["gpd_file"] = a2
            BY <1>1, <2>6, <2>11
        <3> QED BY <2>9, <3>1, <3>2
    <2> HIDE DEF N, p, t
    <2>13. Fine(h1, l, N, RM \cup Holds(g, Life!GridMembers), K)
        BY <1>3, <2>2, <2>3, <2>4, <2>5, <2>11, FreeFine
    <2> HIDE DEF h1
    <2>14. Life!GridMembers \subseteq DOMAIN p /\ \A k \in Life!GridMembers : p[k] = IF k \in N THEN l[k] ELSE g[k]
        BY <1>1, <2>11, <2>12, NoGridMembers
    <2>15. Fine(h1, p, Life!GridMembers, RM, K)
        BY <1>4, <2>6, <2>8, <2>11, <2>13, <2>14, FineJoin
    <2>16. p.mapx = s.o.mapx /\ p.self = s.o.self /\ DOMAIN p = DOMAIN Life!NoGrid
        BY <1>1, <2>7, <2>11, <2>12, NoGridMembers
    <2>17. GridFine(h1, p, R, K)
        BY <1>1, <2>15, <2>16 DEF GridFine, RM, RL
    <2>18. NewGrid(t, R, K) /\ t.o.self # NULL
        BY <1>1, <1>6, <2>10, <2>16, <2>17 DEF NewGrid
    <2>19. NewGrid(Life!Named(t), R, K)
        BY <2>18, NamedNew
    <2> QED BY <2>1, <2>19 DEF t
<1> QED BY <1>5, <1>6

\* What is given up without being freed must be of a kind that may be lost.
LEMMA FineLose ==
    ASSUME NEW h, NEW o, NEW M, NEW R, NEW K, Fine(h, o, M, R, K), \A k \in M : o[k] # NULL => k \in K
    PROVE  Base(h, R, K)
<1>1. \A x \in Holds(o, M) : x[1] \in K
    BY DEF Fine, Members, Holds
<1> QED BY <1>1 DEF Fine, Base

LEMMA GridLocalsHoldNone ==
    /\ Members(Life!GridLocals, GridLocalMembers) /\ Holds(Life!GridLocals, GridLocalMembers) = {}
    /\ DOMAIN Life!GridLocals = GridLocalMembers /\ \A k \in GridLocalMembers : Life!GridLocals[k] = NULL
<1>1. DOMAIN Life!GridLocals = GridLocalMembers /\ \A k \in GridLocalMembers : Life!GridLocals[k] = NULL
    BY DEF Life!GridLocals, GridLocalMembers
<1>2. GridLocalMembers \subseteq Life!Resources
    BY DEF GridLocalMembers, Life!Resources, Life!GridMembers
<1> QED BY <1>1, <1>2 DEF Members, Holds

\* The grid of a file: what is not freed again on a failing path is the name, and
\* for a file without a label the file too.
LEMMA InitGridNew ==
    ASSUME NEW h, NEW R, NEW K, Base(h, R, K), "field" \in K, NEW name, NEW beyond, NEW stack, NEW fault,
           Life!search_path_fopen(name) = NULL => "gpd_filename" \in K,
           fault = "gpd_label" => {"gpd_filename", "gpd_file"} \subseteq K
    PROVE  NewGrid(Life!init_grid(h, name, beyond, stack, fault), R, K)
<1> DEFINE file == Life!search_path_fopen(name)
           s == [h |-> h, o |-> Life!GridLocals]
           a == Life!Give(s, "gpd_filename")
           b == Life!Give(a, "gpd_file")
           c == Life!Give(b, "label")
           r == Life!init_grid(h, name, beyond, stack, fault)
           lostName == [h |-> a.h, o |-> Life!NoGrid]
           lostFile == [h |-> b.h, o |-> Life!NoGrid]
<1>1. /\ file = NULL => r = lostName
      /\ file # NULL => r = Life!OpenedGrid(b, file, beyond, stack, fault)
    BY DEF Life!init_grid
<1>2. s.h = h /\ s.o = Life!GridLocals
    OBVIOUS
<1> HIDE DEF s, r
<1>3. {"gpd_filename", "gpd_file", "label"} = GridLocalMembers
    BY DEF GridLocalMembers
<1>4. DOMAIN s.o = GridLocalMembers /\ \A k \in GridLocalMembers : s.o[k] = NULL
    BY <1>2, GridLocalsHoldNone
<1>5. Fine(s.h, s.o, GridLocalMembers, R, K)
    BY <1>2, GridLocalsHoldNone, BaseFine
<1>6. Fine(a.h, a.o, GridLocalMembers, R, K)
    BY <1>3, <1>4, <1>5, GiveFine
<1>7. /\ DOMAIN a.o = GridLocalMembers
      /\ \A k \in GridLocalMembers : k # "gpd_filename" => a.o[k] = NULL
    <2>1. "gpd_filename" \in DOMAIN s.o
        BY <1>3, <1>4
    <2>2. DOMAIN a.o = DOMAIN s.o /\ \A k \in DOMAIN s.o : k # "gpd_filename" => a.o[k] = s.o[k]
        BY <2>1, GiveIs
    <2> QED BY <1>4, <2>2
<1> HIDE DEF a
<1>8. CASE file = NULL
    <2>1. Base(a.h, R, K)
        BY <1>6, <1>7, <1>8, FineLose
    <2>2. NewGrid(lostName, R, K)
        BY <2>1, NoGridNew
    <2>3. NewGrid(r, R, K)
        BY <1>1, <1>8, <2>2
    <2> QED BY <2>3 DEF r
<1>9. a.o["gpd_file"] = NULL
    BY <1>3, <1>7
<1>10. Fine(b.h, b.o, GridLocalMembers, R, K)
    BY <1>3, <1>6, <1>9, GiveFine
<1>11. /\ DOMAIN b.o = GridLocalMembers
       /\ \A k \in GridLocalMembers : k # "gpd_file" => b.o[k] = a.o[k]
    <2>1. "gpd_file" \in DOMAIN a.o
        BY <1>3, <1>7
    <2>2. DOMAIN b.o = DOMAIN a.o /\ \A k \in DOMAIN a.o : k # "gpd_file" => b.o[k] = a.o[k]
        BY <2>1, GiveIs
    <2> QED BY <1>7, <2>2
<1> HIDE DEF b
<1>12. b.o["label"] = NULL
    BY <1>3, <1>7, <1>11
<1>13. CASE file # NULL /\ fault = "gpd_label"
    <2>1. r = lostFile
        BY <1>1, <1>13 DEF Life!OpenedGrid
    <2>2. \A k \in GridLocalMembers : b.o[k] # NULL => k \in K
        BY <1>3, <1>12, <1>13
    <2>3. Base(b.h, R, K)
        BY <1>10, <2>2, FineLose
    <2>4. NewGrid(lostFile, R, K)
        BY <2>3, NoGridNew
    <2>5. NewGrid(r, R, K)
        BY <2>1, <2>4
    <2> QED BY <2>5 DEF r
<1>14. CASE file # NULL /\ fault # "gpd_label"
    <2> DEFINE label == Life!get_label_keyval(files[file])
               n == Life!new_grid(c.h, label, beyond, stack, fault)
               RL == R \cup Holds(c.o, GridLocalMembers)
    <2>1. r = Life!KeptGrid(n, c.o)
        BY <1>1, <1>14 DEF Life!OpenedGrid, Life!ReadGrid
    <2>2. Fine(c.h, c.o, GridLocalMembers, R, K)
        BY <1>3, <1>10, <1>12, GiveFine
    <2> HIDE DEF label, c
    <2>3. Base(c.h, RL, K)
        BY <2>2, FineBase
    <2>4. NewGrid(n, RL, K) /\ n.o.gpd_file = NULL /\ n.o.gpd_filename = NULL
        <3>1. LET q == Life!new_grid(c.h, label, beyond, stack, fault)
              IN  NewGrid(q, RL, K) /\ q.o.gpd_file = NULL /\ q.o.gpd_filename = NULL
            <4> HIDE DEF RL
            <4> QED BY <2>3, NewGridNew
        <3> QED BY <3>1
    <2> HIDE DEF n
    <2>5. Members(c.o, GridLocalMembers) /\ R \cap Holds(c.o, GridLocalMembers) = {} /\ NULL \notin R
        BY <2>2 DEF Fine
    <2>6. NewGrid(Life!KeptGrid(n, c.o), R, K)
        BY <2>4, <2>5, KeptGridNew
    <2> QED BY <2>1, <2>6 DEF r
<1> QED BY <1>8, <1>13, <1>14

-----------------------------------------------------------------------------
\* The kinds of which something may have been lost.
KindsLost(l) ==
    {k \in Life!Resources :
        \/ k = "field"
        \/ k = "gpd_filename" /\ l \cap {"open", "label"} # {}
        \/ k = "gpd_file" /\ "label" \in l
        \/ k \in {"isin_data", "isin_row"} /\ "reinit" \in l}

LEMMA KindsMore ==
    ASSUME NEW l, NEW n, l \subseteq n
    PROVE  KindsLost(l) \subseteq KindsLost(n) /\ "field" \in KindsLost(l)
BY DEF KindsLost, Life!Resources

LEMMA KindsAre ==
    ASSUME NEW l
    PROVE  /\ l \cap {"open", "label"} # {} => "gpd_filename" \in KindsLost(l)
           /\ "label" \in l => {"gpd_filename", "gpd_file"} \subseteq KindsLost(l)
           /\ "reinit" \in l => {"isin_data", "isin_row"} \subseteq KindsLost(l)
BY DEF KindsLost, Life!Resources, Life!GridMembers, Life!MapMembers

\* A heap, a map and a grid: what is there is what they hold and what was lost.
Whole(h, m, g, K) ==
    /\ Members(m, Life!MapMembers) /\ Life!MapSound(m) /\ (m.self = NULL => m = Life!NoMap)
    /\ GridFine(h, g, Holds(m, Life!MapMembers), K)
    /\ IF g.self = NULL THEN g = Life!NoGrid ELSE g.mapx.self # NULL

GridAll(g) == Holds(g, Life!GridMembers) \cup Holds(g.mapx, Life!MapMembers)

LEMMA WholeMap ==
    ASSUME NEW h, NEW m, NEW g, NEW K, Whole(h, m, g, K)
    PROVE  Fine(h, m, Life!MapMembers, GridAll(g), K)
<1> DEFINE HM == Holds(g.mapx, Life!MapMembers)
           R == Holds(m, Life!MapMembers)
<1>1. Fine(h, g, Life!GridMembers, R \cup HM, K) /\ R \cap HM = {} /\ Members(m, Life!MapMembers)
    BY DEF Whole, GridFine
<1>2. R \cup HM = HM \cup R /\ HM \cap R = {}
    BY <1>1
<1> HIDE DEF HM
<1>3. Fine(h, m, Life!MapMembers, HM \cup Holds(g, Life!GridMembers), K)
    BY <1>1, <1>2, FineSwap
<1>4. HM \cup Holds(g, Life!GridMembers) = GridAll(g)
    BY DEF GridAll, HM
<1> QED BY <1>3, <1>4

\* Another heap and map by the side of the same grid.
LEMMA WholeAgain ==
    ASSUME NEW h, NEW m, NEW g, NEW K, Whole(h, m, g, K),
           NEW i, NEW n, NEW L, Fine(i, n, Life!MapMembers, GridAll(g), L), Life!MapSound(n),
           n.self = NULL => n = Life!NoMap
    PROVE  Whole(i, n, g, L)
<1> DEFINE HM == Holds(g.mapx, Life!MapMembers)
           HG == Holds(g, Life!GridMembers)
           R == Holds(n, Life!MapMembers)
<1>1. /\ Fine(h, g, Life!GridMembers, Holds(m, Life!MapMembers) \cup HM, K)
      /\ Members(g.mapx, Life!MapMembers) /\ Life!MapSound(g.mapx) /\ DOMAIN g = DOMAIN Life!NoGrid
      /\ g.mapx.self = NULL => g.mapx = Life!NoMap
      /\ IF g.self = NULL THEN g = Life!NoGrid ELSE g.mapx.self # NULL
    BY DEF Whole, GridFine
<1>2. HM \cap HG = {} /\ Members(g, Life!GridMembers)
    BY <1>1 DEF Fine
<1>3. GridAll(g) = HM \cup HG
    BY DEF GridAll
<1>4. Members(n, Life!MapMembers) /\ R \cap GridAll(g) = {}
    BY DEF Fine
<1>5. Fine(i, g, Life!GridMembers, HM \cup R, L)
    <2>1. Fine(i, n, Life!MapMembers, HM \cup HG, L)
        BY <1>3
    <2> HIDE DEF HM
    <2> QED BY <1>2, <2>1, FineSwap
<1>6. HM \cup R = R \cup HM /\ R \cap HM = {}
    BY <1>3, <1>4
<1>7. GridFine(i, g, R, L)
    BY <1>1, <1>5, <1>6 DEF GridFine
<1> QED BY <1>1, <1>4, <1>7 DEF Whole

LEMMA HoldsAre ==
    /\ \A m : Life!MapHolds(m) = Holds(m, Life!MapMembers)
    /\ \A g : Life!GridHolds(g) = Holds(g, Life!GridMembers)
<1>1. ASSUME NEW m PROVE Life!MapHolds(m) = Holds(m, Life!MapMembers)
    BY DEF Life!MapHolds, Holds, Life!MapMembers
<1>2. ASSUME NEW g PROVE Life!GridHolds(g) = Holds(g, Life!GridMembers)
    BY DEF Life!GridHolds, Holds, Life!GridMembers
<1> QED BY <1>1, <1>2

LEMMA AccountedIs ==
    \A k : Life!Accounted(k) <=> k \in KindsLost(lost)
BY DEF Life!Accounted, KindsLost, Life!Resources, Life!GridMembers, Life!MapMembers

\* The inductive invariant in these terms.
LEMMA InvariantIs == Life!IInv <=> Whole(heap, map, grid, KindsLost(lost))
<1> DEFINE M == Holds(map, Life!MapMembers)
           G == Holds(grid, Life!GridMembers)
           H == Holds(grid.mapx, Life!MapMembers)
           K == KindsLost(lost)
<1>1. Life!MapHolds(map) = M /\ Life!GridHolds(grid) = G /\ Life!MapHolds(grid.mapx) = H
    BY HoldsAre
<1>2. Life!Held = M \cup G \cup H
    BY <1>1 DEF Life!Held
<1>3. Life!Owned <=> /\ ~heap.bad /\ M \cup G \cup H \subseteq heap.live
                     /\ \A r \in heap.live \ (M \cup G \cup H) : r[1] \in K
    BY <1>2, AccountedIs DEF Life!Owned
<1>4. Life!IsFiniteSet(heap.live) <=> IsFiniteSet(heap.live)
    BY LifeSets
<1>5. Life!GridSound(grid) <=>
        /\ DOMAIN grid = DOMAIN Life!NoGrid /\ Life!KindsRight(grid, Life!GridMembers) /\ Life!MapSound(grid.mapx)
        /\ G \cap H = {}
        /\ IF grid.self = NULL THEN grid = Life!NoGrid ELSE grid.mapx.self # NULL
    BY <1>1 DEF Life!GridSound
<1>6. /\ Life!MapMembers \subseteq DOMAIN Life!NoMap /\ Life!GridMembers \subseteq DOMAIN Life!NoGrid
      /\ Life!MapMembers \subseteq Life!Resources /\ Life!GridMembers \subseteq Life!Resources
    BY NoMapMembers, NoGridMembers DEF Life!Resources
<1>7. NULL \notin M /\ NULL \notin G /\ NULL \notin H
    BY DEF Holds
<1>8. ASSUME Life!IInv PROVE Whole(heap, map, grid, K)
    <2>1. /\ Life!MapSound(map) /\ Life!GridSound(grid) /\ (map.self = NULL => map = Life!NoMap)
          /\ M \cap (G \cup H) = {} /\ IsFiniteSet(heap.live) /\ Life!Owned
        BY <1>1, <1>4, <1>8 DEF Life!IInv
    <2>2. Members(map, Life!MapMembers) /\ Members(grid.mapx, Life!MapMembers) /\ Members(grid, Life!GridMembers)
        <3>1. DOMAIN map = DOMAIN Life!NoMap /\ Life!KindsRight(map, Life!MapMembers)
            BY <2>1 DEF Life!MapSound
        <3>2. DOMAIN grid.mapx = DOMAIN Life!NoMap /\ Life!KindsRight(grid.mapx, Life!MapMembers)
            BY <1>5, <2>1 DEF Life!MapSound
        <3> QED BY <1>5, <1>6, <2>1, <3>1, <3>2 DEF Members, Life!KindsRight
    <2>3. grid.mapx.self = NULL => grid.mapx = Life!NoMap
        BY <1>5, <2>1, NoGridMembers
    <2> HIDE DEF M, G, H, K
    <2>4. /\ G \subseteq heap.live /\ M \cup H \subseteq heap.live /\ G \cap (M \cup H) = {} /\ NULL \notin M \cup H
          /\ \A x \in heap.live : x \in G \/ x \in M \cup H \/ x[1] \in K
          /\ M \cap H = {} /\ ~heap.bad
        BY <1>3, <1>5, <1>7, <2>1
    <2>5. Fine(heap, grid, Life!GridMembers, M \cup H, K)
        BY <2>1, <2>2, <2>4 DEF Fine, G
    <2>6. GridFine(heap, grid, M, K)
        BY <1>5, <2>1, <2>2, <2>3, <2>4, <2>5 DEF GridFine, H
    <2> QED BY <1>5, <2>1, <2>2, <2>6 DEF Whole, M
<1>9. ASSUME Whole(heap, map, grid, K) PROVE Life!IInv
    <2>1. /\ Members(map, Life!MapMembers) /\ Life!MapSound(map) /\ (map.self = NULL => map = Life!NoMap)
          /\ Fine(heap, grid, Life!GridMembers, M \cup H, K)
          /\ M \cap H = {} /\ Life!MapSound(grid.mapx) /\ DOMAIN grid = DOMAIN Life!NoGrid
          /\ IF grid.self = NULL THEN grid = Life!NoGrid ELSE grid.mapx.self # NULL
        BY <1>9 DEF Whole, GridFine
    <2>2. /\ ~heap.bad /\ IsFiniteSet(heap.live) /\ Members(grid, Life!GridMembers)
          /\ G \subseteq heap.live /\ M \cup H \subseteq heap.live /\ G \cap (M \cup H) = {}
          /\ \A x \in heap.live : x \in G \/ x \in M \cup H \/ x[1] \in K
        BY <2>1 DEF Fine
    <2>3. Life!KindsRight(grid, Life!GridMembers)
        BY <2>2 DEF Members, Life!KindsRight
    <2> HIDE DEF M, G, H, K
    <2>4. Life!Owned /\ M \cap (G \cup H) = {} /\ G \cap H = {}
        BY <1>3, <2>1, <2>2
    <2>5. Life!GridSound(grid)
        BY <1>5, <2>1, <2>3, <2>4
    <2> QED BY <1>1, <1>4, <2>1, <2>2, <2>4, <2>5 DEF Life!IInv
<1> QED BY <1>8, <1>9

LEMMA BaseMore ==
    ASSUME NEW h, NEW R, NEW K, Base(h, R, K), NEW L, K \subseteq L
    PROVE  Base(h, R, L)
BY DEF Base

\* What is there without the map, and without the grid.
LEMMA WholeBase ==
    ASSUME NEW h, NEW m, NEW g, NEW K, Whole(h, m, g, K)
    PROVE  /\ m.self = NULL => Base(h, GridAll(g), K)
           /\ g.self = NULL => Base(h, Holds(m, Life!MapMembers), K)
<1>1. ASSUME m.self = NULL PROVE Base(h, GridAll(g), K)
    <2>1. Fine(h, m, Life!MapMembers, GridAll(g), K) /\ Holds(m, Life!MapMembers) = {}
        BY <1>1, WholeMap, NoMapHoldsNone DEF Whole
    <2>2. Base(h, GridAll(g) \cup Holds(m, Life!MapMembers), K)
        BY <2>1, FineBase
    <2>3. GridAll(g) \cup {} = GridAll(g)
        OBVIOUS
    <2> QED BY <2>1, <2>2, <2>3
<1>2. ASSUME g.self = NULL PROVE Base(h, Holds(m, Life!MapMembers), K)
    <2> DEFINE R == Holds(m, Life!MapMembers)
               RM == R \cup Holds(g.mapx, Life!MapMembers)
    <2>1. Fine(h, g, Life!GridMembers, RM, K) /\ g = Life!NoGrid
        BY <1>2 DEF Whole, GridFine
    <2>2. Holds(g, Life!GridMembers) = {} /\ Holds(g.mapx, Life!MapMembers) = {}
        BY <2>1, NoGridMembers, NoMapHoldsNone
    <2>3. RM = R /\ R \cup Holds(g, Life!GridMembers) = R
        BY <2>2
    <2> HIDE DEF R, RM
    <2>4. Base(h, R \cup Holds(g, Life!GridMembers), K)
        BY <2>1, <2>3, FineBase
    <2> QED BY <2>3, <2>4 DEF R
<1> QED BY <1>1, <1>2

\* A grid that is made, or given up, by the side of the map.
LEMMA WholeWith ==
    ASSUME NEW m, Members(m, Life!MapMembers), Life!MapSound(m), m.self = NULL => m = Life!NoMap,
           NEW r, NEW K, NewGrid(r, Holds(m, Life!MapMembers), K)
    PROVE  Whole(r.h, m, r.o, K)
BY DEF Whole, NewGrid

-----------------------------------------------------------------------------
\* One lemma for each action.
LEMMA InitMapxWhole ==
    ASSUME Whole(heap, map, grid, KindsLost(lost)), NEW name, NEW fault, NEW beyond, Life!InitMapx(name, fault, beyond)
    PROVE  Whole(heap', map', grid', KindsLost(lost'))
<1> DEFINE r == Life!init_mapx(heap, name, beyond, fault)
           K == KindsLost(lost)
<1>1. map.self = NULL /\ heap' = r.h /\ map' = r.o /\ grid' = grid /\ lost' = lost
    BY DEF Life!InitMapx
<1>2. "field" \in K
    BY KindsMore
<1> HIDE DEF K, r
<1>3. Whole(heap, map, grid, K)
    BY DEF K
<1>4. Base(heap, GridAll(grid), K)
    BY <1>1, <1>3, WholeBase
<1>5. NewMap(r, GridAll(grid), K)
    BY <1>2, <1>4, InitMapxNew DEF r
<1>6. Whole(r.h, r.o, grid, K)
    BY <1>3, <1>5, WholeAgain DEF NewMap
<1> QED BY <1>1, <1>6 DEF K

LEMMA InitGridWhole ==
    ASSUME Whole(heap, map, grid, KindsLost(lost)), NEW name, NEW fault, NEW beyond, NEW stack,
           Life!InitGrid(name, fault, beyond, stack)
    PROVE  Whole(heap', map', grid', KindsLost(lost'))
<1> DEFINE r == Life!init_grid(heap, name, beyond, stack, fault)
           R == Holds(map, Life!MapMembers)
           K == KindsLost(lost)
           L == KindsLost(lost')
<1>1. /\ grid.self = NULL /\ heap' = r.h /\ grid' = r.o /\ map' = map
      /\ lost' = lost \cup (IF Life!search_path_fopen(name) = NULL THEN {"open"} ELSE {})
                      \cup (IF fault = "gpd_label" THEN {"label"} ELSE {})
    BY DEF Life!InitGrid, Life!Found
<1>2. lost \subseteq lost'
    BY <1>1
<1>3. K \subseteq L /\ "field" \in L
    BY <1>2, KindsMore
<1>4. Life!search_path_fopen(name) = NULL => "gpd_filename" \in L
    <2>1. Life!search_path_fopen(name) = NULL => "open" \in lost'
        BY <1>1
    <2>2. "open" \in lost' => lost' \cap {"open", "label"} # {}
        OBVIOUS
    <2> QED BY <2>1, <2>2, KindsAre
<1>5. fault = "gpd_label" => {"gpd_filename", "gpd_file"} \subseteq L
    <2>1. fault = "gpd_label" => "label" \in lost'
        BY <1>1
    <2> QED BY <2>1, KindsAre
<1> HIDE DEF K, L, r, R
<1>6. Whole(heap, map, grid, K)
    BY DEF K
<1>7. Base(heap, R, K)
    BY <1>1, <1>6, WholeBase DEF R
<1>8. Base(heap, R, L)
    BY <1>3, <1>7, BaseMore
<1>9. NewGrid(r, R, L)
    BY <1>3, <1>4, <1>5, <1>8, InitGridNew DEF r
<1>10. Members(map, Life!MapMembers) /\ Life!MapSound(map) /\ (map.self = NULL => map = Life!NoMap)
    BY <1>6 DEF Whole
<1>11. Whole(r.h, map, r.o, L)
    BY <1>9, <1>10, WholeWith DEF R
<1> QED BY <1>1, <1>11 DEF L

LEMMA CloseMapxWhole ==
    ASSUME Whole(heap, map, grid, KindsLost(lost)), Life!CloseMapx
    PROVE  Whole(heap', map', grid', KindsLost(lost'))
<1> DEFINE c == Life!close_mapx(heap, map)
           K == KindsLost(lost)
<1>1. heap' = c /\ map' = Life!NoMap /\ grid' = grid /\ lost' = lost /\ map.self # NULL
    BY DEF Life!CloseMapx
<1> HIDE DEF K
<1>2. Whole(heap, map, grid, K)
    BY DEF K
<1>3. Fine(heap, map, Life!MapMembers, GridAll(grid), K)
    BY <1>2, WholeMap
<1>4. Fine(c, Life!NoMap, Life!MapMembers, GridAll(grid), K)
    BY <1>1, <1>3, CloseFine
<1> HIDE DEF c
<1>5. Whole(c, Life!NoMap, grid, K)
    BY <1>2, <1>4, NoMapSound, WholeAgain
<1> QED BY <1>1, <1>5 DEF K

LEMMA CloseGridWhole ==
    ASSUME Whole(heap, map, grid, KindsLost(lost)), Life!CloseGrid
    PROVE  Whole(heap', map', grid', KindsLost(lost'))
<1> DEFINE c == Life!close_grid(heap, grid)
           r == [h |-> c, o |-> Life!NoGrid]
           R == Holds(map, Life!MapMembers)
           K == KindsLost(lost)
<1>1. heap' = c /\ grid' = Life!NoGrid /\ map' = map /\ lost' = lost /\ grid.self # NULL
    BY DEF Life!CloseGrid
<1>2. r.h = c /\ r.o = Life!NoGrid
    OBVIOUS
<1> HIDE DEF K, R
<1>3. /\ GridFine(heap, grid, R, K)
      /\ Members(map, Life!MapMembers) /\ Life!MapSound(map) /\ (map.self = NULL => map = Life!NoMap)
    BY DEF Whole, K, R
<1>4. Base(c, R, K)
    BY <1>1, <1>3, CloseGridFine
<1> HIDE DEF c
<1>5. NewGrid(r, R, K)
    BY <1>4, NoGridNew
<1> HIDE DEF r
<1>6. Whole(r.h, map, r.o, K)
    BY <1>3, <1>5, WholeWith DEF R
<1> QED BY <1>1, <1>2, <1>6 DEF K

\* A map whose scale and meridian the client has set.
LEMMA ChangedSound ==
    ASSUME NEW m, Life!MapSound(m), NEW unit, NEW lon0 \in NewMeridians,
           NEW R, NEW K, Fine(heap, m, Life!MapMembers, R, K)
    PROVE  LET s == Life!Changed(m, unit, lon0)
           IN  /\ HeapAndMap(s) /\ s.h = heap /\ Life!MapSound(s.o) /\ s.o.self = m.self
               /\ s.o.isin_data = m.isin_data /\ Fine(s.h, s.o, Life!MapMembers, R, K)
<1> DEFINE p == [m EXCEPT !.scale = unit, !.lon0 = lon0]
           s == Life!Changed(m, unit, lon0)
           kept == DOMAIN m \ {"scale", "lon0"}
<1>1. s = [h |-> heap, o |-> p]
    BY DEF Life!Changed
<1>2. /\ DOMAIN m = DOMAIN Life!NoMap /\ (m.isin_data = NULL <=> m.isin_row = NULL)
      /\ m.name = "INTEGERIZEDSINUSOIDAL" => {m.lon0, m.false_easting, m.nzone, m.justify} \subseteq Int
      /\ m.isin_data # NULL => Life!TableSound(m.table)
    BY DEF Life!MapSound
<1>3. DOMAIN p = DOMAIN m /\ \A k \in kept : p[k] = m[k]
    OBVIOUS
<1>4. "lon0" \in DOMAIN m
    BY <1>2, LastingFields
<1>5. p.lon0 = lon0 /\ lon0 \in Int
    BY <1>4, LifeConstants
<1>6. s.h = heap /\ s.o = p /\ {"h", "o"} \subseteq DOMAIN s
    BY <1>1
<1>7. Life!MapMembers \subseteq kept /\ {"name", "table", "false_easting", "nzone", "justify"} \subseteq kept
    BY <1>2, NoMapMembers, LastingFields DEF Life!MapMembers
<1>8. {"self", "isin_data", "isin_row"} \subseteq kept
    BY <1>7 DEF Life!MapMembers
<1> HIDE DEF p, s, kept
<1>9. /\ p.self = m.self /\ p.isin_data = m.isin_data /\ p.isin_row = m.isin_row
      /\ p.name = m.name /\ p.false_easting = m.false_easting
      /\ p.nzone = m.nzone /\ p.justify = m.justify /\ p.table = m.table
    BY <1>3, <1>7, <1>8
<1>10. Fine(heap, p, Life!MapMembers, R, K)
    <2>1. Life!MapMembers \subseteq DOMAIN p /\ \A k \in Life!MapMembers : p[k] = m[k]
        BY <1>2, <1>3, <1>7, NoMapMembers
    <2> QED BY <2>1, FineSame
<1>11. Life!MapSound(p)
    <2>1. Members(p, Life!MapMembers) /\ DOMAIN p = DOMAIN Life!NoMap
        BY <1>2, <1>3, <1>10 DEF Fine
    <2>2. /\ p.isin_data = NULL <=> p.isin_row = NULL
          /\ p.name = "INTEGERIZEDSINUSOIDAL" => {p.lon0, p.false_easting, p.nzone, p.justify} \subseteq Int
          /\ p.isin_data # NULL => Life!TableSound(p.table)
        BY <1>2, <1>5, <1>9
    <2> QED BY <2>1, <2>2, MapSoundIs
<1>12. /\ HeapAndMap(s) /\ s.h = heap /\ Life!MapSound(s.o) /\ s.o.self = m.self
       /\ s.o.isin_data = m.isin_data /\ Fine(s.h, s.o, Life!MapMembers, R, K)
    BY <1>2, <1>3, <1>6, <1>9, <1>10, <1>11 DEF HeapAndMap
<1> QED BY <1>12 DEF s

LEMMA FineMore ==
    ASSUME NEW l, NEW n, l \subseteq n, NEW h, NEW o, NEW M, NEW R, Fine(h, o, M, R, KindsLost(l))
    PROVE  Fine(h, o, M, R, KindsLost(n))
<1>1. KindsLost(l) \subseteq KindsLost(n)
    BY KindsMore
<1> QED BY <1>1, FineKinds

\* A map taken again, the client's or the grid's; its tables are lost.
LEMMA ReinitAgain ==
    ASSUME NEW m, NEW R, Life!MapSound(m), Fine(heap, m, Life!MapMembers, R, KindsLost(lost)), Life!Losing(m),
           NEW unit, NEW lon0 \in NewMeridians, NEW fault
    PROVE  LET r == Life!reinit_mapx(Life!Changed(m, unit, lon0), fault)
           IN  /\ Fine(r.h, r.o, Life!MapMembers, R, KindsLost(lost')) /\ Life!MapSound(r.o)
               /\ r.o.self = m.self
<1> DEFINE s == Life!Changed(m, unit, lon0)
           L == KindsLost(lost')
<1>1. lost' = lost \cup (IF m.isin_data # NULL THEN {"reinit"} ELSE {})
    BY DEF Life!Losing
<1>2. lost \subseteq lost' /\ (m.isin_data # NULL => "reinit" \in lost')
    BY <1>1
<1>3. m.isin_data # NULL => {"isin_data", "isin_row"} \subseteq L
    BY <1>2, KindsAre
<1>4. Fine(heap, m, Life!MapMembers, R, L)
    BY <1>2, FineMore
<1> HIDE DEF L
<1>5. /\ HeapAndMap(s) /\ s.h = heap /\ Life!MapSound(s.o) /\ s.o.self = m.self
      /\ s.o.isin_data = m.isin_data /\ Fine(s.h, s.o, Life!MapMembers, R, L)
    BY <1>4, ChangedSound
<1> HIDE DEF s
<1>6. LET r == Life!reinit_mapx(s, fault)
      IN  /\ Fine(r.h, r.o, Life!MapMembers, R, L) /\ Life!MapSound(r.o)
          /\ r.o.self = s.o.self /\ r.o.mpp_file = s.o.mpp_file /\ r.o.mpp_filename = s.o.mpp_filename
    BY <1>3, <1>5, ReinitFine
<1> QED BY <1>5, <1>6 DEF s, L

LEMMA ReinitMapxWhole ==
    ASSUME Whole(heap, map, grid, KindsLost(lost)), NEW unit, NEW lon0 \in NewMeridians, NEW fault,
           Life!ReinitMapx(unit, lon0, fault)
    PROVE  Whole(heap', map', grid', KindsLost(lost'))
<1> DEFINE r == Life!reinit_mapx(Life!Changed(map, unit, lon0), fault)
           L == KindsLost(lost')
<1>1. map.self # NULL /\ heap' = r.h /\ map' = r.o /\ grid' = grid /\ Life!Losing(map)
    BY DEF Life!ReinitMapx
<1>2. Life!MapSound(map) /\ Fine(heap, map, Life!MapMembers, GridAll(grid), KindsLost(lost))
    BY WholeMap DEF Whole
<1>3. Fine(r.h, r.o, Life!MapMembers, GridAll(grid), L) /\ Life!MapSound(r.o) /\ r.o.self = map.self
    BY <1>1, <1>2, ReinitAgain
<1> HIDE DEF r, L
<1>4. Whole(r.h, r.o, grid, L)
    BY <1>1, <1>3, WholeAgain
<1> QED BY <1>1, <1>4 DEF L

LEMMA ReinitGridMapxWhole ==
    ASSUME Whole(heap, map, grid, KindsLost(lost)), NEW unit, NEW lon0 \in NewMeridians, NEW fault,
           Life!ReinitGridMapx(unit, lon0, fault)
    PROVE  Whole(heap', map', grid', KindsLost(lost'))
<1> DEFINE r == Life!reinit_mapx(Life!Changed(grid.mapx, unit, lon0), fault)
           g == grid
           p == [g EXCEPT !.mapx = r.o]
           n == [h |-> r.h, o |-> r.o]
           q == [h |-> r.h, o |-> p]
           M == Holds(map, Life!MapMembers)
           H == Holds(grid.mapx, Life!MapMembers)
           G == Holds(g, Life!GridMembers)
           L == KindsLost(lost')
<1>1. grid.self # NULL /\ heap' = r.h /\ grid' = p /\ map' = map /\ Life!Losing(grid.mapx)
    BY DEF Life!ReinitGridMapx
<1>2. /\ Fine(heap, grid, Life!GridMembers, M \cup H, KindsLost(lost))
      /\ Members(grid.mapx, Life!MapMembers) /\ M \cap H = {} /\ Life!MapSound(grid.mapx)
      /\ DOMAIN grid = DOMAIN Life!NoGrid /\ grid.mapx.self # NULL
      /\ Members(map, Life!MapMembers) /\ Life!MapSound(map) /\ (map.self = NULL => map = Life!NoMap)
    BY <1>1 DEF Whole, GridFine
<1>3. Members(g, Life!GridMembers) /\ M \cap G = {}
    BY <1>2 DEF Fine
<1>4. Fine(heap, grid.mapx, Life!MapMembers, M \cup G, KindsLost(lost))
    <2> HIDE DEF M
    <2> QED BY <1>2, FineSwap
<1>5. Fine(r.h, r.o, Life!MapMembers, M \cup G, L) /\ Life!MapSound(r.o) /\ r.o.self = grid.mapx.self
    <2> HIDE DEF M, G
    <2> QED BY <1>1, <1>2, <1>4, ReinitAgain
<1>6. DOMAIN p = DOMAIN g /\ p.mapx = r.o /\ \A k \in DOMAIN g : k # "mapx" => p[k] = g[k]
    BY <1>2, NoGridMembers
<1>7. n.h = r.h /\ n.o = r.o /\ {"h", "o"} \subseteq DOMAIN n
    OBVIOUS
<1>8. q.h = r.h /\ q.o = p /\ {"h", "o"} \subseteq DOMAIN q
    OBVIOUS
<1>9. g = grid
    OBVIOUS
<1> HIDE DEF n, r, p, q, L, g
<1>10. NewMap(n, M \cup G, L)
    <2>1. DOMAIN r.o = DOMAIN Life!NoMap
        BY <1>5 DEF Life!MapSound
    <2> HIDE DEF M, G
    <2> QED BY <1>2, <1>5, <1>7, <2>1 DEF NewMap, HeapAndMap
<1>11. WithMap(g, p, n.o)
    BY <1>6, <1>7 DEF WithMap
<1> HIDE DEF M
<1>12. GridFine(n.h, p, M, L)
    BY <1>2, <1>3, <1>9, <1>10, <1>11, OnFine DEF G
<1>13. p.self = grid.self
    BY <1>2, <1>6, <1>9, NoGridMembers
<1>14. NewGrid(q, M, L)
    BY <1>1, <1>2, <1>5, <1>6, <1>7, <1>8, <1>12, <1>13 DEF NewGrid
<1>15. Whole(q.h, map, q.o, L)
    BY <1>2, <1>14, WholeWith DEF M
<1> QED BY <1>1, <1>8, <1>15 DEF L

LEMMA LifeStart == Life!Init => Whole(heap, map, grid, KindsLost(lost))
<1> SUFFICES ASSUME Life!Init PROVE Whole(heap, map, grid, KindsLost(lost))
    OBVIOUS
<1> DEFINE r == [h |-> heap, o |-> Life!NoGrid]
           R == Holds(map, Life!MapMembers)
           K == KindsLost(lost)
<1>1. heap = [live |-> {}, bad |-> FALSE] /\ map = Life!NoMap /\ grid = Life!NoGrid
    BY DEF Life!Init
<1>2. heap.live = {} /\ ~heap.bad
    BY <1>1
<1>3. IsFiniteSet(heap.live)
    BY <1>2, FS_EmptySet
<1>4. R = {} /\ Members(map, Life!MapMembers)
    BY <1>1, NoMapHoldsNone
<1> HIDE DEF K, R
<1>5. Base(heap, R, K)
    BY <1>2, <1>3, <1>4 DEF Base
<1>6. NewGrid(r, R, K)
    BY <1>5, NoGridNew
<1>7. r.h = heap /\ r.o = grid
    BY <1>1
<1> HIDE DEF r
<1>8. Whole(r.h, map, r.o, K)
    BY <1>1, <1>4, <1>6, NoMapSound, WholeWith DEF R
<1> QED BY <1>7, <1>8 DEF K

LEMMA LifeStep ==
    Whole(heap, map, grid, KindsLost(lost)) /\ [Life!Next]_(Life!lifeVars) => Whole(heap', map', grid', KindsLost(lost'))
<1> SUFFICES ASSUME Whole(heap, map, grid, KindsLost(lost)), [Life!Next]_(Life!lifeVars)
             PROVE  Whole(heap', map', grid', KindsLost(lost'))
    OBVIOUS
<1>1. ASSUME NEW name \in Names, NEW fault \in Faults, NEW beyond \in Beyond, Life!InitMapx(name, fault, beyond)
      PROVE  Whole(heap', map', grid', KindsLost(lost'))
    BY <1>1, InitMapxWhole
<1>2. ASSUME NEW name \in Names, NEW fault \in Faults, NEW beyond \in Beyond, NEW stack \in Stack,
             Life!InitGrid(name, fault, beyond, stack)
      PROVE  Whole(heap', map', grid', KindsLost(lost'))
    BY <1>2, InitGridWhole
<1>3. ASSUME NEW unit \in NewScales, NEW lon0 \in NewMeridians, NEW fault \in Faults,
             Life!ReinitMapx(unit, lon0, fault)
      PROVE  Whole(heap', map', grid', KindsLost(lost'))
    BY <1>3, ReinitMapxWhole
<1>4. ASSUME NEW unit \in NewScales, NEW lon0 \in NewMeridians, NEW fault \in Faults,
             Life!ReinitGridMapx(unit, lon0, fault)
      PROVE  Whole(heap', map', grid', KindsLost(lost'))
    BY <1>4, ReinitGridMapxWhole
<1>5. CASE Life!CloseMapx
    BY <1>5, CloseMapxWhole
<1>6. CASE Life!CloseGrid
    BY <1>6, CloseGridWhole
<1>7. CASE UNCHANGED Life!lifeVars
    BY <1>7 DEF Life!lifeVars
<1> QED BY <1>1, <1>2, <1>3, <1>4, <1>5, <1>6, <1>7 DEF Life!Next

\* After any sequence of calls of init_mapx, init_grid, reinit_mapx and the two
\* closings, with any files and whatever fails: each resource is held once and by the
\* member of its kind, what is not there holds none, and a map's tables are sound.
THEOREM LifeInvariance == Life!Spec => []Life!IInv
<1> DEFINE W == Whole(heap, map, grid, KindsLost(lost))
<1>1. W' = Whole(heap', map', grid', KindsLost(lost'))
    OBVIOUS
<1>2. Life!Init => W
    BY LifeStart
<1>3. W /\ [Life!Next]_(Life!lifeVars) => W'
    BY <1>1, LifeStep
<1>4. W => Life!IInv
    BY InvariantIs
<1> HIDE DEF W
<1> QED BY <1>2, <1>3, <1>4, PTL DEF Life!Spec

\* Nothing is freed twice, what is open is there, and nothing is left on the heap but
\* what Accounted names.
THEOREM OwnedCorrect == Life!Spec => []Owned
<1>1. Life!IInv => Owned
    BY DEF Life!IInv, Owned
<1> QED BY <1>1, LifeInvariance, PTL

-----------------------------------------------------------------------------
(***************************************************************************)
(* Locations taken to an integerized sinusoidal map and back.              *)
(***************************************************************************)

\* A multiple leaves no remainder.
LEMMA NoRemainder ==
    ASSUME NEW m \in Nat \ {0}, NEW k \in Int
    PROVE  (k * m) % m = 0
<1> DEFINE x == k * m
           q == x \div m
<1>1. x \in Int /\ x % m \in 0 .. m - 1 /\ q \in Int /\ x = m * q + (x % m)
    OBVIOUS
<1>2. PICK r \in 0 .. m - 1, p \in Int : r = x % m /\ p = q
    BY <1>1
<1>3. k * m = m * p + r
    BY <1>1, <1>2
<1>4. m * (k - p) = r
    BY <1>3
<1>5. k - p >= 1 => m * (k - p) >= m
    OBVIOUS
<1>6. k - p <= -1 => m * (k - p) <= -m
    OBVIOUS
<1>7. r = 0
    BY <1>4, <1>5, <1>6
<1> QED BY <1>2, <1>7

\* Every latitude is in a row of the table.
LEMMA RowInTable ==
    ASSUME NEW t, Life!TableSound(t), NEW lat \in -(HalfTurn \div 2) .. HalfTurn \div 2
    PROVE  Life!RowOf(t, lat) \in 0 .. t.nrow \div 2 - 1
<1> DEFINE n == t.nrow
           d == HalfTurn \div 2 - lat
           irow == (d * n) \div HalfTurn
<1>1. n \in Nat \ {0, 1} /\ n % 2 = 0 /\ HalfTurn \in Nat \ {0}
    BY LifeConstants DEF Life!TableSound
<1>2. HalfTurn \div 2 \in Int /\ 2 * (HalfTurn \div 2) <= HalfTurn
    BY <1>1
<1>3. d \in Int /\ 0 <= d /\ d <= HalfTurn
    BY <1>1, <1>2
<1>4. Life!RowOf(t, lat) = LET mirrored == IF irow >= n \div 2 THEN n - 1 - irow ELSE irow
                           IN  IF mirrored < 0 THEN 0 ELSE mirrored
    BY DEF Life!RowOf
<1> HIDE DEF n, d
<1>5. irow \in Int /\ irow >= 0
    <2> DEFINE e == d * n
    <2>1. e \in Int /\ e >= 0
        BY <1>1, <1>3
    <2> HIDE DEF e
    <2>2. e \div HalfTurn \in Int /\ e \div HalfTurn >= 0
        BY <1>1, <2>1
    <2> QED BY <2>2 DEF e
<1> HIDE DEF irow
<1>6. n \div 2 \in Int /\ n = 2 * (n \div 2) /\ n \div 2 >= 1
    BY <1>1
<1>7. PICK h \in Int : h = n \div 2 /\ n = 2 * h /\ h >= 1
    BY <1>6
<1>8. CASE irow >= h
    <2> DEFINE mirrored == n - 1 - irow
    <2>1. Life!RowOf(t, lat) = IF mirrored < 0 THEN 0 ELSE mirrored
        BY <1>4, <1>7, <1>8
    <2>2. mirrored \in Int /\ mirrored <= h - 1
        BY <1>1, <1>5, <1>7, <1>8
    <2> HIDE DEF mirrored
    <2>3. Life!RowOf(t, lat) \in 0 .. h - 1
        BY <1>7, <2>1, <2>2
    <2> QED BY <1>7, <2>3 DEF n
<1>9. CASE ~(irow >= h)
    <2>1. Life!RowOf(t, lat) = irow
        BY <1>4, <1>5, <1>7, <1>9
    <2>2. Life!RowOf(t, lat) \in 0 .. h - 1
        BY <1>5, <1>7, <1>9, <2>1
    <2> QED BY <1>7, <2>2 DEF n
<1> QED BY <1>8, <1>9

\* The way eastward from the reference is less than once around, and whole turns
\* from the difference of the longitudes.
LEMMA EastwardIs ==
    ASSUME NEW t, Life!TableSound(t), NEW lon \in -2 * HalfTurn .. 2 * HalfTurn
    PROVE  LET e == Life!Eastward(t, Life!adjust_lon(lon))
           IN  /\ e \in Int /\ 0 <= e /\ e <= 2 * HalfTurn
               /\ \E k \in Int : e = lon - t.ref_lon + k * (2 * HalfTurn)
<1> DEFINE a == Life!adjust_lon(lon)
           e == Life!Eastward(t, a)
           meridian == t.ref_lon
           c == 2 * HalfTurn
           d == a - meridian
<1>1. HalfTurn \in Nat \ {0} /\ meridian \in -HalfTurn .. HalfTurn
    BY LifeConstants DEF Life!TableSound
<1>2. /\ a \in -HalfTurn .. HalfTurn
      /\ a = lon + c \/ a = lon - c \/ a = lon
    BY <1>1 DEF Life!adjust_lon
<1>3. e = IF d < 0 THEN d + c ELSE IF d > c THEN d % c ELSE d
    BY DEF Life!Eastward
<1> HIDE DEF a, e, meridian
<1>4. d \in Int /\ d <= c /\ d >= -c /\ lon \in Int /\ meridian \in Int
    BY <1>1, <1>2
<1>5. \/ e = d + c /\ d < 0
      \/ e = d /\ d >= 0
    <2>1. c \in Int
        BY <1>1
    <2>2. d \in Int /\ d <= c
        BY <1>4
    <2> HIDE DEF d, c
    <2>3. ~(d > c) /\ (d < 0 \/ d >= 0)
        BY <2>1, <2>2
    <2>4. CASE d < 0
        <3>1. e = d + c
            BY <1>3, <2>4
        <3> QED BY <2>4, <3>1
    <2>5. CASE ~(d < 0)
        <3>1. e = d
            BY <1>3, <2>3, <2>5
        <3> QED BY <2>3, <2>5, <3>1
    <2> QED BY <2>4, <2>5
<1>6. e \in Int /\ 0 <= e /\ e <= c
    BY <1>1, <1>4, <1>5
<1>7. \/ e = lon - meridian + 0 * c \/ e = lon - meridian + 1 * c
      \/ e = lon - meridian + (-1) * c \/ e = lon - meridian + 2 * c
    BY <1>1, <1>2, <1>4, <1>5
<1>8. \E k \in Int : e = lon - meridian + k * c
    <2>1. 0 \in Int /\ 1 \in Int /\ -1 \in Int /\ 2 \in Int
        OBVIOUS
    <2> HIDE DEF c
    <2> QED BY <1>7, <2>1
<1> QED BY <1>6, <1>8 DEF a, e, meridian

\* At the reference itself the location is at the edge.
LEMMA AtTheEdge ==
    ASSUME NEW c \in Nat \ {0}, NEW meridian \in Int, NEW lon \in Int, NEW k \in Int, NEW e \in {0, c},
           e = lon - meridian + k * c
    PROVE  (lon - meridian) % c = 0
<1>1. CASE e = 0
    <2>1. lon - meridian = (-k) * c
        BY <1>1
    <2> DEFINE x == lon - meridian
    <2> HIDE DEF x
    <2>2. x % c = 0
        BY <2>1, NoRemainder DEF x
    <2> QED BY <2>2 DEF x
<1>2. CASE e = c
    <2>1. lon - meridian = (1 - k) * c
        BY <1>2
    <2> DEFINE x == lon - meridian
    <2> HIDE DEF x
    <2>2. x % c = 0
        BY <2>1, NoRemainder DEF x
    <2> QED BY <2>2 DEF x
<1> QED BY <1>1, <1>2

\* There and back in one table.
LEMMA IsinReturns ==
    ASSUME NEW t, Life!TableSound(t), NEW lat \in -(HalfTurn \div 2) .. HalfTurn \div 2,
           NEW lon \in -2 * HalfTurn .. 2 * HalfTurn, NEW rounding \in Life!Roundings,
           ~(Life!Border(t, lat) /\ ~rounding.south),
           ~((lon - t.ref_lon) % (2 * HalfTurn) = 0 /\ rounding.outside)
    PROVE  LET p == Life!integerized_sinusoidal(t, lat, lon)
               q == Life!inverse_integerized_sinusoidal(t, p.x, p.y, rounding)
           IN  q.status = 0 /\ q.lat = lat /\ (q.lon[1] - lon * q.lon[2]) % (2 * HalfTurn * q.lon[2]) = 0
<1> DEFINE c == 2 * HalfTurn
           row == t.row[Life!RowOf(t, lat)]
           n == row.ncol
           i == row.icol_cen
           fe == t.false_east
           fn == t.false_north
           e == Life!Eastward(t, Life!adjust_lon(lon))
           f == Life!Isin_fwd(t, lat, lon)
           p == Life!integerized_sinusoidal(t, lat, lon)
           q == Life!inverse_integerized_sinusoidal(t, p.x, p.y, rounding)
           x == c * fe + n * e - c * i
           den == c * n
           start == t.ref_lon
           l == start * den + c * (n * e)
<1>1. /\ c \in Nat \ {0} /\ HalfTurn \in Nat \ {0} /\ lat \in Int /\ lon \in Int /\ start \in Int
      /\ fe \in Int /\ fn \in Int
    BY LifeConstants DEF Life!TableSound
<1>2. n \in Nat \ {0} /\ i \in Int
    BY RowInTable DEF Life!TableSound
<1>3. /\ e \in Int /\ 0 <= e /\ e <= c
      /\ \E k \in Int : e = lon - start + k * c
    BY EastwardIs
<1>4. Life!Poles(lat)
    BY DEF Life!Poles
<1>5. f = [status |-> 0, x |-> <<x, c>>, y |-> fn + lat]
    BY <1>4 DEF Life!Isin_fwd
<1>6. p = [f EXCEPT !.x = <<f.x[1] + fe * f.x[2], f.x[2]>>, !.y = f.y + fn]
    BY DEF Life!integerized_sinusoidal
<1>7. q = Life!Isin_inv(t, <<p.x[1] - fe * p.x[2], p.x[2]>>, p.y - fn, rounding)
    BY DEF Life!inverse_integerized_sinusoidal
<1> HIDE DEF c, n, i, fe, fn, e, f, p, q, start
<1>8. p.x = <<x + fe * c, c>> /\ p.y = fn + lat + fn
    <2> HIDE DEF x
    <2> QED BY <1>5, <1>6
<1>9. x \in Int
    BY <1>1, <1>2, <1>3
<1>10. p.x[1] - fe * p.x[2] = x /\ p.x[2] = c /\ p.y - fn = fn + lat
    <2> HIDE DEF x
    <2>1. p.x[1] = x + fe * c /\ p.x[2] = c
        BY <1>8
    <2>2. x + fe * c - fe * c = x
        BY <1>1, <1>9
    <2>3. fn + lat + fn - fn = fn + lat
        BY <1>1
    <2>4. p.x[1] - fe * p.x[2] = x + fe * c - fe * c
        BY <1>1, <1>9, <2>1
    <2>5. p.y - fn = fn + lat + fn - fn
        BY <1>1, <1>8
    <2> QED BY <2>1, <2>2, <2>3, <2>4, <2>5
<1>11. q = Life!Isin_inv(t, <<x, c>>, fn + lat, rounding)
    <2> HIDE DEF x
    <2> QED BY <1>7, <1>10
<1>12. fn + lat - fn = lat /\ x - c * fe + c * i = n * e
    BY <1>1, <1>2, <1>3
<1>13. LET col == n * e
           off == col < 0 \/ col > den \/ (col \in {0, den} /\ rounding.outside)
       IN  q = IF ~Life!Poles(lat) \/ off THEN [status |-> -1, lat |-> lat, lon |-> <<0, 1>>]
               ELSE [status |-> 0, lat |-> lat,
                     lon |-> IF l >= HalfTurn * den THEN <<l - c * den, den>> ELSE <<l, den>>]
    <2> DEFINE y == fn + lat
               xc == <<x, c>>
    <2>1. y - fn = lat
        BY <1>1
    <2> HIDE DEF x
    <2>3. xc[1] = x /\ xc[2] = c
        OBVIOUS
    <2>4. x - c * fe + c * i = n * e
        BY <1>12
    <2> HIDE DEF y, xc
    <2>2. q = Life!Isin_inv(t, xc, y, rounding)
        BY <1>11 DEF y, xc
    <2> QED BY <2>4, <2>1, <2>2, <2>3 DEF Life!Isin_inv, c, n, i, fe, fn, start, row
<1>14. den \in Nat \ {0}
    <2>1. c * n \in Nat /\ c * n >= c
        BY <1>1, <1>2
    <2> QED BY <1>1, <2>1
<1>15. /\ n * e \in Int /\ 0 <= n * e /\ n * e <= den
       /\ n * e = 0 => e = 0
       /\ n * e = den => e = c
    <2>1. n * e \in Int /\ 0 <= n * e /\ (n * e = 0 => e = 0)
        BY <1>2, <1>3
    <2>2. c - e \in Nat
        BY <1>1, <1>3
    <2>3. n * (c - e) \in Int /\ 0 <= n * (c - e) /\ (n * (c - e) = 0 => c - e = 0)
        BY <1>2, <2>2
    <2>4. n * (c - e) = den - n * e
        BY <1>1, <1>2, <1>3
    <2> HIDE DEF den
    <2> QED BY <1>1, <1>3, <1>14, <2>1, <2>3, <2>4
<1>16. e \in {0, c} => ~rounding.outside
    <2>1. e \in {0, c} => (lon - start) % c = 0
        BY <1>1, <1>3, AtTheEdge
    <2> QED BY <2>1 DEF start, c
<1>17. q = [status |-> 0, lat |-> lat, lon |-> IF l >= HalfTurn * den THEN <<l - c * den, den>> ELSE <<l, den>>]
    <2> DEFINE col == n * e
               off == col < 0 \/ col > den \/ (col \in {0, den} /\ rounding.outside)
               L == IF l >= HalfTurn * den THEN <<l - c * den, den>> ELSE <<l, den>>
    <2>1. ~off
        <3> HIDE DEF den
        <3>1. col \in Int /\ 0 <= col /\ col <= den /\ (col = 0 => e = 0) /\ (col = den => e = c)
            BY <1>15
        <3> HIDE DEF col
        <3> QED BY <1>14, <1>16, <3>1
    <2> HIDE DEF l, den
    <2>2. q = IF ~Life!Poles(lat) \/ off THEN [status |-> -1, lat |-> lat, lon |-> <<0, 1>>]
              ELSE [status |-> 0, lat |-> lat, lon |-> L]
        BY <1>13
    <2> HIDE DEF off, L
    <2>3. q = [status |-> 0, lat |-> lat, lon |-> L]
        BY <1>4, <2>1, <2>2
    <2> QED BY <2>3 DEF L
<1>18. ASSUME NEW j \in {0, 1} PROVE (l - j * (c * den) - lon * den) % (c * den) = 0
    <2> DEFINE m == c * den
               z == l - j * m - lon * den
    <2>1. PICK k \in Int : e = lon - start + k * c
        BY <1>3
    <2>2. c * (n * e) = den * e
        BY <1>1, <1>2, <1>3
    <2> HIDE DEF den
    <2>3. m \in Nat \ {0}
        <3>1. c * den \in Nat /\ c * den >= c
            BY <1>1, <1>14
        <3> QED BY <1>1, <3>1
    <2>4. z = den * (start + e - lon) - j * m
        BY <1>1, <1>3, <1>14, <2>2, <2>3
    <2>5. start + e - lon = k * c
        BY <1>1, <1>3, <2>1
    <2>6. den * (k * c) = k * m
        BY <1>1, <1>14, <2>1
    <2> HIDE DEF z, m
    <2>7. z = den * (k * c) - j * m
        BY <2>4, <2>5
    <2>8. z = k * m - j * m
        BY <2>6, <2>7
    <2>9. k * m - j * m = (k - j) * m
        BY <2>1, <2>3
    <2>10. z % m = 0
        <3>1. ((k - j) * m) % m = 0
            BY <2>1, <2>3, NoRemainder
        <3> QED BY <2>8, <2>9, <3>1
    <2> QED BY <2>10 DEF z, m
<1>19. \E j \in {0, 1} : q.lon = <<l - j * (c * den), den>>
    <2>1. c * den \in Int /\ l \in Int
        BY <1>1, <1>2, <1>3, <1>14
    <2> DEFINE m == c * den
    <2> HIDE DEF den, l
    <2>2. q.lon = <<l - m, den>> \/ q.lon = <<l, den>>
        BY <1>17
    <2>3. l - 1 * m = l - m /\ l - 0 * m = l
        BY <2>1
    <2> HIDE DEF m
    <2>4. \E j \in {0, 1} : q.lon = <<l - j * m, den>>
        BY <2>2, <2>3
    <2> QED BY <2>4 DEF m
<1>20. PICK j \in {0, 1} : q.lon = <<l - j * (c * den), den>>
    BY <1>19
<1>21. (q.lon[1] - lon * q.lon[2]) % (c * q.lon[2]) = 0
    <2> DEFINE a == l - j * (c * den)
    <2>1. (a - lon * den) % (c * den) = 0
        BY <1>18
    <2> HIDE DEF a, den, l
    <2>2. q.lon[1] = a /\ q.lon[2] = den
        BY <1>20 DEF a
    <2> QED BY <2>1, <2>2
<1>22. q.status = 0 /\ q.lat = lat
    <2> HIDE DEF l, den
    <2> QED BY <1>17
<1> QED BY <1>21, <1>22 DEF c, p, q

\* integerized_sinusoidal and its inverse undo each other in every map that was
\* initialised, but at the border of rows and the edge of the map.
THEOREM IsinCorrect == Life!Spec => []IsinComesBack
<1>1. Life!IInv => IsinComesBack
    <2> SUFFICES ASSUME Life!IInv,
                        NEW m \in {map, grid.mapx}, m.isin_data # NULL,
                        NEW lat \in -(HalfTurn \div 2) .. HalfTurn \div 2, NEW lon \in -2 * HalfTurn .. 2 * HalfTurn,
                        NEW rounding \in Life!Roundings
                 PROVE  LET p == Life!integerized_sinusoidal(m.table, lat, lon)
                            q == Life!inverse_integerized_sinusoidal(m.table, p.x, p.y, rounding)
                        IN  \/ Life!Border(m.table, lat) /\ ~rounding.south
                            \/ (lon - m.table.ref_lon) % (2 * HalfTurn) = 0 /\ rounding.outside
                            \/ /\ q.status = 0 /\ q.lat = lat
                               /\ (q.lon[1] - lon * q.lon[2]) % (2 * HalfTurn * q.lon[2]) = 0
        BY DEF IsinComesBack, Life!IsinComesBack
    <2> DEFINE t == m.table
    <2>1. Life!MapSound(map) /\ Life!MapSound(grid.mapx)
        BY DEF Life!IInv, Life!GridSound
    <2>2. Life!MapSound(m)
        BY <2>1
    <2>3. Life!TableSound(t)
        BY <2>2 DEF Life!MapSound
    <2> HIDE DEF t
    <2>4. \/ Life!Border(t, lat) /\ ~rounding.south
          \/ (lon - t.ref_lon) % (2 * HalfTurn) = 0 /\ rounding.outside
          \/ LET p == Life!integerized_sinusoidal(t, lat, lon)
                 q == Life!inverse_integerized_sinusoidal(t, p.x, p.y, rounding)
             IN  q.status = 0 /\ q.lat = lat /\ (q.lon[1] - lon * q.lon[2]) % (2 * HalfTurn * q.lon[2]) = 0
        BY <2>3, IsinReturns
    <2> QED BY <2>4 DEF t
<1> QED BY <1>1, LifeInvariance, PTL

=============================================================================
