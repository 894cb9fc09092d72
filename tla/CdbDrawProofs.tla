--------------------------- MODULE CdbDrawProofs ---------------------------
(***************************************************************************)
(* What CdbDraw's run checks for files of three segments, proved for any   *)
(* number of segments, any units and any windows.                          *)
(***************************************************************************)
EXTENDS CdbDraw, FiniteSetTheorems, WellFoundedInduction, TLAPS

-----------------------------------------------------------------------------
(***************************************************************************)
(* Numbers.                                                                *)
(***************************************************************************)

LEMMA Remainder == \A x \in Int, n \in Nat \ {0} : x % n \in 0 .. n - 1
BY SMT

\* A number between 0 and n is what is left of it when n is taken away.
LEMMA OneTurn ==
    ASSUME NEW a \in Int, NEW n \in Nat \ {0}, 0 <= a, a < n
    PROVE  a % n = a /\ (a - n) % n = a
BY SMT

LEMMA Constants ==
    /\ NSegments \in Nat \ {0} /\ 1 \in Positions /\ Positions \subseteq Int
    /\ Half \in Nat \ {0} /\ Grain \in Nat \ {0}
    /\ Quarter \in Nat /\ Quarter <= Half
    /\ Stored(Half) \subseteq -Half .. Half /\ Stored(Quarter) \subseteq -Quarter .. Quarter
BY DrawAssumption DEF Positions, Quarter, Stored

Less == OpToRel(<, Nat)

LEMMA LessFounded == IsWellFoundedOn(Less, Nat)
BY NatLessThanWellFounded DEF Less

LEMMA SmallerIsLess ==
    ASSUME NEW x \in Nat, NEW y \in Nat, x < y
    PROVE  <<x, y>> \in Less
<1> DEFINE pairs == {ss \in Nat \X Nat : ss[1] < ss[2]}
<1>1. <<x, y>> \in pairs
    BY SMT
<1>2. Less = pairs
    BY DEF OpToRel, Less
<1> QED BY <1>1, <1>2

\* Numbers with an upper bound have a greatest one.
LEMMA Greatest ==
    ASSUME NEW n \in Int, NEW T, T \subseteq Int, \A t \in T : t <= n, T # {}
    PROVE  \E g \in T : \A t \in T : t <= g
<1> DEFINE S == {n - t : t \in T}
<1>1. S \subseteq Nat /\ S # {}
    <2>1. \A t \in T : n - t \in Nat OBVIOUS
    <2> QED BY <2>1
<1>2. PICK m \in S : \A y \in S : ~(<<y, m>> \in Less)
    BY <1>1, WFMin, LessFounded
<1>3. \A y \in S : m <= y
    <2> HIDE DEF S
    <2> SUFFICES ASSUME NEW y \in S, y < m PROVE FALSE
        BY <1>1
    <2>1. y \in Nat /\ m \in Nat
        BY <1>1
    <2>2. <<y, m>> \in Less
        BY <2>1, SmallerIsLess
    <2> QED BY <2>2, <1>2
<1>4. PICK g \in T : m = n - g
    OBVIOUS
<1>5. \A t \in T : t <= g
    <2> SUFFICES ASSUME NEW t \in T PROVE t <= g
        OBVIOUS
    <2>1. n - t \in S OBVIOUS
    <2>2. m <= n - t BY <2>1, <1>3
    <2> HIDE DEF S
    <2> QED BY <2>2, <1>4
<1> QED BY <1>5

\* The key is within a unit of its value, and the ends of the globe are stored.
LEMMA TruncatedNear ==
    ASSUME NEW x \in Int
    PROVE  Truncated(x) \in Int /\ Truncated(x) < x + Grain /\ x - Grain < Truncated(x)
<1>1. Grain \in Nat \ {0}
    BY Constants
<1>2. x % Grain \in 0 .. Grain - 1 /\ (-x) % Grain \in 0 .. Grain - 1
    BY <1>1, Remainder
<1> QED BY <1>1, <1>2 DEF Truncated

LEMMA BottomsStored ==
    ASSUME NEW o \in Bounded
    PROVE  /\ Truncated(Bottom(o)) = Bottom(o)
           /\ Bottom(o) \in Int
           /\ Bottom(o) = IF ByLon(o) THEN -Half ELSE -Quarter
BY Constants, DrawAssumption DEF Bounded, Truncated, Bottom, ByLon

LEMMA NormalizeInRange ==
    ASSUME NEW lon \in Int
    PROVE  /\ Normalize(lon) \in -Half .. Half
           /\ lon \in -Half .. Half => Normalize(lon) = lon
<1>1. (lon + Half) % (2 * Half) \in 0 .. 2 * Half - 1 /\ (Half - lon) % (2 * Half) \in 0 .. 2 * Half - 1
    BY Remainder, Constants
<1> QED BY <1>1, Constants DEF Normalize

\* A turn further is the same longitude; only -180 degrees has another name.
LEMMA NormalizeTurn ==
    ASSUME NEW lon \in -Half .. Half
    PROVE  Normalize(lon + 2 * Half) = IF lon = -Half THEN Half ELSE lon
<1>1. CASE lon = -Half
    BY <1>1, Constants DEF Normalize
<1>2. CASE lon = Half
    <2>1. Half - (Half + 2 * Half) = 0 - 2 * Half
        BY Constants
    <2>2. (0 - 2 * Half) % (2 * Half) = 0
        BY OneTurn, Constants
    <2> QED BY <1>2, <2>1, <2>2, Constants DEF Normalize
<1>3. CASE lon # Half /\ lon # -Half
    <2>1. Half - (lon + 2 * Half) = (Half - lon) - 2 * Half
        BY Constants
    <2>2. ((Half - lon) - 2 * Half) % (2 * Half) = Half - lon
        BY <1>3, OneTurn, Constants
    <2> QED BY <1>3, <2>1, <2>2, Constants DEF Normalize
<1> QED BY <1>1, <1>2, <1>3

-----------------------------------------------------------------------------
(***************************************************************************)
(* The search.                                                             *)
(***************************************************************************)

LEMMA SegmentTyped ==
    ASSUME NEW ix, Whole(ix), NEW p \in Positions
    PROVE  /\ ix[p].lat_min \in -Quarter .. Quarter /\ ix[p].lat_max \in -Quarter .. Quarter
           /\ ix[p].lon_min \in -Half .. Half /\ ix[p].lon_max \in -Half .. Half
           /\ ix[p].lat_min <= ix[p].lat_max /\ ix[p].lon_min <= ix[p].lon_max
           /\ ix[p].ID \in Positions
BY Constants DEF Whole, Segment

\* A segment lies between the bottom of its order and the other end.
LEMMA RankTyped ==
    ASSUME NEW ix, Whole(ix), NEW p \in Positions, NEW o \in Bounded
    PROVE  /\ Rank(ix[p], o) \in Int /\ Bottom(o) <= Rank(ix[p], o)
           /\ Size(ix[p], o) \in 0 .. 2 * Half
           /\ ByLon(o) => Rank(ix[p], o) + Size(ix[p], o) <= Half
<1> USE SegmentTyped, Constants, BottomsStored DEF Rank, Size, LonSize, LatSize, ByLon
<1>1. CASE o = "LAT_MAX" BY <1>1
<1>2. CASE o = "LON_MAX" BY <1>2
<1>3. CASE o = "LAT_MIN" BY <1>3
<1>4. CASE o = "LON_MIN" BY <1>4
<1> QED BY <1>1, <1>2, <1>3, <1>4 DEF Bounded

\* There is a largest segment, so that the header's extent is its size.
LEMMA ExtentLargest ==
    ASSUME NEW ix, Whole(ix), NEW o \in Bounded
    PROVE  /\ Extent(ix, o) \in Nat
           /\ \A p \in Positions : Size(ix[p], o) <= Extent(ix, o)
<1> DEFINE sizes == {Size(ix[p], o) : p \in Positions}
           largest(e) == /\ \E p \in Positions : Size(ix[p], o) = e
                         /\ \A p \in Positions : Size(ix[p], o) <= e
<1>1. \A p \in Positions : Size(ix[p], o) \in 0 .. 2 * Half
    BY RankTyped
<1>2. sizes \subseteq Int /\ sizes # {} /\ \A t \in sizes : t <= 2 * Half
    BY <1>1, Constants
<1>3. PICK e \in sizes : \A t \in sizes : t <= e
    <2> HIDE DEF sizes
    <2>1. 2 * Half \in Int
        BY Constants
    <2> QED BY <1>2, <2>1, Greatest
<1>4. e \in 0 .. 2 * Half /\ largest(e)
    BY <1>1, <1>3
<1>5. Extent(ix, o) = CHOOSE x \in 0 .. 2 * Half : largest(x)
    BY DEF Extent
<1>6. Extent(ix, o) \in 0 .. 2 * Half /\ largest(Extent(ix, o))
    <2> HIDE DEF largest
    <2> QED BY <1>4, <1>5
<1> QED BY <1>6, Constants

LEMMA FoundTyped ==
    ASSUME NEW ix, NEW o, NEW bound, NEW f \in Found(ix, o, bound)
    PROVE  f \in 0 .. NSegments /\ (f = 0 \/ f \in Positions)
BY Constants DEF Found, Positions

Value(o, bound) == IF ByLon(o) THEN Normalize(bound) ELSE bound
Key(o, bound) == Truncated(Value(o, bound))

LEMMA KeyTyped ==
    ASSUME NEW o \in Bounded, NEW bound \in Int
    PROVE  Value(o, bound) \in Int /\ Key(o, bound) \in Int
BY NormalizeInRange, TruncatedNear, Constants DEF Value, Key

\* The guards at both ends make some position match any key.
LEMMA SomeMatch ==
    ASSUME NEW ix, Whole(ix), NEW o \in Bounded, NEW key \in Int
    PROVE  \E p \in Positions : Matches(ix, o, key, p)
<1> DEFINE T == {p \in Positions : p = 1 \/ Rank(ix[p], o) <= key}
<1>1. T \subseteq Int /\ 1 \in T /\ \A t \in T : t <= NSegments
    BY Constants DEF Positions
<1>2. PICK g \in T : \A t \in T : t <= g
    <2> HIDE DEF T
    <2>1. NSegments \in Int /\ T # {}
        BY <1>1, Constants
    <2> QED BY <1>1, <2>1, Greatest
<1>3. g = NSegments \/ key < Rank(ix[g + 1], o)
    <2> SUFFICES ASSUME g # NSegments PROVE key < Rank(ix[g + 1], o)
        OBVIOUS
    <2>1. g + 1 \in Positions
        BY Constants DEF Positions
    <2>2. g + 1 \notin T
        BY <1>1, <1>2
    <2>3. Rank(ix[g + 1], o) \in Int /\ ~(Rank(ix[g + 1], o) <= key)
        BY <2>1, <2>2, RankTyped
    <2> QED BY <2>3
<1>4. o # "SEG_ID"
    BY DEF Bounded
<1>5. Matches(ix, o, key, g)
    BY <1>3, <1>4 DEF Matches
<1> QED BY <1>5

\* What the search finds in a sorted index: no position before it has a rank
\* beyond the key, and none after it a rank below the key.
LEMMA FoundRight ==
    ASSUME NEW ix, Whole(ix), NEW o \in Bounded, Sorted(ix, o), NEW bound \in Int,
           NEW f \in Found(ix, o, bound)
    PROVE  /\ f \in Positions
           /\ Value(o, bound) = Bottom(o) => f = 1
           /\ \A p \in Positions : Key(o, bound) < Rank(ix[p], o) => f <= p
           /\ \A p \in Positions : f < p => Key(o, bound) <= Rank(ix[p], o)
<1> DEFINE key == Key(o, bound)
<1>1. key \in Int
    BY KeyTyped
<1>2. o # "SEG_ID" /\ o # "NO_ORDER"
    BY DEF Bounded
<1>3. \A p \in Positions : Rank(ix[p], o) \in Int /\ Bottom(o) <= Rank(ix[p], o)
    BY RankTyped
<1>4. CASE Value(o, bound) = Bottom(o)
    <2>1. f = 1
        BY <1>2, <1>4 DEF Found, Value
    <2>2. key = Bottom(o)
        BY <1>4, BottomsStored DEF Key
    <2>3. 1 \in Positions /\ \A p \in Positions : 1 <= p
        BY Constants DEF Positions
    <2> QED BY <2>1, <2>2, <2>3, <1>3
<1>5. CASE Value(o, bound) # Bottom(o)
    <2>1. f \in Positions /\ Matches(ix, o, key, f)
        <3>1. PICK m \in Positions : Matches(ix, o, key, m)
            BY <1>1, SomeMatch
        <3>2. {p \in Positions : Matches(ix, o, key, p)} # {}
            BY <3>1
        <3>3. Found(ix, o, bound) = {p \in Positions : Matches(ix, o, key, p)}
            BY <1>2, <1>5, <3>2 DEF Found, Value, Key
        <3> QED BY <3>3
    <2>2. ASSUME NEW p \in Positions, p < f PROVE Rank(ix[p], o) <= key
        <3>1. Rank(ix[p], o) <= Rank(ix[f], o)
            BY <2>1, <2>2 DEF Sorted
        <3>2. p >= 1 /\ f # 1
            BY <2>1, <2>2 DEF Positions
        <3>3. Rank(ix[f], o) <= key
            BY <2>1, <3>2, <1>3 DEF Matches
        <3> QED BY <3>1, <3>3, <2>1, <1>1, <1>3
    <2>3. ASSUME NEW p \in Positions, f < p PROVE key <= Rank(ix[p], o)
        <3>1. Rank(ix[f], o) <= Rank(ix[p], o)
            BY <2>1, <2>3 DEF Sorted
        <3>2. CASE Rank(ix[f], o) = key
            BY <3>1, <3>2
        <3>3. CASE Rank(ix[f], o) # key
            <4>1. f # NSegments /\ f + 1 \in Positions /\ (p = f + 1 \/ f + 1 < p)
                BY <2>1, <2>3, Constants DEF Positions
            <4>2. key < Rank(ix[f + 1], o)
                BY <2>1, <3>3, <4>1 DEF Matches
            <4>3. Rank(ix[f + 1], o) <= Rank(ix[p], o)
                BY <4>1, <1>3 DEF Sorted
            <4> QED BY <4>1, <4>2, <4>3, <1>1, <1>3
        <3> QED BY <3>2, <3>3
    <2>4. \A p \in Positions : key < Rank(ix[p], o) => f <= p
        BY <2>1, <2>2, <1>1, <1>3, Constants
    <2> QED BY <2>1, <2>3, <2>4, <1>5
<1> QED BY <1>4, <1>5

-----------------------------------------------------------------------------
(***************************************************************************)
(* The window.                                                             *)
(***************************************************************************)

\* The bounds in increasing order, whichever way the index is sorted.
LEMMA WindowFacts ==
    ASSUME Legal(window), Order \in Bounded
    PROVE  /\ From \in Int /\ To \in Int
           /\ ByLon(Order) => From <= Half /\ -Half <= To
           /\ Split(window) <=> ByLon(Order) /\ (From >= To \/ To > Half \/ From < -Half)
           /\ WholeCircle(window) <=> To - From \in {0, 2 * Half, -(2 * Half)}
<1> USE Constants DEF Legal, Order, From, To, Mirror, Decreasing, ByLon, Split, WholeCircle, IndexOrder, Sortable
<1>0. window[2] \in Int /\ window[3] \in Int
    OBVIOUS
<1>1. CASE Order = "LAT_MAX" BY <1>0, <1>1
<1>2. CASE Order = "LON_MAX" BY <1>0, <1>2
<1>3. CASE Order = "LAT_MIN" BY <1>0, <1>3
<1>4. CASE Order = "LON_MIN" BY <1>0, <1>4
<1> QED BY <1>1, <1>2, <1>3, <1>4 DEF Bounded

\* The search begins at the bottom or at the widened start, never beyond it.
LEMMA StartFacts ==
    ASSUME Whole(index), Legal(window), Order \in Bounded
    PROVE  LET start == Start(index, window)
               wide == IF ByLon(Order) /\ WholeCircle(window) THEN From
                       ELSE From - Extent(index, Order)
           IN  /\ start \in Int /\ wide \in Int /\ wide <= From
               /\ start = IF wide < Bottom(Order) THEN Bottom(Order) ELSE wide
<1>1. Extent(index, Order) \in Nat
    BY ExtentLargest
<1>2. From \in Int /\ Bottom(Order) \in Int
    BY WindowFacts, BottomsStored
<1> QED BY <1>1, <1>2 DEF Start, From, Order

\* While the start is no longitude beyond 180 degrees it needs no normalising.
LEMMA ValueIsStart ==
    ASSUME Whole(index), Legal(window), Order \in Bounded
    PROVE  /\ Value(Order, Start(index, window)) = Start(index, window)
           /\ Key(Order, Start(index, window)) < Start(index, window) + Grain
<1> DEFINE start == Start(index, window)
<1>1. start \in Int
    BY StartFacts
<1>2. ByLon(Order) => start \in -Half .. Half
    <2> SUFFICES ASSUME ByLon(Order) PROVE start \in -Half .. Half
        OBVIOUS
    <2>1. From \in Int /\ From <= Half /\ Bottom(Order) = -Half
        BY WindowFacts, BottomsStored
    <2> QED BY <2>1, StartFacts, Constants
<1>3. Value(Order, start) = start
    BY <1>1, <1>2, NormalizeInRange DEF Value
<1> QED BY <1>1, <1>3, TruncatedNear DEF Key

\* A segment that reaches a unit into the window from its start, and one that
\* begins as far into a whole circle, lies at the found position or after it.
LEMMA ReachedFromStart ==
    ASSUME Whole(index), Legal(window), Order \in Bounded, Sorted(index, Order),
           NEW f \in Found(index, Order, Start(index, window)),
           NEW p \in Positions,
           \/ ~(ByLon(Order) /\ WholeCircle(window)) /\ From + Grain <= High(index[p])
           \/ From + Grain <= Low(index[p])
           \/ From < Bottom(Order)
    PROVE  f <= p
<1> DEFINE start == Start(index, window)
<1>1. /\ start \in Int
      /\ Value(Order, start) = start /\ Key(Order, start) < start + Grain
      /\ Key(Order, start) \in Int
    BY StartFacts, ValueIsStart, KeyTyped
<1>2. CASE start = Bottom(Order)
    <2>1. f = 1
        BY <1>1, <1>2, FoundRight
    <2> QED BY <2>1 DEF Positions
<1>3. CASE start # Bottom(Order)
    <2>1. Low(index[p]) \in Int /\ Size(index[p], Order) \in Nat
        BY RankTyped DEF Low
    <2>2. /\ Extent(index, Order) \in Nat /\ Size(index[p], Order) <= Extent(index, Order)
          /\ From \in Int /\ Bottom(Order) \in Int
        BY ExtentLargest, WindowFacts, BottomsStored
    <2>3. start + Grain <= Low(index[p])
        BY <1>3, <2>1, <2>2, StartFacts, Constants DEF High
    <2>4. Key(Order, start) < Rank(index[p], Order)
        BY <1>1, <2>1, <2>3, Constants DEF Low
    <2> QED BY <2>4, <1>1, FoundRight
<1> QED BY <1>2, <1>3

LEMMA UpperTyped ==
    ASSUME Legal(window), Order \in Bounded
    PROVE  Upper \in Int
BY WindowFacts, NormalizeInRange, Constants DEF Upper

\* The limit test is the upper bound alone: nothing lies below the bottom.
LEMMA LimitIsUpper ==
    ASSUME Whole(index), Legal(window), Order \in Bounded, NEW p \in Positions
    PROVE  WithinLimits(index[p]) <=> Low(index[p]) <= Upper
<1>1. Rank(index[p], Order) \in Int /\ Bottom(Order) <= Rank(index[p], Order)
    BY RankTyped
<1>2. Order # "SEG_ID" /\ Order # "NO_ORDER"
    BY DEF Bounded
<1> QED BY <1>1, <1>2 DEF WithinLimits, Lower, Low

\* Without a split a segment that overlaps the window begins before its end.
LEMMA OverlapsBelow ==
    ASSUME Whole(index), Legal(window), Order \in Bounded, NEW p \in Positions,
           Overlaps(index[p]), ~Split(window)
    PROVE  Low(index[p]) <= Upper
<1>1. From \in Int /\ To \in Int
    BY WindowFacts
<1>2. CASE ~ByLon(Order)
    BY <1>2 DEF Overlaps, Upper
<1>3. CASE ByLon(Order)
    <2>1. /\ From < To /\ From \in -Half .. Half /\ To \in -Half .. Half
        BY <1>1, <1>3, WindowFacts, Constants
    <2>2. Normalize(From) = From /\ Normalize(To) = To
        BY <2>1, NormalizeInRange, <1>1
    <2>3. Upper = To
        BY <1>3, <2>2 DEF Upper
    <2>4. CASE To - From \in {0, 2 * Half}
        <3>1. To = Half
            BY <2>1, <2>4, Constants
        <3>2. Low(index[p]) \in Int /\ Low(index[p]) <= Half
            BY <1>3, RankTyped, Constants DEF Low
        <3> QED BY <2>3, <3>1, <3>2
    <2>5. CASE To - From \notin {0, 2 * Half}
        BY <1>3, <2>1, <2>2, <2>3, <2>5 DEF Overlaps
    <2> QED BY <2>4, <2>5
<1> QED BY <1>2, <1>3

\* A segment that overlaps the window lies at the found position or after it,
\* or a split search comes to it in its second loop.
LEMMA OverlapsMet ==
    ASSUME Whole(index), Legal(window), Order \in Bounded, Sorted(index, Order),
           NEW f \in Found(index, Order, Start(index, window)),
           NEW p \in Positions, Overlaps(index[p])
    PROVE  f <= p \/ (Split(window) /\ Low(index[p]) <= Upper)
<1> DEFINE low == Low(index[p])
           high == High(index[p])
<1>1. From \in Int /\ To \in Int /\ f \in Int /\ p \in Int
    BY WindowFacts, FoundTyped, Constants
<1>2. low \in Int /\ high \in Int /\ (ByLon(Order) => high <= Half)
    BY RankTyped DEF Low, High
<1>3. CASE ~ByLon(Order)
    BY <1>3, ReachedFromStart DEF Overlaps
<1>4. CASE ByLon(Order) /\ From < -Half
    <2>1. From < Bottom(Order)
        BY <1>4, BottomsStored
    <2> QED BY <2>1, ReachedFromStart
<1>5. CASE ByLon(Order) /\ -Half <= From
    <2>1. /\ From \in -Half .. Half /\ Normalize(From) = From
          /\ -Half <= To /\ Upper = Normalize(To)
          /\ To <= Half => Normalize(To) = To
        BY <1>1, <1>5, WindowFacts, NormalizeInRange, Constants DEF Upper
    <2>2. From + Grain <= low => f <= p
        BY ReachedFromStart
    <2>3. CASE To = From
        BY <1>1, <1>5, <2>1, <2>2, <2>3, WindowFacts, Constants DEF Overlaps
    <2>4. CASE To - From = 2 * Half
        <3>1. To = From + 2 * Half
            BY <1>1, <2>4, Constants
        <3>2. CASE From = -Half
            <4>1. Start(index, window) = Bottom(Order)
                BY <1>5, <2>4, <3>2, StartFacts, BottomsStored, WindowFacts
            <4>2. f = 1
                BY <4>1, ValueIsStart, FoundRight, StartFacts
            <4> QED BY <4>2 DEF Positions
        <3>3. CASE From # -Half
            <4>1. Upper = From
                BY <2>1, <3>1, <3>3, NormalizeTurn
            <4>2. Split(window)
                BY <1>1, <1>5, <2>1, <3>1, <3>3, WindowFacts, Constants
            <4> QED BY <1>5, <2>2, <2>4, <4>1, <4>2 DEF Overlaps
        <3> QED BY <3>2, <3>3
    <2>5. CASE To - From = -(2 * Half)
        <3>1. From = Half /\ To = -Half
            BY <1>1, <2>1, <2>5, Constants
        <3>2. Normalize(To) = -Half /\ ~(From < Normalize(To)) /\ To - From \notin {0, 2 * Half}
            BY <2>1, <3>1, Constants
        <3>3. low <= -Half
            BY <1>2, <1>5, <2>1, <3>1, <3>2, Constants DEF Overlaps
        <3>4. Split(window)
            BY <1>5, <3>1, WindowFacts, Constants
        <3> QED BY <2>1, <3>2, <3>3, <3>4
    <2>6. CASE To - From \notin {0, 2 * Half, -(2 * Half)}
        <3>1. ~WholeCircle(window)
            BY <2>6, WindowFacts
        <3>2. From + Grain <= high => f <= p
            BY <3>1, ReachedFromStart
        <3>3. Normalize(To) \in Int
            BY <1>1, NormalizeInRange, Constants
        <3>4. CASE From < Normalize(To)
            BY <1>5, <2>1, <2>6, <3>2, <3>4 DEF Overlaps
        <3>5. CASE ~(From < Normalize(To))
            <4>1. Split(window)
                BY <1>1, <1>5, <2>1, <3>3, <3>5, WindowFacts, Constants
            <4>2. From + Grain <= high \/ low <= Normalize(To)
                BY <1>5, <2>1, <2>6, <3>5 DEF Overlaps
            <4> QED BY <2>1, <3>2, <4>1, <4>2
        <3> QED BY <3>4, <3>5
    <2>7. To - From \in {0, 2 * Half, -(2 * Half)} =>
            To = From \/ To - From = 2 * Half \/ To - From = -(2 * Half)
        BY <1>1
    <2> QED BY <2>3, <2>4, <2>5, <2>6, <2>7
<1>6. From < -Half \/ -Half <= From
    BY <1>1, Constants
<1> QED BY <1>3, <1>4, <1>5, <1>6

-----------------------------------------------------------------------------
(***************************************************************************)
(* The invariant.                                                          *)
(***************************************************************************)

LEMMA Initially == Init => IInv
<1> SUFFICES ASSUME Init PROVE IInv
    OBVIOUS
<1>1. index \in [Positions -> Segment] /\ index \in Indexes /\ \A p \in Positions : index[p].ID = p
    BY DrawAssumption DEF Init
<1>2. Whole(index)
    BY <1>1, DrawAssumption DEF Whole
<1>3. TypeOK
    BY <1>1, Constants DEF Init, TypeOK, NoWindow, IndexOrder
<1> QED BY <1>2, <1>3 DEF Init, IInv, IndexHonest, Whole

\* Sorting keeps the segments and gives them the order it then claims.
LEMMA SortKeeps ==
    ASSUME TypeOK, IndexHonest, Whole(index), NEW order \in IndexOrder,
           index' \in SortedBy(order), index_order' = OrderAfter(order)
    PROVE  Whole(index') /\ IndexHonest' /\ index_order' \in IndexOrder
<1>1. CASE order = index_order \/ order \notin Sortable
    <2>1. index' = index /\ index_order' = index_order
        BY <1>1 DEF SortedBy, OrderAfter
    <2> QED BY <2>1 DEF TypeOK, IndexHonest
<1>2. CASE ~(order = index_order \/ order \notin Sortable)
    <2>1. PICK g \in Bijection(Positions, Positions) :
            /\ index' = [p \in Positions |-> index[g[p]]]
            /\ \A p, q \in Positions : p < q => Rank(index[g[p]], order) <= Rank(index[g[q]], order)
        BY <1>2 DEF SortedBy
    <2>2. /\ g \in [Positions -> Positions]
          /\ \A p, q \in Positions : g[p] = g[q] => p = q
          /\ \A q \in Positions : \E p \in Positions : g[p] = q
        BY DEF Bijection, Injection, Surjection, IsInjective
    <2>3. \A p \in Positions : index'[p] = index[g[p]]
        BY <2>1
    <2>4. index' \in [Positions -> Segment]
        BY <2>1, <2>2 DEF Whole
    <2>5. Whole(index')
        <3>1. ASSUME NEW id \in Positions PROVE \E p \in Positions : index'[p].ID = id
            <4>1. PICK q \in Positions : index[q].ID = id
                BY DEF Whole
            <4>2. PICK p \in Positions : g[p] = q
                BY <2>2
            <4> QED BY <2>3, <4>1, <4>2
        <3>2. \A p \in Positions : g[p] \in Positions
            BY <2>2
        <3>3. \A p \in Positions :
                /\ index'[p].lat_min <= index'[p].lat_max
                /\ index'[p].lon_min <= index'[p].lon_max
            BY <2>3, <3>2 DEF Whole
        <3>4. ASSUME NEW p \in Positions, NEW q \in Positions, index'[p].ID = index'[q].ID
              PROVE  p = q
            <4>1. g[p] = g[q]
                BY <2>3, <3>2, <3>4 DEF Whole
            <4> QED BY <2>2, <4>1
        <3> QED BY <2>4, <3>1, <3>3, <3>4 DEF Whole
    <2>6. index_order' = order
        BY <1>2 DEF OrderAfter
    <2>7. Sorted(index', order)
        BY <2>1, <2>2, <2>3 DEF Sorted
    <2> QED BY <2>5, <2>6, <2>7 DEF IndexHonest, Whole
<1> QED BY <1>1, <1>2

LEMMA BeginStep ==
    ASSUME IInv, NEW w \in Windows, Begin(w[1], w[2], w[3])
    PROVE  IInv'
<1> DEFINE new == <<OrderAfter(w[1]), w[2], w[3]>>
<1>1. w \in IndexOrder \X Int \X Int /\ w[1] \in IndexOrder /\ w[2] \in Int /\ w[3] \in Int
    BY DrawAssumption
<1>2. /\ index' \in SortedBy(w[1]) /\ index_order' = OrderAfter(w[1]) /\ window' = new
      /\ segment' \in Found(index', new[1], Start(index', new))
      /\ drawing' = IF Split(new) THEN "upper" ELSE "lower"
      /\ result' = 1 /\ drawn' = [p \in Positions |-> 0]
    BY DEF Begin
<1>3. Whole(index') /\ IndexHonest' /\ index_order' \in IndexOrder
    BY <1>1, <1>2, SortKeeps DEF IInv
<1>4. Legal(new)
    <2>1. OrderAfter(w[1]) \in Bounded => w[1] \in {OrderAfter(w[1]), "NO_ORDER"}
        BY <1>1 DEF OrderAfter, Sortable, IndexOrder
    <2> QED BY <1>1, <1>2, <1>3, <2>1, DrawAssumption DEF Legal, Bounded
<1>5. segment' \in 0 .. NSegments /\ (segment' = 0 \/ segment' \in Positions)
    BY <1>2, FoundTyped
<1>6. TypeOK'
    BY <1>1, <1>2, <1>3, <1>5, Constants DEF TypeOK, Whole
<1>7. index' \in [Positions -> Segment] /\ \A p \in Positions : index'[p].ID \in Positions
    <2>1. index' \in [Positions -> Segment]
        BY <1>3 DEF Whole
    <2> QED BY <2>1 DEF Segment
<1>8. Walked(segment)'
    BY <1>2, <1>5, <1>7, Constants DEF Walked, Once, LastLoop, Positions
<1>9. Walk'
    BY <1>2, <1>4, <1>8 DEF Walk, Order
<1> QED BY <1>2, <1>3, <1>6, <1>9 DEF IInv

\* A draw counts at the current segment and nowhere else.
LEMMA OneMore ==
    ASSUME Whole(index), drawn \in [Positions -> 0 .. 2], NEW s \in Positions,
           drawn[index[s].ID] <= 1,
           drawn' = [drawn EXCEPT ![index[s].ID] = IF @ < 3 THEN @ + 1 ELSE @]
    PROVE  /\ drawn' \in [Positions -> 0 .. 2]
           /\ drawn'[index[s].ID] = drawn[index[s].ID] + 1
           /\ \A p \in Positions : p # s => drawn'[index[p].ID] = drawn[index[p].ID]
<1>1. \A p \in Positions : index[p].ID \in Positions /\ (index[p].ID = index[s].ID => p = s)
    BY SegmentTyped DEF Whole
<1> QED BY <1>1

LEMMA DrawSegmentStep ==
    ASSUME IInv, DrawSegment
    PROVE  IInv'
<1>1. /\ TypeOK /\ Whole(index) /\ IndexHonest /\ drawing \in {"upper", "lower"} /\ result = 1
      /\ segment \in Positions /\ segment' = segment + 1
      /\ UNCHANGED <<index, index_order, drawing, window, result>>
      /\ Order = index_order /\ Legal(window)
    BY DEF IInv, DrawSegment, InPass, Advance, Walk
<1>2. PICK f \in Found(index, Order, Start(index, window)) : Walked(f)
    BY <1>1 DEF IInv, Walk
<1>3. f # 0 /\ f \in Positions /\ segment \in Int /\ segment' \in 1 .. NSegments + 1
    BY <1>1, <1>2, FoundTyped, Constants DEF Walked, Positions
<1>4. drawing = "upper" => Split(window) /\ Once(f)
    BY <1>2, <1>3 DEF Walked
<1>5. drawing = "lower" => LastLoop(f)
    BY <1>2, <1>3 DEF Walked
<1>6. Once(f) \/ Twice(f)
    BY <1>1, <1>4, <1>5 DEF LastLoop
<1>7. drawn[index[segment].ID] <= 1
    BY <1>1, <1>3, <1>6 DEF Once, Twice
<1>8. /\ drawn' \in [Positions -> 0 .. 2]
      /\ drawn'[index[segment].ID] = drawn[index[segment].ID] + 1
      /\ \A p \in Positions : p # segment => drawn'[index[p].ID] = drawn[index[p].ID]
    BY <1>1, <1>7, OneMore DEF DrawSegment, TypeOK
<1>9. Once(f) => Once(f)'
    <2> SUFFICES ASSUME Once(f) PROVE Once(f)'
        OBVIOUS
    <2>1. f <= segment'
        BY <1>1, <1>3 DEF Once, Positions
    <2>2. ASSUME NEW p \in Positions
          PROVE  drawn'[index[p].ID] = IF f <= p /\ p < segment' THEN 1 ELSE 0
        BY <1>1, <1>3, <1>8, Constants DEF Once
    <2> QED BY <1>1, <2>1, <2>2 DEF Once
<1>10. Twice(f) => Twice(f)'
    <2> SUFFICES ASSUME Twice(f) PROVE Twice(f)'
        OBVIOUS
    <2>1. ASSUME NEW p \in Positions
          PROVE  drawn'[index[p].ID] = (IF f <= p THEN 1 ELSE 0) + (IF p < segment' THEN 1 ELSE 0)
        BY <1>1, <1>3, <1>8, Constants DEF Twice
    <2> QED BY <1>1, <2>1 DEF Twice
<1>11. Walked(f)'
    BY <1>1, <1>3, <1>4, <1>5, <1>9, <1>10 DEF Walked, LastLoop
<1>12. Walk'
    BY <1>1, <1>11 DEF Walk, Order
<1>13. TypeOK'
    BY <1>1, <1>3, <1>8 DEF TypeOK
<1> QED BY <1>1, <1>12, <1>13 DEF IInv, IndexHonest

\* A failing pen and a step between or after the loops leave what was drawn.
LEMMA WalkSteps ==
    ASSUME IInv, DrawFails \/ Rewind \/ Finish \/ Crash
    PROVE  IInv'
<1>1. /\ TypeOK /\ Whole(index) /\ IndexHonest /\ drawing \in {"upper", "lower"} /\ result = 1
      /\ UNCHANGED <<index, index_order, window, drawn>>
      /\ Order = index_order /\ Legal(window)
    BY DEF IInv, DrawFails, Rewind, Finish, Crash, InPass, Walk
<1>2. PICK f \in Found(index, Order, Start(index, window)) : Walked(f)
    BY <1>1 DEF IInv, Walk
<1>3. f \in 0 .. NSegments /\ (f = 0 \/ f \in Positions)
    BY <1>2, FoundTyped
<1>4. segment \in 0 .. NSegments + 1 /\ \A p \in Positions : p \in Int /\ p <= NSegments
    BY <1>1, Constants DEF TypeOK, Positions
<1>5. IndexHonest' /\ Whole(index') /\ Order' = index_order' /\ Legal(window')
    BY <1>1 DEF IndexHonest, Order
<1>6. /\ Once(f) /\ segment' = segment => Once(f)'
      /\ Twice(f) /\ segment' = segment => Twice(f)'
      /\ LastLoop(f) /\ segment' = segment => LastLoop(f)'
    BY <1>1 DEF Once, Twice, LastLoop
<1>7. f = 0 => segment = 0
    BY <1>2 DEF Walked
<1>8. CASE DrawFails
    <2>1. segment' = segment /\ drawing' = "returned" /\ result' = -1
        BY <1>8 DEF DrawFails
    <2>2. f # 0 => Once(f) \/ Twice(f)
        BY <1>1, <1>2 DEF Walked, LastLoop
    <2>3. Walked(f)'
        BY <1>1, <1>2, <1>6, <2>1, <2>2 DEF Walked
    <2> QED BY <1>1, <1>2, <1>5, <2>1, <2>3 DEF IInv, TypeOK, Walk, Order
<1>9. CASE Rewind
    <2>1. segment > NSegments /\ segment' = 1 /\ drawing = "upper" /\ drawing' = "lower" /\ result' = result
        BY <1>9 DEF Rewind
    <2>2. f # 0
        BY <1>4, <1>7, <2>1, Constants
    <2>3. Split(window) /\ Once(f)
        BY <1>2, <2>1, <2>2 DEF Walked
    <2>4. Twice(f)'
        <3>1. \A p \in Positions : p < segment /\ ~(p < 1)
            BY <1>4, <2>1, Constants DEF Positions
        <3>2. \A p \in Positions : drawn[index[p].ID] = IF f <= p THEN 1 ELSE 0
            BY <2>3, <3>1 DEF Once
        <3> QED BY <1>1, <2>1, <3>1, <3>2 DEF Twice
    <2>5. Walked(f)'
        BY <1>1, <2>1, <2>2, <2>3, <2>4, Constants DEF Walked, LastLoop
    <2>6. segment' \in 0 .. NSegments + 1
        BY <2>1, Constants
    <2> QED BY <1>1, <1>2, <1>5, <2>1, <2>5, <2>6 DEF IInv, TypeOK, Walk, Order
<1>10. CASE Finish
    <2>1. /\ segment' = segment /\ drawing = "lower" /\ drawing' = "returned" /\ result' = 0
          /\ ~InPass
        BY <1>10 DEF Finish
    <2>2. f # 0 => LastLoop(f) /\ segment \in 1 .. NSegments + 1
        BY <1>2, <2>1 DEF Walked
    <2>3. f # 0 => Stopped
        BY <2>1, <2>2, Constants DEF InPass, Stopped, Positions
    <2>4. Stopped => Stopped'
        BY <1>1, <2>1 DEF Stopped, WithinLimits, Order, Upper, To, Mirror
    <2>5. Walked(f)'
        BY <1>1, <1>2, <1>6, <2>1, <2>2, <2>3, <2>4 DEF Walked, LastLoop
    <2> QED BY <1>1, <1>2, <1>5, <2>1, <2>5 DEF IInv, TypeOK, Walk, Order
<1>11. CASE Crash
    <2>1. segment' = segment /\ segment = 0 /\ drawing' = "crashed" /\ result' = result
        BY <1>11 DEF Crash
    <2>2. f = 0
        BY <1>2, <2>1, Constants DEF Walked
    <2>3. Walked(f)'
        BY <1>1, <1>2, <2>1, <2>2 DEF Walked
    <2> QED BY <1>1, <1>2, <1>5, <2>1, <2>3 DEF IInv, TypeOK, Walk, Order
<1> QED BY <1>8, <1>9, <1>10, <1>11

LEMMA ReturnStep ==
    ASSUME IInv, Return
    PROVE  IInv'
<1>1. /\ index' = index /\ index_order' = index_order /\ segment' = segment
      /\ drawing' = "idle" /\ window' = NoWindow /\ result' = 1
      /\ drawn' = [p \in Positions |-> 0]
    BY DEF Return
<1>2. TypeOK'
    BY <1>1 DEF IInv, TypeOK, NoWindow, IndexOrder
<1> QED BY <1>1, <1>2 DEF IInv, IndexHonest

LEMMA Inductive == IInv /\ [Next]_vars => IInv'
<1> SUFFICES ASSUME IInv, [Next]_vars PROVE IInv'
    OBVIOUS
<1>1. ASSUME NEW w \in Windows, Begin(w[1], w[2], w[3]) PROVE IInv'
    BY <1>1, BeginStep
<1>2. CASE DrawSegment
    BY <1>2, DrawSegmentStep
<1>3. CASE DrawFails \/ Rewind \/ Finish \/ Crash
    BY <1>3, WalkSteps
<1>4. CASE Return
    BY <1>4, ReturnStep
<1>5. CASE UNCHANGED vars
    BY <1>5 DEF vars, IInv, TypeOK, IndexHonest, Walk, Walked, Once, Twice, LastLoop, Stopped,
                WithinLimits, Order, Upper, To, Mirror
<1> QED BY <1>1, <1>2, <1>3, <1>4, <1>5 DEF Next

LEMMA Invariant == Spec => []IInv
BY Initially, Inductive, PTL DEF Spec

-----------------------------------------------------------------------------
(***************************************************************************)
(* The results.                                                            *)
(***************************************************************************)

\* What a walk by a bound is in any state of a call.
LEMMA BoundedWalk ==
    ASSUME IInv, Order \in Bounded, drawing # "idle"
    PROVE  /\ Whole(index) /\ Legal(window) /\ Sorted(index, Order)
           /\ Start(index, window) \in Int
           /\ \E f \in Found(index, Order, Start(index, window)) :
                f \in Positions /\ f # 0 /\ Walked(f)
<1>1. /\ Whole(index) /\ Legal(window) /\ Order = index_order /\ IndexHonest
      /\ \E f \in Found(index, Order, Start(index, window)) : Walked(f)
    BY DEF IInv, Walk
<1>2. Sorted(index, Order)
    BY <1>1 DEF IndexHonest, Bounded
<1>3. Start(index, window) \in Int
    BY <1>1, StartFacts
<1>4. \A f \in Found(index, Order, Start(index, window)) : f \in Positions
    BY <1>1, <1>2, <1>3, FoundRight
<1> QED BY <1>1, <1>2, <1>3, <1>4 DEF Positions

\* A call that returned 0 stopped behind everything within its upper bound.
LEMMA StoppedBehind ==
    ASSUME Whole(index), Legal(window), Order \in Bounded, Sorted(index, Order),
           segment \in 1 .. NSegments + 1, Stopped,
           NEW p \in Positions, Low(index[p]) <= Upper
    PROVE  p < segment
<1>1. \A q \in Positions : q \in 1 .. NSegments /\ Low(index[q]) \in Int
    BY RankTyped DEF Positions, Low
<1>2. Upper \in Int
    BY UpperTyped
<1> SUFFICES ASSUME segment <= p PROVE FALSE
    BY <1>1
<1>3. segment \in Positions
    BY <1>1, Constants DEF Positions
<1>4. ~(Low(index[segment]) <= Upper)
    BY <1>1, <1>3, LimitIsUpper, Constants DEF Stopped
<1>5. Low(index[segment]) <= Low(index[p])
    BY <1>1, <1>3 DEF Sorted, Low
<1> QED BY <1>1, <1>2, <1>3, <1>4, <1>5

LEMMA Complete == IInv => DrawComplete
<1> SUFFICES ASSUME IInv, result = 0, Order \in Bounded,
                    NEW p \in Positions, Overlaps(index[p])
             PROVE  drawn[index[p].ID] > 0
    BY DEF DrawComplete
<1>1. drawing = "returned"
    BY DEF IInv
<1>2. Whole(index) /\ Legal(window) /\ Sorted(index, Order)
    BY <1>1, BoundedWalk
<1>3. PICK f \in Found(index, Order, Start(index, window)) :
            f \in Positions /\ f # 0 /\ Walked(f)
    BY <1>1, BoundedWalk
<1>4. segment \in 1 .. NSegments + 1 /\ LastLoop(f) /\ Stopped
    BY <1>3 DEF Walked
<1>5. f <= p \/ (Split(window) /\ Low(index[p]) <= Upper)
    BY <1>2, OverlapsMet
<1>6. Low(index[p]) <= Upper => p < segment
    BY <1>2, <1>4, StoppedBehind
<1>7. CASE Split(window)
    BY <1>4, <1>5, <1>6, <1>7 DEF LastLoop, Twice
<1>8. CASE ~Split(window)
    <2>1. p < segment
        BY <1>2, <1>6, <1>8, OverlapsBelow
    <2> QED BY <1>4, <1>5, <1>8, <2>1 DEF LastLoop, Once
<1> QED BY <1>7, <1>8

LEMMA Tight == IInv => DrawTight
<1> SUFFICES ASSUME IInv, result = 0, Order \in Bounded, ~Split(window)
             PROVE  /\ \A p \in Positions : drawn[p] <= 1
                    /\ Cardinality({p \in Positions :
                          /\ drawn[index[p].ID] > 0
                          /\ Rank(index[p], Order) < Truncated(Start(index, window))}) <= 1
    BY DEF DrawTight
<1>1. drawing = "returned"
    BY DEF IInv
<1>2. Whole(index) /\ Legal(window) /\ Sorted(index, Order) /\ Start(index, window) \in Int
    BY <1>1, BoundedWalk
<1>3. PICK f \in Found(index, Order, Start(index, window)) :
            f \in Positions /\ f # 0 /\ Walked(f)
    BY <1>1, BoundedWalk
<1>4. Once(f)
    BY <1>3 DEF Walked, LastLoop
<1>5. \A p \in Positions : drawn[p] <= 1
    <2> SUFFICES ASSUME NEW id \in Positions PROVE drawn[id] <= 1
        OBVIOUS
    <2>1. PICK p \in Positions : index[p].ID = id
        BY <1>2 DEF Whole
    <2> QED BY <1>4, <2>1 DEF Once
<1> DEFINE key == Truncated(Start(index, window))
           early == {p \in Positions : drawn[index[p].ID] > 0 /\ Rank(index[p], Order) < key}
<1>6. key = Key(Order, Start(index, window))
    BY <1>2, ValueIsStart DEF Key
<1>7. \A p \in Positions : p \in Int /\ Rank(index[p], Order) \in Int
    BY <1>2, RankTyped, Constants
<1>8. early \subseteq {f}
    <2> SUFFICES ASSUME NEW p \in early PROVE p = f
        OBVIOUS
    <2>1. f <= p
        BY <1>4 DEF Once
    <2>2. ~(f < p)
        <3>1. key \in Int
            BY <1>2, TruncatedNear
        <3>2. f < p => key <= Rank(index[p], Order)
            BY <1>2, <1>6, FoundRight
        <3> QED BY <1>7, <3>1, <3>2
    <2> QED BY <1>3, <1>7, <2>1, <2>2
<1>9. Cardinality(early) <= 1
    <2> HIDE DEF early
    <2>1. IsFiniteSet({f}) /\ Cardinality({f}) = 1
        BY FS_Singleton
    <2> QED BY <1>8, <2>1, FS_Subset
<1> QED BY <1>5, <1>9

\* The index, the current segment and the counts of cdb.c keep their types: no
\* call of draw_cdb draws a segment more than twice.
THEOREM TypeCorrect == Spec => []TypeOK
BY Invariant, PTL DEF IInv

\* sort_index_cdb: the index has the order it claims and each segment once.
THEOREM IndexCorrect == Spec => []IndexHonest
BY Invariant, PTL DEF IInv

\* find_segment_cdb: while the index is sorted by a bound every search ends at a
\* segment, so that draw_cdb follows no NULL pointer.
THEOREM SearchCorrect == Spec => []SearchSucceeds
<1>1. IInv => SearchSucceeds
    BY BoundedWalk, Constants DEF SearchSucceeds, Walked
<1> QED BY <1>1, Invariant, PTL

\* draw_cdb: a call that returned 0 has drawn every segment that overlaps the
\* window it was given.
THEOREM CompleteCorrect == Spec => []DrawComplete
BY Complete, Invariant, PTL

\* draw_cdb: without a split no segment is drawn twice, and at most one of those
\* before the widened start is drawn.
THEOREM TightCorrect == Spec => []DrawTight
BY Tight, Invariant, PTL
=============================================================================
