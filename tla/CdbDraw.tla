------------------------------- MODULE CdbDraw -------------------------------
(***************************************************************************)
(* src/src/cdb.c: the segment index of a coastline database, sorted on     *)
(* demand, and draw_cdb, which finds its first segment by binary search    *)
(* and then walks the index, calling the client's pen at every segment.    *)
(*                                                                         *)
(* Latitudes and longitudes are integers; Grain of them make one stored    *)
(* unit of 2^-10 degree, so that the bounds a client gives, which are      *)
(* doubles, may lie between two stored values.  An order by decreasing     *)
(* bound is the increasing order of the negated bound: the two comparators *)
(* of each pair mirror each other.                                         *)
(***************************************************************************)
EXTENDS Integers, FiniteSets, Functions

CONSTANTS
    Half,       \* 180 degrees
    Grain,      \* one stored unit
    NSegments,  \* seg_count
    Indexes,    \* the indexes of the files at hand
    Windows     \* the <<order, start, stop>> clients draw

Bounded == {"LAT_MAX", "LON_MAX", "LAT_MIN", "LON_MIN"}
Sortable == Bounded \cup {"SEG_ID"}
IndexOrder == Sortable \cup {"NO_ORDER"}
Positions == 1 .. NSegments
Quarter == Half \div 2
Stored(top) == {x \in -top .. top : x % Grain = 0}
Segment ==
    [ID : Positions, lat_min : Stored(Quarter), lat_max : Stored(Quarter),
     lon_min : Stored(Half), lon_max : Stored(Half)]

\* The western bound of longitudes is normalised and the eastern one at least
\* -180 degrees, as those of a map are (mapenum.c:102).  An order that cannot
\* be sorted by may turn out to be either.
ASSUME DrawAssumption ==
    /\ NSegments \in Nat \ {0}
    /\ Grain \in Nat \ {0}
    /\ Half \in Nat \ {0} /\ Half % Grain = 0 /\ Quarter % Grain = 0
    /\ Indexes \subseteq [Positions -> Segment]
    /\ \A ix \in Indexes : \A p \in Positions :
        /\ ix[p].ID = p
        /\ ix[p].lat_min <= ix[p].lat_max
        /\ ix[p].lon_min <= ix[p].lon_max
    /\ Windows \subseteq IndexOrder \X Int \X Int
    /\ \A w \in Windows :
        /\ w[1] \in {"LON_MIN", "NO_ORDER"} => w[2] \in -Half .. Half /\ w[3] >= -Half
        /\ w[1] \in {"LON_MAX", "NO_ORDER"} => w[3] \in -Half .. Half /\ w[2] >= -Half

VARIABLES
    index, index_order,     \* the index in memory and the order it claims
    segment,    \* the current segment: a position, NSegments + 1 past the
                \* last one, or 0, the NULL pointer
    drawing,    \* draw_cdb: "idle", its two loops, "returned", "crashed"
    window,     \* the order in effect and the bounds draw_cdb was given
    result,     \* what draw_cdb returned, -1 or 0, and 1 before
    drawn       \* how often each segment was drawn by this call

vars == <<index, index_order, segment, drawing, window, result, drawn>>

Decreasing(o) == o \in {"LAT_MAX", "LON_MAX"}
ByLon(o) == o \in {"LON_MAX", "LON_MIN"}
Mirror(o, x) == IF Decreasing(o) THEN -x ELSE x

\* The field an order sorts by, so that every order increases.
Rank(seg, o) ==
    CASE o = "LAT_MAX" -> -seg.lat_max
      [] o = "LON_MAX" -> -seg.lon_max
      [] o = "LAT_MIN" -> seg.lat_min
      [] o = "LON_MIN" -> seg.lon_min
      [] o = "SEG_ID"  -> seg.ID

Sorted(ix, o) == \A p, q \in Positions : p < q => Rank(ix[p], o) <= Rank(ix[q], o)

\* The extents in the header: the largest of any segment, so that some
\* segment has them.
LonSize(seg) == seg.lon_max - seg.lon_min
LatSize(seg) == seg.lat_max - seg.lat_min
Size(seg, o) == IF ByLon(o) THEN LonSize(seg) ELSE LatSize(seg)
Extent(ix, o) == CHOOSE e \in 0 .. 2 * Half :
    /\ \E p \in Positions : Size(ix[p], o) = e
    /\ \A p \in Positions : Size(ix[p], o) <= e

-----------------------------------------------------------------------------
SortedByNot(o) == {index}   \* mutant of SortedBy: the order is only claimed
\* sort_index_cdb: qsort, which does not keep the order of equal segments.
SortedBy(o) ==
    IF o = index_order \/ o \notin Sortable THEN {index}
    ELSE {[p \in Positions |-> index[f[p]]] : f \in
            {g \in Bijection(Positions, Positions) :
                \A p, q \in Positions :
                    p < q => Rank(index[g[p]], o) <= Rank(index[g[q]], o)}}
OrderAfter(o) == IF o \in Sortable THEN o ELSE index_order

\* normalize_lon_cdb: 360 degrees at a time into [-180, 180].
Normalize(lon) ==
    IF lon < -Half THEN ((lon + Half) % (2 * Half)) - Half
    ELSE IF lon > Half THEN Half - ((Half - lon) % (2 * Half)) ELSE lon

\* key_value/CDB_LON_SCALE, truncated towards zero into an int4.
Truncated(x) == IF x >= 0 THEN x - (x % Grain) ELSE -((-x) - ((-x) % Grain))

Bottom(o) == IF o = "SEG_ID" THEN -1 ELSE IF ByLon(o) THEN -Half ELSE -Quarter

\* The comparators of bsearch: the positions that answer 0 for a key.
MatchesInner(ix, o, key, p) ==  \* mutant of Matches: no guard at the ends
    /\ p < NSegments
    /\ Rank(ix[p], o) <= key /\ key < Rank(ix[p + 1], o)
Matches(ix, o, key, p) ==
    \/ Rank(ix[p], o) = key
    \/ /\ o # "SEG_ID"
       /\ p = 1 \/ Rank(ix[p], o) <= key
       /\ p = NSegments \/ key < Rank(ix[p + 1], o)

FoundTop(ix, o, bound) == {1}   \* mutant of Found: no search, from the top
\* find_segment_cdb: the positions it may leave current, given a bound in
\* increasing order.  bsearch may return any match, and NULL only without one.
Found(ix, o, bound) ==
    LET value == IF ByLon(o) THEN Normalize(bound) ELSE bound
        key == IF o = "SEG_ID" THEN value ELSE Truncated(value)
        hits == {p \in Positions : Matches(ix, o, key, p)}
    IN  IF o = "NO_ORDER" THEN {0}
        ELSE IF value = Bottom(o) THEN {1}
        ELSE IF hits = {} THEN {0} ELSE hits

-----------------------------------------------------------------------------
\* The bounds of draw_cdb, in increasing order.
Order == window[1]
From == Mirror(Order, window[2])
To == Mirror(Order, window[3])
WholeCircle(w) == w[2] - w[3] \in {0, 2 * Half, -(2 * Half)}

SplitNever(w) == FALSE      \* mutant of Split: one search, as if no wrap
\* split_search: the bounds cross 180 degrees.
Split(w) ==
    LET from == Mirror(w[1], w[2])
        to == Mirror(w[1], w[3])
    IN  \/ ByLon(w[1]) /\ from >= to
        \/ w[1] = "LON_MIN" /\ w[3] > Half
        \/ w[1] = "LON_MAX" /\ w[2] > Half

\* start, widened by the extent of the largest segment and clipped.
StartUnwidened(ix, w) ==    \* mutant of Start: the extent is forgotten
    LET from == Mirror(w[1], w[2])
    IN  IF w[1] \in Bounded /\ from < Bottom(w[1]) THEN Bottom(w[1]) ELSE from
Start(ix, w) ==
    LET o == w[1]
        from == Mirror(o, w[2])
        wide == IF ByLon(o) /\ WholeCircle(w) THEN from ELSE from - Extent(ix, o)
    IN  IF o \notin Bounded THEN from
        ELSE IF wide < Bottom(o) THEN Bottom(o) ELSE wide

\* index_limit_test_cdb, on the bounds draw_cdb sets.
Lower(o) == IF o = "SEG_ID" THEN 0 ELSE Bottom(o)
Upper == IF ByLon(Order) THEN Normalize(To) ELSE To
WithinLimits(seg) ==
    /\ Order # "NO_ORDER"
    /\ Rank(seg, Order) >= Lower(Order)
    /\ Rank(seg, Order) <= Upper

-----------------------------------------------------------------------------
\* draw_cdb up to its first loop: sort, widen, split, find.  An order that
\* cannot be sorted by leaves the index as it is, and the bounds are then
\* read in the order it has.  SEG_ID and NO_ORDER reach assert(NEVER), which
\* the default build leaves out.
Begin(order, start, stop) ==
    LET w == <<OrderAfter(order), start, stop>>
    IN  /\ drawing = "idle"
        /\ index' \in SortedBy(order)
        /\ index_order' = w[1]
        /\ segment' \in Found(index', w[1], Start(index', w))
        /\ window' = w
        /\ drawing' = IF Split(w) THEN "upper" ELSE "lower"
        /\ result' = 1
        /\ drawn' = [p \in Positions |-> 0]

\* draw_current_seg_cdb on the current segment; the data cannot be read or
\* the pen reports an error, and draw_cdb returns -1.
InPass ==
    /\ segment \in Positions
    /\ \/ drawing = "upper"
       \/ drawing = "lower" /\ WithinLimits(index[segment])

AdvanceNot == segment       \* mutant of Advance: the loop does not move on
Advance == segment + 1

\* The count of draws is capped at three, one more than any call reaches.
DrawSegment ==
    /\ InPass
    /\ segment' = Advance
    /\ drawn' = [drawn EXCEPT ![index[segment].ID] = IF @ < 3 THEN @ + 1 ELSE @]
    /\ UNCHANGED <<index, index_order, drawing, window, result>>

DrawFails ==
    /\ InPass
    /\ drawing' = "returned"
    /\ result' = -1
    /\ UNCHANGED <<index, index_order, segment, window, drawn>>

\* The first loop of a split search is over: start again from the top.
Rewind ==
    /\ drawing = "upper"
    /\ segment > NSegments
    /\ drawing' = "lower"
    /\ segment' = 1
    /\ UNCHANGED <<index, index_order, window, result, drawn>>

\* The limit test ends the last loop, with NULL too while there is no order.
Finish ==
    /\ drawing = "lower"
    /\ segment # 0 \/ Order = "NO_ORDER"
    /\ ~InPass
    /\ drawing' = "returned"
    /\ result' = 0
    /\ UNCHANGED <<index, index_order, segment, window, drawn>>

\* NULL is not past the last segment: the loop reads through it.
Crash ==
    /\ drawing \in {"upper", "lower"}
    /\ segment = 0
    /\ Order # "NO_ORDER"
    /\ drawing' = "crashed"
    /\ UNCHANGED <<index, index_order, segment, window, result, drawn>>

\* The client goes on; what it drew no longer matters.
NoWindow == <<"NO_ORDER", 0, 0>>
Return ==
    /\ drawing = "returned"
    /\ drawing' = "idle"
    /\ window' = NoWindow
    /\ result' = 1
    /\ drawn' = [p \in Positions |-> 0]
    /\ UNCHANGED <<index, index_order, segment>>

Init ==
    /\ index \in Indexes
    /\ index_order \in {o \in IndexOrder : o = "NO_ORDER" \/ Sorted(index, o)}
    /\ segment = 1
    /\ drawing = "idle"
    /\ window = NoWindow
    /\ result = 1
    /\ drawn = [p \in Positions |-> 0]

Loop == DrawSegment \/ Rewind \/ Finish \/ Crash

Next ==
    \/ \E w \in Windows : Begin(w[1], w[2], w[3])
    \/ DrawSegment
    \/ DrawFails
    \/ Rewind
    \/ Finish
    \/ Crash
    \/ Return

\* draw_cdb runs on its caller's thread and waits for nothing.  Nothing makes
\* a pen fail.
Spec == Init /\ [][Next]_vars /\ WF_vars(Loop)

-----------------------------------------------------------------------------
\* Every variable has its type: the current segment runs at most one past the
\* last one, and no call draws a segment more than twice.
TypeOK ==
    /\ index \in [Positions -> Segment]
    /\ index_order \in IndexOrder
    /\ segment \in 0 .. NSegments + 1
    /\ drawing \in {"idle", "upper", "lower", "returned", "crashed"}
    /\ window \in IndexOrder \X Int \X Int
    /\ result \in {-1, 0, 1}
    /\ drawn \in [Positions -> 0 .. 2]

\* The binary search and the early end of the walk rest on an index that has
\* the order it claims, with every segment of the file in it exactly once.
IndexHonest ==
    /\ index_order # "NO_ORDER" => Sorted(index, index_order)
    /\ \A p, q \in Positions : index[p].ID = index[q].ID => p = q

\* The arc or band the client asked for, in increasing order.  It reaches
\* segments by at least one stored unit from its start, since the key of the
\* search is truncated to stored units.  A whole circle reaches all segments
\* but those that begin within that unit: the search may stop at any of them,
\* and the second loop ends before it comes to the others.
Low(seg) == Rank(seg, Order)
High(seg) == Low(seg) + Size(seg, Order)
Overlaps(seg) ==
    LET reaches(a, b) == High(seg) >= a + Grain /\ Low(seg) <= b
    IN  IF ~ByLon(Order) THEN reaches(From, To)
        ELSE IF To - From \in {0, 2 * Half}
             THEN Low(seg) <= From \/ Low(seg) >= From + Grain
        ELSE LET from == Normalize(From)
                 to == Normalize(To)
             IN  IF from < to THEN reaches(from, to)
                 ELSE reaches(from, Half) \/ reaches(-Half, to)

\* draw_cdb "draws all segments within bounds" (cdb.c:840): one that returned
\* 0 has drawn every segment that overlaps the window, wrapped round the globe
\* or not, whatever qsort and bsearch do with equal keys.
DrawComplete ==
    result = 0 /\ Order \in Bounded =>
        \A p \in Positions : Overlaps(index[p]) => drawn[index[p].ID] > 0

\* What it draws beyond the window is little: without a split no segment is
\* drawn twice, and at most one lies before the widened start.
DrawTight ==
    result = 0 /\ Order \in Bounded /\ ~Split(window) =>
        /\ \A p \in Positions : drawn[p] <= 1
        /\ Cardinality({p \in Positions :
              /\ drawn[index[p].ID] > 0
              /\ Rank(index[p], Order) < Truncated(Start(index, window))}) <= 1

\* The walk follows no NULL pointer while the index is sorted by a bound: the
\* guards of the comparators at both ends make every search succeed.
SearchSucceeds == Order \in Bounded /\ drawing # "idle" => segment # 0

\* A call of draw_cdb ends: it returns or, with SEG_ID, crashes.
DrawEnds == drawing \in {"upper", "lower"} ~> drawing \in {"returned", "crashed"}

-----------------------------------------------------------------------------
(***************************************************************************)
(* The inductive invariant of CdbDrawProofs.                               *)
(***************************************************************************)

\* The index holds every segment of the file once, each with a sound box.
Whole(ix) ==
    /\ ix \in [Positions -> Segment]
    /\ \A p \in Positions : ix[p].lat_min <= ix[p].lat_max /\ ix[p].lon_min <= ix[p].lon_max
    /\ \A p, q \in Positions : ix[p].ID = ix[q].ID => p = q
    /\ \A id \in Positions : \E p \in Positions : ix[p].ID = id

\* The bounds of a call, once the order is known.
Legal(w) ==
    /\ w \in IndexOrder \X Int \X Int
    /\ w[1] = "LON_MIN" => w[2] \in -Half .. Half /\ w[3] >= -Half
    /\ w[1] = "LON_MAX" => w[3] \in -Half .. Half /\ w[2] >= -Half

\* What a walk that began at position f has drawn: in its first loop the
\* positions from f on, in the second loop of a split search those before the
\* current one once more.
Once(f) ==
    /\ f <= segment
    /\ \A p \in Positions : drawn[index[p].ID] = IF f <= p /\ p < segment THEN 1 ELSE 0
Twice(f) ==
    \A p \in Positions : drawn[index[p].ID] =
        (IF f <= p THEN 1 ELSE 0) + (IF p < segment THEN 1 ELSE 0)
LastLoop(f) == IF Split(window) THEN Twice(f) ELSE Once(f)
Stopped == segment > NSegments \/ ~WithinLimits(index[segment])

Walked(f) ==
    IF f = 0 THEN segment = 0 /\ \A p \in Positions : drawn[p] = 0
    ELSE /\ segment \in 1 .. NSegments + 1
         /\ drawing = "upper" => Split(window) /\ Once(f)
         /\ drawing = "lower" => LastLoop(f)
         /\ drawing = "returned" => Once(f) \/ Twice(f)
         /\ result = 0 => LastLoop(f) /\ Stopped
Walk ==
    /\ Order = index_order
    /\ Legal(window)
    /\ \E f \in Found(index, Order, Start(index, window)) : Walked(f)

IInv ==
    /\ TypeOK
    /\ IndexHonest
    /\ Whole(index)
    /\ drawing # "returned" => result = 1
    /\ IF drawing = "idle" THEN window = NoWindow ELSE Walk
=============================================================================
