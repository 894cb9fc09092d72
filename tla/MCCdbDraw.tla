----------------------------- MODULE MCCdbDraw -----------------------------
(***************************************************************************)
(* Small instances of CdbDraw for TLC: 180 degrees are two stored units,   *)
(* of two integers each.                                                   *)
(***************************************************************************)
EXTENDS CdbDraw

Clamp(x) == IF x > Quarter THEN Quarter ELSE IF x < -Quarter THEN -Quarter ELSE x

\* The intervals of up to 180 degrees, and two points, with latitudes that
\* follow from them.
Points == {-Grain, Half}
Span == {s \in Stored(Half) \X Stored(Half) : s[1] < s[2] /\ s[2] - s[1] <= Half}
        \cup {<<x, x>> : x \in Points}
SpanOrder(s, t) == s[1] < t[1] \/ (s[1] = t[1] /\ s[2] <= t[2])
MCSegment(id, s) ==
    [ID |-> id, lon_min |-> s[1], lon_max |-> s[2],
     lat_min |-> Clamp(s[1]), lat_max |-> Clamp(s[2])]

\* One file for every bag of intervals.
MCIndexes ==
    {[p \in Positions |-> MCSegment(p, f[p])] :
        f \in {g \in [Positions -> Span] :
                \A p \in 1 .. NSegments - 1 : SpanOrder(g[p], g[p + 1])}}

\* Bounds of maps: the far one may lie up to a turn beyond 180 degrees.
Near == -Half .. Half
Far == {x \in -Half .. 3 * Half : x % Grain = 0}
MCWindows ==
    ({"LON_MIN"} \X Near \X Far)
    \cup {<<"LON_MAX", start, stop>> : start \in Near \cup Far, stop \in Stored(Half)}
    \cup {<<"LON_MIN", x, x + turn>> : x \in Near, turn \in {0, 2 * Half}}
    \cup {<<"LON_MAX", x, x>> : x \in Near}
    \cup ({"LAT_MIN", "LAT_MAX"} \X (-Quarter .. Quarter) \X Stored(Quarter))
    \cup ({"SEG_ID"} \X (0 .. NSegments) \X Positions)
    \cup ({"NO_ORDER"} \X {0} \X {0})
=============================================================================
