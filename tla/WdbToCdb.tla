------------------------------- MODULE WdbToCdb -------------------------------
(***************************************************************************)
(* src/src/wdbtocdb.c and src/src/wdbpltc.c: the conversion of coastlines  *)
(* stored by cells of one degree to segments of a cdb file.                *)
(*                                                                         *)
(* Angles are integers; Q of them are one stroke unit of the cdb file, Cell *)
(* a cell and Half 180 degrees.  A source is a function that gives cells   *)
(* (row from the south pole, column from Greenwich) their records, in the  *)
(* order of the chain; cells without data are not in its domain.  A record *)
(* has a rank, an offset from the corner of its cell and strokes, or       *)
(* continues the one before it (cont) by an offset.                        *)
(***************************************************************************)
EXTENDS Integers, SequencesExt, FiniteSetsExt

CONSTANTS
    Q, Cell, Half,
    Sources,        \* sequences of source files
    Areas,          \* records south, north, west, east
    Missing,        \* a source that cannot be opened
    MaxRay,         \* the last index of latray and lonray, 511
    SimpleOver,     \* lines with more points than this are thinned, 10
    Gaps,           \* -t
    Detail,         \* -d
    RankVectors,    \* -r: functions from ranks to "0" and "1", or <<>>
    NanLats         \* what 0/0 may come to

Records == [cont : BOOLEAN, rank : 0 .. 63, lat : Int, lon : Int, strokes : Seq(Int \X Int)]

\* What the constants are assumed to be.
WdbToCdbAssumption ==
    /\ {Q, Cell, Half, MaxRay, SimpleOver} \subseteq Nat \ {0}
    /\ Half % Cell = 0 /\ Half % 2 = 0 /\ Half % Q = 0 /\ (Half \div 2) % Cell = 0
    /\ \A a \in Areas : {a.south, a.north} \subseteq -(Half \div 2) .. Half \div 2 /\ {a.west, a.east} \subseteq -2 * Half .. 2 * Half
    /\ Gaps \subseteq Int /\ NanLats \subseteq Int
    /\ \A s \in Sources : \A f \in 1 .. Len(s) : s[f] # Missing =>
        \A c \in DOMAIN s[f] : s[f][c] \in Seq(Records)

VARIABLES
    sources, area, gapin, rank_string,
    file, place, item,      \* the source, the place in its cells' order, and the record read
    lat, lon, rank,         \* of wdbplt: the current point and rank
    pen,            \* of pltpro: flag, prank, and the line so far, latray and lonray
    cdb,            \* of wdbtocdb: the index, the segment being built, and the data written
    state,          \* "source", "cells", "done" or "abort"
    lines,          \* the lines that the sources hold inside the area, point by point
    curves          \* the arguments of curve

wdbVars == <<sources, area, gapin, rank_string, file, place, item, lat, lon, rank, pen, cdb, state, lines, curves>>

Toward0(x, n) == IF x >= 0 THEN x \div n ELSE -((-x) \div n)
nint(x) == Toward0(2 * x + Q, 2 * Q)    \* of x in stroke units
NORMALIZE(x) ==
    IF x < -Half THEN ((x + Half) % (2 * Half)) - Half
    ELSE IF x > Half THEN Half - ((Half - x) % (2 * Half)) ELSE x
gap == IF gapin <= 0 THEN 1 ELSE Min({gapin, 45})

\* The ranks to be used: -r can only clear what -d set.
ranks(k) == k <= Detail /\ ~(k \in DOMAIN rank_string /\ rank_string[k] = "0")

-----------------------------------------------------------------------------
(* wdbtocdb.c *)

NoCdb == [index |-> <<>>, data |-> <<>>, at |-> <<0, 0>>, written |-> <<>>, max_seg_size |-> 0,
          ilat_extent |-> 0, ilon_extent |-> 0, exact |-> <<>>, nan |-> 0, odd |-> FALSE]
Open(c) == c.index[Len(c.index)]

\* Segment data go to the end of the file.
write_segment_data(c) ==
    [c EXCEPT !.index[Len(c.index)] = [@ EXCEPT !.addr = Len(c.written), !.size = Len(c.data)],
              !.written = @ \o c.data]

move_pu(c, la, lo) ==
    LET d == IF c.data # <<>> THEN write_segment_data(c) ELSE c
        la0 == nint(la)
        lo0 == nint(NORMALIZE(lo))
    IN  [d EXCEPT !.index = Append(@, [ilat0 |-> la0, ilon0 |-> lo0, ilat_max |-> la0, ilon_max |-> lo0,
                                       ilat_min |-> la0, ilon_min |-> lo0, addr |-> -1, size |-> -1]),
                  !.data = <<>>, !.exact = Append(@, <<<<la, NORMALIZE(lo)>>>>)]

\* at holds the static lat1 and lon1: the point before, or the rounded start.
BeginExactly(c) ==          \* mutant of begin
    IF c.data = <<>> THEN [c EXCEPT !.at = c.exact[Len(c.exact)][1]] ELSE c
begin(c) ==
    IF c.data = <<>> THEN [c EXCEPT !.at = <<Open(c).ilat0 * Q, Open(c).ilon0 * Q>>] ELSE c

\* The bounds in the index.
Widened(e, la, lo) ==
    [e EXCEPT !.ilat_max = Max({@, nint(la)}), !.ilon_max = Max({@, nint(lo)}),
              !.ilat_min = Min({@, nint(la)}), !.ilon_min = Min({@, nint(lo)})]

add_point(c, la, lo) ==
    LET n == Len(c.index)
    IN  [c EXCEPT !.data = Append(@, <<nint(la - c.at[1]), nint(lo - c.at[2])>>),
                  !.at = <<la, lo>>,
                  !.max_seg_size = Max({@, Len(c.data) + 1}),
                  !.index[n] = Widened(@, la, lo),
                  !.exact[n] = Append(@, <<la, lo>>)]

SplitNever(lon1, lon3) == 0     \* mutant of Split
Split(lon1, lon3) ==
    IF 2 * lon1 > Half /\ 2 * lon3 < -Half THEN 1
    ELSE IF 2 * lon1 < -Half /\ 2 * lon3 > Half THEN -1 ELSE 0

\* A stroke across 180 ends at one side of it and a new segment starts at the
\* other.  Both longitudes are made positive on the way, and -180 stays 180: the
\* calls may split again, where they divide 0 by 0.  They nest three deep at most: the
\* inner ones only split strokes from one side of 180 to the same or the other side.
Positive(x) == IF x < 0 THEN x + 2 * Half ELSE x
Crossing(b, la, lon3, split) ==
    LET far == split * (Half - Positive(b.at[2]))
        run == split * (Positive(lon3) - Positive(b.at[2]))
    IN  IF run = 0 THEN b.nan ELSE b.at[1] + Toward0(far * (la - b.at[1]), run)
Turned(b, lon3) ==
    [b EXCEPT !.at = <<@[1], NORMALIZE(Positive(@[2]))>>, !.odd = @ \/ Positive(lon3) = Positive(b.at[2])]
Drawn(inner(_, _, _), c, la, lo) ==
    LET b == begin(c)
        lon3 == NORMALIZE(lo)
        split == Split(b.at[2], lon3)
        lat2 == Crossing(b, la, lon3, split)
    IN  IF split = 0 THEN add_point(b, la, lon3)
        ELSE inner(move_pu(inner(Turned(b, lon3), lat2, split * Half), lat2, -split * Half),
                   la, NORMALIZE(Positive(lon3)))
Unsplit(c, la, lo) == add_point(begin(c), la, NORMALIZE(lo))
DrawnOnce(c, la, lo) == Drawn(Unsplit, c, la, lo)
DrawnTwice(c, la, lo) == Drawn(DrawnOnce, c, la, lo)
draw_pd(c, la, lo) == Drawn(DrawnTwice, c, la, lo)

curve(c, pts) ==
    IF pts = <<>> THEN c
    ELSE LET drawn[i \in 1 .. Len(pts)] ==
                 IF i = 1 THEN move_pu(c, pts[1][1], pts[1][2])
                 ELSE draw_pd(drawn[i - 1], pts[i][1], pts[i][2])
         IN  IF Len(pts) = 1 THEN draw_pd(drawn[1], pts[1][1], pts[1][2])
             ELSE drawn[Len(pts)]

-----------------------------------------------------------------------------
(* wdbpltc.c *)

\* Every gap-th point and the last one.
simple(ray) ==
    LET n == Len(ray) - 1
    IN  IF gap > 1 /\ n > SimpleOver
        THEN [i \in 1 .. n \div gap + 1 |-> ray[(i - 1) * gap + 1]] \o <<ray[Len(ray)]>>
        ELSE ray

\* npts is the last index of the line, curve takes it for the number of points.
CountAll(ray) == ray        \* mutant of Counted
Counted(ray) == Front(ray)

east == IF area.east <= area.west THEN area.east + 2 * Half ELSE area.east
inside(la, lo) == /\ area.south <= la /\ la <= area.north
                  /\ area.west <= lo /\ lo <= east

\* One point.  s holds what pltpro keeps between calls, the cdb file, and the lines
\* and curves so far; fresh: the first point of a line of the source.
BeginsLine(p, fresh) == ~p.flag \/ fresh
Flushes(p, fresh, k) == BeginsLine(p, fresh) \/ k # p.prank \/ Len(p.ray) = MaxRay + 1
pltpro(s, la, lo, k, fresh) ==
    LET p == s.pen
        flush == Flushes(p, fresh, k)
        drawn == flush /\ Len(p.ray) > 1
        args == Counted(simple(p.ray))
        full == Len(p.ray) = MaxRay + 1
        ray == IF ~flush THEN p.ray ELSE IF full /\ ~fresh THEN <<p.ray[MaxRay + 1]>> ELSE <<>>
        in == inside(la, lo)
        new == fresh \/ ~p.flag \/ k # p.prank \/ p.ray = <<>>
    IN  [pen |-> [flag |-> in, prank |-> k, ray |-> IF in THEN Append(ray, <<la, lo>>) ELSE ray],
         cdb |-> IF drawn THEN curve(s.cdb, args) ELSE s.cdb,
         curves |-> IF drawn THEN Append(s.curves, args) ELSE s.curves,
         lines |-> IF ~in THEN s.lines
                   ELSE IF new THEN Append(s.lines, <<<<la, lo>>>>)
                   ELSE [s.lines EXCEPT ![Len(s.lines)] = Append(@, <<la, lo>>)]]

PerDegree(x) == Toward0(x, Cell)
Whole(x) == x % Cell = 0
slat == (area.south + Half \div 2) \div Cell
nlat == (area.north + Half \div 2) \div Cell - (IF Whole(area.north) THEN 1 ELSE 0)
wlon == PerDegree(area.west) - (IF area.west < 0 /\ ~Whole(area.west) THEN 1 ELSE 0)
elon == PerDegree(east) - (IF Whole(east) \/ east < 0 THEN 1 ELSE 0)

\* The n-th cell to be looked at: rows from the south, one eastwards, the next
\* one westwards.
width == elon - wlon + 1
CellAt(n) ==
    LET i == slat + (n - 1) \div width
        k == (n - 1) % width
    IN  <<i, IF i % 2 = 0 THEN wlon + k ELSE elon - k>>
NumCells == IF nlat < slat \/ width <= 0 THEN 0 ELSE (nlat - slat + 1) * width

\* The column of the file: longitudes are wrapped round.
col(j) == LET m == Half \div Cell IN ((j + m) % (2 * m)) - m
Chain(n) ==
    LET c == <<CellAt(n)[1], col(CellAt(n)[2])>>
    IN  IF c \in DOMAIN sources[file] THEN sources[file][c] ELSE <<>>

\* The points of a record, latitudes from the equator.
Start(r) ==
    IF r.cont THEN <<lat + r.lat, lon + r.lon>>
    ELSE <<CellAt(place)[1] * Cell - Half \div 2 + r.lat, CellAt(place)[2] * Cell + r.lon>>
PointsOf(r) ==
    LET n == Len(r.strokes)
        point[i \in 1 .. n + 1] ==
            IF i = 1 THEN Start(r)
            ELSE <<point[i - 1][1] + r.strokes[i - 1][1], point[i - 1][2] + r.strokes[i - 1][2]>>
    IN  [i \in 1 .. n + 1 |-> point[i]]

-----------------------------------------------------------------------------
Init ==
    /\ sources \in Sources /\ area \in Areas /\ gapin \in Gaps /\ rank_string \in RankVectors
    /\ file = 1 /\ place = 1 /\ item = 0
    /\ lat = 0 /\ lon = 0 /\ rank = 0
    /\ pen = [flag |-> TRUE, prank |-> 0, ray |-> <<>>]
    /\ \E x \in NanLats : cdb = [NoCdb EXCEPT !.nan = x]
    /\ state = "source" /\ lines = <<>> /\ curves = <<>>

\* wdbplt opens the next file; one that cannot be opened is passed over.
OpenSource ==
    /\ state = "source" /\ file <= Len(sources)
    /\ IF sources[file] = Missing THEN file' = file + 1 /\ state' = "source"
       ELSE file' = file /\ state' = "cells"
    /\ place' = 1 /\ item' = 0 /\ lat' = 0 /\ lon' = 0
    /\ UNCHANGED <<sources, area, gapin, rank_string, rank, pen, cdb, lines, curves>>

\* What pltpro works on, and where it leaves it.
Work == [pen |-> pen, cdb |-> cdb, curves |-> curves, lines |-> lines]
Keep(s) ==
    /\ pen' = s.pen /\ cdb' = s.cdb /\ curves' = s.curves /\ lines' = s.lines

\* One record of a cell: its points, if its rank is wanted.
PlotRecord ==
    /\ state = "cells" /\ place <= NumCells /\ item < Len(Chain(place))
    /\ LET r == Chain(place)[item + 1]
           pts == PointsOf(r)
           k == IF r.cont THEN rank ELSE r.rank
           after[i \in 0 .. Len(pts)] ==
               IF i = 0 THEN Work ELSE pltpro(after[i - 1], pts[i][1], pts[i][2], k, i = 1 /\ ~r.cont)
       IN  /\ rank' = k
           /\ lat' = pts[Len(pts)][1] /\ lon' = pts[Len(pts)][2]
           /\ IF ranks(k) THEN Keep(after[Len(pts)])
              ELSE UNCHANGED <<pen, cdb, curves, lines>>
    /\ item' = item + 1
    /\ UNCHANGED <<sources, area, gapin, rank_string, file, place, state>>

NextCell ==
    /\ state = "cells" /\ place <= NumCells /\ item = Len(Chain(place))
    /\ place' = Min({NumCells + 1} \cup {n \in place + 1 .. NumCells : Chain(n) # <<>>})
    /\ item' = 0
    /\ UNCHANGED <<sources, area, gapin, rank_string, file, lat, lon, rank, pen, cdb, state, lines, curves>>

\* After the last cell a point outside, of a rank of its own, flushes the line.
FlushLine ==
    /\ state = "cells" /\ place > NumCells
    /\ Keep(pltpro(Work, 4 * Half, 4 * Half, 64, FALSE))
    /\ file' = file + 1 /\ state' = "source"
    /\ UNCHANGED <<sources, area, gapin, rank_string, place, item, lat, lon, rank>>

\* The last segment, the index and the header; any write may fail.
Finish ==
    /\ state = "source" /\ file > Len(sources)
    /\ LET c == IF cdb.data # <<>> THEN write_segment_data(cdb) ELSE cdb
           extent(size(_)) == Max({0} \cup {size(e) : e \in Range(c.index)})
       IN  cdb' = [c EXCEPT !.ilat_extent = extent(LAMBDA e : e.ilat_max - e.ilat_min),
                            !.ilon_extent = extent(LAMBDA e : e.ilon_max - e.ilon_min)]
    /\ state' = "done"
    /\ UNCHANGED <<sources, area, gapin, rank_string, file, place, item, lat, lon, rank, pen, lines, curves>>

WriteFails ==
    /\ state \in {"source", "cells"}
    /\ state' = "abort"
    /\ UNCHANGED <<sources, area, gapin, rank_string, file, place, item, lat, lon, rank, pen, cdb, lines, curves>>

Next == OpenSource \/ PlotRecord \/ NextCell \/ FlushLine \/ Finish \/ WriteFails
Spec == Init /\ [][Next]_wdbVars

-----------------------------------------------------------------------------
\* Whether pts is a part of line without gaps.
PartOf(pts, line) == \E k \in 0 .. Len(line) - Len(pts) : SubSeq(line, k + 1, k + Len(pts)) = pts

\* Unless lines are thinned, every point of the source inside the area is drawn,
\* once and in order, except the last point of each line, and nothing is drawn
\* between points of two lines.
LinesKept ==
    state \in {"source", "done"} /\ gap = 1 =>
        /\ FlattenSeq(curves) = FlattenSeq([n \in 1 .. Len(lines) |-> Front(lines[n])])
        /\ \A pts \in Range(curves) : \E line \in Range(lines) : PartOf(pts, line)

\* wdbpltc.c:516: "npts - number of points in the current segment": a line of several
\* points is drawn to its end.
LinesDrawnToTheEnd ==
    state = "done" /\ gap = 1 => \A line \in Range(lines) :
        Len(line) > 1 /\ Len(line) <= MaxRay => \E pts \in Range(curves) : line[Len(line)] \in Range(pts)

\* Where the strokes after the first at of them lead, in latitude or longitude.
Led(strokes, at, i) ==
    LET sum[k \in 0 .. Len(strokes) - at] == IF k = 0 THEN 0 ELSE sum[k - 1] + strokes[at + k][i]
    IN  sum
OffBy(drawn, exact, k) ==
    LET off == 2 * (Q * drawn - exact)
        most == IF k = 0 THEN 1 ELSE k
    IN  -Q * most <= off /\ off <= 3 * Q * most

\* k strokes lead to the k-th point to within half a unit to one side and one and a
\* half to the other for each of them, nint being what it is, and the bounds of the
\* index hold the point as it was, to the rounding.
Follows(e, exact, strokes, at, k) ==
    /\ OffBy(e.ilat0 + Led(strokes, at, 1)[k], exact[k + 1][1], k)
    /\ OffBy(e.ilon0 + Led(strokes, at, 2)[k], exact[k + 1][2], k)
    /\ nint(exact[k + 1][1]) \in e.ilat_min .. e.ilat_max
    /\ nint(exact[k + 1][2]) \in e.ilon_min .. e.ilon_max

\* Segment n of c is what size strokes hold after the first at of them.
Holds(c, n, strokes, at, size) ==
    /\ size <= c.max_seg_size /\ Len(c.exact[n]) = size + 1
    /\ ~c.odd => \A k \in 0 .. size : Follows(c.index[n], c.exact[n], strokes, at, k)

\* A segment that is written follows the one before it and is not empty.
AddressOf(c, n) == IF n = 1 THEN 0 ELSE c.index[n - 1].addr + c.index[n - 1].size
Stored(c, n) ==
    LET e == c.index[n]
    IN  /\ e.addr = AddressOf(c, n) /\ e.size > 0 /\ e.addr + e.size <= Len(c.written)
        /\ Holds(c, n, c.written, e.addr, e.size)

\* The file is one that draw_cdb and cdb_edit can read.  Its segments cover the data
\* one after another, none of them empty; their strokes lead along the points of the
\* lines, and the bounds of the index hold them.  (A point at -180 before one to
\* the west of it is taken for 180 and split again, which divides 0 by 0 and spoils
\* the bounds.)
FileSound ==
    state = "done" =>
        /\ Len(cdb.index) = Len(cdb.exact)
        /\ \A n \in DOMAIN cdb.index : Stored(cdb, n)
        /\ AddressOf(cdb, Len(cdb.index) + 1) = Len(cdb.written)

\* No stroke is of more than 180 degrees: none crosses 180.
NoneCrosses ==
    state = "done" /\ ~cdb.odd => \A pts \in Range(cdb.exact) : \A k \in 2 .. Len(pts) :
        pts[k][2] - pts[k - 1][2] \in -Half .. Half

-----------------------------------------------------------------------------
(***************************************************************************)
(* The inductive invariant from which LinesKept follows.                   *)
(***************************************************************************)

Point == Int \X Int
TypeOK ==
    /\ sources \in Sources /\ area \in Areas /\ gapin \in Gaps
    /\ file \in Nat \ {0} /\ place \in Nat \ {0} /\ item \in Nat
    /\ lat \in Int /\ lon \in Int /\ rank \in 0 .. 63
    /\ pen \in [flag : BOOLEAN, prank : Nat, ray : Seq(Point)]
    /\ lines \in Seq(Seq(Point) \ {<<>>}) /\ curves \in Seq(Seq(Point))
    /\ state \in {"source", "cells", "done", "abort"}
    /\ state = "cells" => file <= Len(sources) /\ sources[file] # Missing

\* What will be drawn of the line in latray and lonray.
Pending(ray) == IF ray = <<>> THEN <<>> ELSE Front(ray)
Fronts(ls) == [n \in 1 .. Len(ls) |-> Front(ls[n])]
EndsWith(line, pts) == Len(pts) <= Len(line) /\ SubSeq(line, Len(line) - Len(pts) + 1, Len(line)) = pts

\* What is drawn and what will be are the lines without their last points, and
\* what is in latray and lonray are the last points of the last line.
Traced(s) ==
    /\ FlattenSeq(s.curves) \o Pending(s.pen.ray) = FlattenSeq(Fronts(s.lines))
    /\ \A pts \in Range(s.curves) : \E line \in Range(s.lines) : PartOf(pts, line)
    /\ s.pen.ray # <<>> => s.lines # <<>> /\ EndsWith(s.lines[Len(s.lines)], s.pen.ray)
    /\ Len(s.pen.ray) <= MaxRay + 1
    /\ ~s.pen.flag => Len(s.pen.ray) <= MaxRay

\* Inside the area the line goes on with the rank it has.
SameRank == pen.flag /\ pen.ray # <<>> => pen.prank < 64 /\ (pen.prank = rank \/ ~ranks(rank))

IInv ==
    /\ TypeOK
    /\ gap = 1 => /\ Traced(Work) /\ SameRank
                  /\ state \in {"source", "done"} => Len(pen.ray) <= 1 /\ (pen.flag => pen.ray = <<>>)

-----------------------------------------------------------------------------
(***************************************************************************)
(* The inductive invariant from which FileSound follows.                   *)
(***************************************************************************)

Cdbs == [index : Seq([ilat0 : Int, ilon0 : -(Half \div Q) .. Half \div Q, ilat_max : Int, ilon_max : Int,
                      ilat_min : Int, ilon_min : Int, addr : Int, size : Int]),
         data : Seq(Point), at : Int \X (-Half .. Half), written : Seq(Point), max_seg_size : Nat,
         ilat_extent : Int, ilon_extent : Int, exact : Seq(Seq(Int \X (-Half .. Half))), nan : Int, odd : BOOLEAN]

\* The segments before the last are written, and the last one is in memory.
Sound(c) ==
    /\ Len(c.index) = Len(c.exact)
    /\ \A n \in 1 .. Len(c.index) - 1 : Stored(c, n)
    /\ IF c.index = <<>> THEN c.data = <<>> /\ c.written = <<>>
       ELSE Holds(c, Len(c.index), c.data, 0, Len(c.data)) /\ AddressOf(c, Len(c.index)) = Len(c.written)

\* lat1 and lon1 are the point before.
AtLast(c) ==
    c.data # <<>> /\ ~c.odd => c.at = c.exact[Len(c.exact)][Len(c.exact[Len(c.exact)])]

\* Between two calls of curve.
Resting(c) == c \in Cdbs /\ Sound(c) /\ (c.index # <<>> => c.data # <<>>)

FInv == IF state = "done" THEN FileSound ELSE Resting(cdb)
===============================================================================
