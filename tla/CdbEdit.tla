------------------------------- MODULE CdbEdit -------------------------------
(***************************************************************************)
(* src/src/cdb_edit.c: clip and concatenate the source files into a cc_    *)
(* file, join its segments end to end into a joined_ file, thin either     *)
(* into the new file.  Each pass reads a file segment by segment and draws *)
(* into dest, whose last segment is open.                                  *)
(*                                                                         *)
(* A point is a latitude and a longitude in stored units.  A segment is an *)
(* origin and strokes, each the step from the point before.  The map is    *)
(* abstracted to distances on the globe; it covers all of it               *)
(* (cdb_edit.mpp), so that within_mapx is a test of the latitude.  Such    *)
(* distances are what forward_mapx gives if cdb_edit.mpp has a scale other *)
(* than the 0.0 it is shipped with: see CenterAtOrigin of Mapx.            *)
(***************************************************************************)
EXTENDS Integers, SequencesExt

CONSTANTS
    Half,           \* 180 degrees, in stored units
    StrokeLimit,    \* strokes are int2: from -StrokeLimit to StrokeLimit - 1
    Tolerance,      \* how far apart two ends may lie to be joined
    MaxPoints,      \* MAX_SEGMENT_POINTS
    Inputs,         \* the lists of source files a user may give
    Maps,           \* the bounds: <<north, south, east, west>>
    Options         \* <<join, compare, thins>>: -j, one of -p -q -l -m, -t

Point == Int \X Int

\* A segment as the index of a file and the data give it.
Segment == [origin : Point, strokes : Seq(Point), parts : Seq(Nat \X Nat),
            lat_min : Int, lat_max : Int, lon_min : Int, lon_max : Int, live : BOOLEAN]

\* A segment of the source files is known by its place in them.  Its longitudes
\* are in order and within half a turn of Greenwich, as wdbtocdb and cdb_edit
\* write them.
ASSUME EditAssumption ==
    /\ Half \in Nat \ {0} /\ Half % 2 = 0
    /\ StrokeLimit \in Nat \ {0}
    /\ Tolerance \in Nat
    /\ MaxPoints \in Nat \ {0}
    /\ \A input \in Inputs :
        /\ input \in Seq(Seq(Segment))
        /\ \A k \in DOMAIN input : \A i \in DOMAIN input[k] :
            LET seg == input[k][i]
            IN  /\ seg.parts = <<<<k, i>>>> /\ seg.live
                /\ -Half <= seg.lon_min /\ seg.lon_min <= seg.lon_max /\ seg.lon_max <= Half
    /\ Maps \subseteq Int \X Int \X Int \X Int
    /\ Options \subseteq BOOLEAN \X {"none", "LAT_MIN", "LAT_MAX", "LON_MIN", "LON_MAX"} \X BOOLEAN

VARIABLES
    phase,      \* "clip", "join", "thin", "done", "aborted", "crashed"
    todo,       \* the source files clip_and_concat_files has not opened
    source,     \* the index entries of the file being read
    pos,        \* source->segment
    dest,       \* the segments written to the file being made
    pen,        \* the open segment of dest
    joining,    \* join_map: candidates for the open segment are sought
    files,      \* the cc_, joined_ and new file, NoFile until finished
    bounds, options

vars == <<phase, todo, source, pos, dest, pen, joining, files, bounds, options>>

North == bounds[1]
South == bounds[2]
East  == bounds[3]
West  == bounds[4]
DoJoin  == options[1]
Compare == options[2]
Thins   == options[3]

-----------------------------------------------------------------------------
\* Arithmetic.  nint of a whole number: (int)(x + .5) truncates towards zero.
Nint(n) == IF n < 0 THEN n + 1 ELSE n
Int2(n) == ((n + StrokeLimit) % (2 * StrokeLimit)) - StrokeLimit
Normalize(lon) ==
    IF lon < -Half THEN ((lon + Half) % (2 * Half)) - Half
    ELSE IF lon > Half THEN Half - ((Half - lon) % (2 * Half)) ELSE lon
Least(a, b) == IF a < b THEN a ELSE b
Greatest(a, b) == IF a > b THEN a ELSE b
Clamp(lon) == Greatest(-Half, Least(Half, lon))
Abs(n) == IF n < 0 THEN -n ELSE n

\* Steps between two points along each axis, the shorter way round the globe.
DLat(p, q) == Abs(p[1] - q[1])
DLon(p, q) == LET d == Abs(p[2] - q[2]) % (2 * Half) IN Least(d, 2 * Half - d)
Near(p, q) == DLat(p, q) <= Tolerance /\ DLon(p, q) <= Tolerance
Distance(p, q) == DLat(p, q) * DLat(p, q) + DLon(p, q) * DLon(p, q)

\* The points of a segment, origin first.
Moved(p, stroke) == <<p[1] + stroke[1], p[2] + stroke[2]>>
Points(seg) ==
    LET at[i \in 0 .. Len(seg.strokes)] ==
            IF i = 0 THEN seg.origin ELSE Moved(at[i - 1], seg.strokes[i])
    IN  [i \in 1 .. Len(seg.strokes) + 1 |-> at[i - 1]]

-----------------------------------------------------------------------------
\* The open segment: `start' and `end' are the ends join_map knows, `parts'
\* and `joints' history: the source segments it was drawn from, in order, and
\* the pairs of ends that were joined.

\* move_pu: a new entry with the bounds of its first point.
MovePu(p, parts) ==
    LET o == <<Nint(p[1]), Nint(Normalize(p[2]))>>
    IN  [origin |-> o, strokes |-> <<>>, start |-> p, end |-> p,
         lat_min |-> o[1], lat_max |-> o[1], lon_min |-> o[2], lon_max |-> o[2],
         parts |-> parts, joints |-> {}]

\* draw_pd: one more stroke, from the stored origin or the end before.
DrawPd(seg, p) ==
    LET lon == Clamp(p[2])
        from == IF seg.strokes = <<>> THEN seg.origin ELSE <<seg.end[1], Clamp(seg.end[2])>>
    IN  [seg EXCEPT
            !.strokes = Append(@, <<Int2(Nint(p[1] - from[1])),
                                    Int2(Nint(lon - from[2]))>>),
            !.end = p,
            !.lat_min = Least(@, Nint(p[1])), !.lat_max = Greatest(@, Nint(p[1])),
            !.lon_min = Least(@, Nint(lon)), !.lon_max = Greatest(@, Nint(lon))]

\* A loop over points that draws those at the places K.
DrawOnly(seg, points, K) ==
    LET drawn[i \in 0 .. Len(points)] ==
            IF i = 0 THEN seg
            ELSE IF i \in K THEN DrawPd(drawn[i - 1], points[i]) ELSE drawn[i - 1]
    IN  drawn[Len(points)]
Draw(seg, points) == DrawOnly(seg, points, DOMAIN points)

\* copy_current_segment.
Copied(seg) == Draw(MovePu(seg.origin, seg.parts), Tail(Points(seg)))

\* thin_current_segment: some of the points, always the last one.
Thinned(seg) ==
    LET points == Tail(Points(seg))
        last == Len(points)
    IN  {DrawOnly(MovePu(seg.origin, seg.parts), points, K \cup {last}) :
            K \in SUBSET (1 .. last - 1)}

\* reverse_current_segment: the strokes as stored, drawn back from their end.
Reversed(seg) ==
    LET back == Reverse(Points(seg))
        o == <<Nint(back[1][1]), Nint(back[1][2])>>
    IN  Draw([seg EXCEPT !.origin = o, !.strokes = <<>>, !.parts = Reverse(@)],
             Tail(back))

\* append_candidate draws its first point too.
Appended(seg, candidate, backwards) ==
    LET points == IF backwards THEN Reverse(Points(candidate)) ELSE Points(candidate)
        drawn == Draw(seg, points)
    IN  [drawn EXCEPT !.parts = @ \o candidate.parts,
                      !.start = seg.origin,
                      !.joints = @ \cup {<<seg.end, points[1]>>}]

\* write_segment_data, which a segment without strokes never reaches.
NoPen == MovePu(<<0, 0>>, <<>>)
Flushed == IF pen.strokes = <<>> THEN dest ELSE Append(dest, pen)

-----------------------------------------------------------------------------
\* finish_new_file: the header claims the order of the compare option in every
\* file it finishes.
Claimed == IF Compare = "none" THEN "SEG_ID" ELSE Compare
Largest(S) == CHOOSE n \in S : \A m \in S : m <= n
LonExtent(segs) == Largest({0} \cup {segs[i].lon_max - segs[i].lon_min : i \in DOMAIN segs})
LatExtent(segs) == Largest({0} \cup {segs[i].lat_max - segs[i].lat_min : i \in DOMAIN segs})
FileOf(segs) == [order |-> Claimed, segs |-> segs,
                 lon_extent |-> LonExtent(segs), lat_extent |-> LatExtent(segs)]
NoFile == [order |-> "none", segs |-> <<>>, lon_extent |-> 0, lat_extent |-> 0]

\* init_cdb of a file just finished; `live' is an address that is not NULL.
Entries(segs) ==
    [i \in DOMAIN segs |->
        [origin |-> segs[i].origin, strokes |-> segs[i].strokes, parts |-> segs[i].parts,
         lat_min |-> segs[i].lat_min, lat_max |-> segs[i].lat_max,
         lon_min |-> segs[i].lon_min, lon_max |-> segs[i].lon_max, live |-> TRUE]]

\* The file of this pass is finished and the next pass reads it.  init_cdb
\* refuses a file without index entries, and main exits.
FinishPass(name, next) ==
    /\ files' = [files EXCEPT ![name] = FileOf(Flushed)]
    /\ dest' = <<>>
    /\ pen' = NoPen
    /\ source' = Entries(Flushed)
    /\ pos' = 1
    /\ phase' = IF Flushed = <<>> THEN "aborted" ELSE next
    /\ UNCHANGED <<todo, joining, bounds, options>>

-----------------------------------------------------------------------------
\* clip_and_concat_files.  A map that crosses 180 degrees runs past it, and
\* bounds west of Greenwich are moved there.
Straddles == East < West \/ West < -Half \/ East > Half
LonMin == IF East >= West /\ West < -Half THEN West + 2 * Half ELSE West
LonMax == IF East < West \/ West < -Half THEN East + 2 * Half ELSE East
ShiftedNot(lon) == lon      \* mutant of Shifted: a map past 180 sees no west
Shifted(lon) == IF Straddles /\ lon < 0 THEN lon + 2 * Half ELSE lon
Keeps(seg) ==
    /\ seg.lat_min <= North
    /\ seg.lat_max >= South
    /\ Shifted(seg.lon_min) <= LonMax
    /\ Shifted(seg.lon_max) >= LonMin

\* init_cdb returns NULL for a file without index; the result is not looked at.
ClipOpen ==
    /\ phase = "clip"
    /\ pos > Len(source)
    /\ todo # <<>>
    /\ IF Head(todo) = <<>>
       THEN phase' = "crashed" /\ UNCHANGED <<todo, source, pos>>
       ELSE todo' = Tail(todo) /\ source' = Head(todo) /\ pos' = 1 /\ UNCHANGED phase
    /\ UNCHANGED <<dest, pen, joining, files, bounds, options>>

ClipSegment ==
    /\ phase = "clip"
    /\ pos <= Len(source)
    /\ IF Keeps(source[pos])
       THEN dest' = Flushed /\ pen' = Copied(source[pos])
       ELSE UNCHANGED <<dest, pen>>
    /\ pos' = pos + 1
    /\ UNCHANGED <<phase, todo, source, joining, files, bounds, options>>

ClipFinish ==
    /\ phase = "clip"
    /\ pos > Len(source)
    /\ todo = <<>>
    /\ FinishPass("cc", IF DoJoin THEN "join" ELSE "thin")

-----------------------------------------------------------------------------
\* join_map.

CurrentFirst == pos < Len(source) - 1   \* mutant of Current: two are left out
\* The loop stops before the last segment.
Current == pos < Len(source)

JoinSkip ==
    /\ phase = "join"
    /\ ~joining
    /\ Current
    /\ ~source[pos].live
    /\ pos' = pos + 1
    /\ UNCHANGED <<phase, todo, source, dest, pen, joining, files, bounds, options>>

JoinStart ==
    /\ phase = "join"
    /\ ~joining
    /\ Current
    /\ source[pos].live
    /\ dest' = Flushed
    /\ pen' = Copied(source[pos])
    /\ joining' = TRUE
    /\ UNCHANGED <<phase, todo, source, pos, files, bounds, options>>

\* find_best_candidate.  The four methods, in the order they are tried.
Methods == 1 .. 4
JOIN_START_TO_START == 1
JOIN_START_TO_END == 2
JOIN_END_TO_START == 3
JOIN_END_TO_END == 4
OwnEnd(m) == IF m \in {JOIN_START_TO_START, JOIN_START_TO_END} THEN pen.start ELSE pen.end
OtherEnd(m, j) == IF m \in {JOIN_START_TO_START, JOIN_END_TO_START}
                  THEN source[j].origin ELSE Last(Points(source[j]))
Fits(j) == Len(pen.strokes) + Len(source[j].strokes) <= MaxPoints
InMap(p) == Abs(p[1]) <= Half \div 2
Candidates ==
    {j \in pos + 1 .. Len(source) :
        /\ source[j].live
        /\ Abs(source[pos].lon_max - source[j].lon_min) <= Half
        /\ Fits(j)
        /\ InMap(source[j].origin)}
Joins == {k \in Candidates \X Methods : Near(OwnEnd(k[2]), OtherEnd(k[2], k[1]))}
Best(k) ==
    LET far(i) == Distance(OwnEnd(i[2]), OtherEnd(i[2], i[1]))
    IN  \A i \in Joins :
            \/ far(k) < far(i)
            \/ far(k) = far(i) /\ (k[1] < i[1] \/ (k[1] = i[1] /\ k[2] <= i[2]))

ReversedForNone(m) == pen   \* mutant of ReversedFor: joined at the wrong end
ReversedFor(m) ==
    IF m \in {JOIN_START_TO_START, JOIN_START_TO_END} THEN Reversed(pen) ELSE pen
SpentNot(j) == source       \* mutant of Spent: the candidate stays in the file
Spent(j) == [source EXCEPT ![j].live = FALSE]

JoinBest ==
    /\ phase = "join"
    /\ joining
    /\ \E k \in Joins :
        /\ Best(k)
        /\ pen' = Appended(ReversedFor(k[2]), source[k[1]],
                           k[2] \in {JOIN_START_TO_END, JOIN_END_TO_END})
        /\ source' = Spent(k[1])
    /\ UNCHANGED <<phase, todo, pos, dest, joining, files, bounds, options>>

JoinNext ==
    /\ phase = "join"
    /\ joining
    /\ Joins = {}
    /\ joining' = FALSE
    /\ pos' = pos + 1
    /\ UNCHANGED <<phase, todo, source, dest, pen, files, bounds, options>>

JoinFinish ==
    /\ phase = "join"
    /\ ~joining
    /\ ~Current
    /\ FinishPass("joined", "thin")

-----------------------------------------------------------------------------
\* thin_map, and the end of main.
ThinSegment ==
    /\ phase = "thin"
    /\ pos <= Len(source)
    /\ dest' = Flushed
    /\ pen' \in IF Thins THEN Thinned(source[pos]) ELSE {Copied(source[pos])}
    /\ pos' = pos + 1
    /\ UNCHANGED <<phase, todo, source, joining, files, bounds, options>>

Rank(seg) ==
    CASE Compare = "LAT_MIN" -> seg.lat_min
      [] Compare = "LAT_MAX" -> -seg.lat_max
      [] Compare = "LON_MIN" -> seg.lon_min
      [] Compare = "LON_MAX" -> -seg.lon_max
      [] OTHER -> 0
Ordered(segs) == \A i, j \in DOMAIN segs : i < j => Rank(segs[i]) <= Rank(segs[j])
SortingsNone(segs) == {segs}    \* mutant of Sortings: the index is not sorted
Sortings(segs) ==
    IF Compare = "none" THEN {segs}
    ELSE {s \in {[i \in DOMAIN segs |-> segs[f[i]]] : f \in Bijection(DOMAIN segs, DOMAIN segs)} :
            Ordered(s)}

ThinFinish ==
    /\ phase = "thin"
    /\ pos > Len(source)
    /\ \E segs \in Sortings(Flushed) : files' = [files EXCEPT !["new"] = FileOf(segs)]
    /\ phase' = "done"
    /\ dest' = <<>>
    /\ pen' = NoPen
    /\ UNCHANGED <<todo, source, pos, joining, bounds, options>>

\* fwrite of a segment, an index or a header fails: exit(ABORT).
WriteFails ==
    /\ phase \in {"clip", "join", "thin"}
    /\ phase' = "aborted"
    /\ UNCHANGED <<todo, source, pos, dest, pen, joining, files, bounds, options>>

Init ==
    /\ phase = "clip"
    /\ todo \in Inputs
    /\ source = <<>> /\ pos = 1
    /\ dest = <<>> /\ pen = NoPen
    /\ joining = FALSE
    /\ files = [f \in {"cc", "joined", "new"} |-> NoFile]
    /\ bounds \in Maps
    /\ options \in Options

Next ==
    \/ ClipOpen \/ ClipSegment \/ ClipFinish
    \/ JoinSkip \/ JoinStart \/ JoinBest \/ JoinNext \/ JoinFinish
    \/ ThinSegment \/ ThinFinish
    \/ WriteFails

Spec == Init /\ [][Next]_vars

-----------------------------------------------------------------------------
PartsOf(segs) == UNION {ToSet(segs[i].parts) : i \in DOMAIN segs}
Made == Append(dest, pen)

\* However segments are joined, reversed and passed on, none of the source is
\* drawn twice into one file.
Distinct(segs) ==
    \A i \in DOMAIN segs :
        /\ IsInjective(segs[i].parts)
        /\ \A j \in DOMAIN segs \ {i} : ToSet(segs[i].parts) \cap ToSet(segs[j].parts) = {}
AtMostOnce == Distinct(Made)

\* No pass loses a segment, but that join_map loses the last one of the cc_
\* file, and never another, when nothing is joined to it.
OnlyLastLost ==
    /\ files["joined"].segs # <<>> =>
        PartsOf(files["cc"].segs) \ PartsOf(files["joined"].segs)
            \subseteq ToSet(Last(files["cc"].segs).parts)
    /\ phase = "done" =>
        PartsOf(files["new"].segs) = PartsOf(files[IF DoJoin THEN "joined" ELSE "cc"].segs)

\* Two ends are joined only where they nearly meet, after any reversals: within
\* the tolerance, and a unit that is lost when an origin is stored.
JointsNear ==
    \A k \in pen.joints :
        /\ DLat(k[1], k[2]) <= Tolerance + 1
        /\ DLon(k[1], k[2]) <= Tolerance + 1

\* What draw_cdb relies on in a finished file: the index has the order the
\* header claims, and no segment is larger than the extents.
ReadyToDraw ==
    phase = "done" =>
        LET f == files["new"]
        IN  /\ Ordered(f.segs)
            /\ \A i \in DOMAIN f.segs :
                /\ f.segs[i].lon_min <= f.segs[i].lon_max
                /\ f.segs[i].lon_max - f.segs[i].lon_min <= f.lon_extent
                /\ f.segs[i].lat_max - f.segs[i].lat_min <= f.lat_extent

\* For maps that do not begin west of Greenwich and reach past 180 degrees,
\* clipping keeps each segment on one side of Greenwich exactly if its bounds
\* meet the map, however the bounds of the map are given.  Left out are segments
\* without strokes, which are never written, and those that touch a map which
\* ends at 180 degrees from the other side only.
MeetsMap(seg) ==
    /\ seg.lat_min <= North /\ seg.lat_max >= South
    /\ \E turn \in {-2 * Half, 0, 2 * Half} :
        /\ seg.lon_min + turn <= (IF East < West THEN East + 2 * Half ELSE East)
        /\ seg.lon_max + turn >= West
OneSide(seg) == seg.lon_min >= 0 \/ seg.lon_max < 0
Touches(seg) ==
    \/ seg.lon_min = -Half /\ East = Half /\ West > -Half
    \/ seg.lon_max = Half /\ West = -Half /\ East < Half
ClipKeeps ==
    phase = "clip" /\ (Straddles => LonMin >= 0 /\ LonMax < 2 * Half) =>
        \A i \in 1 .. pos - 1 :
            /\ source[i].strokes # <<>>
            /\ IF Straddles THEN OneSide(source[i]) ELSE ~Touches(source[i])
            => (MeetsMap(source[i]) <=> ToSet(source[i].parts) \subseteq PartsOf(Flushed))

-----------------------------------------------------------------------------
\* What holds in every state and keeps holding by itself, from which the
\* properties above follow.
Pen == {seg \in [origin : Point, strokes : Seq(Point), start : Point, end : Point,
                 lat_min : Int, lat_max : Int, lon_min : Int, lon_max : Int,
                 parts : Seq(Nat \X Nat), joints : SUBSET (Point \X Point)] :
            seg.lat_min <= seg.lat_max /\ seg.lon_min <= seg.lon_max}
Written == {seg \in Pen : seg.strokes # <<>>}
Orders == {"none", "SEG_ID", "LAT_MIN", "LAT_MAX", "LON_MIN", "LON_MAX"}
File == [order : Orders, segs : Seq(Written), lon_extent : Int, lat_extent : Int]

Typed ==
    /\ phase \in {"clip", "join", "thin", "done", "aborted", "crashed"}
    /\ todo \in Seq(Seq(Segment))
    /\ source \in Seq(Segment)
    /\ pos \in 1 .. Len(source) + 1
    /\ dest \in Seq(Written)
    /\ pen \in Pen
    /\ joining \in BOOLEAN
    /\ files \in [{"cc", "joined", "new"} -> File]
    /\ bounds \in Maps
    /\ options \in Options

\* Only join_map looks for candidates, for a segment before the last.
Searches ==
    /\ phase \in {"clip", "thin"} => ~joining
    /\ phase = "join" /\ joining => pos < Len(source) /\ source[pos].live /\ pen.strokes # <<>>

\* What clip_and_concat_files has drawn comes from what it has passed, and is
\* what Keeps kept.
Passed ==
    phase = "clip" =>
        /\ files["joined"].segs = <<>>
        /\ \E input \in Inputs : \E k \in 0 .. Len(input) :
            /\ todo = SubSeq(input, k + 1, Len(input))
            /\ source = IF k = 0 THEN <<>> ELSE input[k]
            /\ \A part \in PartsOf(Made) :
                part[1] < k \/ (part[1] = k /\ part[2] < pos)
        /\ \A i \in 1 .. pos - 1 :
            source[i].strokes # <<>> =>
                (Keeps(source[i]) <=> ToSet(source[i].parts) \subseteq PartsOf(Flushed))

\* A later pass reads the file the pass before it finished, where each part
\* occurs once.  It has drawn the segments it has passed or joined, no others.
Previous == files[IF phase = "join" \/ ~DoJoin THEN "cc" ELSE "joined"].segs
Handled(i) == i < pos \/ (joining /\ i = pos) \/ ~source[i].live
Reread ==
    phase \in {"join", "thin"} =>
        /\ Distinct(Previous)
        /\ Len(source) = Len(Previous)
        /\ \A i \in DOMAIN source :
            /\ source[i].parts = Previous[i].parts
            /\ source[i].strokes # <<>>
            /\ IF Handled(i) THEN ToSet(source[i].parts) \subseteq PartsOf(Made)
                             ELSE ToSet(source[i].parts) \cap PartsOf(Made) = {}
        /\ PartsOf(Made) \subseteq PartsOf(Previous)
        /\ pen.strokes = <<>> => pen.parts = <<>>
        /\ phase = "join" => DoJoin /\ files["joined"].segs = <<>>
        /\ phase = "thin" => \A i \in DOMAIN source : source[i].live

\* join_map knows an end by the point that was drawn there, and reverses the
\* open segment by what was stored: they are a unit apart at most.
OnGlobe(p) == -Half <= p[2] /\ p[2] <= Half
Origins ==
    /\ phase = "clip" => \A i \in DOMAIN Made : OnGlobe(Made[i].origin)
    /\ phase = "join" =>
        /\ \A i \in DOMAIN source : OnGlobe(source[i].origin)
        /\ Abs(pen.start[1] - pen.origin[1]) <= 1 /\ Abs(pen.start[2] - pen.origin[2]) <= 1

IInv == Typed /\ AtMostOnce /\ OnlyLastLost /\ JointsNear /\ ReadyToDraw
        /\ Searches /\ Passed /\ Reread /\ Origins
=============================================================================
