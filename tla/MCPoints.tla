------------------------------- MODULE MCPoints -------------------------------
(***************************************************************************)
(* Small instances of Ungrid, Irregrid and WdbToCdb for TLC.  A behaviour  *)
(* is one of a single program, the other two never start.                  *)
(***************************************************************************)
EXTENDS Points

\* A program that does not start is in this state.
Any(S) == CHOOSE x \in S : TRUE
noUngrid == /\ control = Any(CommandLines) /\ from_data = Any(Files)
            /\ input = <<>> /\ fails = FALSE /\ row = 0 /\ phase = "rows"
noIrregrid == method = "drop" /\ shell_radius = 0 /\ fill = 0 /\ lines_processed = 0 /\ stage = "read"
noWdbToCdb == /\ sources = Any(Sources) /\ area = Any(Areas) /\ gapin = Any(Gaps) /\ rank_string = <<>>
              /\ cdb.nan = 0 /\ state = "source" /\ file = 1

Init ==
    \/ noUngrid /\ Ungrid!Init /\ noIrregrid /\ Irregrid!Init /\ WdbToCdb!Init
    \/ noUngrid /\ Ungrid!Init /\ WdbToCdb!Init /\ noWdbToCdb /\ Irregrid!Init
    \/ noIrregrid /\ Irregrid!Init /\ WdbToCdb!Init /\ noWdbToCdb /\ Ungrid!Init

UngridNext == noIrregrid /\ noWdbToCdb /\ Ungrid!Next /\ UNCHANGED <<irregridVars, wdbVars>>
Next ==
    \/ UngridNext
    \/ noUngrid /\ noWdbToCdb /\ Irregrid!Next /\ UNCHANGED <<ungridVars, wdbVars>>
    \/ noUngrid /\ noIrregrid /\ WdbToCdb!Next /\ UNCHANGED <<ungridVars, irregridVars>>
Spec == Init /\ [][Next]_<<ungridVars, irregridVars, wdbVars>> /\ WF_ungridVars(UngridNext)

-----------------------------------------------------------------------------
\* Six cells with the fill value, values beyond the limits and negative ones.
Grid(a, b, c, d, e, f) ==
    [x \in (0 .. 1) \X (0 .. 2) |-> <<a, b, c, d, e, f>>[3 * x[1] + x[2] + 1]]
MCFiles == {Grid(10, 20, 0, 7, 250, 30), Grid(0, 0, 200, 0, 40, 0)}

Options(c, r, n, x, u, b, center, i) ==
    [c |-> c, r |-> r, n |-> n, x |-> x, U |-> u, b |-> b, C |-> center, I |-> i]
MCCommandLines ==
    {Options(c, r, n, 300, u, FALSE, FALSE, FALSE) : c \in {"N", "D", "B", "C", "I"}, r \in {2, 4}, n \in {-300, 1}, u \in BOOLEAN}
    \cup {Options("N", 2, -300, x, FALSE, b, TRUE, i) : x \in {300, 15}, b \in BOOLEAN, i \in BOOLEAN}
    \cup {Options("N", 2, -300, 300, FALSE, TRUE, FALSE, FALSE)}
OnlyBinary == {Options("N", 2, -300, 300, FALSE, TRUE, FALSE, FALSE)}

\* Points at a center, between centers, near the first row and column and past
\* the last one.
MCPoints == {<<0, 4>>, <<1, 6>>, <<-2, 2>>, <<3, -1>>, <<5, 9>>, <<2, 2>>, <<4, 3>>}
MCLines == MCPoints \cup {Off, Garbage}
MCInputs == {<<>>} \cup {<<a>> : a \in MCLines} \cup {<<a, b>> : a \in MCLines, b \in {<<1, 6>>, Off, Garbage}}
           \cup {<<Garbage, a, Garbage>> : a \in {<<2, 2>>, Garbage}}
NoInputs == {<<>>}

LineAt(s, r, v, n, within) == [s |-> s, r |-> r, v |-> v, n |-> n, within |-> within]
MCIrregular ==
    {LineAt(0, 2, 4, 3, TRUE), LineAt(1, 1, -3, 3, TRUE), LineAt(-2, 1, 4, 3, TRUE), LineAt(2, 3, 0, 3, TRUE),
     LineAt(0, 2, 0, 2, TRUE), LineAt(3, 0, 0, 1, TRUE), LineAt(0, 0, 4, 3, FALSE)}

\* Records of a source.
Rec(k, la, lo, strokes) == [cont |-> FALSE, rank |-> k, lat |-> la, lon |-> lo, strokes |-> strokes]
Cont(la, lo, strokes) == [cont |-> TRUE, rank |-> 0, lat |-> la, lon |-> lo, strokes |-> strokes]
Holding(c, chain) == [x \in {c} |-> chain]

\* Lines of up to five points, near 180, near -180 and elsewhere; lines to, at and
\* across -180; and three sources, one missing, with lines of two ranks in a cell,
\* one continued, and a line of a single point.
Paths == UNION {[1 .. n -> {<<3, -4>>, <<-2, 5>>}] : n \in 0 .. 4}
MCSources ==
    {<<Holding(c, <<Rec(1, 2, 1, path)>>)>> : c \in {<<1, 3>>, <<2, -4>>, <<2, 0>>}, path \in Paths}
    \cup {<<Holding(<<1, -4>>, <<Rec(2, 0, 0, <<<<1, -4>>, <<0, 4>>, <<2, -3>>>>)>>)>>,
          <<Holding(<<1, -4>>, <<Rec(1, 0, 2, <<<<1, -2>>, <<0, -4>>, <<-3, -2>>>>)>>)>>,
          <<Holding(<<2, 3>>, <<Rec(1, 0, 4, <<<<1, 4>>, <<-3, 2>>>>)>>)>>,
          <<Missing,
            [x \in {<<1, 3>>, <<1, 2>>} |->
                IF x[2] = 3
                THEN <<Rec(1, 4, 6, <<<<1, 3>>>>), Rec(2, 0, 2, <<<<2, 2>>, <<-4, -4>>>>),
                       Cont(1, -2, <<<<0, 1>>, <<0, 4>>, <<-1, -1>>>>), Rec(1, 3, 3, <<>>)>>
                ELSE <<Rec(1, 1, 1, <<<<2, 2>>, <<2, 2>>>>)>>],
            Holding(<<0, 0>>, <<Rec(1, 0, 0, <<<<1, 1>>>>)>>)>>}

\* The globe, areas across 180 given in two ways, and one with odd bounds.
Area(s, n, w, e) == [south |-> s, north |-> n, west |-> w, east |-> e]
MCAreas == {Area(-16, 16, -32, 32), Area(-5, 12, 20, -19), Area(-16, 16, -40, -24), Area(-8, 7, -29, 27)}
MCRankVectors == {<<>>, <<"1", "0">>}
MCNanLats == {0, 40}

\* That ungrid ends.
Ends == [](noIrregrid /\ noWdbToCdb) => Ungrid!Ends
BinaryEnds == [](noIrregrid /\ noWdbToCdb) => Ungrid!BinaryEnds
===============================================================================
