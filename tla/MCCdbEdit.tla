----------------------------- MODULE MCCdbEdit -----------------------------
(***************************************************************************)
(* Small instances of CdbEdit for TLC: 180 degrees are 20 stored units.    *)
(***************************************************************************)
EXTENDS CdbEdit

\* A source file written from a list of paths, with true bounds.
Lats(path) == {path[i][1] : i \in DOMAIN path}
Lons(path) == {path[i][2] : i \in DOMAIN path}
Smallest(S) == -Largest({-n : n \in S})
Entry(path, part) ==
    [origin |-> path[1],
     strokes |-> [i \in 1 .. Len(path) - 1 |->
                    <<path[i + 1][1] - path[i][1], path[i + 1][2] - path[i][2]>>],
     lat_min |-> Smallest(Lats(path)), lat_max |-> Largest(Lats(path)),
     lon_min |-> Smallest(Lons(path)), lon_max |-> Largest(Lons(path)),
     parts |-> <<part>>, live |-> TRUE]
SourceFile(paths, n) == [i \in DOMAIN paths |-> Entry(paths[i], <<n, i>>)]

\* Paths that meet end to end in every way, on both sides of Greenwich and at
\* 180 degrees, and one that meets none; and a single point.
Paths ==
    {<< <<0, 0>>, <<0, 4>>, <<0, 10>> >>,
     << <<0, 10>>, <<1, 14>>, <<0, 20>> >>,
     << <<0, 15>>, <<0, 10>> >>,
     << <<0, -20>>, <<0, -16>>, <<0, -8>> >>,
     << <<0, -8>>, <<2, -2>> >>,
     << <<0, 0>>, <<0, -4>>, <<0, -9>> >>,
     << <<8, 5>>, <<8, 7>> >>}
Dot == << <<0, 4>> >>
MCInputs ==
    {<<SourceFile(<<p, q, r>>, 1)>> : p, q, r \in Paths}
    \cup {<<SourceFile(<<p>>, 1), SourceFile(<<q>>, 2)>> : p, q \in Paths}
    \cup {<<SourceFile(<<p>>, 1)>> : p \in Paths \cup {Dot}}
    \cup {<<SourceFile(<<p, Dot, p>>, 1)>> : p \in Paths}
    \cup {<<SourceFile(<<p>>, 1), <<>>>> : p \in Paths}

\* The whole globe, a box, one that ends at 180 degrees, and maps across 180 degrees given in three ways.
MCMaps == {<<10, -10, 20, -20>>, <<1, -1, 12, 2>>,
           <<10, -10, 20, 2>>, <<10, -10, -10, 12>>, <<10, -10, 30, 12>>, <<10, -10, -10, -28>>}
MCOptions == {<<join, compare, thins>> :
    join \in BOOLEAN, compare \in {"none", "LAT_MIN", "LAT_MAX", "LON_MIN", "LON_MAX"},
    thins \in BOOLEAN}
=============================================================================
