------------------------------- MODULE MCMapx -------------------------------
(***************************************************************************)
(* Small instances of Mapx and MapLife for TLC.  A behaviour is one of the *)
(* bounds of a map or one of maps and grids made from files.               *)
(***************************************************************************)
EXTENDS Mapx, SequencesExt

CONSTANTS HalfTurn, Columns(_, _), Even(_, _), NRowMax, Num, Beyond, files, Written, Path, Names, Faults,
          Stack, NewScales, NewMeridians, Radius, ZoneWidth, MaxCalls, NULL
VARIABLES heap, map, grid, calls, last, lost

lifeVars == <<heap, map, grid, calls, last, lost>>
Life == INSTANCE MapLife

ASSUME LifeHolds == Life!MapLifeAssumption

noLife == calls = 0
noMapx == /\ west = Half /\ east = Half /\ scale = (CHOOSE s \in Scales : TRUE)
          /\ ref = center /\ ref = (CHOOSE p \in Places : TRUE) /\ u0 = UNSET /\ x0 = UNSET /\ used = "not"
          /\ asked = <<Half, Half>>

MCInit ==
    \/ Init /\ Life!Init
    \/ Init /\ noMapx /\ Life!Init
MCNext ==
    \/ noLife /\ Next /\ UNCHANGED lifeVars
    \/ noMapx /\ Life!Next /\ UNCHANGED vars
MCSpec == MCInit /\ [][MCNext]_<<vars, lifeVars>>

-----------------------------------------------------------------------------
\* Every longitude up to one step beyond the legal ones.
MCBounds == (-Half - 1) .. (2 * Half + 1)
FewBounds == {-Half, Half}

\* Columns of a row of four or of two, by the cosines of 22.5, 45 and 67.5 degrees.
MCColumns(nrow, row) == IF nrow = 2 THEN 3 ELSE IF row = 0 THEN 3 ELSE 7
MCEven(nrow, row) == IF nrow = 2 THEN 2 ELSE IF row = 0 THEN 4 ELSE 8

MCNum == [t \in {"0", "1", "2", "3", "4", "6", "8", "9", "12", "-2"} |->
            CASE t = "0" -> 0 [] t = "1" -> 1 [] t = "2" -> 2 [] t = "3" -> 3 [] t = "4" -> 4
            [] t = "6" -> 6 [] t = "8" -> 8 [] t = "9" -> 9 [] t = "12" -> 12 [] t = "-2" -> -2]
MCBeyond == {<<>>, <<"9", "nl", "9">>}

\* Labels of maps as keywords and values.
Projection(name) == <<"Map Projection", name>>
Reference(lat, lon) == <<<<"Map Reference Latitude", lat>>, <<"Map Reference Longitude", lon>>>>
Cylinder(more) == <<Projection("CYLINDRICALEQUIDISTANT")>> \o Reference(0, 0) \o more
MCWritten ==
    [f \in {<<".", n>> : n \in {"second", "xonly", "sphere", "moll", "isin", "isin3", "isin0", "utm", "utm2", "utm0", "none"}}
           \cup {<<"p", "cyl">>, <<"p", "second">>} |->
        CASE f[2] = "cyl" -> <<<<"Map Scale", 2>>>> \o Cylinder(<<<<"Map Scale", 4>>, <<"Map Origin Longitude", 6>>>>)
        []   f = <<"p", "second">> -> Cylinder(<<>>)
        []   f[2] = "second" -> Cylinder(<<<<"Map Second Reference Latitude", -4>>, <<"Map Equatorial Radius", 8>>>>)
        []   f[2] = "xonly" -> Cylinder(<<<<"Map Origin X", 1>>>>)
        []   f[2] = "sphere" -> Cylinder(<<<<"Map Eccentricity Squared", 1>>>>)
        []   f[2] = "moll" -> <<Projection("MOLLWEIDE"), <<"Map Eccentricity", 0>>, <<"Map Reference Latitude", 3>>>>
        []   f[2] = "isin" -> <<<<"Map Reference Longitude", -2>>, <<"Map ISin NZone", 4>>, <<"Map False Easting", 3>>,
                                Projection("INTEGERIZEDSINUSOIDAL")>>
        []   f[2] = "isin3" -> <<Projection("INTEGERIZEDSINUSOIDAL"), <<"Map ISin NZone", 3>>>>
        []   f[2] = "isin0" -> <<Projection("INTEGERIZEDSINUSOIDAL"), <<"Map ISin Justify", 0>>>>
        []   f[2] = "utm" -> <<Projection("UNIVERSALTRANSVERSEMERCATOR")>> \o Reference(-3, 12) \o <<<<"Map Scale", 4>>>>
        []   f[2] = "utm2" -> <<<<"Map UTM Zone", -2>>, Projection("UNIVERSALTRANSVERSEMERCATOR")>>
        []   f[2] = "utm0" -> <<Projection("UNIVERSALTRANSVERSEMERCATOR"), <<"Map Reference Latitude", 3>>>>
        []   f[2] = "none" -> <<Projection("unknown")>> \o Reference(0, 0)]

\* Their text: comments and words that look like fields after the first line.
Digits(v) == CHOOSE t \in DOMAIN MCNum : MCNum[t] = v
Size(v) == IF v < 0 THEN -v ELSE v
Value(keyword, v) ==
    CASE keyword = "Map Projection" -> <<v>>
    []   keyword \in {"Map Reference Latitude", "Map Second Reference Latitude", "Map Origin Latitude"} ->
            <<Digits(Size(v)), IF v < 0 THEN "S" ELSE "N">>
    []   keyword \in {"Map Reference Longitude", "Map Origin Longitude"} -> <<Digits(Size(v)), " ", IF v < 0 THEN "W" ELSE "E">>
    []   OTHER -> <<Digits(v)>>
Keyword(k) == IF k = "Map Eccentricity Squared" THEN <<"Map Eccentricity", " Squared">> ELSE <<k>>
Noise == <<";", "Map Scale", ":", " ", "9", "nl", " ", "nl", "Map Scale", " ", "2", " ", "#", "Map Projection", ":", " ", "9", "nl">>
Text(pairs) ==
    LET line(n) == Keyword(pairs[n][1]) \o <<":", " ">> \o Value(pairs[n][1], pairs[n][2]) \o <<"nl">>
                   \o (IF (Len(pairs) - n) % 3 = 0 THEN Noise ELSE <<>>)
    IN  FlattenSeq([n \in 1 .. Len(pairs) |-> line(n)])

\* Labels of the old format: lines of numbers.
Old(lines) ==
    LET line(n) == lines[n] \o <<"nl">> \o (IF n = Len(lines) - 3 THEN <<"#", "9", "nl">> ELSE <<>>)
    IN  FlattenSeq([n \in 1 .. Len(lines) |-> line(n)])
OldMap(name) == <<<<name>>, <<"0", " ", "3">>, <<"0">>, <<"2">>, <<"0", " ", "3">>, <<"0">>, <<"0">>, <<"3">>, <<"0">>>>
WithoutEnd(text) == SubSeq(text, 1, Len(text) - 1)

\* Labels of grids: on "cyl", embedded, and of the old format; a sixth of the globe
\* is 8 units wide at scale 2.
Field(k, v) == <<k, ":", " ", v, "nl">>
Size3 == Field("Grid Width", "3") \o Field("Grid Height", "2")
Center == Field("Grid Map Origin Column", "1") \o Field("Grid Map Origin Row", "1")
On(name, fields) == Field("Grid MPP File", name) \o fields
Sixths == Field("Grid Width", "6") \o Field("Grid Height", "3") \o Field("Grid Map Units per Cell", "8")
MCfiles ==
    [f \in {<<".", n>> : n \in {"second", "xonly", "sphere", "moll", "isin", "isin3", "isin0", "utm", "utm2", "utm0", "none",
                                "old", "old9", "olde", "empty", "gcyl", "gleft", "gwide", "gcols", "gisin", "gin", "gold", "gold3", "gnone", "gwidth"}}
           \cup {<<"p", "cyl">>, <<"p", "second">>} |->
        CASE f \in DOMAIN MCWritten -> Text(MCWritten[f])
        []   f[2] = "old" -> Old(OldMap("CYLINDRICALEQUIDISTANT") \o <<<<"1">>, <<"8">>>>)
        []   f[2] = "old9" -> WithoutEnd(Old(OldMap("MOLLWEIDE")))
        []   f[2] = "olde" -> Old(OldMap("MOLLWEIDE") \o <<<<"1">>, <<"4">>, <<"1">>>>)
        []   f[2] = "empty" -> <<>>
        []   f[2] = "gcyl" -> On("cyl", Sixths \o Field("Grid Map Origin Column", "3") \o Field("Grid Map Origin Row", "1"))
        []   f[2] = "gleft" -> Text(Cylinder(<<<<"Map Origin Longitude", -12>>, <<"Map Scale", 2>>>>)) \o Sixths
        []   f[2] = "gwide" -> On("cyl", Sixths)
        []   f[2] = "gcols" -> On("old", Size3 \o Center \o Field("Grid Columns per Map Unit", "2") \o Field("Grid Map Units per Row", "3"))
        []   f[2] = "gisin" -> On("isin", Size3 \o Field("Grid Cells per Map Unit", "x"))
        []   f[2] = "gin" -> Text(MCWritten[<<".", "second">>]) \o Sixths \o Center
        []   f[2] = "gold" -> Old(<<<<"cyl">>, <<"3", " ", "2">>, <<"1">>, <<"1">>>>)
        []   f[2] = "gold3" -> Old(<<<<"cyl">>, <<"3">>, <<"1">>>>)
        []   f[2] = "gnone" -> On("unknown", Sixths)
        []   f[2] = "gwidth" -> On("isin", Field("Grid Height", "2"))]
MCNames == {f[2] : f \in DOMAIN MCfiles} \cup {"missing"}
MCFaults == {"none", "mapx", "grid", "isin_row", "mpp_label", "gpd_label"}
MCPath == <<"p">>
MCMeridians == {-2, 12}
OnlyLeft == {"gleft"}
NoFault == {"none"}

\* Properties of MapLife.
Owned == Life!Owned
FieldsRead == Life!FieldsRead
CellsComeBack == Life!CellsComeBack
IsinComesBack == Life!IsinComesBack
=============================================================================
