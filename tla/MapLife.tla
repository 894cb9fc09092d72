------------------------------- MODULE MapLife -------------------------------
(***************************************************************************)
(* src/src/mapx.c and grids.c: maps and grids made from label files, what  *)
(* they own, and locations taken to the cells of a grid and back.          *)
(*                                                                         *)
(* Of the projections three matter here: "CYLINDRICALEQUIDISTANT" is       *)
(* computed, with cos(60 degrees) the only cosine, "INTEGERIZEDSINUSOIDAL" *)
(* is the module Isin, and of "UNIVERSALTRANSVERSEMERCATOR" only the zone. *)
(* What other ones compute is left out.  The bounds of a map are the       *)
(* module Mapx; rotation is left out.                                      *)
(***************************************************************************)
EXTENDS Keyval, Isin

CONSTANTS
    files,          \* the text of the files, by directory and name
    Written,        \* the keywords and values of some of these texts
    Path,           \* the directories of the search path
    Names,          \* the names clients ask for
    Faults,         \* what may fail, besides a file that is missing
    Stack,          \* what an uninitialised number may be
    NewScales, NewMeridians,    \* what clients set scale and lon0 to
    Radius,         \* the default radius
    ZoneWidth,      \* 6 degrees
    MaxCalls,       \* calls of init_mapx, init_grid and reinit_mapx in a behaviour
    NULL

\* A resource is of a kind and has a number; NULL is none.
MapMembers == {"self", "projection_name", "mpp_file", "mpp_filename", "isin_data", "isin_row"}
GridMembers == {"self", "gpd_file", "gpd_filename"}
Resources == MapMembers \cup GridMembers \cup {"label", "field"}

\* What the constants are assumed to be.
MapLifeAssumption ==
    /\ NULL \notin Resources \X Nat
    /\ HalfTurn \in Nat \ {0} /\ NRowMax \in Nat
    /\ \A n \in 2 .. NRowMax : \A i \in 0 .. n \div 2 - 1 : Columns(n, i) \in Int /\ Even(n, i) \in Int
    /\ \A t \in DOMAIN Num : Num[t] \in Int
    /\ NewMeridians \subseteq Int

Sixty == HalfTurn \div 3
UNINITIALIZED == 100000     \* KEYVAL_UNINITIALIZED
Projections == {"CYLINDRICALEQUIDISTANT", "INTEGERIZEDSINUSOIDAL", "UNIVERSALTRANSVERSEMERCATOR",
                "MOLLWEIDE", "MERCATORELLIPSOID"}

VARIABLES
    heap,       \* what is allocated or open, and whether something else was freed
    map, grid,      \* the client's instances
    calls,
    last,       \* the name of the last call if it was of init_mapx and nothing failed
    lost        \* what happened that loses memory

lifeVars == <<heap, map, grid, calls, last, lost>>

-----------------------------------------------------------------------------
(* Allocation.  What is freed may come again. *)

Got(h, kind) == <<kind, Min({n \in 1 .. Cardinality(h.live) + 1 : <<kind, n>> \notin h.live})>>
Alloc(h, kind) == [live |-> h.live \cup {Got(h, kind)}, bad |-> h.bad]
\* Of those in a sequence, one after the other.
FreeAll(h, rs) ==
    [live |-> h.live \ Range(rs),
     bad |-> h.bad \/ \E i \in DOMAIN rs : rs[i] # NULL /\ rs[i] \notin h.live \ {rs[j] : j \in 1 .. i - 1}]
Free(h, r) == FreeAll(h, <<r>>)

\* A heap h and an object o, or none; a member of o gets a new resource.
Give(s, member) == [h |-> Alloc(s.h, member), o |-> [s.o EXCEPT ![member] = Got(s.h, member)]]

\* The file itself, and where the search path has it.
search_path_fopen(name) ==
    LET places == SelectSeq(<<".">> \o Path, LAMBDA d : <<d, name>> \in DOMAIN files)
    IN  IF places = <<>> THEN NULL ELSE <<places[1], name>>

-----------------------------------------------------------------------------
(* Labels of maps. *)

standard_name(field) ==
    LET words == SelectSeq(field, LAMBDA t : t # " ")
    IN  IF Len(words) = 1 THEN words[1] ELSE "unknown"

\* An eccentricity is 0, 1 for any other one, or 999; radius and eccentricity of a
\* map given by some of them, or <<>> for a sphere that is none.
Ellipsoid(name, q, p, e, e2) ==
    LET ea == IF e2 # 999 /\ e = 999 THEN Min({e2, 1}) ELSE e
        eb == IF q # 0 /\ p # 0 /\ ea = 999 THEN (IF p = q THEN 0 ELSE 1) ELSE ea
        qa == IF p # 0 /\ eb # 999 /\ q = 0 THEN (IF eb = 0 THEN p ELSE p + 1) ELSE q
        qb == IF qa = 0 THEN Radius ELSE qa
        sphere == name \notin {"UNIVERSALTRANSVERSEMERCATOR", "INTEGERIZEDSINUSOIDAL", "MERCATORELLIPSOID"}
    IN  IF name = "INTEGERIZEDSINUSOIDAL" THEN <<qb, 0>>
        ELSE IF ~sphere THEN <<qb, IF eb = 999 THEN 1 ELSE eb>>
        ELSE IF eb \notin {0, 999} \/ p \notin {0, qb} THEN <<>> ELSE <<qb, 0>>

NoMap == [name |-> "", lat0 |-> 0, lon0 |-> 0, lat1 |-> 0, scale |-> 0, radius |-> 0, x0 |-> 0, y0 |-> 0,
          center_lat |-> 0, center_lon |-> 0, false_easting |-> 0, zone |-> 0, nzone |-> 0, justify |-> 0,
          Rg |-> 0, table |-> NULL,
          self |-> NULL, projection_name |-> NULL, mpp_file |-> NULL, mpp_filename |-> NULL,
          isin_data |-> NULL, isin_row |-> NULL]

\* A value that cannot be read leaves the 0 of calloc.
First(v) == IF v = <<>> THEN 0 ELSE v[1]
Value(label, keyword, format, default) == First(get_value_keyval(label, <<keyword>>, format, <<default>>))

Bad(name) == [ok |-> FALSE, o |-> [NoMap EXCEPT !.name = name]]
Assumed(c, default, name, x0) ==
    IF c = 999 /\ name # "UNIVERSALTRANSVERSEMERCATOR" /\ x0 = UNINITIALIZED THEN default ELSE c
Fields(label, name, lat0, lon0, x0, y0, shape) ==
    IF <<>> \in {lat0, lon0, shape} \/ ~(x0 = UNINITIALIZED <=> y0 = UNINITIALIZED) THEN Bad(name)
    ELSE [ok |-> TRUE,
          o |-> [NoMap EXCEPT !.name = name, !.lat0 = lat0[1], !.lon0 = lon0[1], !.x0 = x0, !.y0 = y0,
                    !.lat1 = Value(label, "Map Second Reference Latitude", "%lat", 999),
                    !.scale = Value(label, "Map Scale", "%lf", 1),
                    !.center_lat = Assumed(Value(label, "Map Origin Latitude", "%lat", 999), lat0[1], name, x0),
                    !.center_lon = Assumed(Value(label, "Map Origin Longitude", "%lon", 999), lon0[1], name, x0),
                    !.false_easting = Value(label, "Map False Easting", "%lf",
                                            IF name = "UNIVERSALTRANSVERSEMERCATOR" THEN UNINITIALIZED ELSE 0),
                    !.zone = Value(label, "Map UTM Zone", "%d", 0),
                    !.nzone = Value(label, "Map ISin NZone", "%d", 2),
                    !.justify = Value(label, "Map ISin Justify", "%d", 1),
                    !.radius = shape[1]]]
DecodeNamed(label, name, ref) ==
    Fields(label, name,
           get_value_keyval(label, <<"Map Reference Latitude">>, "%lat", ref),
           get_value_keyval(label, <<"Map Reference Longitude">>, "%lon", ref),
           Value(label, "Map Origin X", "%lf", UNINITIALIZED), Value(label, "Map Origin Y", "%lf", UNINITIALIZED),
           Ellipsoid(name, Value(label, "Map Equatorial Radius", "%lf", 0), Value(label, "Map Polar Radius", "%lf", 0),
                     Value(label, "Map Eccentricity", "%lf", 999),
                     First(get_value_keyval(label, <<"Map Eccentricity", " Squared">>, "%lf", <<999>>))))
DefaultReference(name) == CASE name = "UNIVERSALTRANSVERSEMERCATOR" -> <<999>>
                          []   name = "INTEGERIZEDSINUSOIDAL" -> <<0>>
                          []   OTHER -> <<>>
decode_keyval(label) ==
    LET name == standard_name(get_field_keyval(label, <<"Map Projection">>))
    IN  DecodeNamed(label, name, DefaultReference(name))

\* Labels of the old format: a line each for the name, reference, rotation, scale,
\* origin, four pairs of bounds and intervals, and details; radius and eccentricity.
LinesOf(label, beyond) ==
    LET from[i \in Nat] == LET l == next_line_from_buffer(label, beyond, i)
                           IN  IF l.next = 0 THEN <<>> ELSE <<l.line>> \o from[l.next]
    IN  from[1]
Nth(numbers, n, default) == IF n \in DOMAIN numbers THEN numbers[n] ELSE default

OldFields(line) ==
    LET at(n, k, default) == Nth(Numbers(line[n], 4), k, default)
        name == standard_name(line[1])
        utm == name = "UNIVERSALTRANSVERSEMERCATOR"
        refused == ~utm /\ name # "MERCATORELLIPSOID" /\ Len(line) >= 12 /\ at(12, 1, 0) # 0
    IN  IF line = <<>> THEN Bad("")
        ELSE IF Len(line) < 10 \/ refused THEN Bad(name)
        ELSE [ok |-> TRUE,
              o |-> [NoMap EXCEPT !.name = name, !.x0 = UNINITIALIZED, !.y0 = UNINITIALIZED,
                        !.lat0 = at(2, 1, 0), !.lon0 = at(2, 2, 0), !.lat1 = at(2, 3, 999),
                        !.scale = at(4, 1, 1), !.center_lat = at(5, 1, 0), !.center_lon = at(5, 2, 0),
                        !.false_easting = IF utm THEN UNINITIALIZED ELSE 0, !.nzone = 2, !.justify = 1,
                        !.radius = IF Len(line) >= 11 THEN at(11, 1, Radius) ELSE Radius]]
old_fixed_format_decode_mpp(label, beyond) == OldFields(LinesOf(label, beyond))

-----------------------------------------------------------------------------
(* Maps.  A sum of map coordinates is in halves, for cos(60 degrees). *)

\* NORMALIZE of an angle in d-ths.
NormalizeTo(a, d) == LET half == HalfTurn * d
                     IN  IF a < -half THEN ((a + half) % (2 * half)) - half
                         ELSE IF a > half THEN half - ((half - a) % (2 * half)) ELSE a
Cos2(lat) == IF lat \in {Sixty, -Sixty} THEN 1 ELSE 2
\* Of latitude and longitude in d-ths.
cylindrical_equidistant(m, lat, lon, d) ==
    <<m.Rg * NormalizeTo(lon - d * m.lon0, d) * Cos2(m.lat1) + 2 * d * m.false_easting, 2 * m.Rg * lat>>

ZoneOf(m) == LET lon0 == IF m.lon0 >= HalfTurn THEN m.lon0 - 2 * HalfTurn ELSE m.lon0
                 zone == (lon0 + HalfTurn) \div ZoneWidth + 1
             IN  IF m.zone # 0 THEN m.zone ELSE IF m.lat0 < 0 THEN -zone ELSE zone
Zoned(m, zone, lon0, lat, lon, east) ==
    [m EXCEPT !.zone = zone, !.lat0 = 0, !.lon0 = lon0, !.center_lat = lat, !.center_lon = lon, !.false_easting = east]
process_utm_zone(m) ==
    LET zone == ZoneOf(m)
        lon0 == ZoneWidth * (IF zone < 0 THEN -zone ELSE zone) - HalfTurn - ZoneWidth \div 2
        origin(c, default) == IF c = 999 /\ m.x0 = UNINITIALIZED THEN default ELSE c
    IN  Zoned(m, zone, lon0, origin(m.center_lat, 0), origin(m.center_lon, lon0),
              IF m.false_easting = UNINITIALIZED THEN 500000 ELSE m.false_easting)
ZoneBad(m) ==
    LET zones == (2 * HalfTurn) \div ZoneWidth
    IN  m.zone \notin -zones .. zones \/ (m.zone = 0 /\ 999 \in {m.lat0, m.lon0})

(* Of a heap and a map: the new ones, and whether it went well. *)
Done(s) == [h |-> s.h, o |-> s.o, ok |-> TRUE]
Error(s) == [h |-> s.h, o |-> s.o, ok |-> FALSE]

init_cylindrical_equidistant(s) == Done([s EXCEPT !.o.lat1 = IF @ = 999 THEN 0 ELSE @])
WithTable(s) == [s EXCEPT !.o.table =
    Isin_inv_init(s.o.lon0, s.o.false_easting, 0, s.o.nzone, s.o.justify)]
init_integerized_sinusoidal(s, fault) ==
    LET without == [s EXCEPT !.o.isin_data = NULL, !.o.isin_row = NULL]
    IN  IF IsinBad(s.o.lon0, s.o.nzone, s.o.justify) \/ fault = "isin_row" THEN Error(without)
        ELSE Done(WithTable(Give(Give(without, "isin_data"), "isin_row")))
init_universal_transverse_mercator(s) ==
    IF ZoneBad(s.o) THEN Error(s) ELSE Done([s EXCEPT !.o = process_utm_zone(@)])

\* The origin of the map from its center, once.
Centered(r) ==
    LET xy == cylindrical_equidistant(r.o, r.o.center_lat, r.o.center_lon, 1)
    IN  IF r.ok /\ r.o.x0 = UNINITIALIZED /\ r.o.name = "CYLINDRICALEQUIDISTANT"
        THEN [r EXCEPT !.o.x0 = xy[1], !.o.y0 = xy[2]] ELSE r
Initialized(s, fault) ==
    CASE s.o.name = "CYLINDRICALEQUIDISTANT" -> init_cylindrical_equidistant(s)
    []   s.o.name = "INTEGERIZEDSINUSOIDAL" -> init_integerized_sinusoidal(s, fault)
    []   s.o.name = "UNIVERSALTRANSVERSEMERCATOR" -> init_universal_transverse_mercator(s)
    []   OTHER -> Done(s)
\* The bounds are in Mapx.
reinit_mapx(s, fault) == Centered(Initialized([s EXCEPT !.o.Rg = s.o.radius \div s.o.scale], fault))

close_mapxKeepsTable(h, m) ==       \* mutant of close_mapx
    IF m.self = NULL THEN h ELSE FreeAll(h, <<m.projection_name, m.mpp_file, m.mpp_filename, m.self>>)
close_mapx(h, m) ==
    IF m.self = NULL THEN h
    ELSE FreeAll(h, <<m.projection_name, m.mpp_file, m.mpp_filename, m.isin_row, m.isin_data, m.self>>)
Without(s) == [h |-> close_mapx(s.h, s.o), o |-> NoMap]

IsOld(label) == KeywordEnds(label, <<"Map Projection">>) = {}
Reinitialized(r) == IF r.ok THEN [h |-> r.h, o |-> r.o] ELSE Without(r)
Decoded(h, d, fault) ==
    LET s == Give([h |-> h, o |-> d.o], "self")
        named == IF d.o.name = "" THEN s ELSE Give(s, "projection_name")
    IN  IF ~d.ok \/ d.o.name \notin Projections THEN Without(named) ELSE Reinitialized(reinit_mapx(named, fault))
new_mapx(h, label, beyond, fault) ==
    IF fault = "mapx" THEN [h |-> h, o |-> NoMap]
    ELSE IF IsOld(label)
    THEN Decoded(Alloc(h, "field"), old_fixed_format_decode_mpp(label, beyond), fault)
    ELSE Decoded(h, decode_keyval(label), fault)

\* The file, its name and its label until the map is there.
Locals == [mpp_filename |-> NULL, mpp_file |-> NULL, label |-> NULL]
Kept(s, l) ==
    IF s.o.self = NULL THEN [s EXCEPT !.h = FreeAll(@, <<l.label, l.mpp_filename, l.mpp_file>>)]
    ELSE [h |-> Free(s.h, l.label), o |-> [s.o EXCEPT !.mpp_filename = l.mpp_filename, !.mpp_file = l.mpp_file]]
Read(s, file, beyond, fault) == Kept(new_mapx(s.h, get_label_keyval(files[file]), beyond, fault), s.o)
Opened(s, file, beyond, fault) ==
    IF fault = "mpp_label" THEN [h |-> FreeAll(s.h, <<s.o.mpp_filename, s.o.mpp_file>>), o |-> NoMap]
    ELSE Read(Give(s, "label"), file, beyond, fault)
init_mapx(h, name, beyond, fault) ==
    IF search_path_fopen(name) = NULL THEN [h |-> h, o |-> NoMap]
    ELSE Opened(Give(Give([h |-> h, o |-> Locals], "mpp_filename"), "mpp_file"), search_path_fopen(name), beyond, fault)

-----------------------------------------------------------------------------
(* Grids.  The origin is in half cells, cells per map unit are a fraction. *)

NoGrid == [self |-> NULL, gpd_file |-> NULL, gpd_filename |-> NULL, mapx |-> NoMap, cols |-> 0, rows |-> 0,
           origin_col |-> 0, origin_row |-> 0, per_col |-> <<1, 1>>, per_row |-> <<1, 1>>, u_max |-> 0]

\* Cells per map unit: of the four ways to say it the first that is not 0.
OrBefore(r, before) == IF r = <<>> THEN before ELSE r[1]
Cells(label, keyword, default, before) == OrBefore(get_value_keyval(label, <<keyword>>, "%lf", <<default>>), before)
FirstWay(ways) == ways[Min({4} \cup {k \in 1 .. 3 : 0 \notin {ways[k][1], ways[k][2]}})]
PerMapUnit(label, cells, units, stack) ==
    FirstWay(<<<<Cells(label, "Grid Cells per Map Unit", 0, stack), 1>>, <<1, Cells(label, "Grid Map Units per Cell", 0, 0)>>,
               <<Cells(label, cells, 0, 0), 1>>, <<1, Cells(label, units, 1, 0)>>>>)

Sized(g, label, width, height, stack) ==
    IF <<>> \in {width, height} THEN Error(g)
    ELSE Done([h |-> g.h,
               o |-> [g.o EXCEPT
                  !.cols = width[1], !.rows = height[1],
                  !.origin_col = 2 * Value(label, "Grid Map Origin Column", "%lf", 0),
                  !.origin_row = 2 * Value(label, "Grid Map Origin Row", "%lf", 0),
                  !.per_col = PerMapUnit(label, "Grid Columns per Map Unit", "Grid Map Units per Column", stack),
                  !.per_row = PerMapUnit(label, "Grid Rows per Map Unit", "Grid Map Units per Row", stack)]])
decode_gpd(g, label, stack) ==
    Sized(g, label, get_value_keyval(label, <<"Grid Width">>, "%d", <<>>),
          get_value_keyval(label, <<"Grid Height">>, "%d", <<>>), stack)

\* The old format, a line each for size, scale and origin.
old_fixed_format_decode_gpd(g, line) ==
    LET at(n, k, default) == Nth(Numbers(line[n], 2), k, default)
        origin(k, size) == IF k \in DOMAIN Numbers(line[4], 2) THEN 2 * at(4, k, 0) ELSE size
    IN  IF g.o.mapx.self = NULL \/ Len(line) < 4 THEN Error(g)
        ELSE Done([h |-> g.h,
                   o |-> [g.o EXCEPT
                      !.cols = at(2, 1, 512), !.rows = at(2, 2, 512),
                      !.per_col = <<at(3, 1, 64), 1>>, !.per_row = <<at(3, 2, at(3, 1, 64)), 1>>,
                      !.origin_col = origin(1, at(2, 1, 512)), !.origin_row = origin(2, at(2, 2, 512))]])

close_grid(h, g) ==
    IF g.self = NULL THEN h ELSE Free(close_mapx(FreeAll(h, <<g.gpd_file, g.gpd_filename>>), g.mapx), g.self)

\* The wrap of columns in new_grid: the map's Rg times pi.
NewUMax(m) == IF m.name = "CYLINDRICALEQUIDISTANT" THEN 2 * m.Rg * HalfTurn ELSE 0

\* The map in the file it names, in the label, or in the file on its first line.
On(g, r) == [h |-> r.h, o |-> [g EXCEPT !.mapx = r.o]]
OldGrid(g, h, line, beyond, fault) ==
    IF line = <<>> THEN Error([h |-> h, o |-> g])
    ELSE old_fixed_format_decode_gpd(On(g, init_mapx(h, line[1][1], beyond, fault)), line)
Embedded(g, r, label, beyond, stack, fault) ==
    IF r.o.self = NULL THEN OldGrid(g, r.h, LinesOf(label, beyond), beyond, fault)
    ELSE decode_gpd(On(g, r), label, stack)
Elsewhere(g, label, stack) == IF g.o.mapx.self = NULL THEN Error(g) ELSE decode_gpd(g, label, stack)
GridFrom(s, label, beyond, stack, fault) ==
    IF KeywordEnds(label, <<"Grid MPP File">>) # {}
    THEN Elsewhere(On(s.o, init_mapx(s.h, get_field_keyval(label, <<"Grid MPP File">>)[1], beyond, fault)), label, stack)
    ELSE Embedded(s.o, new_mapx(s.h, label, beyond, fault), label, beyond, stack, fault)
Finished(r) == IF r.ok THEN [h |-> r.h, o |-> [r.o EXCEPT !.u_max = NewUMax(r.o.mapx)]]
               ELSE [h |-> close_grid(r.h, r.o), o |-> NoGrid]
new_grid(h, label, beyond, stack, fault) ==
    IF fault = "grid" THEN [h |-> h, o |-> NoGrid]
    ELSE Finished(GridFrom(Give([h |-> h, o |-> NoGrid], "self"), label, beyond, stack, fault))

\* A name that is not found is lost, one without a label with its file.
GridLocals == [gpd_filename |-> NULL, gpd_file |-> NULL, label |-> NULL]
Named(s) ==     \* an embedded map gets a copy of the grid's name
    IF s.o.mapx.mpp_filename # NULL THEN s
    ELSE [h |-> Alloc(s.h, "mpp_filename"), o |-> [s.o EXCEPT !.mapx.mpp_filename = Got(s.h, "mpp_filename")]]
KeptGrid(s, l) ==
    IF s.o.self = NULL THEN [s EXCEPT !.h = FreeAll(@, <<l.label, l.gpd_filename, l.gpd_file>>)]
    ELSE Named([h |-> Free(s.h, l.label), o |-> [s.o EXCEPT !.gpd_filename = l.gpd_filename, !.gpd_file = l.gpd_file]])
ReadGrid(s, file, beyond, stack, fault) ==
    KeptGrid(new_grid(s.h, get_label_keyval(files[file]), beyond, stack, fault), s.o)
OpenedGrid(s, file, beyond, stack, fault) ==
    IF fault = "gpd_label" THEN [h |-> s.h, o |-> NoGrid]
    ELSE ReadGrid(Give(s, "label"), file, beyond, stack, fault)
init_grid(h, name, beyond, stack, fault) ==
    LET named == Give([h |-> h, o |-> GridLocals], "gpd_filename")
    IN  IF search_path_fopen(name) = NULL THEN [h |-> named.h, o |-> NoGrid]
        ELSE OpenedGrid(Give(named, "gpd_file"), search_path_fopen(name), beyond, stack, fault)

-----------------------------------------------------------------------------
(* Cells of a cylindrical equidistant grid.  A fraction is <<n, d>>. *)

WrappedNever(g, u) == u     \* mutant of Wrapped
Wrapped(g, u) ==
    LET turn == 2 * g.u_max * u[2]
        once == IF 2 * u[1] > turn THEN u[1] - turn ELSE u[1]
    IN  <<IF 2 * once < -turn THEN once + turn ELSE once, u[2]>>

\* The longitude and latitude of the middle of a cell, and whether it is on the map.
inverse_grid(g, col, row) ==
    LET m == g.mapx
        u == Wrapped(g, <<(2 * col - g.origin_col) * g.per_col[2], g.per_col[1]>>)
        lon == [n |-> u[1] + (m.x0 - 2 * m.false_easting) * u[2], d |-> u[2] * m.Rg * Cos2(m.lat1)]
        lat == <<(g.origin_row - 2 * row) * g.per_row[2] + m.y0 * g.per_row[1], 2 * m.Rg * g.per_row[1]>>
    IN  [lon |-> <<NormalizeTo(lon.n + m.lon0 * lon.d, lon.d), lon.d>>, lat |-> lat,
         on |-> 2 * lat[1] <= HalfTurn * lat[2] /\ 2 * lat[1] >= -HalfTurn * lat[2]]

\* Twice the grid coordinates, and whether they are on the grid.
forward_grid(g, lat, lon) ==
    LET m == g.mapx
        x == cylindrical_equidistant(m, 0, lon[1], lon[2])[1]
        y == cylindrical_equidistant(m, lat[1], 0, lat[2])[2]
        u == Wrapped(g, <<x - m.x0 * lon[2], lon[2]>>)
        r == <<g.origin_col * u[2] * g.per_col[2] + u[1] * g.per_col[1], u[2] * g.per_col[2]>>
        s == <<g.origin_row * lat[2] * g.per_row[2] - (y - m.y0 * lat[2]) * g.per_row[1], lat[2] * g.per_row[2]>>
    IN  [r |-> r, s |-> s, on |-> r[1] >= -r[2] /\ r[1] < (2 * g.cols - 1) * r[2]
                                  /\ s[1] >= -s[2] /\ s[1] < (2 * g.rows - 1) * s[2]]

-----------------------------------------------------------------------------
Found(name) == search_path_fopen(name)

Init ==
    /\ heap = [live |-> {}, bad |-> FALSE]
    /\ map = NoMap /\ grid = NoGrid
    /\ calls = 0 /\ last = "" /\ lost = {}

Call(name, fault) == calls < MaxCalls /\ calls' = calls + 1 /\ last' = IF fault = "none" THEN name ELSE ""

InitMapx(name, fault, beyond) ==
    /\ map.self = NULL
    /\ Call(name, fault)
    /\ \E r \in {init_mapx(heap, name, beyond, fault)} : heap' = r.h /\ map' = r.o
    /\ UNCHANGED <<grid, lost>>

InitGrid(name, fault, beyond, stack) ==
    /\ grid.self = NULL
    /\ Call("", fault)
    /\ \E r \in {init_grid(heap, name, beyond, stack, fault)} : heap' = r.h /\ grid' = r.o
    /\ lost' = lost \cup (IF Found(name) = NULL THEN {"open"} ELSE {})
                    \cup (IF fault = "gpd_label" THEN {"label"} ELSE {})
    /\ UNCHANGED map

\* The client sets members of a map, its own or the grid's, and takes them.
Changed(m, scale, lon0) == [h |-> heap, o |-> [m EXCEPT !.scale = scale, !.lon0 = lon0]]
Losing(m) == lost' = lost \cup (IF m.isin_data # NULL THEN {"reinit"} ELSE {})
ReinitMapx(scale, lon0, fault) ==
    /\ map.self # NULL
    /\ Call("", fault) /\ Losing(map)
    /\ \E r \in {reinit_mapx(Changed(map, scale, lon0), fault)} : heap' = r.h /\ map' = r.o
    /\ UNCHANGED grid
ReinitGridMapx(scale, lon0, fault) ==
    /\ grid.self # NULL
    /\ Call("", fault) /\ Losing(grid.mapx)
    /\ \E r \in {reinit_mapx(Changed(grid.mapx, scale, lon0), fault)} :
        heap' = r.h /\ grid' = [grid EXCEPT !.mapx = r.o]
    /\ UNCHANGED map

CloseMapx ==
    /\ map.self # NULL
    /\ heap' = close_mapx(heap, map) /\ map' = NoMap
    /\ last' = ""
    /\ UNCHANGED <<grid, calls, lost>>
CloseGrid ==
    /\ grid.self # NULL
    /\ heap' = close_grid(heap, grid) /\ grid' = NoGrid
    /\ last' = ""
    /\ UNCHANGED <<map, calls, lost>>

Next ==
    \/ \E name \in Names, fault \in Faults, beyond \in Beyond :
        InitMapx(name, fault, beyond) \/ \E stack \in Stack : InitGrid(name, fault, beyond, stack)
    \/ \E scale \in NewScales, lon0 \in NewMeridians, fault \in Faults :
        ReinitMapx(scale, lon0, fault) \/ ReinitGridMapx(scale, lon0, fault)
    \/ CloseMapx \/ CloseGrid

Spec == Init /\ [][Next]_lifeVars

-----------------------------------------------------------------------------
MapHolds(m) == {m.self, m.projection_name, m.mpp_file, m.mpp_filename, m.isin_data, m.isin_row} \ {NULL}
GridHolds(g) == {g.self, g.gpd_file, g.gpd_filename} \ {NULL}
Held == MapHolds(map) \cup GridHolds(grid) \cup MapHolds(grid.mapx)

\* What is lost: the field looked for in a label of the old format (mapx.c:498), the
\* name and the file of a grid that could not be read (grids.c:80, 88), and the
\* tables of a map that is initialised again (integerized_sinusoidal.c:17).
Accounted(kind) ==
    \/ kind = "field"
    \/ kind = "gpd_filename" /\ lost \cap {"open", "label"} # {}
    \/ kind = "gpd_file" /\ "label" \in lost
    \/ kind \in {"isin_data", "isin_row"} /\ "reinit" \in lost

\* Along every path through init_grid, init_mapx and reinit_mapx, failing ones too,
\* nothing is freed or closed twice, an open map and grid have what they point to,
\* and nothing else is left but what is named above.
Owned ==
    /\ ~heap.bad /\ Held \subseteq heap.live
    /\ \A r \in heap.live \ Held : Accounted(r[1])

\* The first value that was written for a keyword.
Given(file, keyword, default) ==
    LET k == SelectSeq(Written[file], LAMBDA p : p[1] = keyword) IN IF k = <<>> THEN default ELSE k[1][2]

Complete(file) ==
    LET name == Given(file, "Map Projection", "")
        has(keyword) == \E k \in DOMAIN Written[file] : Written[file][k][1] = keyword
        both(a, b) == has(a) /\ has(b)
    IN  /\ name \in Projections
        /\ has("Map Origin X") <=> has("Map Origin Y")
        /\ CASE name = "INTEGERIZEDSINUSOIDAL" -> Given(file, "Map ISin NZone", 2) % 2 = 0
           []   name = "UNIVERSALTRANSVERSEMERCATOR" ->
                    has("Map UTM Zone") \/ both("Map Reference Latitude", "Map Reference Longitude")
           []   OTHER -> both("Map Reference Latitude", "Map Reference Longitude")
        /\ name \in {"CYLINDRICALEQUIDISTANT", "MOLLWEIDE"} =>
               Given(file, "Map Eccentricity", 0) = 0 /\ ~has("Map Eccentricity Squared")

\* Whatever the order of its lines, with comments, and with keywords that are the
\* beginning of others, a complete label makes a map of its values or defaults, in
\* UTM of the zone around the reference, and one that is not makes none.
FieldsRead ==
    \A file \in DOMAIN Written :
        last = file[2] /\ Found(file[2]) = file =>
            /\ map.self # NULL <=> Complete(file)
            /\ map.self # NULL =>
                LET lat == Given(file, "Map Reference Latitude", 0)
                    lon == Given(file, "Map Reference Longitude", 0)
                IN  /\ map.scale = Given(file, "Map Scale", 1)
                    /\ map.radius = Given(file, "Map Equatorial Radius", Radius)
                    /\ IF map.name = "UNIVERSALTRANSVERSEMERCATOR"
                       THEN IF Given(file, "Map UTM Zone", 0) # 0 THEN map.zone = Given(file, "Map UTM Zone", 0)
                            ELSE /\ \E turn \in {0, 2 * HalfTurn} : 2 * (lon - turn - map.lon0) \in -ZoneWidth .. ZoneWidth
                                 /\ map.zone < 0 <=> lat < 0
                       ELSE map.lat0 = lat /\ map.lon0 = lon /\ map.center_lon = Given(file, "Map Origin Longitude", lon)

\* Twice the distance of a column from the origin of the map, against u_max.
WithinReach(g, col) ==
    LET u == (2 * col - g.origin_col) * g.per_col[2]
    IN  u > -g.u_max * g.per_col[1] /\ u < g.u_max * g.per_col[1]
CellReturns(g, col, row) ==
    LET p == inverse_grid(g, col, row)
        q == forward_grid(g, p.lat, p.lon)
    IN  p.on => q.on /\ q.r[1] = 2 * col * q.r[2] /\ q.s[1] = 2 * row * q.s[2]

\* The wrap of columns is the one of new_grid: at latitude 0 and not for a map
\* whose scale was changed since.
Fitting(g) == /\ g.self # NULL /\ g.mapx.name = "CYLINDRICALEQUIDISTANT"
              /\ g.mapx.lat1 = 0 /\ g.u_max = NewUMax(g.mapx)

\* However the scale of a grid was given, and after its reference was changed, each
\* cell's middle comes back to the cell, across 180 degrees too, for the cells
\* less than half the globe from the map's origin.
CellsComeBack ==
    Fitting(grid) => \A col \in 0 .. grid.cols - 1, row \in 0 .. grid.rows - 1 :
        WithinReach(grid, col) => CellReturns(grid, col, row)

\* A location taken to an integerized sinusoidal map and back is the same, also with
\* a false easting and in a map initialised again, whatever the row and how its
\* columns are justified; but at the border of rows, where rounding may lead to the
\* northern one, and at the edge of the map, where it may lead outside.
IsinComesBack ==
    \A m \in {map, grid.mapx} : m.isin_data # NULL =>
        \A lat \in -(HalfTurn \div 2) .. HalfTurn \div 2, lon \in -2 * HalfTurn .. 2 * HalfTurn, rounding \in Roundings :
            LET p == integerized_sinusoidal(m.table, lat, lon)
                q == inverse_integerized_sinusoidal(m.table, p.x, p.y, rounding)
            IN  \/ Border(m.table, lat) /\ ~rounding.south
                \/ (lon - m.table.ref_lon) % (2 * HalfTurn) = 0 /\ rounding.outside
                \/ /\ q.status = 0 /\ q.lat = lat
                   /\ (q.lon[1] - lon * q.lon[2]) % (2 * HalfTurn * q.lon[2]) = 0

-----------------------------------------------------------------------------
(***************************************************************************)
(* The inductive invariant from which Owned and IsinComesBack follow.      *)
(***************************************************************************)

\* A resource is of the kind of the member that holds it.
KindsRight(o, members) == \A k \in members : o[k] # NULL => o[k][1] = k

\* What the transformations need of a table.
TableSound(t) ==
    /\ t.nrow \in Nat \ {0, 1} /\ t.nrow % 2 = 0 /\ t.ref_lon \in -HalfTurn .. HalfTurn
    /\ t.false_east \in Int /\ t.false_north \in Int
    /\ \A i \in 0 .. t.nrow \div 2 - 1 : t.row[i].ncol \in Nat \ {0} /\ t.row[i].icol_cen \in Int

\* Both parts of the tables are there or none is, and what is there is sound.
MapSound(m) ==
    /\ DOMAIN m = DOMAIN NoMap /\ KindsRight(m, MapMembers)
    /\ m.isin_data = NULL <=> m.isin_row = NULL
    /\ m.name = "INTEGERIZEDSINUSOIDAL" => {m.lon0, m.false_easting, m.nzone, m.justify} \subseteq Int
    /\ m.isin_data # NULL => TableSound(m.table)

\* A map or grid that is not there holds nothing, and a grid has a map.
GridSound(g) ==
    /\ DOMAIN g = DOMAIN NoGrid /\ KindsRight(g, GridMembers) /\ MapSound(g.mapx)
    /\ GridHolds(g) \cap MapHolds(g.mapx) = {}
    /\ IF g.self = NULL THEN g = NoGrid ELSE g.mapx.self # NULL

IInv ==
    /\ MapSound(map) /\ GridSound(grid) /\ (map.self = NULL => map = NoMap)
    /\ MapHolds(map) \cap (GridHolds(grid) \cup MapHolds(grid.mapx)) = {}
    /\ IsFiniteSet(heap.live) /\ Owned
===============================================================================
