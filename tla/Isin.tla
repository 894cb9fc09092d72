--------------------------------- MODULE Isin ---------------------------------
(***************************************************************************)
(* src/src/isininv.c, isinfor.c and integerized_sinusoidal.c: the globe cut *)
(* into rows of equal height, each into its own number of columns.         *)
(*                                                                         *)
(* Angles are integers, HalfTurn is 180 degrees, and map coordinates and   *)
(* longitudes in between are fractions <<n, d>>, d > 0.  Eastings are in   *)
(* columns, northings are latitudes.                                       *)
(***************************************************************************)
EXTENDS Integers

CONSTANTS
    HalfTurn,
    Columns(_, _),  \* columns of a row: nrow cos(latitude), doubled and rounded
    Even(_, _),     \* the same, rounded and doubled
    NRowMax         \* NROW_MAX

\* The table of an instance: false easting and northing, rows, reference longitude
\* and per row of a hemisphere the columns and the one at the central meridian.
IsinBad(lon_cen_mer, nrow, ijustify) ==
    \/ lon_cen_mer < -2 * HalfTurn \/ lon_cen_mer > 2 * HalfTurn
    \/ nrow < 2 \/ nrow > NRowMax \/ nrow % 2 # 0
    \/ ijustify \notin 0 .. 2

CentralLeft(ncol, ijustify) == IF ijustify = 1 THEN (ncol + 1) \div 2 ELSE ncol \div 2
Isin_inv_init(lon_cen_mer, false_east, false_north, nrow, ijustify) ==
    LET up == IF lon_cen_mer < HalfTurn THEN lon_cen_mer + 2 * HalfTurn ELSE lon_cen_mer
        lon == IF up >= HalfTurn THEN up - 2 * HalfTurn ELSE up
        ref == IF lon - HalfTurn < -HalfTurn THEN lon + HalfTurn ELSE lon - HalfTurn
        cols(i) == IF ijustify < 2 THEN Columns(nrow, i) ELSE Even(nrow, i)
        ncol(i) == IF cols(i) < 1 THEN 1 ELSE cols(i)
    IN  [nrow |-> nrow, ref_lon |-> ref, false_east |-> false_east, false_north |-> false_north,
         row |-> [i \in 0 .. nrow \div 2 - 1 |-> [ncol |-> ncol(i), icol_cen |-> CentralLeft(ncol(i), ijustify)]]]

\* The row of a latitude, counted from the nearer pole.
RowOf(t, lat) ==
    LET irow == ((HalfTurn \div 2 - lat) * t.nrow) \div HalfTurn
        mirrored == IF irow >= t.nrow \div 2 THEN t.nrow - 1 - irow ELSE irow
    IN  IF mirrored < 0 THEN 0 ELSE mirrored
Poles(lat) == lat \in -(HalfTurn \div 2) .. HalfTurn \div 2

adjust_lon(lon) ==
    IF lon < -HalfTurn THEN lon + 2 * HalfTurn ELSE IF lon > HalfTurn THEN lon - 2 * HalfTurn ELSE lon

\* The part of the circle eastward from the reference, in 2 HalfTurn.
EastwardNot(t, lon) == lon - t.ref_lon      \* mutant of Eastward: not taken round
Eastward(t, lon) ==
    LET d == lon - t.ref_lon
    IN  IF d < 0 THEN d + 2 * HalfTurn ELSE IF d > 2 * HalfTurn THEN d % (2 * HalfTurn) ELSE d

\* Forward, with the false easting that the caller adds once more.
Isin_fwd(t, lat, lon) ==
    LET row == t.row[RowOf(t, lat)]
        c == 2 * HalfTurn
    IN  IF ~Poles(lat) THEN [status |-> -1, x |-> <<0, 1>>, y |-> 0]
        ELSE [status |-> 0,
              x |-> <<c * t.false_east + row.ncol * Eastward(t, adjust_lon(lon)) - c * row.icol_cen, c>>,
              y |-> t.false_north + lat]
integerized_sinusoidal(t, lat, lon) ==
    LET p == Isin_fwd(t, lat, lon)
    IN  [p EXCEPT !.x = <<@[1] + t.false_east * @[2], @[2]>>, !.y = @ + t.false_north]

\* Inverse.  A rounding tells at the border of two rows, where the latitude may
\* come back in the southern one or not, and at the edge of the map, which the
\* easting may be outside of.
Roundings == [south : BOOLEAN, outside : BOOLEAN]
Border(t, lat) == (HalfTurn \div 2 - lat) * t.nrow % HalfTurn = 0
Isin_inv(t, x, y, rounding) ==
    LET lat == y - t.false_north
        row == t.row[IF Border(t, lat) /\ ~rounding.south THEN RowOf(t, lat + 1) ELSE RowOf(t, lat)]
        col == x[1] - x[2] * t.false_east + x[2] * row.icol_cen
        den == x[2] * row.ncol
        lon == <<t.ref_lon * den + 2 * HalfTurn * col, den>>
        off == col < 0 \/ col > den \/ (col \in {0, den} /\ rounding.outside)
    IN  IF ~Poles(lat) \/ off THEN [status |-> -1, lat |-> lat, lon |-> <<0, 1>>]
        ELSE [status |-> 0, lat |-> lat,
              lon |-> IF lon[1] >= HalfTurn * den THEN <<lon[1] - 2 * HalfTurn * den, den>> ELSE lon]
inverse_integerized_sinusoidal(t, x, y, rounding) ==
    Isin_inv(t, <<x[1] - t.false_east * x[2], x[2]>>, y - t.false_north, rounding)
===============================================================================
