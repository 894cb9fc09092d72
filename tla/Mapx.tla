-------------------------------- MODULE Mapx --------------------------------
(***************************************************************************)
(* src/src/mapx.c: the bounds and the origin of a map, which a client may  *)
(* change in the public members of mapx_class at any time, and reinit_mapx *)
(* which derives the private constants from them.                          *)
(*                                                                         *)
(* Longitudes are integers.  What a projection does is abstracted to which *)
(* parameters a position was projected with.                               *)
(***************************************************************************)
EXTENDS Integers

CONSTANTS
    Half,       \* 180 degrees
    Bounds,     \* the longitudes clients give as map bounds
    Places,     \* where a map may be centered
    Scales,     \* Map Scale: radius units per map unit
    UNSET,      \* KEYVAL_UNINITIALIZED
    GIVEN       \* the Map Origin X and Y of a label that has them

ASSUME MapxAssumption ==
    /\ Half \in Nat \ {0}
    /\ Bounds \subseteq Int
    /\ Scales \subseteq Nat
    /\ {UNSET, GIVEN} \cap [scale : Scales, ref : Places, at : Places] = {}
    /\ UNSET # GIVEN

Position == [scale : Scales, ref : Places, at : Places]
Abs(x) == IF x < 0 THEN -x ELSE x

VARIABLES
    west, east, scale, ref, center,     \* public: bounds, scale, lat0/lon0, center
    map_stradles_180, u0,           \* private
    x0,         \* Map Origin X and Y
    asked,      \* the bounds as the client last set them
    used        \* how often reinit_mapx took them: "not", "once" or "again"

vars == <<west, east, scale, ref, center, map_stradles_180, u0, x0, asked, used>>

\* NORMALIZE: 360 degrees at a time into [-180, 180].
Normalize(lon) ==
    IF lon < -Half THEN ((lon + Half) % (2 * Half)) - Half
    ELSE IF lon > Half THEN Half - ((Half - lon) % (2 * Half)) ELSE lon

LegalBounds ==
    /\ east >= -Half /\ east <= 2 * Half
    /\ west >= -Half /\ west <= 2 * Half
    /\ Abs(east - west) <= 2 * Half

\* Both bounds beyond 180 degrees are taken a turn back.
TurnNever(w, e) == 0        \* mutant of Turn
Turn(w, e) == IF e > Half /\ w > Half THEN 2 * Half ELSE 0

StraddlesOrdered(w, e) == e < w     \* mutant of Straddles: bounds beyond 180 forgotten
Straddles(w, e) == e < w \/ e > Half

\* The first half of reinit_mapx.
NewBounds ==
    LET w == west - Turn(west, east)
        e == east - Turn(west, east)
    IN  /\ map_stradles_180' = Straddles(w, e)
        /\ east' = Normalize(e)
        /\ west' = Normalize(w)
        /\ used' = IF used = "not" THEN "once" ELSE "again"

\* What forward_xy_mapx gives for the center.
ProjectedCenter == [scale |-> scale, ref |-> ref, at |-> center]

-----------------------------------------------------------------------------
reinit_mapx ==
    /\ LegalBounds
    /\ NewBounds
    /\ x0' = IF x0 = UNSET THEN ProjectedCenter ELSE x0
    /\ u0' = x0'
    /\ UNCHANGED <<scale, ref, center, asked>>

\* The projection's initialize returns an error: the bounds are taken already.
ReinitFails ==
    /\ LegalBounds
    /\ NewBounds
    /\ UNCHANGED <<scale, ref, center, u0, x0, asked>>

\* An illegal bound: nothing is changed.
ReinitRefused ==
    /\ ~LegalBounds
    /\ UNCHANGED vars

\* The client sets public members, as cdb_edit does between two calls.
SetBounds(w, e) ==
    /\ west' = w /\ east' = e
    /\ asked' = <<w, e>>
    /\ used' = "not"
    /\ UNCHANGED <<scale, ref, center, map_stradles_180, u0, x0>>

SetScale(s) ==
    /\ scale' = s
    /\ UNCHANGED <<west, east, ref, center, map_stradles_180, u0, x0, asked, used>>

Recenter(p) ==
    /\ ref' = p /\ center' = p
    /\ UNCHANGED <<west, east, scale, map_stradles_180, u0, x0, asked, used>>

\* new_mapx, with Map Origin X and Y in the label or without, and before the
\* first reinit_mapx.
Init ==
    /\ west \in Bounds /\ east \in Bounds
    /\ scale \in Scales /\ ref \in Places /\ center \in Places
    /\ map_stradles_180 = FALSE /\ u0 = UNSET
    /\ x0 \in {UNSET, GIVEN}
    /\ asked = <<west, east>> /\ used = "not"

Next ==
    \/ reinit_mapx \/ ReinitFails \/ ReinitRefused
    \/ \E w, e \in Bounds : SetBounds(w, e)
    \/ \E s \in Scales : SetScale(s)
    \/ \E p \in Places : Recenter(p)

Spec == Init /\ [][Next]_vars

-----------------------------------------------------------------------------
\* within_mapx, of a normalized longitude and a latitude within the map.
Within(lon) ==
    IF map_stradles_180 THEN ~(lon > east /\ lon < west)
    ELSE west <= lon /\ lon <= east

\* The last meridian of draw_graticule, which begins at west.
LastMeridianEast == east    \* mutant of LastMeridian
LastMeridian == IF map_stradles_180 THEN east + 2 * Half ELSE east

\* The arc that draw_cdb draws for mapenum, by smallest longitude: all, up to
\* stop, or both sides of 180 degrees.  See DrawComplete of CdbDraw.
DrawnArc(lon) ==
    \/ west = east
    \/ west < east /\ west <= lon /\ lon <= east
    \/ west > east /\ (west <= lon \/ lon <= east)

-----------------------------------------------------------------------------
\* Every variable has its type; bounds that were taken are normalized.
TypeOK ==
    /\ west \in Int /\ east \in Int
    /\ scale \in Scales /\ ref \in Places /\ center \in Places
    /\ map_stradles_180 \in BOOLEAN
    /\ u0 \in {UNSET, GIVEN} \cup Position
    /\ x0 \in {UNSET, GIVEN} \cup Position
    /\ asked \in Bounds \X Bounds
    /\ used \in {"not", "once", "again"}
    /\ used # "not" => west \in -Half .. Half /\ east \in -Half .. Half

\* "West specifies the left side of the map and east the right" (mapx.c:248):
\* from the left side eastward to the right one.
OnArc(w, e, lon) ==
    \E turn \in {0, 2 * Half, 4 * Half} :
        /\ w <= lon + turn
        /\ lon + turn <= (IF e < w THEN e + 2 * Half ELSE e)

\* Where the window is not the one asked for: with west beyond 180 degrees and
\* east not, it is the whole circle until the next reinit_mapx; and a whole
\* circle that is not from -180 shrinks to one meridian at the next.
Misread(w, e) ==
    \/ used = "once" /\ w > Half /\ e <= Half
    \/ used = "again" /\ e - w = 2 * Half /\ w # -Half

\* The longitudes strictly between -180 and 180, which is one meridian with
\* two names: within_mapx finds it in a map that ends there by one of them.
Longitude == (-Half + 1) .. (Half - 1)

\* After any changes and calls, failed ones too, within_mapx accepts the
\* longitudes from the west bound the client set eastward to its east bound.
WindowRight ==
    used # "not" /\ ~Misread(asked[1], asked[2]) =>
        \A lon \in Longitude : Within(lon) <=> OnArc(asked[1], asked[2], lon)

\* The graticule, drawn from west to the last meridian, covers the window and
\* nothing else: within_mapx and draw_graticule read the flag alike.
GraticuleMatches ==
    used # "not" =>
        \A lon \in Longitude :
            Within(lon) <=> \E turn \in {0, 2 * Half} :
                                west <= lon + turn /\ lon + turn <= LastMeridian

\* mapenum's coastlines cover the window: draw_cdb reads the bounds without
\* the flag.
CoastlinesCover ==
    used # "not" /\ ~Misread(asked[1], asked[2]) =>
        \A lon \in Longitude : Within(lon) => DrawnArc(lon)

\* "this routine will re-calculate the appropriate private constants for the
\* projection" (mapx.c:961-963): the origin of the map, unless given, is where
\* the current projection and scale put the center.
CenterAtOrigin ==
    [][reinit_mapx => u0' \in {GIVEN, ProjectedCenter}]_vars
=============================================================================
