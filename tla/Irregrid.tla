------------------------------- MODULE Irregrid -------------------------------
(***************************************************************************)
(* src/src/irregrid.c: gridding of values at irregular points.             *)
(*                                                                         *)
(* A line of input is a location, as forward_grid returns it (row and      *)
(* column in halves of a cell), and a value.  Weights are integers: exact  *)
(* multiples of Unit.                                                      *)
(***************************************************************************)
EXTENDS Integers, SequencesExt, FiniteSetsExt

CONSTANTS
    Rows, Cols,
    Lines,          \* records: s, r (location), v (value), n (numbers parsed), within (the map)
    MaxLines,
    Methods,        \* "cressman" (the default), "cressman -c", "drop", "inv_dist", "near"
    Radii,          \* -r, in halves of a cell
    Fills,          \* -i
    Unit,           \* the unit of weights
    IMPOSSIBLY_LARGE,
    NotANumber

Cells == (0 .. Rows - 1) \X (0 .. Cols - 1)

\* What the constants are assumed to be.  The Unit is so small a part of 1 that no
\* weight is rounded to 0, and no radius reaches what stands for an infinite distance
\* (9e9, squared cells).
Line == [s : Int, r : Int, v : Int, n : 0 .. 3, within : BOOLEAN]
IrregridAssumption ==
    /\ Rows \in Nat \ {0} /\ Cols \in Nat \ {0} /\ MaxLines \in Nat /\ Unit \in Nat \ {0}
    /\ Lines \subseteq Line
    /\ Methods \subseteq {"cressman", "cressman -c", "drop", "inv_dist", "near"}
    /\ Radii \subseteq Nat /\ Fills \subseteq Int
    /\ IMPOSSIBLY_LARGE \in Int /\ NotANumber \notin Int
    /\ \A R \in Radii : 2 * R * R <= Unit /\ R * R <= IMPOSSIBLY_LARGE

VARIABLES
    method, shell_radius, fill,
    lines_processed,
    from,           \* from_lat, from_lon, from_dat: what the last line left there
    to_data, to_data_beta, to_data_num_pts,
    stage,          \* "read", "written" (the data), "exit" or "abort"
    data_file, npts_file,       \* the outputs, <<>> before they are written
    used            \* the locations and values that were gridded

irregridVars == <<method, shell_radius, fill, lines_processed, from, to_data, to_data_beta,
                  to_data_num_pts, stage, data_file, npts_file, used>>

Whole(x) == IF x >= 0 THEN x \div 2 ELSE -((-x) \div 2)      \* (int) of x halves
D2(l, c) == (l.s - 2 * c[1]) * (l.s - 2 * c[1]) + (l.r - 2 * c[2]) * (l.r - 2 * c[2])
R2 == shell_radius * shell_radius

\* init_grids
init_sums == to_data = [c \in Cells |-> 0] /\ to_data_beta = [c \in Cells |-> 0]
init_near_neighbor == to_data = [c \in Cells |-> fill] /\ to_data_beta = [c \in Cells |-> IMPOSSIBLY_LARGE]

Init ==
    /\ method \in Methods /\ shell_radius \in Radii /\ fill \in Fills
    /\ lines_processed = 0 /\ from = <<>>
    /\ IF method = "near" THEN init_near_neighbor ELSE init_sums
    /\ to_data_num_pts = [c \in Cells |-> 0]
    /\ stage = "read" /\ data_file = <<>> /\ npts_file = <<>> /\ used = {}

\* The cells in twice the radius around the cell the location is rounded to.
nearest(l) == <<Whole(l.s + 1), Whole(l.r + 1)>>
Range2 == shell_radius
InRange(l, c) ==
    /\ c[1] - nearest(l)[1] \in -Range2 .. Range2
    /\ c[2] - nearest(l)[2] \in -Range2 .. Range2
InShell(l, c) == InRange(l, c) /\ D2(l, c) <= R2

\* A radius of 0 makes the weight 0/0 where a point meets a center.
cressman(l, c) == IF R2 = 0 THEN NotANumber ELSE (Unit * (R2 - D2(l, c))) \div (R2 + D2(l, c))
\* The weight at no distance is the fill value.
inv_dist(l, c) == IF D2(l, c) > 0 THEN (4 * Unit) \div D2(l, c) ELSE Unit * fill

Plus(a, b) == IF NotANumber \in {a, b} THEN NotANumber ELSE a + b
Times(a, b) == IF NotANumber \in {a, b} THEN NotANumber ELSE a * b
AddWeighted(l, w) ==
    LET hit == {c \in Cells : InShell(l, c)}
    IN  /\ to_data' = [c \in Cells |-> IF c \in hit THEN Plus(to_data[c], Times(l.v, w[c])) ELSE to_data[c]]
        /\ to_data_beta' = [c \in Cells |-> IF c \in hit THEN Plus(to_data_beta[c], w[c]) ELSE to_data_beta[c]]
        /\ to_data_num_pts' = [c \in Cells |-> to_data_num_pts[c] + (IF c \in hit THEN 1 ELSE 0)]

AddToBuckets(l) ==
    /\ to_data' = [c \in Cells |-> to_data[c] + (IF InRange(l, c) THEN l.v ELSE 0)]
    /\ to_data_num_pts' = [c \in Cells |-> to_data_num_pts[c] + (IF InRange(l, c) THEN 1 ELSE 0)]
    /\ UNCHANGED to_data_beta

Nearer(l, c) == InShell(l, c) /\ D2(l, c) <= to_data_beta[c]
KeepNearest(l) ==
    /\ to_data' = [c \in Cells |-> IF Nearer(l, c) THEN l.v ELSE to_data[c]]
    /\ to_data_beta' = [c \in Cells |-> IF Nearer(l, c) THEN D2(l, c) ELSE to_data_beta[c]]
    /\ UNCHANGED to_data_num_pts

weighted_average(l) ==
    \/ method \in {"cressman", "cressman -c"} /\ AddWeighted(l, [c \in Cells |-> cressman(l, c)])
    \/ method = "inv_dist" /\ AddWeighted(l, [c \in Cells |-> inv_dist(l, c)])
    \/ method = "drop" /\ AddToBuckets(l)
    \/ method = "near" /\ KeepNearest(l)

\* sscanf: the numbers a line lacks keep what the lines before it gave, or what
\* memory held before the first one.
Completed(l, o) ==
    CASE l.n = 3 -> l
      [] l.n = 2 -> [l EXCEPT !.v = o.v]
      [] l.n = 1 -> [o EXCEPT !.s = l.s]
      [] l.n = 0 -> o
Scanned(l) == {Completed(l, o) : o \in IF from = <<>> THEN Lines ELSE {from}}

Counts(l) == l.within /\ l.v # fill
ReadLine(line) ==
    /\ stage = "read" /\ lines_processed < MaxLines
    /\ lines_processed' = lines_processed + 1
    /\ \E l \in Scanned(line) :
        /\ from' = l
        /\ IF Counts(l) THEN weighted_average(l) /\ used' = used \cup {<<lines_processed, l>>}
           ELSE UNCHANGED <<to_data, to_data_beta, to_data_num_pts, used>>
    /\ UNCHANGED <<method, shell_radius, fill, stage, data_file, npts_file>>

-----------------------------------------------------------------------------
\* normalize_result: a value is a fraction.
min_in_pts == IF method = "cressman -c" THEN 1 ELSE 0
normalize_cressman(c) ==
    IF to_data_beta[c] # 0 /\ min_in_pts <= to_data_num_pts[c] THEN <<to_data[c], to_data_beta[c]>> ELSE <<fill, 1>>
normalize_inv_dist(c) == IF to_data_beta[c] # 0 THEN <<to_data[c], to_data_beta[c]>> ELSE <<fill, 1>>
NormalizeSum(c) == <<to_data[c], 1>>      \* mutant of normalize_drop_in_bucket
normalize_drop_in_bucket(c) ==
    IF to_data_num_pts[c] # 0 THEN <<to_data[c], to_data_num_pts[c]>> ELSE <<fill, 1>>
normalize_near_neighbor(c) == <<to_data[c], 1>>
Normalized(c) ==
    CASE method \in {"cressman", "cressman -c"} -> normalize_cressman(c)
      [] method = "inv_dist" -> normalize_inv_dist(c)
      [] method = "drop" -> normalize_drop_in_bucket(c)
      [] method = "near" -> normalize_near_neighbor(c)

\* The end of the input, which hides a last line without a newline; a write that
\* fails aborts after some of the rows.
WriteData ==
    /\ stage = "read"
    /\ \/ stage' = "written" /\ data_file' = [c \in Cells |-> Normalized(c)]
       \/ stage' = "abort" /\ UNCHANGED data_file
    /\ UNCHANGED <<method, shell_radius, fill, lines_processed, from, to_data, to_data_beta, to_data_num_pts, npts_file, used>>

\* -t: the closing of the data file a second time, in place of this one, leaves what
\* exit() flushes.
WriteNpts ==
    /\ stage = "written"
    /\ \/ stage' = "exit" /\ npts_file' = to_data_num_pts
       \/ stage' = "abort" /\ UNCHANGED npts_file
    /\ UNCHANGED <<method, shell_radius, fill, lines_processed, from, to_data, to_data_beta, to_data_num_pts, data_file, used>>

Next == (\E l \in Lines : ReadLine(l)) \/ WriteData \/ WriteNpts
Spec == Init /\ [][Next]_irregridVars

-----------------------------------------------------------------------------
\* The types of the variables.
TypeOK ==
    /\ lines_processed \in 0 .. MaxLines
    /\ to_data \in [Cells -> Int \cup {NotANumber}] /\ to_data_beta \in [Cells -> Int \cup {NotANumber}]
    /\ to_data_num_pts \in [Cells -> 0 .. MaxLines]
    /\ stage \in {"read", "written", "exit", "abort"}

Reaching(c) == {u \in used : IF method = "drop" THEN InRange(u[2], c) ELSE InShell(u[2], c)}
Exact(c) == \E u \in Reaching(c) : D2(u[2], c) = 0

Between ==
    \A c \in Cells :
        LET o == data_file[c]
            reach == Reaching(c)
        IN  \/ Exact(c) /\ (method = "inv_dist" \/ R2 = 0)
            \/ o = <<fill, 1>> /\ (reach = {} \/ \A u \in reach : D2(u[2], c) = R2 /\ method \notin {"drop", "near"})
            \/ \E a, b \in reach : /\ o[2] > 0
                                   /\ a[2].v * o[2] <= o[1] /\ o[1] <= b[2].v * o[2]
\* u wins a cell from w: it is nearer, or as near and later.
Wins(u, w, c) == D2(w[2], c) > D2(u[2], c) \/ (D2(w[2], c) = D2(u[2], c) /\ w[1] < u[1])
NearestLatest ==
    method = "near" => \A c \in Cells : \A u \in Reaching(c) :
        (\A w \in Reaching(c) \ {u} : Wins(u, w, c))
            => data_file[c] = <<u[2].v, 1>>

\* A cell of the output holds the fill value if no line reaches it, and otherwise
\* lies between the smallest and the largest value of the lines that do, as these
\* were scanned; with nearest neighbor it holds the value of the nearest line, of
\* several the latest.  (Weights of 0, at the radius of cressman, leave the fill
\* value, and where a point meets a center inverse distance takes the fill value
\* as its weight and cressman, with a radius of 0, divides 0 by 0.)
GriddedFromLines == data_file # <<>> => Between /\ NearestLatest

-----------------------------------------------------------------------------
(***************************************************************************)
(* The inductive invariant from which GriddedFromLines follows: what the   *)
(* three grids say of the lines that reached a cell so far.                *)
(***************************************************************************)

\* The sum is between the weight times the smallest and times the largest value of
\* the lines in reach.
Mean(sum, weight, reach) ==
    \E a, b \in reach : a[2].v * weight <= sum /\ sum <= b[2].v * weight

\* Cressman and inverse distance: weights are not negative, and 0 only at the radius.
Summed(c) ==
    method \in {"cressman", "cressman -c", "inv_dist"} /\ ~(Exact(c) /\ (method = "inv_dist" \/ R2 = 0)) =>
        /\ to_data[c] \in Int /\ to_data_beta[c] \in Nat
        /\ to_data_beta[c] = 0 => to_data[c] = 0 /\ \A u \in Reaching(c) : D2(u[2], c) = R2 /\ method # "inv_dist"
        /\ to_data_beta[c] # 0 => Mean(to_data[c], to_data_beta[c], Reaching(c)) /\ to_data_num_pts[c] >= 1

Dropped(c) ==
    method = "drop" =>
        /\ to_data[c] \in Int
        /\ to_data_num_pts[c] = 0 => to_data[c] = 0 /\ Reaching(c) = {}
        /\ to_data_num_pts[c] # 0 => Mean(to_data[c], to_data_num_pts[c], Reaching(c))

Kept(c) ==
    method = "near" =>
        IF Reaching(c) = {} THEN to_data[c] = fill /\ to_data_beta[c] = IMPOSSIBLY_LARGE
        ELSE \E u \in Reaching(c) : /\ to_data[c] = u[2].v /\ to_data_beta[c] = D2(u[2], c)
                                    /\ \A w \in Reaching(c) \ {u} : Wins(u, w, c)

IInv ==
    /\ TypeOK
    /\ method \in Methods /\ shell_radius \in Radii /\ fill \in Fills
    /\ from = <<>> \/ from \in Line
    /\ used \subseteq (0 .. lines_processed - 1) \X Line
    /\ \A c \in Cells : to_data_num_pts[c] <= lines_processed
    /\ \A c \in Cells : Summed(c) /\ Dropped(c) /\ Kept(c)
    /\ data_file # <<>> => stage # "read" /\ data_file = [c \in Cells |-> Normalized(c)]
===============================================================================
