------------------------------- MODULE Resamp -------------------------------
(***************************************************************************)
(* src/src/resamp.c: one run of resamp, from its options to its exit.      *)
(*                                                                         *)
(* The grids are small and the projections abstract: where a location of   *)
(* one grid falls in the other is chosen when it is asked for, in quarters *)
(* of a cell.  Every cell of the input is read in the order of its file;   *)
(* its value is chosen when it is read.  A failing read, a fill value that *)
(* is ignored and a location outside either map all skip a cell.           *)
(* fill_grid_io, whose failure resamp does not notice, is in GridIO.       *)
(***************************************************************************)
EXTENDS Integers, FiniteSets, Functions

CONSTANTS
    FromRows, FromCols, ToRows, ToCols,     \* the grids, after -r
    Values,             \* data of the input file
    Spots,              \* rows and columns forward_grid finds, in quarters of a cell
    Fill,               \* the value of -i
    Mask, Mask2,        \* -m: the mask, or the first and the last one
    CommandLines,       \* options, with what the two grid files are
    MayFail,            \* TRUE iff a store may fail
    Unread              \* a cell that gave no value

\* m: -m with no mask, one or two; grids: the same gpd file twice, with -r or
\* without, or two whose cells differ in size, in the output more than twice
\* as big ("coarser") or not.
Options == [m : {"none", "one", "two"}, c : {"", "N", "D", "B", "M", "R"}, i : BOOLEAN,
            grids : {"identical", "shrunk", "coarser", "other"}]

\* The output is no larger than the input, and data are of a type with finitely
\* many values.
ASSUME ResampAssumption ==
    /\ CommandLines \subseteq Options
    /\ FromRows \in Nat \ {0} /\ FromCols \in Nat \ {0}
    /\ ToRows \in 1 .. FromRows /\ ToCols \in 1 .. FromCols
    /\ Values \subseteq Int /\ IsFiniteSet(Values)
    /\ Spots \subseteq -2 .. 4 * FromRows - 3 /\ Fill \in Int
    /\ Mask \in Int /\ Mask2 \in Int /\ Mask <= Mask2
    /\ MayFail \in BOOLEAN /\ Unread \notin Int

FromCells == (0 .. FromRows - 1) \X (0 .. FromCols - 1)
ToCells   == (0 .. ToRows - 1) \X (0 .. ToCols - 1)
Bins      == Mask .. Mask2

VARIABLES
    opts,       \* what the program was called with
    phase,      \* "open", "check", "run", "restore", "write" or "done"
    method,     \* the resample function, or "none"
    k,          \* how many cells the loop has visited
    to,         \* to_data; avgtmpfile while drop_in_the_bucket makes a mask
    restored,   \* to_data behind avgtmpfile
    pitb,       \* points in the bucket
    count, total,   \* of distribution
    bins,       \* the files distribution writes
    npts,       \* some value was resampled
    status,     \* exit status
    took,       \* the values each to cell was computed from
    torn,       \* to cells of which one store of two failed
    edge        \* to cells that bilinear found before the first row or column

vars == <<opts, phase, method, k, to, restored, pitb, count, total, bins, npts, status, took, torn, edge>>

mask_only == opts.m = "one"
ignore_fill == opts.i
fill == IF opts.i THEN Fill ELSE 0      \* a static variable

Methods == [N |-> "nearest_neighbor", D |-> "drop_in_the_bucket", B |-> "bilinear",
            M |-> "minification", R |-> "reduction"]

\* -m with a range overrides -c, which overrides the automatic choice.
Resample ==
    IF opts.m = "two" THEN "distribution"
    ELSE IF opts.c # "" THEN Methods[opts.c]
    ELSE IF opts.grids = "shrunk" THEN IF mask_only THEN "reduction" ELSE "minification"
    ELSE IF opts.grids = "coarser" THEN "drop_in_the_bucket" ELSE "bilinear"

Refused == \/ opts.c \in {"M", "R"} /\ opts.grids \notin {"identical", "shrunk"}
           \/ opts.grids = "identical"

\* (int), and nint of a fraction p/q: half is added, then the fraction cut.
Cut(p, q) == IF p >= 0 THEN p \div q ELSE -((-p) \div q)
Nint(p, q) == IF q > 0 THEN Cut(2 * p + q, 2 * q) ELSE Cut(-2 * p - q, -2 * q)

CellAt(n, cols) == <<n \div cols, n % cols>>
Empty == [v \in Values |-> 0]
Every(x) == [cell \in ToCells |-> x]

\* Stores that can follow one another: the second is not tried when the first fails.
Stores == IF MayFail THEN {"both", "first", "none"} ELSE {"both"}

-----------------------------------------------------------------------------
Init ==
    /\ opts \in CommandLines
    /\ phase = "open" /\ method = "none"
    /\ k = 0 /\ npts = FALSE /\ status = "failure"
    /\ to = Every(Unread) /\ restored = to
    /\ pitb = Every(0) /\ count = [b \in Bins |-> Every(0)] /\ total = Every(-1)
    /\ bins = [b \in Bins |-> Every(Unread)]
    /\ took = Every(Empty) /\ torn = {} /\ edge = {}

OutFillPlain == fill    \* mutant of OutFill
OutFill == IF mask_only THEN -1 ELSE fill

accumulators == <<restored, pitb, count, total, bins, took, torn, edge>>

\* The output is created and filled before the options are checked.
Open ==
    /\ phase = "open"
    /\ phase' = "check"
    /\ to' = Every(OutFill)
    /\ UNCHANGED <<opts, method, k, npts, status, accumulators>>

\* A grid or a data file cannot be opened, the options are refused, or a
\* temporary file cannot be had: cleanup.
GiveUp ==
    /\ \/ phase = "open"
       \/ phase = "check" /\ (Refused \/ Resample \in {"distribution", "drop_in_the_bucket"})
    /\ phase' = "done"
    /\ UNCHANGED <<opts, method, k, to, npts, status, accumulators>>

TotalStartZero == 0     \* mutant of TotalStart
TotalStart == -1

Start ==
    /\ phase = "check" /\ ~Refused
    /\ phase' = "run"
    /\ method' = Resample
    /\ total' = Every(TotalStart)
    /\ IF Resample = "drop_in_the_bucket" /\ mask_only
       THEN restored' = to /\ to' = Every(-1)
       ELSE UNCHANGED <<restored, to>>
    /\ UNCHANGED <<opts, k, pitb, count, bins, npts, status, took, torn, edge>>

-----------------------------------------------------------------------------
(* From from_grid into to_grid: drop_in_the_bucket and distribution.       *)

scattering == phase = "run" /\ method \in {"drop_in_the_bucket", "distribution"} /\ k < FromRows * FromCols
gathering == /\ phase = "run" /\ method \in {Methods[c] : c \in {"N", "B", "M", "R"}}
             /\ k < ToRows * ToCols

Visit == k' = k + 1 /\ UNCHANGED <<opts, phase, method, status>>
Takes(cell, v) == took' = [took EXCEPT ![cell][v] = @ + 1]

Skip ==
    /\ scattering \/ (gathering /\ method # "reduction")
    /\ Visit
    /\ UNCHANGED <<to, restored, pitb, count, total, bins, npts, took, torn, edge>>

Scored(v, whole) == IF mask_only THEN IF v = Mask THEN whole ELSE 0 ELSE v

\* The running mean of a bucket, rounded at every value.
AveragedTwice(cell, v) == Nint(to[cell] * pitb[cell] + Scored(v, 10000), pitb[cell] + 2) \* mutant of Averaged
Averaged(cell, v) == Nint(to[cell] * pitb[cell] + Scored(v, 10000), pitb[cell] + 1)

IntoBucket(cell, v) ==
    /\ scattering /\ method = "drop_in_the_bucket"
    /\ ~(ignore_fill /\ v = fill)
    /\ npts' = TRUE
    /\ \E s \in Stores :
        /\ to' = IF s = "none" THEN to ELSE [to EXCEPT ![cell] = Averaged(cell, v)]
        /\ IF s = "both" THEN pitb' = [pitb EXCEPT ![cell] = @ + 1] /\ Takes(cell, v)
           ELSE UNCHANGED <<pitb, took>>
        /\ torn' = IF s = "first" THEN torn \cup {cell} ELSE torn
    /\ Visit
    /\ UNCHANGED <<restored, count, total, bins, edge>>

IntoBin(cell, v) ==
    /\ scattering /\ method = "distribution"
    /\ ~(ignore_fill /\ v = fill)
    /\ v \in Bins
    /\ npts' = TRUE
    /\ \E s \in Stores :
        /\ count' = IF s = "none" THEN count ELSE [count EXCEPT ![v][cell] = @ + 1]
        /\ IF s = "both" THEN total' = [total EXCEPT ![cell] = @ + 1] /\ Takes(cell, v)
           ELSE UNCHANGED <<total, took>>
        /\ torn' = IF s = "first" THEN torn \cup {cell} ELSE torn
    /\ Visit
    /\ UNCHANGED <<to, restored, pitb, bins, edge>>

-----------------------------------------------------------------------------
(* From to_grid into from_grid: the other methods.  A store that fails     *)
(* leaves the fill.                                                        *)

here == CellAt(k, ToCols)

PutHere(x, values) ==
    /\ to' \in {[to EXCEPT ![here] = x]} \cup (IF MayFail THEN {to} ELSE {})
    /\ took' = IF to' = to /\ x # to[here] THEN took ELSE [took EXCEPT ![here] = values]
    /\ Visit
    /\ UNCHANGED <<restored, pitb, count, total, bins, torn>>

\* What a set of from cells gives, f[cell] being what was read there.
Used(cells, f) == {c \in cells : f[c] # Unread /\ ~(ignore_fill /\ f[c] = fill)}
ValuesOf(cells, f) == [v \in Values |-> Cardinality({c \in cells : f[c] = v})]
Total(cells, f, w) == SumFunction([c \in cells |-> Scored(f[c], 100) * w[c]])

\* nearest_neighbor, and minification, take one cell as it is.
Sample(v) ==
    /\ gathering /\ method \in {"nearest_neighbor", "minification"}
    /\ ~(ignore_fill /\ v = fill)
    /\ npts' = TRUE /\ edge' = edge
    /\ PutHere(Scored(v, 100), [Empty EXCEPT ![v] = 1])

\* The four cells around row s and column r, given in quarters.
Around(s, r) == {c \in FromCells : c[1] - Cut(s, 4) \in 0 .. 1 /\ c[2] - Cut(r, 4) \in 0 .. 1}
Away(x, n) == IF x >= 4 * n THEN x - 4 * n ELSE 4 * n - x
Weight(s, r, c) == (4 - Away(s, c[1])) * (4 - Away(r, c[2]))

Bilinear(s, r, f) ==
    LET used == Used(Around(s, r), f)
        w == [c \in used |-> Weight(s, r, c)]
        norm == SumFunction(w)
    IN  /\ npts' = (npts \/ used # {})
        /\ PutHere(IF norm = 0 THEN fill ELSE Nint(Total(used, f, w), norm),
                   IF norm = 0 THEN Empty ELSE ValuesOf(used, f))
        /\ edge' = IF s < 0 \/ r < 0 THEN edge \cup {here} ELSE edge

\* The mfactor x mfactor square of from cells behind a to cell.
mfactor == FromRows \div ToRows
Square(cell) == {c \in FromCells : c[1] \div mfactor = cell[1] /\ c[2] \div mfactor = cell[2]}

NormAll(used) == mfactor * mfactor  \* mutant of Norm
Norm(used) == Cardinality(used)

Reduction(f) ==
    LET used == Used(Square(here), f)
    IN  /\ npts' = (npts \/ used # {})
        /\ PutHere(IF used = {} THEN OutFill
                   ELSE Nint(Total(used, f, [c \in used |-> 1]), Norm(used)), ValuesOf(used, f))
        /\ edge' = edge

-----------------------------------------------------------------------------
finished == phase = "run" /\ k = IF method \in {"drop_in_the_bucket", "distribution"}
                                 THEN FromRows * FromCols ELSE ToRows * ToCols

\* A mask comes back from avgtmpfile in percent; the -1 of an empty bucket
\* is divided and rounded as well.
Restore(x) == Nint(x, 100)

Restoring ==
    /\ finished /\ method = "drop_in_the_bucket" /\ mask_only
    /\ phase' = "write"
    /\ \E lost \in IF MayFail THEN SUBSET ToCells ELSE {{}} :
        /\ to' = [cell \in ToCells |-> IF cell \in lost THEN restored[cell] ELSE Restore(to[cell])]
        /\ torn' = torn \cup lost
    /\ UNCHANGED <<opts, method, k, restored, pitb, count, total, bins, npts, status, took, edge>>

Percent(b, cell) ==
    IF total[cell] = -1 THEN -1
    ELSE IF count[b][cell] = 0 THEN 0 ELSE Nint(100 * count[b][cell], total[cell] + 1)

\* One file per mask; a file that cannot be opened ends the writing.
WriteBins ==
    /\ finished /\ method = "distribution"
    /\ phase' = "write"
    /\ \E last \in IF MayFail THEN Mask - 1 .. Mask2 ELSE {Mask2} :
        bins' = [b \in Bins |-> IF b <= last THEN [cell \in ToCells |-> Percent(b, cell)] ELSE bins[b]]
    /\ UNCHANGED <<opts, method, k, to, restored, pitb, count, total, npts, status, took, torn, edge>>

Exit ==
    /\ \/ phase = "write"
       \/ finished /\ method # "distribution" /\ ~(method = "drop_in_the_bucket" /\ mask_only)
    /\ phase' = "done"
    /\ status' = IF npts THEN "success" ELSE "failure"
    /\ UNCHANGED <<opts, method, k, to, npts, accumulators>>

BilinearStep ==
    /\ gathering /\ method = "bilinear"
    /\ \E s \in Spots, r \in Spots :
         \E f \in [Around(s, r) -> Values \cup {Unread}] : Bilinear(s, r, f)

ReductionStep ==
    /\ gathering /\ method = "reduction"
    /\ \E f \in [Square(here) -> Values \cup {Unread}] : Reduction(f)

Next ==
    \/ Open \/ GiveUp \/ Start \/ Skip \/ Restoring \/ WriteBins \/ Exit
    \/ \E cell \in ToCells, v \in Values : IntoBucket(cell, v) \/ IntoBin(cell, v)
    \/ \E v \in Values : Sample(v)
    \/ BilinearStep \/ ReductionStep

Spec == Init /\ [][Next]_vars

-----------------------------------------------------------------------------
\* The types of the variables.
TypeOK ==
    /\ opts \in CommandLines
    /\ phase \in {"open", "check", "run", "write", "done"}
    /\ method \in {"none", "distribution"} \cup {Methods[c] : c \in DOMAIN Methods}
    /\ k \in 0 .. FromRows * FromCols
    /\ to \in [ToCells -> Int \cup {Unread}] /\ restored \in [ToCells -> Int \cup {Unread}]
    /\ pitb \in [ToCells -> Nat] /\ total \in [ToCells -> Nat \cup {-1}]
    /\ count \in [Bins -> [ToCells -> Nat]] /\ bins \in [Bins -> [ToCells -> Int \cup {Unread}]]
    /\ npts \in BOOLEAN /\ status \in {"success", "failure"}
    /\ took \in [ToCells -> [Values -> Nat]]
    /\ torn \subseteq ToCells /\ edge \subseteq ToCells

Number(cell) == SumFunction(took[cell])
Sum(cell, whole) == SumFunction([v \in Values |-> took[cell][v] * Scored(v, whole)])
Counts(cell) == SumFunction([b \in Bins |-> count[b][cell]])
Percents(cell) == SumFunction([b \in Bins |-> bins[b][cell]])

\* drop_in_the_bucket keeps a mean of integers that is rounded at every value.
\* Whatever the order of the values, it is off by less than a quarter of the
\* number of values and one, three times that where nint pulls negative data
\* to zero; and pitb knows how many values it took.
MeanNear ==
    method = "drop_in_the_bucket" /\ phase = "run" =>
        \A cell \in ToCells \ torn :
            LET n == Number(cell)
                off == 4 * (n * to[cell] - Sum(cell, 10000))
            IN  /\ pitb[cell] = n
                /\ n > 0 => -n * (n + 1) <= off /\ off <= 3 * n * (n + 1)

\* distribution: the counts of a cell add up to its total, and the percents
\* written to the files of the masks to 100, but for half a percent each.
PercentsAddUp ==
    method = "distribution" => \A cell \in ToCells \ torn :
        /\ Counts(cell) = total[cell] + 1
        /\ bins[Mask2][cell] # Unread =>
            IF Number(cell) = 0 THEN \A b \in Bins : bins[b][cell] = -1
            ELSE 2 * Percents(cell) - 200 \in -Cardinality(Bins) .. Cardinality(Bins)

\* A cell of the output that got no value tells so: it has the fill value,
\* which is -1 in a mask.  Two methods do otherwise: bilinear gives a mask the
\* plain fill, and drop_in_the_bucket makes 0 percent of the -1.
EmptyTold ==
    phase = "done" /\ status = "success" => \A cell \in ToCells \ torn :
        Number(cell) = 0 =>
            \/ to[cell] = IF mask_only THEN -1 ELSE fill
            \/ mask_only /\ method = "bilinear" /\ to[cell] = fill
            \/ mask_only /\ method = "drop_in_the_bucket" /\ to[cell] = 0

Within(x, values) ==
    LET used == {Scored(v, 100) : v \in {y \in Values : values[y] > 0}}
    IN  /\ \E low \in used : low <= x
        /\ \E high \in used : x <= high + (IF \E u \in used : u < 0 THEN 1 ELSE 0)

\* What the other methods give lies between the smallest and the largest value
\* they used, or one above where nint pulls negative data to zero.  Before the
\* first row or column bilinear has a negative weight and extrapolates.
Between ==
    method \notin {"none", "drop_in_the_bucket", "distribution"} => \A cell \in ToCells \ edge :
        Number(cell) > 0 => Within(to[cell], took[cell])

-----------------------------------------------------------------------------
(***************************************************************************)
(* The inductive invariant of ResampProofs.                                *)
(***************************************************************************)

\* Nothing was resampled before the loop, and nothing written in it.
Fresh ==
    /\ phase \in {"open", "check"} =>
        /\ method = "none" /\ torn = {} /\ edge = {}
        /\ took = Every(Empty) /\ pitb = Every(0) /\ count = [b \in Bins |-> Every(0)]
    /\ phase \in {"open", "check", "run"} => bins = [b \in Bins |-> Every(Unread)]
    /\ phase \in {"check", "run"} => to \in [ToCells -> Int]
    /\ phase # "done" => status = "failure"

\* A cell that took no value has what the output was filled with.
Untaken(cell) == \A v \in Values : took[cell][v] = 0
Told ==
    \/ phase = "open"
    \/ phase = "done" /\ status = "failure"
    \/ \A cell \in ToCells \ torn : Untaken(cell) =>
        \/ to[cell] = IF mask_only THEN -1 ELSE fill
        \/ method = "bilinear" /\ to[cell] = fill
        \/ phase \in {"write", "done"} /\ method = "drop_in_the_bucket" /\ mask_only /\ to[cell] = 0

\* The counts and the total of distribution know how many values were taken.
Counted ==
    method = "distribution" => \A cell \in ToCells \ torn :
        /\ total[cell] + 1 = Number(cell)
        /\ Counts(cell) = Number(cell)
        /\ bins[Mask2][cell] # Unread => \A b \in Bins : bins[b][cell] = Percent(b, cell)

IInv == TypeOK /\ Fresh /\ MeanNear /\ Told /\ Counted /\ Between
=============================================================================
