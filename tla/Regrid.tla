------------------------------- MODULE Regrid -------------------------------
(***************************************************************************)
(* src/src/regrid.c: the data file and the weight file (-z) across several *)
(* runs of the program, each of which adds one input file to them.         *)
(*                                                                         *)
(* What an input gives a cell of the output is a share: a weight and a     *)
(* weighted sum, or for nearest neighbor a distance and a value.  Where a  *)
(* location falls is chosen, in quarters of a cell; weights are integers in *)
(* a unit of the method's own.  Data are integers.                         *)
(***************************************************************************)
EXTENDS Integers, FiniteSetsExt, Functions

CONSTANTS
    OutCells,       \* the cells of the output
    Input,          \* the data of an input, a function on rows and columns
    RowSpots, ColSpots,     \* where a location falls, in quarters of a cell
    Samples,        \* of nearestn: pairs of a distance in tenths and a value
    Fills,          \* values of -i
    DatumLow, DatumSize,    \* the data type: DatumSize values from DatumLow
    MaxRuns,
    Absent,         \* no such file
    Short           \* less of a file than the grid needs

\* What the constants are assumed to be.  Input and output have one data type.
RegridAssumption ==
    /\ DOMAIN Input \subseteq Nat \X Nat /\ IsFiniteSet(DOMAIN Input)
    /\ \A c \in DOMAIN Input : Input[c] \in Int
    /\ RowSpots \cup ColSpots \subseteq Int /\ \A x \in RowSpots \cup ColSpots : x >= -2
    /\ Samples \subseteq (0 .. 7) \X (DatumLow .. DatumLow + DatumSize - 1)
    /\ Fills \subseteq Int /\ DatumLow \in Int /\ DatumSize \in Nat \ {0}
    /\ MaxRuns \in Nat
    /\ {Absent, Short} \cap [OutCells -> Int] = {} /\ Absent # Short

VARIABLES
    kind,           \* the options -f, -w and -m, which every run must repeat
    with_z,         \* the option -z
    ignore_fill, fill,      \* the option -i of this run
    data_file, beta_file,
    step,           \* where the program is; "idle" between two runs
    preload_data,
    to_data, to_beta,       \* in memory
    runs,           \* how many runs were started
    given,          \* what the completed runs were given, by cell
    lost            \* a write failed half way

regridVars == <<kind, with_z, ignore_fill, fill, data_file, beta_file, step, preload_data, to_data, to_beta, runs, given, lost>>

Averaging == {"inv_dist", "ditb_avg", "bilinear", "cubiccon"}
Kinds == Averaging \cup {"modified", "nearestn"}
Fold(x) == ((x - DatumLow) % DatumSize) + DatumLow      \* an integer cast to the data type
Away(x) == IF x < 0 THEN -x ELSE x
Quot(p, q) == IF p >= 0 THEN p \div q ELSE -((-p) \div q)       \* towards zero
Round(p, q) == IF q < 0 THEN -Quot(2 * p + (IF p < 0 THEN q ELSE -q), -2 * q)
               ELSE Quot(2 * p + (IF p < 0 THEN -q ELSE q), 2 * q)
Zeros == [c \in OutCells |-> 0]
IsFull(f) == f \notin {Absent, Short}

\* given[c]: weight, sum, slack of the rounding, largest value, latest value, and
\* whether something odd came of it: weights that cancel while the sum does not,
\* an extrapolated mean that the data type cannot hold, or a neighbor that met
\* a gap with another fill than this run's.
Nothing == [c \in OutCells |-> [w |-> 0, sum |-> 0, slack |-> 0, most |-> 0, last |-> {}, odd |-> FALSE]]

-----------------------------------------------------------------------------
Init ==
    /\ kind \in Kinds /\ with_z \in BOOLEAN /\ ignore_fill = FALSE /\ fill = 0
    /\ data_file = Absent /\ beta_file = Absent
    /\ step = "idle" /\ preload_data = FALSE
    /\ to_data = Zeros /\ to_beta = Zeros
    /\ runs = 0 /\ given = Nothing /\ lost = FALSE

\* The options: -z opens the weight file, and creates it at once if there is none.
Options(i, f) ==
    /\ step = "idle" /\ runs < MaxRuns
    /\ runs' = runs + 1
    /\ ignore_fill' = i /\ fill' = IF i THEN f ELSE 0
    /\ preload_data' = (with_z /\ beta_file # Absent)
    /\ beta_file' = IF with_z /\ beta_file = Absent THEN Short ELSE beta_file
    /\ step' = "open"
    /\ UNCHANGED <<kind, with_z, data_file, to_data, to_beta, given, lost>>

\* exit(ABORT): a grid or a file cannot be opened or is too short, or no memory.
Abort ==
    /\ step \in {"open", "read"}
    /\ step' = "idle"
    /\ to_data' = Zeros /\ to_beta' = Zeros
    /\ UNCHANGED <<kind, with_z, ignore_fill, fill, data_file, beta_file, preload_data, runs, given, lost>>

\* A run that does not preload empties the output.
OpenFiles ==
    /\ step = "open"
    /\ preload_data => data_file # Absent
    /\ data_file' = IF preload_data THEN data_file ELSE Short
    /\ step' = "read"
    /\ UNCHANGED <<kind, with_z, ignore_fill, fill, beta_file, preload_data, to_data, to_beta, runs, given, lost>>

\* The mean of the earlier runs is turned back into their sum.
ReweightNot(d, b) == d  \* mutant of Reweight
Reweight(d, b) == d * b

Read ==
    /\ step = "read"
    /\ IF preload_data
       THEN /\ IsFull(data_file) /\ IsFull(beta_file)
            /\ to_beta' = beta_file
            /\ to_data' = IF kind = "nearestn" THEN data_file
                          ELSE [c \in OutCells |-> Reweight(data_file[c], beta_file[c])]
       ELSE UNCHANGED <<to_data, to_beta>>
    /\ step' = "resample"
    /\ UNCHANGED <<kind, with_z, ignore_fill, fill, data_file, beta_file, preload_data, runs, given, lost>>

\* What a run knows of earlier ones: nothing if it does not preload.
before == IF preload_data THEN given ELSE Nothing

\* Cells of the input a kernel of the given reach uses at row s, column r.
Reached(s, r, from, til) ==
    {c \in DOMAIN Input : /\ c[1] - Quot(s, 4) \in from .. til
                          /\ c[2] - Quot(r, 4) \in from .. til
                          /\ ~(ignore_fill /\ fill = Input[c])}
\* The weights of some cells, and their weighted data.
Share(w) == <<SumFunction(w), SumFunction([c \in DOMAIN w |-> w[c] * Input[c]])>>

\* bilinear: one less the distance, by row and by column.
BilinearShare(s, r) ==
    Share([c \in Reached(s, r, 0, 1) |-> (4 - Away(s - 4 * c[1])) * (4 - Away(r - 4 * c[2]))])

\* cubiccon: the coefficient, in 64ths, of the n-th of four cells around a
\* location q quarters beyond the second one.
Cubic(n, q) == CASE n = 0 -> -q * (4 - q) * (4 - q)
                 [] n = 1 -> 64 - 8 * q * q + q * q * q
                 [] n = 2 -> 16 * q + 4 * q * q - q * q * q
                 [] n = 3 -> -q * q * (4 - q)
CubicShare(s, r) ==
    LET at(x, i) == Cubic(i - Quot(x, 4) + 1, x - 4 * Quot(x, 4))
    IN  Share([c \in Reached(s, r, -1, 2) |-> at(s, c[1]) * at(r, c[2])])

\* ditb_avg: the input cells that fall into the output cell weigh 1 each.
BucketShare(cells) == Share([c \in {x \in cells : ~(ignore_fill /\ fill = Input[x])} |-> 1])

\* inv_dist with its default power of 2: 80 divided by the square of twice the
\* distance, and a large weight at no distance.
InverseWeight(s, r) == IF s = 0 /\ r = 0 THEN 9000 ELSE 80 \div ((s * s + r * r) \div 4)
InverseShare(cell, s, r) ==
    Share([c \in {x \in {cell} : ~(ignore_fill /\ fill = Input[x])} |-> InverseWeight(s, r)])

Shares ==
    CASE kind = "bilinear" -> {BilinearShare(s, r) : s \in RowSpots, r \in ColSpots}
      [] kind = "cubiccon" -> {CubicShare(s, r) : s \in RowSpots, r \in ColSpots}
      [] kind = "ditb_avg" -> {BucketShare(cells) : cells \in {x \in SUBSET DOMAIN Input : Cardinality(x) <= 2}}
      [] kind = "inv_dist" -> {InverseShare(c, s, r) : c \in DOMAIN Input, s \in {0, 2}, r \in {2, 4}}

Accumulate ==
    /\ step = "resample" /\ kind \in Averaging
    /\ \E h \in [OutCells -> Shares] :
        /\ to_data' = [c \in OutCells |-> to_data[c] + h[c][2]]
        /\ to_beta' = [c \in OutCells |-> to_beta[c] + h[c][1]]
        /\ given' = [c \in OutCells |->
                [before[c] EXCEPT !.w = @ + h[c][1], !.sum = @ + h[c][2], !.slack = @ + Away(to_beta'[c]),
                                  !.odd = @ \/ (to_beta'[c] = 0 /\ to_data'[c] # 0)]]
    /\ step' = "write"
    /\ UNCHANGED <<kind, with_z, ignore_fill, fill, data_file, beta_file, preload_data, runs, lost>>

\* ditb_avg with -m keeps the largest value, starting from 0.
Larger(v, d) == v > d
KeepLargest ==
    /\ step = "resample" /\ kind = "modified"
    /\ \E found \in SUBSET OutCells : \E h \in [found -> Samples] :
        LET taken == {c \in found : Larger(h[c][2], to_data[c])}
        IN  /\ to_data' = [c \in OutCells |-> IF c \in taken THEN h[c][2] ELSE to_data[c]]
            /\ to_beta' = [c \in OutCells |-> IF c \in taken THEN 1 ELSE to_beta[c]]
            /\ given' = [c \in OutCells |->
                    IF c \in found THEN [before[c] EXCEPT !.most = Max({@, h[c][2]})] ELSE before[c]]
    /\ step' = "write"
    /\ UNCHANGED <<kind, with_z, ignore_fill, fill, data_file, beta_file, preload_data, runs, lost>>

\* nearestn: whether a neighbor replaces what the cell has.  beta is the distance
\* plus 10 tenths, 0 where nothing was found.
GapHere(c) == to_beta[c] = 0 /\ fill = to_data[c]
ReplacesNearer(c, dd) == ~preload_data \/ dd + 10 <= to_beta[c] \/ GapHere(c)   \* mutant of Replaces
Replaces(c, dd) == ~preload_data \/ dd <= to_beta[c] \/ GapHere(c)

Nearest ==
    /\ step = "resample" /\ kind = "nearestn"
    /\ \E found \in SUBSET OutCells : \E h \in [found -> Samples] :
        LET taken == {c \in found : Replaces(c, h[c][1])}
            strange(c) == preload_data /\ to_beta[c] = 0 /\ to_data[c] # fill
        IN  /\ to_data' = [c \in OutCells |-> IF c \in taken THEN h[c][2] ELSE to_data[c]]
            /\ to_beta' = [c \in OutCells |-> IF c \in taken THEN h[c][1] + 10 ELSE to_beta[c]]
            /\ given' = [c \in OutCells |->
                    IF c \notin found THEN before[c]
                    ELSE [before[c] EXCEPT !.last = {h[c][2]}, !.odd = strange(c) /\ h[c][1] > 0]]
    /\ step' = "write"
    /\ UNCHANGED <<kind, with_z, ignore_fill, fill, data_file, beta_file, preload_data, runs, lost>>

-----------------------------------------------------------------------------
\* What is written for a cell: the mean, or the fill where nothing was found.
Normalized(c) ==
    IF to_beta[c] = 0 THEN fill
    ELSE IF kind = "nearestn" THEN to_data[c] ELSE Round(to_data[c], to_beta[c])
Written == [c \in OutCells |-> Fold(Normalized(c))]

MixOf(old, new) == {[c \in OutCells |-> IF c \in part THEN new[c] ELSE old[c]] : part \in SUBSET OutCells}

\* What a write that fails leaves of a file.
Torn(old, new) == IF IsFull(old) THEN MixOf(old, new) ELSE {Short}

WriteData ==
    /\ step = "write"
    /\ data_file' = Written
    /\ given' = [c \in OutCells |-> [given[c] EXCEPT !.odd =
            @ \/ (kind \in Averaging /\ to_beta[c] # 0 /\ Normalized(c) # Fold(Normalized(c)))]]
    /\ step' = "beta"
    /\ UNCHANGED <<kind, with_z, ignore_fill, fill, beta_file, preload_data, to_data, to_beta, runs, lost>>

WriteDataFails ==
    /\ step = "write"
    /\ data_file' \in Torn(data_file, Written)
    /\ lost' = TRUE
    /\ step' = "idle"
    /\ to_data' = Zeros /\ to_beta' = Zeros
    /\ UNCHANGED <<kind, with_z, ignore_fill, fill, beta_file, preload_data, runs, given>>

\* The weights, whose write is not checked.
WriteBeta ==
    /\ step = "beta"
    /\ \/ beta_file' = (IF with_z THEN to_beta ELSE beta_file) /\ lost' = lost
       \/ with_z /\ beta_file' \in Torn(beta_file, to_beta) /\ lost' = TRUE
    /\ step' = "idle"
    /\ to_data' = Zeros /\ to_beta' = Zeros
    /\ UNCHANGED <<kind, with_z, ignore_fill, fill, data_file, preload_data, runs, given>>

Next ==
    \/ \E i \in BOOLEAN, f \in Fills : Options(i, f)
    \/ Abort \/ OpenFiles \/ Read \/ Accumulate \/ KeepLargest \/ Nearest
    \/ WriteData \/ WriteDataFails \/ WriteBeta

Spec == Init /\ [][Next]_regridVars

-----------------------------------------------------------------------------
\* The types of the variables.
TypeOK ==
    /\ kind \in Kinds /\ with_z \in BOOLEAN /\ fill \in Fills \cup {0} /\ ignore_fill \in BOOLEAN
    /\ data_file \in {Absent, Short} \/ data_file \in [OutCells -> DatumLow .. DatumLow + DatumSize - 1]
    /\ beta_file \in {Absent, Short} \/ beta_file \in [OutCells -> Int]
    /\ step \in {"idle", "open", "read", "resample", "write", "beta"}
    /\ preload_data \in BOOLEAN /\ lost \in BOOLEAN
    /\ to_data \in [OutCells -> Int] /\ to_beta \in [OutCells -> Int]
    /\ runs \in 0 .. MaxRuns

\* Files that a later run, or a reader, can use.
usable == step = "idle" /\ ~lost /\ IsFull(data_file) /\ (with_z => IsFull(beta_file))

\* However many inputs are added, and whatever runs are aborted between them,
\* the data times the weights differ from the sum of all that was given only by
\* the rounding of the runs: half the weight a cell had after each of them.  Where
\* weights are negative they may cancel, and the sum is gone, or the mean may be
\* beyond the data type, which wraps it.
RunsAddUp ==
    usable /\ kind \in Averaging => \A c \in OutCells :
        /\ with_z => beta_file[c] = given[c].w
        /\ ~given[c].odd =>
            IF given[c].w = 0 THEN data_file[c] \in {Fold(f) : f \in Fills \cup {0}}
            ELSE LET off == 2 * (data_file[c] * given[c].w - given[c].sum)
                 IN  -given[c].slack <= off /\ off <= given[c].slack

\* The other two methods keep one of the values a cell was given: with -m the
\* largest, if it is above 0, and nearest neighbor the last one, however far it
\* is.  Only a gap holding another fill than this run's stays a gap.
OneValueKept ==
    usable => \A c \in OutCells :
        /\ kind = "modified" /\ given[c].most > 0 => data_file[c] = given[c].most
        /\ kind = "nearestn" /\ ~given[c].odd => \A v \in given[c].last : data_file[c] = v

-----------------------------------------------------------------------------
(***************************************************************************)
(* The inductive invariant from which the properties follow.               *)
(***************************************************************************)
Datum == DatumLow .. DatumLow + DatumSize - 1
Records == [w : Int, sum : Int, slack : Nat, most : Nat, last : SUBSET Int, odd : BOOLEAN]

\* Data d, not yet divided by their weight b, are what the inputs gave: up to the
\* slack less some room, or the one value that is kept.
Adds(d, b, g, room) ==
    /\ b = g.w
    /\ ~g.odd => room - g.slack <= 2 * (d - g.sum) /\ 2 * (d - g.sum) <= g.slack - room
Largest(d, b, g) ==
    /\ d = g.most /\ b = IF g.most > 0 THEN 1 ELSE 0
    /\ g.most > 0 => d \in Datum
Latest(d, b, g) ==
    /\ b >= 10 \/ b = 0
    /\ b # 0 => d \in Datum
    /\ ~g.odd => \A v \in g.last : b # 0 /\ d = v
Keeps(d, b, g, room) ==
    /\ kind \in Averaging => Adds(d, b, g, room)
    /\ kind = "modified" => Largest(d, b, g)
    /\ kind = "nearestn" => Latest(d, b, g)

\* The same of a cell of the files, whose weight is b.
Settled(c, b) ==
    /\ Keeps(IF kind = "nearestn" THEN data_file[c] ELSE data_file[c] * b, b, given[c], 0)
    /\ b = 0 => data_file[c] \in {Fold(f) : f \in Fills \cup {0}}

\* Between two runs the files say what was given, as long as both are full.
FilesSettled ==
    step \in {"idle", "open", "read"} =>
        /\ to_data = Zeros /\ to_beta = Zeros
        /\ ~lost /\ IsFull(data_file) /\ (with_z => IsFull(beta_file)) =>
            \A c \in OutCells : \E b \in Int : Settled(c, b) /\ (with_z => beta_file[c] = b)
OnlyPreloaded ==
    /\ step \in {"open", "read"} => (preload_data => with_z)
    /\ step = "read" /\ ~preload_data => data_file = Short

\* Within a run the memory does.
MemoryKeeps ==
    ~lost => \A c \in OutCells :
        /\ step = "resample" => Keeps(to_data[c], to_beta[c], before[c], 0)
        /\ step = "write" =>
            /\ Keeps(to_data[c], to_beta[c], given[c], Away(to_beta[c]))
            /\ kind \in Averaging /\ ~given[c].odd /\ to_beta[c] = 0 => to_data[c] = 0
        /\ step = "beta" => IsFull(data_file) /\ Settled(c, to_beta[c])

IInv == TypeOK /\ given \in [OutCells -> Records] /\ FilesSettled /\ OnlyPreloaded /\ MemoryKeeps

=============================================================================
