-------------------------------- MODULE Ungrid --------------------------------
(***************************************************************************)
(* src/src/ungrid.c: the values of a grid at the points of standard input, *)
(* or at the centers of its cells (-C).                                    *)
(*                                                                         *)
(* Locations are given as what forward_grid returns: row and column, in    *)
(* quarters of a cell, or Off the grid.  A value is a fraction <<n, d>>.   *)
(* Data are bytes; -U takes them as unsigned, the power of -c I is 2.      *)
(***************************************************************************)
EXTENDS Integers, SequencesExt, FiniteSetsExt

CONSTANTS
    Rows, Cols,
    Files,          \* data files: functions from cells to bytes
    CommandLines,   \* records: C, I, U, b (BOOLEAN), c (a letter), r (in quarters), n and x (limits)
    Fill,           \* -i
    Inputs,         \* what standard input holds: sequences of points, Off and Garbage
    Off,            \* a point off the grid
    Garbage,        \* a line that does not start with two numbers
    Unread,         \* what readln holds before the first line is read
    Unit,           \* of the weights of inverse distance
    NotANumber

Cells == (0 .. Rows - 1) \X (0 .. Cols - 1)

\* What the constants are assumed to be.  The Unit is so small a part of 1 that no
\* weight is rounded to 0; what a line holds is a point, or one of two other things.
InputLines == (Int \X Int) \cup {Off, Garbage}
UngridAssumption ==
    /\ Rows \in Nat \ {0} /\ Cols \in Nat \ {0} /\ Unit \in Nat \ {0}
    /\ Files \subseteq [Cells -> 0 .. 255]
    /\ \A o \in CommandLines : o.r \in Nat /\ o.r * o.r <= Unit /\ o.n \in Int /\ o.x \in Int
    /\ \A o \in CommandLines : {o.C, o.I, o.U, o.b} \subseteq BOOLEAN /\ o.c \in {"N", "D", "B", "C", "I"}
    /\ Fill \in Int
    /\ Inputs \subseteq Seq(InputLines) /\ Unread \notin InputLines /\ Off \notin Int \X Int

VARIABLES
    control,        \* the options
    from_data,      \* the data file
    row,            \* rows read
    input, ends, fails,     \* the lines of standard input, whether the last one has its newline,
                            \* and whether reading fails instead of meeting the end
    pos,            \* lines read
    readln,         \* the line in memory
    phase,          \* "rows", "points", "exit" or "abort"
    written,        \* the output: points or cells, with values
    outside         \* -C: cells outside the bounds of -R

ungridVars == <<control, from_data, row, input, ends, fails, pos, readln, phase, written, outside>>

\* make options consistent
binary == control.b /\ ~control.C
Trunc(x) == IF x >= 0 THEN x \div 4 ELSE -((-x) \div 4)         \* (int)x
Nint(x) == Trunc(x + 2)
Dist(a, b) == IF a < b THEN b - a ELSE a - b

\* A byte of the file as a number.
Sample(c) == IF control.U \/ from_data[c] < 128 THEN from_data[c] ELSE from_data[c] - 256
WithinAny(v) == TRUE        \* mutant of Within
Within(v) == control.n <= v /\ v <= control.x
Around(s, r, from, til) ==
    {c \in Cells : /\ c[1] - Trunc(s) \in from .. til /\ c[2] - Trunc(r) \in from .. til
                   /\ Within(Sample(c))}
\* w: the weights of some cells.
Total(w) == SumFunction(w)
Weighted(w) == SumFunction([c \in DOMAIN w |-> w[c] * Sample(c)])

nearest(s, r) ==
    LET c == <<Nint(s), Nint(r)>>
    IN  IF c \in Cells /\ Within(Sample(c)) THEN <<Sample(c), 1>> ELSE <<Fill, 1>>

half_width == Max({1, -((-control.r) \div 4)})
Shell(s, r) == Around(s, r, 1 - half_width, half_width)
D2(s, r, c) == (s - 4 * c[1]) * (s - 4 * c[1]) + (r - 4 * c[2]) * (r - 4 * c[2])
InShell(s, r) == {c \in Shell(s, r) : D2(s, r, c) <= control.r * control.r}

average(s, r) ==
    LET cells == InShell(s, r)
    IN  IF cells = {} THEN <<Fill, 1>> ELSE <<Weighted([c \in cells |-> 1]), Cardinality(cells)>>

bilinear(s, r) ==
    LET cells == Around(s, r, 0, 1)
        w == [c \in cells |-> (4 - Dist(s, 4 * c[1])) * (4 - Dist(r, 4 * c[2]))]
    IN  IF Total(w) > 0 THEN <<Weighted(w), Total(w)>> ELSE <<Fill, 1>>

\* Weights are inverse squares, in units; at no distance the weight is infinite and
\* the value undefined; beyond the radius it is 0, and a sum of nothing but zeros is
\* written as it is.
distance(s, r) ==
    LET cells == InShell(s, r)
        w == [c \in cells |-> Unit \div D2(s, r, c)]
    IN  IF Shell(s, r) = {} THEN <<Fill, 1>>
        ELSE IF \E c \in cells : D2(s, r, c) = 0 THEN NotANumber
        ELSE IF cells = {} THEN <<0, 1>> ELSE <<Weighted(w), Total(w)>>

\* The coefficient, in 64ths, of the n-th of four rows or columns.
Coefficient(n, q) ==
    CASE n = 0 -> -q * (4 - q) * (4 - q)
      [] n = 1 -> 64 - 8 * q * q + q * q * q
      [] n = 2 -> 16 * q + 4 * q * q - q * q * q
      [] n = 3 -> -q * q * (4 - q)
cubic(s, r) ==
    LET cells == Around(s, r, -1, 2)
        at(x, i) == Coefficient(i - Trunc(x) + 1, x - 4 * Trunc(x))
        w == [c \in cells |-> at(s, c[1]) * at(r, c[2])]
    IN  IF cells = {} THEN <<Fill, 1>>
        ELSE <<Weighted(w), IF Total(w) = 0 THEN 4096 ELSE Total(w)>>

interpolate(p) ==
    CASE control.c = "N" -> nearest(p[1], p[2])
      [] control.c = "D" -> average(p[1], p[2])
      [] control.c = "B" -> bilinear(p[1], p[2])
      [] control.c = "C" -> cubic(p[1], p[2])
      [] control.c = "I" -> distance(p[1], p[2])
Answer(p) == [at |-> p, value |-> IF p = Off THEN <<Fill, 1>> ELSE interpolate(p)]

-----------------------------------------------------------------------------
Init ==
    /\ control \in CommandLines /\ from_data \in Files
    /\ input \in IF control.C \/ control.b THEN {<<>>} ELSE Inputs
    /\ ends \in IF input = <<>> THEN {TRUE} ELSE BOOLEAN
    /\ fails \in IF ends /\ ~control.C /\ ~control.b THEN BOOLEAN ELSE {FALSE}
    /\ row = 0 /\ pos = 0 /\ readln = Unread /\ phase = "rows" /\ written = <<>> /\ outside = {}

\* process_row_use_center: each cell is in or out of the bounds, or off the map.
\* Cells up to one off the map are written, then the program aborts.
CentreValue(c) == IF Within(Sample(c)) THEN Sample(c) ELSE Fill
Suppressed(c) == control.I /\ CentreValue(c) = Fill
Ascends(s) == \A i, j \in DOMAIN s : i < j => s[i] < s[j]
process_row_use_center(place) ==
    LET upto == Min({Cols} \cup {i \in 0 .. Cols - 1 : place[i] = "off"})
        out == {i \in 0 .. upto - 1 : ~Suppressed(<<row, i>>) /\ place[i] = "in"}
        cell(i) == [at |-> <<row, i>>, value |-> <<CentreValue(<<row, i>>), 1>>]
    IN  /\ \E column \in [1 .. Cardinality(out) -> out] :
            /\ Ascends(column) /\ Range(column) = out
            /\ written' = written \o [n \in DOMAIN column |-> cell(column[n])]
        /\ outside' = outside \cup {<<row, i>> : i \in {k \in 0 .. upto - 1 : place[k] = "out"}}
        /\ phase' = IF upto < Cols THEN "abort" ELSE IF row + 1 = Rows THEN "exit" ELSE "rows"

ReadRow ==
    /\ phase = "rows" /\ ~control.C
    /\ row' = row + 1
    /\ phase' = IF row + 1 = Rows THEN "points" ELSE "rows"
    /\ UNCHANGED <<control, from_data, input, ends, fails, pos, readln, written, outside>>

ReadRowCentres ==
    /\ phase = "rows" /\ control.C
    /\ \E place \in [0 .. Cols - 1 -> {"in", "out", "off"}] : process_row_use_center(place)
    /\ row' = row + 1
    /\ UNCHANGED <<control, from_data, input, ends, fails, pos, readln>>

ShortFile ==
    /\ phase = "rows"
    /\ phase' = "abort"
    /\ UNCHANGED <<control, from_data, row, input, ends, fails, pos, readln, written, outside>>

TurnSkips(line, eof) ==     \* mutant of Turn: a line that cannot be parsed skips the test
    /\ readln' = line
    /\ \E p \in IF line = Unread THEN {Off, Garbage} ELSE {line} :
        written' = IF p = Garbage \/ eof THEN written ELSE Append(written, Answer(p))
    /\ phase' = IF eof /\ line # Garbage THEN "exit" ELSE "points"
    /\ UNCHANGED <<control, from_data, row, input, ends, fails, outside>>

\* One turn of the loop with the line in memory, which the turn before left there
\* if nothing was read; what an unread buffer holds is not known.  The test for
\* the end comes after the reading of a line, before the line is used.
Turn(line, eof) ==
    /\ readln' = line
    /\ \E p \in IF line = Unread THEN {Off, Garbage} ELSE {line} :
        written' = IF p = Garbage \/ eof THEN written ELSE Append(written, Answer(p))
    /\ phase' = IF eof THEN "exit" ELSE "points"
    /\ UNCHANGED <<control, from_data, row, input, ends, fails, outside>>

\* Whether the end has been met once line n is read: a newline hides it.
MetEndEarly(n) == n >= Len(input)      \* mutant of MetEnd
MetEnd(n) == n > Len(input) \/ (n = Len(input) /\ ~ends)

ReadPoint ==
    /\ phase = "points" /\ ~binary /\ pos < Len(input)
    /\ pos' = pos + 1
    /\ Turn(input[pos + 1], MetEnd(pos + 1))

ReadEnd ==
    /\ phase = "points" /\ ~binary /\ pos = Len(input) /\ ~fails
    /\ pos' = pos
    /\ Turn(readln, MetEnd(pos + 1))

\* A failed read is not the end: the line before it is answered again, for ever
\* (once in the model).
ReadFails ==
    /\ phase = "points" /\ ~binary /\ pos = Len(input) /\ fails
    /\ pos' = pos + 1
    /\ Turn(readln, FALSE)

\* -b: points are read from what the data file holds beyond its rows, then the
\* last one is used again; the loop waits for the end of an input it never reads.
ReadBinary ==
    /\ phase = "points" /\ binary
    /\ Len(written) < 1
    /\ \E p \in {<<0, 0>>, Off} : written' = Append(written, Answer(p))
    /\ UNCHANGED <<control, from_data, row, input, ends, fails, pos, readln, phase, outside>>

ReadBinaryAgain ==
    /\ phase = "points" /\ binary
    /\ Len(written) = 1
    /\ UNCHANGED ungridVars

Next ==
    \/ ReadRow \/ ReadRowCentres \/ ShortFile
    \/ ReadPoint \/ ReadEnd \/ ReadFails \/ ReadBinary \/ ReadBinaryAgain

\* Fairness: the program runs on until it exits.
Spec == Init /\ [][Next]_ungridVars /\ WF_ungridVars(Next)

-----------------------------------------------------------------------------
\* The types of the variables.
TypeOK ==
    /\ row \in 0 .. Rows /\ pos \in 0 .. Len(input) + 1
    /\ phase \in {"rows", "points", "exit", "abort"}
    /\ readln \in Range(input) \cup {Unread} /\ outside \subseteq Cells

\* The answers are those to the lines with a point among the first n, in their order.
Answered(n) ==
    \E line \in [1 .. Len(written) -> 1 .. n] :
        /\ Ascends(line) /\ Range(line) = {k \in 1 .. n : input[k] # Garbage}
        /\ \A i \in 1 .. Len(written) : written[i].at = input[line[i]]
complete == IF ends THEN Len(input) ELSE Len(input) - 1

AtPoints ==
    ~(fails /\ pos > Len(input)) =>
        /\ Answered(Min({pos, complete}))
        /\ phase = "exit" => pos >= complete
Before(a, b) == a[1] < b[1] \/ (a[1] = b[1] /\ a[2] < b[2])
AtCentres ==
    /\ \A i, j \in 1 .. Len(written) : i < j => Before(written[i].at, written[j].at)
    /\ phase # "abort" => {written[i].at : i \in 1 .. Len(written)} = {c \in Cells \ outside : c[1] < row /\ ~(control.I /\ CentreValue(c) = Fill)}

\* The output is in order and complete.  The n-th line answers the n-th line of input
\* that can be parsed, and when the program ends every such line has been answered,
\* except a last line without a newline.  (A read that fails repeats the last
\* answer.)  With -C every cell of the rows read is written once, in the order of
\* the file, unless it is out of the bounds, or -I is given and the cell is missing
\* or beyond the limits; even if a later row makes the program abort.
OutputInOrder == IF control.C THEN AtCentres ELSE binary \/ AtPoints

\* Values that a cell within the limits has, among those the methods look at.
Close(a, b) == Dist(a, b) <= 8 \/ Dist(a, b) <= control.r
Candidates(p) ==
    {Sample(c) : c \in {x \in Cells : /\ Close(4 * x[1], p[1]) /\ Close(4 * x[2], p[2])
                                      /\ Sample(x) \in control.n .. control.x}}

\* Interpolation stays between the data it is made from and never uses a value
\* beyond the limits: an answer is the fill value or lies between the smallest and
\* the largest valid value near the point.  Excepted are cubic convolution, whose
\* weights are negative, the half cell before the first row or column, where
\* bilinear extrapolates, and inverse distance where it divides by 0 at a center
\* or, with no cell in the radius, answers 0.
AnswerBetween(a) ==
    \/ a.value \in {NotANumber, <<Fill, 1>>}
    \/ control.c = "I" /\ InShell(a.at[1], a.at[2]) = {}
    \/ control.c = "C"
    \/ control.c = "B" /\ (a.at[1] < 0 \/ a.at[2] < 0)
    \/ \E low, high \in Candidates(a.at) :
        /\ low * a.value[2] <= a.value[1] /\ a.value[1] <= high * a.value[2]
UngridBetween ==
    ~control.C => \A a \in Range(written) : a.at # Off => AnswerBetween(a)

\* The program ends, whatever is on standard input, unless reading it fails or -b
\* is given.
Ends == (~binary /\ ~fails) => <>(phase \in {"exit", "abort"})

\* ungrid.c:33: "binary float stdin and stdout": like the text mode, the binary mode
\* ends when its input does.
BinaryEnds == binary => <>(phase \in {"exit", "abort"})

-----------------------------------------------------------------------------
(***************************************************************************)
(* The inductive invariant from which the safety properties follow.        *)
(***************************************************************************)
Started ==
    /\ control \in CommandLines /\ from_data \in Files
    /\ input \in Seq(InputLines) /\ (input = <<>> => ends)
    /\ ends \in BOOLEAN /\ fails \in BOOLEAN /\ (fails => ends)
    /\ written \in Seq(Range(written))

\* With -C: the rows read so far are written, the one of this step is to come.
Centres ==
    /\ phase # "points"
    /\ \A c \in outside : c[1] < row
    /\ \A i \in 1 .. Len(written) : written[i].at \in Cells /\ written[i].at[1] < row
    /\ AtCentres

\* In text mode the end is met no later than after the last line.
Text ==
    /\ phase \in {"rows", "abort"} => pos = 0 /\ written = <<>>
    /\ phase = "points" => pos <= complete \/ (fails /\ pos > Len(input))
    /\ AtPoints

IInv ==
    /\ TypeOK /\ Started
    /\ phase = "rows" => row < Rows
    /\ control.C => Centres
    /\ ~control.C /\ ~binary => Text
    /\ UngridBetween
===============================================================================
