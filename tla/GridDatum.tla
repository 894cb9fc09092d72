------------------------------ MODULE GridDatum ------------------------------
(***************************************************************************)
(* The data grid_io.c stores, shared by the abstract store (GridStore) and *)
(* the paged buffer (GridIO): the cells of the grid, the values a datum    *)
(* can take, and the conversion of a caller's double into a datum.         *)
(***************************************************************************)
EXTENDS Integers

CONSTANTS
    Height, Width,      \* dimensions of the grid, in cells
    DatumMin, DatumMax, \* range of the datum type (int1 .. byte4)
    Inputs,             \* doubles a caller may store, in half units
    Undef               \* "nothing is known about this cell"

ASSUME GridAssumption ==
    /\ Height \in Nat \ {0}
    /\ Width \in Nat \ {0}
    /\ DatumMin \in Int /\ DatumMax \in Int
    /\ DatumMin <= 0 /\ 0 <= DatumMax
    /\ Inputs \subseteq Int
    /\ Undef \notin Int

Rows  == 0 .. Height - 1
Cols  == 0 .. Width - 1
Cells == Rows \X Cols
Datum == DatumMin .. DatumMax

\* Assigning a double to an integer lvalue drops the fraction.  The input x
\* counts half units, so that 3 stands for 1.5 and -1 for -0.5.
Truncate(x) == IF x >= 0 THEN x \div 2 ELSE -((-x) \div 2)

\* The data an assignment of x can leave behind: out of range is undefined
\* behaviour in C, so any datum may result.
Encodings(x) == IF Truncate(x) \in Datum THEN {Truncate(x)} ELSE Datum

\* The bounds check at the head of get_element_grid_io and put_element_grid_io.
InGrid(row, col) == row \in Rows /\ col \in Cols

\* Where an operation's reads and writes go: the file named by the caller, or
\* the unlinked temporary file of grid_io_TEMPORARY.
Objects     == {"named", "anon"}
Modes       == {"READ_ONLY", "WRITE", "UPDATE", "TEMPORARY"}
ObjectOf(m) == IF m = "TEMPORARY" THEN "anon" ELSE "named"

\* What an operation returns; a get also says of which cell the value is.
Replies == [ok : BOOLEAN, cell : Cells \cup {Undef}, value : Datum \cup {Undef}]
Failed  == [ok |-> FALSE, cell |-> Undef, value |-> Undef]
Done    == [ok |-> TRUE, cell |-> Undef, value |-> Undef]
Read(cell, v) == [ok |-> TRUE, cell |-> cell, value |-> v]
=============================================================================
