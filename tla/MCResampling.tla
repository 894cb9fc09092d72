----------------------------- MODULE MCResampling -----------------------------
(***************************************************************************)
(* Small instances of Resamp and Regrid for TLC.  A behaviour is one of    *)
(* either program, the other one never starts.                             *)
(***************************************************************************)
EXTENDS Resamp

CONSTANTS OutCells, Input, RowSpots, ColSpots, Samples, Fills, DatumLow, DatumSize, MaxRuns, Absent, Short

VARIABLES kind, with_z, regrid_ignore_fill, regrid_fill, data_file, beta_file, step, preload_data, to_data, to_beta,
          runs, given, lost

regridVars == <<kind, with_z, regrid_ignore_fill, regrid_fill, data_file, beta_file, step, preload_data, to_data, to_beta, runs, given, lost>>

Regrid == INSTANCE Regrid WITH ignore_fill <- regrid_ignore_fill, fill <- regrid_fill

ASSUME AssumptionsHold == Regrid!RegridAssumption

\* The program that does not start is in this state.
ThisLine == CHOOSE o \in CommandLines : TRUE
noRegrid == runs = 0 /\ kind = "bilinear" /\ ~with_z
noResamp == phase = "open" /\ opts = ThisLine

MCInit == Init /\ Regrid!Init /\ (noRegrid \/ noResamp)
MCNext ==
    \/ noRegrid /\ Next /\ UNCHANGED regridVars
    \/ noResamp /\ Regrid!Next /\ UNCHANGED vars
MCSpec == MCInit /\ [][MCNext]_<<vars, regridVars>>

-----------------------------------------------------------------------------
MCValues == {-3, 1}
MCMask == -3
MCSpots == {-1, 0, 2, 5}

\* Every method, by itself and chosen automatically, for data and for a mask,
\* with and without the fill value ignored, and the refused combinations.
Line(m, c, i, g) == [m |-> m, c |-> c, i |-> i, grids |-> g]
MCCommandLines ==
    {Line(m, c, i, "other") : m \in {"none", "one"}, c \in {"N", "D", "B", "M"}, i \in BOOLEAN}
    \cup {Line(m, c, TRUE, "shrunk") : m \in {"none", "one"}, c \in {"M", "R", ""}}
    \cup {Line("none", "R", FALSE, "shrunk"), Line("two", "B", TRUE, "other"),
          Line("two", "", FALSE, "coarser"), Line("none", "", FALSE, "coarser"),
          Line("none", "", FALSE, "other"), Line("one", "N", FALSE, "identical")}

\* An input of two rows with values between -2 and 3, distances below a diagonal
\* of half a cell, and a fill that the data type does not hold.
MCRowSpots == {-1, 2, 5}
MCColSpots == {0, 1}
MCInput == [c \in {0, 1} \X {0} |-> IF c[1] = 0 THEN 3 ELSE -2]
MCSamples == {<<0, 3>>, <<5, -2>>, <<7, 1>>}
MCFills == {3, 9}
MCDatumLow == -4

\* Properties of Regrid; those of Resamp have their own names.
RunsAddUp == Regrid!RunsAddUp
OneValueKept == Regrid!OneValueKept
=============================================================================
