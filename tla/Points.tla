-------------------------------- MODULE Points --------------------------------
(***************************************************************************)
(* The programs that read and write points: src/src/ungrid.c, which reads  *)
(* a grid at points, src/src/irregrid.c, which makes one from values at    *)
(* points, and src/src/wdbtocdb.c, which makes segments of the points of   *)
(* coastlines.  They share no state; this is where their properties have   *)
(* the names that the run checks and the proofs use.                       *)
(***************************************************************************)
EXTENDS Integers, Sequences

CONSTANTS Rows, Cols, Files, CommandLines, Fill, Inputs, Off, Garbage, Unread, Unit, NotANumber
CONSTANTS Lines, MaxLines, Methods, Radii, Fills, IMPOSSIBLY_LARGE
CONSTANTS Q, Cell, Half, Sources, Areas, Missing, MaxRay, SimpleOver, Gaps, Detail, RankVectors, NanLats

VARIABLES control, from_data, row, input, ends, fails, pos, readln, phase, written, outside
VARIABLES method, shell_radius, fill, lines_processed, from, to_data, to_data_beta,
          to_data_num_pts, stage, data_file, npts_file, used
VARIABLES sources, area, gapin, rank_string, file, place, item, lat, lon, rank, pen, cdb, state,
          lines, curves

ungridVars == <<control, from_data, row, input, ends, fails, pos, readln, phase, written, outside>>
irregridVars == <<method, shell_radius, fill, lines_processed, from, to_data, to_data_beta,
                  to_data_num_pts, stage, data_file, npts_file, used>>
wdbVars == <<sources, area, gapin, rank_string, file, place, item, lat, lon, rank, pen, cdb, state, lines, curves>>

Ungrid == INSTANCE Ungrid
Irregrid == INSTANCE Irregrid
WdbToCdb == INSTANCE WdbToCdb

ASSUME PointsAssumption == Ungrid!UngridAssumption /\ Irregrid!IrregridAssumption
ASSUME WdbToCdbHolds == WdbToCdb!WdbToCdbAssumption

\* Properties of Ungrid.
OutputInOrder == Ungrid!OutputInOrder
UngridBetween == Ungrid!UngridBetween

\* Properties of Irregrid.
GriddedFromLines == Irregrid!GriddedFromLines

\* Properties of WdbToCdb.
LinesKept == WdbToCdb!LinesKept
FileSound == WdbToCdb!FileSound
NoneCrosses == WdbToCdb!NoneCrosses
LinesDrawnToTheEnd == WdbToCdb!LinesDrawnToTheEnd
===============================================================================
