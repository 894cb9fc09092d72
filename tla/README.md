# A TLA+ verification of mapx

mapx is NSIDC's library of map projections and grids, with programs that
resample gridded data and build and draw coastline databases. It is sequential
C; what makes it hard is not concurrency but state that outlives the call that
made it: a buffer that shows one block of a file, an index that claims an order,
memory that is copied verbatim, bounds that are normalised in place, files that
one run of a program leaves for the next, and the error paths of each.

The modules here are translated from the C code under `src/src/`. Every
definition that stands for code is listed with its lines in `PROJECT.json`
("map"). Line numbers below are of files in `src/src/`.

Contents: 1 the system, 2 the modules, 3 the runs, 4 the proofs, 5 what the
code does otherwise than its comments say, 6 what is not modelled, 7 the plan.

## 1. The system

| component | state it keeps | operations | interacts with |
|---|---|---|---|
| `grid_io.c` paged grid files | file, mode, one buffer of rows and its extent, stdio's error flag | init, get, put, fill, close | `resamp` (input, output, accumulators) |
| `cdb.c` index and drawing | index and its claimed order, current segment, bounds of the walk | sort, find, draw | `mapenum`, `cdb_edit`; calls the client's pen |
| `cdb.c` instances | header, index and data buffer in memory, the function that reads segments | init, copy, free, load all, load current | `cdb_list`, `mapenum`, `cdb_edit` |
| `cdb_edit.c` | three output files in turn, the open segment | clip, join, thin, sort | reads and writes coastline files through `cdb.c` |
| `mapx.c` maps | public parameters, private constants derived from them | new, init, reinit, within, forward, inverse, close | every program; one projection each |
| projections | constants in the map | initialise, forward, inverse | called through pointers in the map |
| `grids.c` grids | a map, a size and a linear scale | init, new, forward, inverse, close | `resamp`, `regrid`, `ungrid`, `irregrid`, `gridloc` |
| `keyval.c` labels | none | read a label, find a keyword, decode a value | `mapx.c`, `grids.c` |
| `maps.c` | none | graticule, spherical geometry, search path, degrees as text | `mapenum`, `cdb_edit`, `mapx.c`, `grids.c` |
| `resamp.c` | accumulator grids in temporary files | drop-in-the-bucket, distribution, bilinear, nearest, minification, reduction | `grid_io.c`, `grids.c` |
| `regrid.c` | data and weight files kept from run to run | six kernels, preload, normalise, write | `grids.c`, `matrix.c` |
| `ungrid.c` | rows in memory, the line last read | values at points or at centers of cells, five methods | `grids.c`, `matrix.c` |
| `irregrid.c` | sums, weights and counts by cell, the numbers of the line last scanned | points into cells, four methods, two output files | `grids.c`, `matrix.c` |
| `wdbtocdb.c`, `wdbpltc.c` | the line so far, the open segment, the index | read records cell by cell, cut lines at the area, thin, split at 180, store strokes | writes what `cdb.c` reads |
| `matrix*.c`, `svd.c`, `lud.c`, `?model.c` | none | linear systems and fits | `irregrid`, models |
| `mapenum.c`, `cdb_list.c`, `gridloc.c` | none | drawing and listing programs | all of the above |

There are no threads and no messages. The interleavings are those of calls: a
client may make the calls of a component in any order, several handles may be
open, and `draw_cdb` calls back the client's pen. The failures are those of
stdio and of malloc, at any of their calls, and programs that exit without
closing.

What makes each part correct, in a sentence each:

- *grid_io*: a client cannot tell the buffer from a grid in memory, and an
  error or an exit costs no more than the block in the buffer.
- *cdb drawing*: every segment that overlaps the window is drawn, and little
  else, whatever the order of the index and however the window wraps.
- *cdb instances*: no instance reads or frees the memory of another.
- *cdb_edit*: no coastline is lost or drawn twice, ends are joined where they
  meet, and the result is a file that `draw_cdb` can rely on.
- *mapx*: the window, the graticule and the coastlines of a map agree with the
  bounds the client set, however often the map is re-initialised.
- *labels, maps and grids*: a label means the values written in it, what is
  allocated on any path is freed once, and a location taken to a grid and back is
  the same.
- *resamp*: means and percents are as good as the rounding they are made with,
  whatever the order of the cells, and a cell without data says so.
- *regrid*: many runs over the two files come to one sum over all inputs.
- *ungrid, irregrid*: answers are in the order of the points and made of the data
  near them, and each program ends.
- *wdbtocdb*: no point of a line is lost or drawn twice, and the index holds the
  lines that are drawn.

`PROJECT.json` ("hazards") lists what can go wrong in each, at its line,
with the properties that would catch it.

## 2. The modules

| module | models | main state |
|---|---|---|
| `GridDatum` | sizes, cells, modes and the conversion of doubles to cells | - |
| `GridStore` | abstract: what `grid_io.h` promises | `store`, `mode`, a running fill |
| `GridIO` | `grid_io.c` | `files`, `data`, `start_row`, `final_row`, `num_rows`, `ferr` |
| `CdbDraw` | sort, find and draw of `cdb.c` | `index`, `index_order`, `segment`, `drawing`, `drawn` |
| `CdbBuffer` | instances and data buffers of `cdb.c` | `block`, `heap`, `holds`, `get_data`, `is_loaded` |
| `CdbEdit` | the passes of `cdb_edit.c` | `phase`, `source`, `pos`, `dest`, `pen`, `files` |
| `Mapx` | bounds and origin of a map, and who reads them | `west`, `east`, `map_stradles_180`, `x0`, `u0` |
| `Keyval` | `keyval.c`, and `next_line_from_buffer` for old labels | - |
| `Isin` | tables, forward and inverse of the integerized sinusoidal projection | - |
| `MapLife` | labels, life cycle and transformations of maps and grids | `heap`, `map`, `grid`, `lost` |
| `Resamp` | one run of `resamp.c` | `opts`, `method`, `to`, `pitb`, `count`, `total`, `bins` |
| `Regrid` | several runs of `regrid.c` | `data_file`, `beta_file`, `to_data`, `to_beta`, `given` |
| `Ungrid` | one run of `ungrid.c` | `input`, `pos`, `readln`, `written` |
| `Irregrid` | one run of `irregrid.c` | `from`, `to_data`, `to_data_beta`, `to_data_num_pts` |
| `WdbToCdb` | one run of `wdbtocdb.c` with `wdbpltc.c` | `place`, `pen`, `cdb`, `lines`, `curves` |
| `Points` | the programs that read and write points, `Ungrid`, `Irregrid` and `WdbToCdb`, side by side | - |
| `GridIOProofs`, `CdbDrawProofs`, `CdbBufferProofs`, `CdbEditProofs` | theorems of the module they are named after | - |
| `MapxProofs` | theorems of `Mapx`, of `MapLife` and of `Isin` in it | - |
| `ResampProofs`, `PointsProofs` | theorems of `Resamp` and `Regrid`, of `Ungrid`, `Irregrid` and `WdbToCdb` | - |
| `SumProofs` | theorems about finite sums, least elements and loops over sequences, used by the three above and `CdbEditProofs` | - |
| `MC*` | instances for TLC | - |

How they correspond to the code:

**GridIO.** One action per outcome of an entry point: `get_element` for a get
that returns TRUE, `OutOfBounds` and `ExchangeFails` for those that return
FALSE. `exchange_row_buffer` is given by values (`Written`, `Loaded`, `MoveTo`)
since get, put, fill and close all make it part of their step. Its two failures
are separate, because they leave different members behind: `FlushFails` leaves
the buffer as it was, `LoadFails` has already changed `num_rows`. fwrite and
fread may stop after any number of rows. A fill is one step per block, so that it
may fail between blocks. `shadow` is a history variable: what the client last
stored in each cell and may rely on; `Undef` is a cell nobody stored.
Files are counted in whole rows.

**GridStore.** The same operations on a grid of cells with no buffer. `GridIO`
implements it (`Refines`), with `shadow` as the store. A cell that is `Undef`
reads as anything: that is what a short file or a lost block gives. Losing the
buffer, whether by an exit, by a close whose write fails or by an open whose
preload fails, is the action `Abandon`, or a refused operation.

**CdbDraw.** `Begin` is `draw_cdb` up to its first loop: the sort, the widening
by the header's extent, the split at 180 degrees and the search. After it there
is one action per segment drawn, so that the pen may fail at any of them. qsort
may leave equal keys in any order (`SortedBy`) and bsearch may return any entry
its comparator accepts (`Found`). Orders by decreasing bound are the increasing
ones mirrored. `Grain` integers are one stored unit, so that a client's bound may
lie between two stored values.

**CdbBuffer.** Memory is a set of addresses; a new block may take any free one
and realloc may move. What a buffer holds is one segment, all of them, or
nothing that can be relied on. `copy_of_cdb` copies the whole instance first,
as the code does, and the model says which members it replaces afterwards.

**CdbEdit.** The passes of `main` in their order, each an action per segment.
A segment is its strokes as stored, so the rounding of `nint` and the width of
`int2` are in the model; `parts` and `joints` are history: the source segments a
segment was drawn from, and the pairs of ends that were joined. The search for
the best candidate is a choice of the nearest pair of ends, first in the order of
the code.

**Mapx.** `reinit_mapx` with its early return and its failure after the bounds
were changed, clients that set public members between calls, and the three
readers of the bounds: `within_mapx`, `draw_graticule`, and the call of
`draw_cdb` in `mapenum`. A projected position is the parameters it was
projected with. Its coastlines rest on `CdbDraw`: `DrawnArc` is what
`DrawComplete` promises for the bounds passed.

**Keyval, Isin, MapLife.** A label is a sequence of tokens: separators are single
characters, a keyword is one token or several, so that it may be found inside a
longer one, in a comment or behind a value, as the substring search of the code
does. A label of the old format is read line by line (`LineAt`), and a blank line takes
the rest of it along, as in the code. `MapLife` has one action per call: `InitMapx` and `InitGrid` with a name and a
fault, `ReinitMapx` and `ReinitGridMapx` by clients that changed members, and the
two closings. Each is computed as the code goes, over a heap and an object: every
allocation and every clean-up of a failing path is one step of an expression, and
a resource is a kind, the member that is to hold it, and a number, so that freeing twice
shows. What lies behind
the end of a label, and what an uninitialised number holds, are choices.
Transformations are exact: angles in units of 15 degrees, coordinates as fractions.
How many columns a row of `Isin` has is a constant, as it rests on a cosine.

**Resamp.** The loop visits the cells of the input in the order of the file; what
value a cell holds and where it falls in the output are chosen when it is visited. The
methods that loop over the output instead are `BilinearStep`, `Sample` and
`ReductionStep`. A put may fail, between the two accumulators too. `took` is
history: the values each cell was made from. `torn` are cells of which one of two
puts failed.

**Regrid.** A behaviour is a sequence of runs of the program with the same
method. Each step of a run is an action, so a run may be aborted between any two and
either write may fail half way. What an input gives a cell is a share, a weight and a
weighted sum; `given` is history: the sum of all shares of the runs that completed.
The cells do not influence each other, so the runs have one.

**Ungrid, Irregrid.** One action per line of input. What the code reads and does
not check is in the model: `readln` is the line in memory, which a failed fgets leaves
as it was, and `from` the three numbers of which a bad line sets only the first.
`Answer` is the value of a method as an exact fraction, in quarters of a cell; the
limits, the signed or unsigned reading of a byte and the fill value are those of the
code.

**WdbToCdb.** `PlotRecord` is one record of a cell: its points go through `pltpro`,
which clips, changes rank, thins and calls `curve`, and through the split at 180
degrees into strokes. Angles are exact integers, `Q` of them one stroke unit, so
rounding of each stroke, of the origin and of the bounds in the index are told apart.
`lines` is history: the lines of the sources that lie inside the area.

`GridIO` is composed with its abstract specification by `INSTANCE`; the parts
of the coastline tools meet in a file, and the interface is stated on both sides:
`ReadyToDraw` of `CdbEdit` is what `IndexHonest` and the extents of `CdbDraw`
take for granted; `FileSound` of `WdbToCdb` is the same for a new file.
`MapLife` uses `Keyval` and `Isin` as the code uses their functions. `MCMapx`,
`MCResampling` and `MCPoints` put independent programs into one state space each,
of which a behaviour runs one: their assumptions and properties are taken over by
`INSTANCE`.

## 3. The runs

| run | instance | shows | distinct states |
|---|---|---|---|
| `grid_io` | 3 rows in blocks of 2, every file and mode; write errors | `Refines`, `Coherent`, `BlockShape`, `OnlyBufferLost` | 386,476 |
| `grid_io_all_errors` | the same; read errors too; clients that write READ_ONLY handles | `TypeOK`, `ReadOnlyUntouched`, `ErrorPinsBuffer` | 1,094,464 |
| `cdb_draw` | every file of 3 out of 9 intervals; every window | `DrawComplete`, `DrawTight`, `IndexHonest`, `SearchSucceeds`, `DrawEnds` | 804,455 |
| `cdb_buffer` | 2 handles, 5 blocks, 2 segments; every failure | `Owned`, `LoadedHoldsAll`, `Independent` | 277,155 |
| `cdb_edit` | up to 3 of 7 paths and a single point in one or two files, 6 maps, all options | `AtMostOnce`, `OnlyLastLost`, `JointsNear`, `ReadyToDraw`, `ClipKeeps` | 847,844 |
| `mapx` | bounds in steps of 30 degrees, legal and one step beyond; 26 label files, every fault, two calls and closings | `WindowRight`, `GraticuleMatches`, `CoastlinesCover`; `Owned`, `FieldsRead`, `CellsComeBack`, `IsinComesBack` | 7,646 |
| `resampling` | `Resamp`: 2 by 4 cells into 1 by 2, every method and option; `Regrid`: up to 3 runs, every kernel, aborts and torn writes | `MeanNear`, `PercentsAddUp`, `EmptyTold`, `Between`; `RunsAddUp`, `OneValueKept` | 587,676 |
| `points` | `Ungrid`: grids of 2 by 3, inputs of up to 3 lines, every method; `Irregrid`: up to 3 lines, every method; `WdbToCdb`: sources with lines of up to 5 points, 4 areas | `OutputInOrder`, `UngridBetween`, `Ends`; `GriddedFromLines`; `LinesKept`, `FileSound`, `NoneCrosses` | 201,869 |

The four runs of section 5 find the code in disagreement with its text.
Each property of a passing run has a mutation of the code, defined
beside the original in the module, that violates it.

**Bounds, and why they are enough.**

- *GridIO*: two blocks, the second one cut short by the last row, are the
  smallest grid in which an exchange, a short block and an alignment can go wrong.
  A further block behaves like the second. One column: the columns of a row are
  moved together everywhere. Two data, one of them the zero that files grow by.
  The theorems remove all of these bounds.
- *CdbDraw*: a walk can go wrong at the first entry, the last one, or one between;
  the comparators look at one neighbour. Three segments have all of these, and
  equal keys among them. 180 degrees are two stored units of two integers each:
  bounds at, beyond and between stored values, and both ends of the
  globe, occur in every combination. The number of draws of a segment is capped
  at three; two is the most any call reaches.
- *CdbBuffer*: two handles are an original and its copy; five addresses are
  what two instances own and one more to move a buffer to.
- *CdbEdit*: three segments are one open, one joined and one left over. The
  paths meet end to end in each of the four ways, at Greenwich and at 180
  degrees. 180 degrees are 20 units and strokes hold 16, so that a stroke can
  overflow as one of 32 degrees does in the code.
- *Mapx*: all that `reinit_mapx` does with bounds is compare, subtract a turn
  and normalise. The theorems hold for any step.
- *MapLife*: two calls are a map that is made and initialised again, or a map and
  a grid, whose resources could be mixed up; what three calls add is a third state of
  the same objects. A label may be complete, lack a field, hold fields twice, hold
  comments and words that look like fields, embed a map in a grid, be of the old format
  or end in the middle; every allocation may fail. A half turn is 12 units, so that
  a latitude of 60 degrees, whose cosine is exact, is 4. Rows of `Isin` are 2 to 8
  in number where the code allows up to 360 * 3600; all that their
  arithmetic does is divide by the number of rows and columns.
- *Resamp*: eight input cells fall into two buckets in every way. Values of -3 and 1
  have means that are no integers, of both signs. *Regrid*: a third run meets data that
  were normalised twice. The data type holds 8 values, so that casts wrap.
- *Ungrid*: points at a center, between centers, before the first row or column and
  past the last one. *Irregrid*: three lines let one be scanned in part after another
  and a third follow. *WdbToCdb*: a line is cut after 3 points instead of 511, so that
  one of five points is cut and goes on.

**Fairness.** Two loops have it. `CdbDraw` states weak fairness of the loop of
`draw_cdb`, which runs on its caller's thread and waits for nothing: a pen need not ever
succeed or fail, clients need not call. `DrawEnds` then says that the walk ends.
`Ungrid` states it of the whole program: a process that reads a finite input is
scheduled until it exits. `Ends` says it does, for every input, unless reading
fails or `-b` is given, and the run `ungrid_binary` that with `-b` it does not.
Everything else is safety, of calls that return because they have no loop but
over finite data.

**Deadlock** is checked for `GridIO`. The other runs allow it: their
systems stop, by an exit of the program (`cdb_edit`, `resamp`, `ungrid`, `irregrid` and
`wdbtocdb` done or aborted), in a crash the model shows, or, in the runs `mapx` and
`resampling`, when the bound on calls (`MaxCalls`) or on runs (`MaxRuns`) is reached.

**Limits stated in the properties.** A property that says less than one would
wish says so where it is defined; these are the places.

- `Coherent`, `Refines` and `OnlyBufferLost` are for clients that put and fill
  only handles opened to write (`Disciplined`), and without read errors.
  `put_element_grid_io` returns TRUE on a READ_ONLY handle, and the value is gone
  at the next exchange; after a read error the assertion of section 5 fails.
- `Overlaps` of `DrawComplete` begins one stored unit into the window: the key
  of the search is truncated to whole units. For a window of a whole circle that
  begins below 0 and between two stored values, this loses more: the key is the
  value above, the search stops at the last of the segments that begin there, and
  the others are never drawn, although `draw_cdb` "draws all segments within bounds"
  (`cdb.c:840`) and every segment is.
- Windows are those `mapenum` passes (`DrawAssumption`): in the two orders by longitude
  the bound the search starts from lies within half a turn of Greenwich and the
  other is not below -180 (`mapenum.c:102`).
- `ClipKeeps` leaves out maps that begin west of Greenwich and pass 180 degrees,
  whose segments are shifted beyond their east bound, and segments that touch a map
  which ends at 180 degrees from the other side only: of a map from 0 to 180 one
  that begins at -180 is not kept. Source files have their longitudes in order and
  within half a turn of Greenwich (`EditAssumption`). It asks
  that a segment which only overlaps the map is kept, which is what the code
  does; the comment over it (`cdb_edit.c:773`) speaks of segments completely
  within the map.
- `WindowRight` and `CoastlinesCover` except the two cases of `Misread`: a
  west bound beyond 180 with an east bound that is not, which gives the whole
  circle, and a whole circle from anywhere but -180, which shrinks to one meridian
  when the map is initialised a second time. No map of the repository has either.
- `Owned` ends where `copy_of_cdb` fails to open the file again and frees the
  memory of the original (state "dangling"): after that nothing can be promised.
- `Owned` of `MapLife` names in `Accounted` what is lost: a field looked for in a
  label of the old format (`mapx.c:498`), the name and the file of a grid that could
  not be read (`grids.c:80` and `:88`), and the tables of a map initialised again
  (`integerized_sinusoidal.c:17`).
- `FieldsRead` is about labels with a value behind each keyword. An empty one
  takes the next line that is not blank for its value (`keyval.c:202`), and a number that
  cannot be read leaves 0. It speaks of the first initialisation: the zone of a UTM map
  stays what it was when the client changes the reference longitude, since the
  zone is derived only while it is 0.
- `CellsComeBack` is about cells less than half the globe from the map's origin
  (`WithinReach`) and maps with a second latitude of 0 (`Fitting`): `new_grid` takes the
  wrap of columns to be symmetric to the origin and at scale 1. In a grid whose map
  has its origin at its left edge, the eastern half is not found again.
- `IsinComesBack` leaves out the border of two rows, where the inverse may choose the
  northern one, and the edge of the map, where rounding may lead outside.
- `MeanNear` allows what rounding after every value comes to; negative means move
  towards zero, since nint takes a negative whole number one up (`define.h:40`), and
  the average of a single -3 is -2. `EmptyTold` names the two methods that do
  otherwise. `Between` excepts cells before the first row or column, where bilinear
  extrapolates. Cells of which one of two stores failed are left out.
- `RunsAddUp` says nothing of cells whose weights cancelled or whose mean was beyond
  the data type, and ends when a write failed: the next run multiplies the data by
  weights that do not belong to them. A first `-z` run that is aborted leaves an
  empty weight file, at which every later run is aborted too: safe, and stuck until the
  file is removed.
- `OneValueKept` states what nearest neighbor does: the last input wins. The
  comment over it (`regrid.c:746`) has the nearest one win, but the code stores the
  distance plus one and compares a bare distance with it.
- `OutputInOrder` leaves out a last line without a newline, which is dropped, and a
  read that fails, which repeats the last answer for ever. `UngridBetween` leaves out
  cubic convolution, whose weights are negative, the half cell before the first row
  or column, and inverse distance at a center, where it divides by 0.
- `GriddedFromLines` takes a line as it was scanned: one of which only the first number
  can be read has the others of the line before. Weights of 0 leave the fill value.
- `LinesKept` states that the last point of a line is not drawn (section 5).
  `FileSound` excepts a file in which a point at -180 came before one to the west of it:
  the point is taken for 180 and the stroke split again, 0 divided by 0 (`odd`). Strokes
  may drift by half a unit to one side and one and a half to the other for each stroke.
  `NoneCrosses`, which depends on the data of the sources (section 4), excepts the same.
- Segments dropped by `join_map`'s walk, which ends before the last one
  (`cdb_edit.c:991`), are named in `OnlyLastLost`. `JointsNear` allows the unit by which
  the origin that is stored differs from the point that was drawn
  (`cdb_edit.c:357`); how far the stored strokes of a copy lead away from those of its
  source (`cdb_edit.c:446`) is stated by no property. It measures
  on the globe: ends at 180 and at -180 degrees are near each other, and the stroke between
  them, which `find_best_candidate` means to avoid (`cdb_edit.c:1243`), is possible.
- When `load_all_seg_data_cdb` cannot grow its buffer it exits if the replacement
  succeeds and goes on without a buffer if it fails (`cdb.c:302`): the crash
  of the next read is an action of `CdbBuffer`.

## 4. The proofs

| theorem | module | says |
|---|---|---|
| `TypeCorrect` | `GridIOProofs` | `[]TypeOK`, all errors, all clients |
| `ReadOnlyFile` | `GridIOProofs` | a READ_ONLY file never changes |
| `ErrorsPin` | `GridIOProofs` | an error pins the buffer until close |
| `BufferCoherent`, `BufferShape`, `AssertionHolds` | `GridIOProofs` | what a get finds is what was stored; the buffer's members agree; the code's assertion holds |
| `ImplementsStore` | `GridIOProofs` | `Spec => Store!Spec` |
| `EndLosesBuffer` | `GridIOProofs` | close saves everything, any other end loses one block |
| `TypeCorrect`, `IndexCorrect`, `SearchCorrect`, `CompleteCorrect`, `TightCorrect` | `CdbDrawProofs` | the safety properties of the run, for any number of segments, units and windows, and any qsort and bsearch |
| `TypeCorrect`, `OwnedCorrect`, `LoadedCorrect`, `IndependentCorrect` | `CdbBufferProofs` | the properties of the run, for any number of instances and any memory |
| `Invariance`, `TypeCorrect`, `OnceCorrect`, `LostCorrect`, `JointsCorrect`, `ReadyCorrect`, `ClipCorrect` | `CdbEditProofs` | the properties of the run, for any source files, maps and options |
| `TypeCorrect`, `WindowCorrect`, `GraticuleCorrect`, `CoastlinesCorrect` | `MapxProofs` | the properties of `Mapx` and its types, bounds that were taken being normalized among them, for longitudes in any step |
| `LifeInvariance`, `OwnedCorrect`, `IsinCorrect` | `MapxProofs` | what maps and grids made from files own, for any files, texts, faults and number of calls; locations taken to an integerized sinusoidal map and back, for any even number of rows with any columns, any meridian, offset and unit of angles |
| `Invariance`, `TypeCorrect`, `MeanCorrect`, `PercentsCorrect`, `EmptyCorrect`, `BetweenCorrect` | `ResampProofs` | the properties of `Resamp`, for grids, data and masks of any size |
| `RegridInvariance`, `RegridTypeCorrect`, `AddUpCorrect`, `OneValueCorrect` | `ResampProofs` | the properties of `Regrid`, for any number of runs, inputs of any size and any data type |
| `IrregridInvariance`, `GriddedCorrect` | `PointsProofs` | what `Irregrid` writes is made from the lines that reach a cell, for any number of lines |
| `UngridInvariance`, `OrderCorrect`, `UngridBetweenCorrect` | `PointsProofs` | the safety properties of `Ungrid`, for any grid, input and options |
| `WdbInvariance`, `LinesKeptCorrect` | `PointsProofs` | the points of lines that `WdbToCdb` draws, for any sources, areas, ranks and length of `latray` |
| `FileInvariance`, `FileSoundCorrect` | `PointsProofs` | the cdb file that `WdbToCdb` writes, for any sources, lines across 180 degrees included |
| `SumIsRecursive` | `SumProofs` | a sum over a finite set is one element and the sum of the rest |

**Assumptions.** Those on the constants (`GridAssumption`, `BufferAssumption`,
`DrawAssumption`, `CdbBufferAssumption`, `EditAssumption`, `MapxAssumption`,
`MapLifeAssumption`, `ResampAssumption`, `RegridAssumption`, `PointsAssumption`,
`WdbToCdbAssumption`), which TLC evaluates in the runs; the
last five theorems of `GridIOProofs` assume `Disciplined` and `"read" \notin Faults`,
as the run `grid_io` does. `DrawAssumption` has 90 and 180 degrees be whole stored units
and the windows be those `mapenum` passes; `EditAssumption` has the files be what
`wdbtocdb` and `cdb_edit` write. `MapLifeAssumption` only says that what stands for numbers is
numbers. `ResampAssumption` has the output no larger than the
input, locations at most half a cell outside of it, and a data type with finitely
many values. `RegridAssumption` has an input of finitely many cells and one data type of
any size for input and output. `UngridAssumption` and `IrregridAssumption` have the
weights of inverse distance counted in units (`Unit`) so small that none is rounded
to 0, and `IrregridAssumption` a radius that does not reach what stands for an infinite
distance (9e9, `irregrid.c:55`). `WdbToCdbAssumption` has the sources hold records of whole
angles and of ranks from 0 to 63 (six bits, `wdbpltc.c:295`), 180 degrees be whole stroke
units (1024 to a degree, `cdb.h:41`), and the area lie between the poles, which the program does
not check.

**GridIO.** Types alone need `Aligned`: a block that starts at a multiple of
`Incr` and ends at the last row keeps every access inside the buffer. `num_rows`
is not part of it, which a read error shows to be wrong. `Coherent` is not
inductive: it speaks of the buffer when the row is in it and of the file when it is
not, so a step that moves the buffer needs to know that the block it leaves
was written whole (`BlockShape`), that a READ_ONLY handle has nothing to write
(`ReadOnlyOnDisk`), that only writers see write errors (`WriterErrors`), and that
a fill stands at the start of a block (`WriterFills`). `IInv` is their
conjunction. Refinement: every step of `GridIO` is one of `GridStore` or a stutter;
a block of a fill is `FillSome` of its cells, and the lemma that a fill goes forward
shows that the cells left behind are those not yet reached.

**CdbDraw.** The properties speak of a call that has returned; `IInv` of one on its
way. `Walk` says that there is a position at which the search stopped, one that
bsearch may return, and what was drawn since: the positions from there to the current
one once (`Once`), or, in the second loop of a split, those before the current one
once more (`Twice`). `Whole` says that the index has every segment once, so that
a sort only permutes it. Completeness is then arithmetic: a segment before the
position found begins before the window widened by the extent, so it ends before
the window itself, and the walk stops only at a segment that begins behind
it. That every search finds something is the argument about the guards at
both ends of the index; with equal keys it is the last one, or any of them at the lower
end.

**CdbBuffer.** `IInv` is `TypeOK /\ Owned /\ LoadedHoldsAll`. The two need each
other: that a load of one instance leaves another's buffer alone is `Owned`, that
a copy of a loaded instance reads what is there is `LoadedHoldsAll` of the
original.

**CdbEdit.** None of the five properties is inductive but `AtMostOnce` and
`JointsNear` with what the others add. `Passed` says of the first pass that what it has
drawn comes from files and segments it has passed, and is what `Keeps` kept. `Reread`
says of the other two that the source is the file finished before, in which each part
occurs once, and that an entry has been drawn if and only if it is `Handled`: passed,
open, or joined and marked dead. A joined candidate was not handled, hence not
drawn, so no part is drawn twice; at the end of `join_map` only the last entry may be
unhandled, so no other is lost. `Origins` bounds how far `join_map`'s ends in map coordinates
are from the stored origin that a reversal draws to: a unit, since `nint` is applied once to
a longitude already on the globe. It is kept by appending, after which both are the same
point. `ClipCorrect` is arithmetic on top of `Passed`: under the conditions `ClipKeeps`
states, moving both bounds of a segment by a turn is the only turn that can make it meet
the map.

**Mapx.** `WindowRight` says nothing of the state between two calls. `Taken`
does: the bounds are a function of the ones asked for, the same after the first and
after any later call, and the flag is one function after the first call and another
after the second. From it the properties are arithmetic on a circle.

**MapLife.** That what is on the heap is held is not inductive: a member that held
the resource of another kind, the same resource twice, or anything in an object that is not
there would be freed twice by the next closing. `IInv` adds that each member holds its
own kind (`MapSound`, `GridSound`), that what map and grid hold is disjoint, and that a heap is
finite, so that there is a free number. The proof follows the code through every
path with one equation, `Fine`: what is on the heap is what the object holds, what was
there before, and losses of the kinds named so far. `Give` adds to both sides,
`FreeAll` takes from both, as long as what it is given differs pairwise (`FreeFine`);
decoding and initialising change neither (`Fields...`, `Old...`, `ReinitFine`). What
a label says has no part in it, so texts and files may be any.

**Isin.** The other half of `MapSound` is that a map with tables has both of them, and
sound ones: an even number of rows, and whole numbers of columns of which none is 0.
That the inverse finds the row again is one integer division (`RowInTable`), and the
column another, on a circle of as many units as the row has columns (`EastwardIs`); two
longitudes that differ by a whole turn leave the same remainder (`NoRemainder`). What is
left is the edge, where the western and the eastern end of a row are the same location
(`AtTheEdge`).

**Resamp.** The running mean is the hard one. `MeanNear` compares the mean times the
number of values with their sum, and is inductive: one more value changes the product by
what the rounding of one division may be off (`MeanStep`, from the bound of
`nint` on a quotient, `NintNear`). `Counted` ties the counters of `distribution` to
the values taken, and says that what was written to the files of the masks are
the percents of those counters; that they add up to 100 is a sum of roundings, each
off by half at most. `Told` says which of the ways a cell without values may show so,
before and after the mask is restored.

**Regrid.** Between two runs `RunsAddUp` is an equation between two files; inside
a run the data are on their way from a mean to a sum and back. `Keeps` states it for
memory: data not yet divided by their weight differ from the sum of all that was given
by no more than the `slack`, twice the rounding error, less the `room` the next rounding
takes. Reading multiplies what a file holds by its weight, which undoes the division but for
its rounding; adding a share changes data and `given` alike; normalising uses up the
room, half of the weight (`Round`, and the cast to the data type, which changes nothing of a
mean that fits). `Settled` is what then holds of the files again. `Shares` are sums over
a kernel's cells, and all the proof needs of them is that they are integers; that a mean fits
into the data type is proved for the kernels whose weights are not negative.

**Irregrid.** For each cell, `Reaching` are the lines that reach it. `Summed` says that
sum and weight lie as a mean of their values does, so that one more line keeps it
(`MeanStep`), `Dropped` the same of counts, and `Kept` that the nearest neighbor is
one of the lines, as near as any and the latest among equals. Weights are not
negative, and are 0 only at the radius: that is what the quotient at the end needs.

**Ungrid.** `OutputInOrder` is stated by a map from answers to lines that ascends and
misses no line with a point. `Text` adds where the loop is: it has not passed the
last complete line, so that the end is met no later than after the last one. Appending
one answer appends the line's number to the map (`AnsweredNext`). With `-C`, `Centres`
says that the cells written are those of the rows before this one; a row adds its own,
in the order of its columns, up to the first cell off the map (`RowOrder`).
`UngridBetween` is a property of one answer (`AnswerOk`), proved method by method: a
weighted mean with no negative weight lies between the values (`MeanOf`, on the sums of
`SumProofs`), and a cell in the shell of the kernel is near the point.

**WdbToCdb.** A line goes through `latray` and `lonray` to `curve` in parts: 512 points at
most, cut where the rank changes, the line leaves the area or the source ends. `Traced` says
where its points are meanwhile: what is drawn, followed by what the arrays hold without its
last point, is all lines without theirs, and the arrays hold the end of the last line. A point
begins a line, goes on with it or flushes it (`LineBegun`, `LineGoesOn`, `RayDrawn`), and
these three keep the equation between two flattened sequences; for that the sequences are
compared point by point. The case that would break it is a line that goes on with another rank
than the one in `pltpro`: `SameRank` excludes it, since only a record that begins a line has a rank
of its own. The point outside of the area that follows each source has rank 64, which no record
has, so that nothing of one source is left for the next. The loop over the points of a record is a
recursive function (`AfterTyped`).

The file is a second invariant, `FInv`. Between two calls of `curve` (`Resting`) the segments
before the last are written, one after another (`Stored`), and the last one is in memory
with at least one stroke (`Sound`). `FileSound` alone is not inductive: within a segment it needs
to know that the static `lat1` and `lon1` are the point before (`AtLast`), for a stroke is
the rounded difference from them. `NintOff` is the error of one rounding, and `OffAdded` adds
it up; the first stroke starts at the rounded origin, which makes up for its own error
(`OffFirst`). `HoldsCopied` has strokes mean the same wherever they are stored, `StoredSame` has
a segment stay sound when others follow it.

A stroke across 180 degrees calls `draw_pd` for each half. The calls nest three deep, and
`CrossingReady` is proved once, of a call whose inner calls are right: `UnsplitReady`,
`DrawnOnceReady`, `DrawnTwiceReady` and `DrawPdReady` use it level by level. Making both
longitudes positive and normalising them again changes nothing (`BackAgain`) except at -180,
which becomes 180: then the inner call splits again, from 180 to -180, where both ends are
the same and the file is `odd` from there on. For such a file the proof shows all but where
the strokes lead: that its segments are stored one after another, none empty, is unaffected.

**Sums and loops.** Induction over data cannot be cited, since the library's
induction theorems take an operator as a parameter. `SumProofs` derives what is needed
from the definition of the sum: that it is the recursive function over subsets
follows by a least counterexample, a smallest subset at which two such functions differ. The same
argument serves loops over the points of a segment or record and the concatenation
of sequences (`LoopTyped`, `LoopExists`, `LoopFromOne`, `FlattenIs`). What such a loop computes is proved only as far as the properties need it:
types, what is kept, and whether anything was drawn.

**Side by side.** The theorems of `Mapx`, `MapLife`, `Resamp`, `Regrid`, `Ungrid`,
`Irregrid` and `WdbToCdb` are about their own specifications; the runs check the union, of which a behaviour
keeps to one.

**Model-checked only.** `DrawEnds` and `Ends` are liveness, which is outside the proof
system's reach, and so is `BinaryEnds`, which is refuted. `NoneCrosses` of
`WdbToCdb` holds only where neighbouring points of a line are less than 90 degrees apart:
`draw_pd` takes a stroke for one across 180 if it goes from beyond 90 on one side to beyond
90 on the other (`wdbtocdb.c:332`). Strokes of a source are short, but continuations reach
72 degrees and thinning passes over up to 44 points, so that it is the data that
keep this. `FieldsRead` compares what `Keyval` finds in a text with what was
written into it: both are constants of the run, and for other texts it says nothing.
`CellsComeBack` depends on the values in these texts: a scale of 0, or cells of no
size, divide by 0 in the code and in the model alike.

## 5. Where code and comments disagree

| run | the code | the text |
|---|---|---|
| `grid_io_read_error_assert` | `grid_io.c:403` sets `num_rows` before the fread that may fail, `start_row` and `final_row` after it | the assertion at `grid_io.c:284` |
| `mapx_recenter` | the origin is computed once (`mapx.c:1043`) and kept when scale, reference or center change | "re-calculate the appropriate private constants", line 961 |
| `ungrid_binary` | with `-b` points are read from the grid's file (`ungrid.c:361`) while the loop waits for the end of standard input, which nothing reads | "binary float stdin and stdout", line 33 |
| `wdb_last_point` | `npts` is the index of the last point, and `curve` takes it as their number (`wdbpltc.c:568`): the last point of every line is not drawn | "npts - number of points in the current segment", line 516 |

`mapx_recenter` has a consequence for `cdb_edit`: the `cdb_edit.mpp` of the
repository has scale 0.0, and the program sets the scale it wants after
`init_mapx`. The origin is then no number, and no distance is one either.
`CdbEdit` models the program with a map file that has a scale.

## 6. What is not modelled

- Formulas on real numbers: the closed form projections, spherical geometry,
  linear systems and fits. They have no control to speak of, and the round
  trips of `src/unit_test` test them.
- GCTP's support routines, byte order, message texts, option parsing and
  verbosity; the programs `gridloc` and `cdb_list`, which are one loop each.
- What the projections other than three compute, and rotation of a map: they are
  formulas on real numbers. `MapLife` computes cylindrical equidistant maps with
  latitudes whose cosine is exact, the integerized sinusoidal projection by `Isin`, and
  of UTM the zone.
- The paging of a World Data Bank source by `wdbpltc.c`: `WdbToCdb` is given the
  records of a cell as a sequence.
- In `Resamp` a fill that fails, which `resamp.c` does not notice and `GridIO`
  models; in `Regrid` floating point data and reports; in `Ungrid` data of 2 and 4
  bytes and powers other than 2; in `Irregrid` rounding of the weights.
- `boolean_keyval`, which nothing modelled calls.
- Of what is modelled: the float data types of grid files; file contents beyond
  the last row of a grid; cdb files whose header is wrong about sizes; the choice
  of points in `thin_current_segment`, which is any choice that keeps the last
  one; running out of memory in `cdb_edit`.

## 7. The plan

All of the planned modules are written.

1. `GridIO` over `GridStore`, with proofs.
2. `CdbDraw`, `CdbBuffer`, with proofs.
3. `CdbEdit`, with proofs.
4. `Mapx`, with proofs.
5. `Resamp`, `Regrid`, with proofs (run `resampling`).
6. `Ungrid`, `Irregrid`, with proofs, and `WdbToCdb` (run `points`).
7. `Keyval`, `Isin`, `MapLife`, with proofs (run `mapx`, beside `Mapx`).

What a run checks of safety is proved, but for `NoneCrosses` of `WdbToCdb`, which depends on
the data of the source, and `FieldsRead` and `CellsComeBack` of `MapLife`, which are about
the texts of the run (section 4).
