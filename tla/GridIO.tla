------------------------------- MODULE GridIO -------------------------------
(***************************************************************************)
(* src/src/grid_io.c: a grid on disk seen through one buffer of rows.  The *)
(* buffer holds one block of row_buffer_increment rows; an access outside  *)
(* it writes the block back and reads another (exchange_row_buffer).       *)
(*                                                                         *)
(* Files are counted in whole rows: len rows are on disk, a row written    *)
(* past the end leaves zeros between, and fread stops at the end of file,  *)
(* leaving the rest of the buffer as it was.  What a file holds past the   *)
(* last row of the grid is left out.                                       *)
(***************************************************************************)
EXTENDS GridDatum

CONSTANTS
    Incr,       \* rows that fit MAX_ROW_BUFFER_SIZE, at most Height
    Faults,     \* errors stdio may report: a subset of {"read", "write"}
    Disciplined \* TRUE: clients put and fill only handles opened to write

ASSUME BufferAssumption ==
    /\ Incr \in 1 .. Height
    /\ Faults \subseteq {"read", "write"}
    /\ Disciplined \in BOOLEAN

VARIABLES
    mode,       \* io_mode, "closed" when there is no grid_io_class
    files,      \* what the named and the temporary file hold
    data, start_row, final_row, num_rows,   \* the row buffer
    ferr,       \* the error flag of fp, which nothing ever clears
    filling, next_row,  \* fill_grid_io in progress: its datum and its row
    reply,      \* result of the last operation
    shadow      \* history: what the client last stored, and can rely on

bufferVars == <<data, start_row, final_row, num_rows>>
vars == <<mode, files, bufferVars, ferr, filling, next_row, reply, shadow>>

Slots   == 0 .. Incr - 1
RowData == [Cols -> Datum]
ZeroRow == [c \in Cols |-> 0]
File    == [len : 0 .. Height + Incr, row : [Rows -> RowData]]
NoFile  == [len |-> 0, row |-> [r \in Rows |-> ZeroRow]]
ZeroBuffer == [i \in Slots |-> ZeroRow]
Blank   == [cell \in Cells |-> Undef]

Obj      == ObjectOf(mode)
Disk     == files[Obj]
WritableAlways == TRUE   \* mutant of Writable: the mode is not looked at
Writable == mode # "READ_ONLY"
Ready    == mode # "closed" /\ filling = Undef

\* What a client may take for granted in a file: the cells within its length.
Contents(f) ==
    [cell \in Cells |-> IF cell[1] < f.len THEN f.row[cell[1]][cell[2]] ELSE Undef]

-----------------------------------------------------------------------------
\* exchange_row_buffer, as values.

InBuffer(row) == start_row <= row /\ row <= final_row

WrittenAtTop(k) ==          \* mutant of Written: no seek to start_row
    [len |-> IF k > Disk.len THEN k ELSE Disk.len,
     row |-> [r \in Rows |-> IF r < k THEN data[r] ELSE Disk.row[r]]]

\* The file once the first k buffered rows are written back.
Written(k) ==
    [len |-> IF k > 0 /\ start_row + k > Disk.len THEN start_row + k ELSE Disk.len,
     row |-> [r \in Rows |-> IF start_row <= r /\ r < start_row + k
                             THEN data[r - start_row] ELSE Disk.row[r]]]
Flushed == IF Writable THEN Written(num_rows) ELSE Disk

\* The block the buffer is to hold, and how many of its rows are in the grid.
BlockStart(row) == (row \div Incr) * Incr
BlockRowsUncut(row) == Incr  \* mutant: the last block runs off the grid
BlockRows(row)  == IF Height - BlockStart(row) > Incr
                   THEN Incr ELSE Height - BlockStart(row)

FirstRow(row) == IF InBuffer(row) THEN start_row ELSE BlockStart(row)
LastRow(row)  == IF InBuffer(row) THEN final_row
                 ELSE BlockStart(row) + BlockRows(row) - 1
CountStale(row) == num_rows  \* mutant of Count: num_rows is not updated
Count(row)    == IF InBuffer(row) THEN num_rows ELSE BlockRows(row)

\* The buffer after fread has delivered at most n rows from row b of file f.
Loaded(old, f, b, n) ==
    [i \in Slots |-> IF i < n /\ b + i < f.len THEN f.row[b + i] ELSE old[i]]
FetchedNothing(row) == data \* mutant of Fetched: the new block is not read
Fetched(row) == IF InBuffer(row) THEN data
                ELSE Loaded(data, Flushed, BlockStart(row), BlockRows(row))

\* The buffer moves to the block of row.
MoveTo(row) ==
    /\ start_row' = FirstRow(row)
    /\ final_row' = LastRow(row)
    /\ num_rows'  = Count(row)

ReachRegardless(row) ==     \* mutant of Reach: the error flag is not tested
    /\ MoveTo(row)
    /\ files' = IF InBuffer(row) THEN files ELSE [files EXCEPT ![Obj] = Flushed]
    /\ UNCHANGED ferr

\* The swap check of get and put: exchange only for a row out of the buffer.
Reach(row) ==
    /\ InBuffer(row) \/ ~ferr
    /\ MoveTo(row)
    /\ files' = IF InBuffer(row) THEN files ELSE [files EXCEPT ![Obj] = Flushed]
    /\ UNCHANGED ferr

FlushFailsEmptied ==        \* mutant of FlushFails: the block is dropped
    /\ Writable
    /\ "write" \in Faults
    /\ data' = ZeroBuffer
    /\ ferr' = TRUE
    /\ UNCHANGED <<files, start_row, final_row, num_rows>>

\* The write-back fails part way, or succeeds under an error flag set before.
FlushFails ==
    /\ Writable
    /\ \E k \in 0 .. num_rows :
        /\ IF k = num_rows THEN ferr ELSE "write" \in Faults
        /\ files' = [files EXCEPT ![Obj] = Written(k)]
    /\ ferr' = TRUE
    /\ UNCHANGED bufferVars

\* The new block cannot be read: num_rows and part of the data are already
\* those of the new block, start_row and final_row still those of the old.
LoadFails(row) ==
    /\ ~InBuffer(row)
    /\ ~(Writable /\ ferr)
    /\ \E j \in 0 .. BlockRows(row) :
        /\ IF j = BlockRows(row) THEN ferr ELSE "read" \in Faults
        /\ data' = Loaded(data, Flushed, BlockStart(row), j)
    /\ files' = [files EXCEPT ![Obj] = Flushed]
    /\ num_rows' = BlockRows(row)
    /\ ferr' = TRUE
    /\ UNCHANGED <<start_row, final_row>>

-----------------------------------------------------------------------------
\* The operations of grid_io.h.

\* init_grid_io: open, allocate a zeroed buffer, preload the first block.
\* fopen with "w" and tempnam start from an empty file.
Opened(m) == IF m \in {"WRITE", "TEMPORARY"} THEN NoFile ELSE files[ObjectOf(m)]

Open(m) ==
    /\ mode = "closed"
    /\ mode' = m
    /\ files' = [files EXCEPT ![ObjectOf(m)] = Opened(m)]
    /\ data' = Loaded(ZeroBuffer, Opened(m), 0, Incr)
    /\ start_row' = 0
    /\ final_row' = Incr - 1
    /\ num_rows' = Incr
    /\ ferr' = FALSE
    /\ reply' = Done
    /\ shadow' = IF m \in {"WRITE", "TEMPORARY"}
                 THEN [shadow EXCEPT ![ObjectOf(m)] = Blank] ELSE shadow
    /\ UNCHANGED <<filling, next_row>>

\* What of the shadow a file still holds once its buffer is gone.
Surviving(o, f) ==
    [cell \in Cells |-> IF shadow[o][cell] = Contents(f)[cell]
                        THEN shadow[o][cell] ELSE Undef]

\* The preload fails: init_grid_io calls close_grid_io, whose exchange writes
\* the half-filled buffer over the first block of a file opened for update.
Overwritten(f, j) ==
    [len |-> IF f.len > Incr THEN f.len ELSE Incr,
     row |-> [r \in Rows |-> IF r < Incr THEN Loaded(ZeroBuffer, f, 0, j)[r]
                             ELSE f.row[r]]]

OpenFails(m) ==
    /\ mode = "closed"
    /\ "read" \in Faults
    /\ \E j \in 0 .. Incr - 1 :
        LET o    == ObjectOf(m)
            left == CASE m = "READ_ONLY" -> Opened(m)
                      [] m = "TEMPORARY" -> NoFile
                      [] OTHER -> Overwritten(Opened(m), j)
        IN  /\ files' = [files EXCEPT ![o] = left]
            /\ shadow' = [shadow EXCEPT ![o] = Surviving(o, left)]
    /\ reply' = Failed
    /\ UNCHANGED <<mode, bufferVars, ferr, filling, next_row>>

\* Both accessors return FALSE outside the grid.
OutOfBounds(row, col) ==
    /\ Ready
    /\ ~InGrid(row, col)
    /\ reply' = Failed
    /\ UNCHANGED <<mode, files, bufferVars, ferr, filling, next_row, shadow>>

\* Both accessors return FALSE when the exchange does.
ExchangeFails(row) ==
    /\ Ready
    /\ ~InBuffer(row)
    /\ FlushFails \/ LoadFails(row)
    /\ reply' = Failed
    /\ UNCHANGED <<mode, filling, next_row, shadow>>

get_element(row, col) ==
    /\ Ready
    /\ InGrid(row, col)
    /\ Reach(row)
    /\ data' = Fetched(row)
    /\ reply' = Read(<<row, col>>, data'[row - start_row'][col])
    /\ UNCHANGED <<mode, filling, next_row, shadow>>

put_element(row, col, x) ==
    /\ Ready
    /\ Disciplined => Writable
    /\ InGrid(row, col)
    /\ Reach(row)
    /\ \E d \in Encodings(x) :
        /\ data' = [Fetched(row) EXCEPT ![row - FirstRow(row)][col] = d]
        /\ shadow' = [shadow EXCEPT ![Obj][<<row, col>>] = d]
    /\ reply' = Done
    /\ UNCHANGED <<mode, filling, next_row>>

\* fill_grid_io: make the pattern, then take the blocks in order, exchanging
\* and overwriting each.
FillStart(x) ==
    /\ Ready
    /\ Disciplined => Writable
    /\ filling' \in Encodings(x)
    /\ next_row' = 0
    /\ UNCHANGED <<mode, files, bufferVars, ferr, reply, shadow>>

FillBlock ==
    /\ filling # Undef
    /\ ~ferr \/ (InBuffer(next_row) /\ ~Writable)
    /\ files' = [files EXCEPT ![Obj] = Flushed]
    /\ MoveTo(next_row)
    /\ data' = [i \in Slots |-> IF i < Count(next_row)
                                THEN [c \in Cols |-> filling]
                                ELSE Fetched(next_row)[i]]
    /\ shadow' = [shadow EXCEPT ![Obj] =
                    [cell \in Cells |->
                        IF FirstRow(next_row) <= cell[1]
                           /\ cell[1] < FirstRow(next_row) + Count(next_row)
                        THEN filling ELSE @[cell]]]
    /\ IF next_row + Incr < Height
       THEN next_row' = next_row + Incr /\ UNCHANGED <<filling, reply>>
       ELSE next_row' = 0 /\ filling' = Undef /\ reply' = Done
    /\ UNCHANGED <<mode, ferr>>

FillFails ==
    /\ filling # Undef
    /\ FlushFails \/ LoadFails(next_row)
    /\ next_row' = 0
    /\ filling' = Undef
    /\ reply' = Failed
    /\ UNCHANGED <<mode, shadow>>

\* The handle is gone and leaves f in its file; a temporary file goes with it.
Leave(f) ==
    LET left == IF mode = "TEMPORARY" THEN NoFile ELSE f
    IN  /\ mode' = "closed"
        /\ files' = [files EXCEPT ![Obj] = left]
        /\ shadow' = [shadow EXCEPT ![Obj] = Surviving(Obj, left)]
        /\ data' = ZeroBuffer
        /\ start_row' = 0 /\ final_row' = Incr - 1 /\ num_rows' = Incr
        /\ ferr' = FALSE
        /\ reply' = Done
        /\ UNCHANGED <<filling, next_row>>

\* close_grid_io flushes the last buffer, and cannot report that it failed.
close_grid_io ==
    /\ Ready
    /\ Leave(Flushed)

CloseLosesBuffer ==
    /\ Ready
    /\ Writable
    /\ "write" \in Faults
    /\ \E k \in 0 .. num_rows - 1 : Leave(Written(k))

\* The program exits with the handle open, as its error paths do.
ExitWithoutClose ==
    /\ Ready
    /\ Leave(Disk)

Init ==
    /\ mode = "closed"
    /\ files \in [Objects -> File]
    /\ files["anon"] = NoFile
    /\ files["named"].len <= Height
    /\ \A r \in Rows : r >= files["named"].len => files["named"].row[r] = ZeroRow
    /\ data = ZeroBuffer
    /\ start_row = 0 /\ final_row = Incr - 1 /\ num_rows = Incr
    /\ ferr = FALSE
    /\ filling = Undef /\ next_row = 0
    /\ reply = Done
    /\ shadow = [o \in Objects |-> Contents(files[o])]

Next ==
    \/ \E m \in Modes : Open(m) \/ OpenFails(m)
    \/ \E row \in -1 .. Height, col \in -1 .. Width : OutOfBounds(row, col)
    \/ \E row \in Rows : ExchangeFails(row)
    \/ \E row \in Rows, col \in Cols : get_element(row, col)
    \/ \E row \in Rows, col \in Cols, x \in Inputs : put_element(row, col, x)
    \/ \E x \in Inputs : FillStart(x)
    \/ FillBlock
    \/ FillFails
    \/ close_grid_io
    \/ CloseLosesBuffer
    \/ ExitWithoutClose

Spec == Init /\ [][Next]_vars

-----------------------------------------------------------------------------
\* Every variable has its type: the members of grid_io_class, the files behind
\* the handle, the loop of fill_grid_io and the client's expectations.
TypeOK ==
    /\ mode \in Modes \cup {"closed"}
    /\ files \in [Objects -> File]
    /\ data \in [Slots -> RowData]
    /\ start_row \in Rows /\ final_row \in Rows /\ num_rows \in 1 .. Incr
    /\ ferr \in BOOLEAN
    /\ filling \in Datum \cup {Undef}
    /\ next_row \in Rows
    /\ reply \in Replies
    /\ shadow \in [Objects -> [Cells -> Datum \cup {Undef}]]

\* The rows that pass the swap check are one whole block of the grid, cut
\* short only by the last row.
Aligned ==
    /\ start_row = BlockStart(start_row)
    /\ final_row = start_row + BlockRows(start_row) - 1

\* start_row, final_row and num_rows, which exchange_row_buffer sets at
\* different places, agree.
BlockShape == Aligned /\ num_rows = BlockRows(start_row)

\* The assertion of get_element_grid_io and put_element_grid_io: a row that
\* passes the swap check is one of the num_rows rows of the buffer.
AssertInBuffer ==
    \A row \in Rows : InBuffer(row) => row - start_row < num_rows

\* A get that returns TRUE returns what was stored: a cell the client relies
\* on is in the buffer when its row is, and otherwise on disk.
HoldsOnDisk(o, cell) ==
    /\ cell[1] < files[o].len
    /\ files[o].row[cell[1]][cell[2]] = shadow[o][cell]
Coherent ==
    \A o \in Objects, cell \in Cells :
        shadow[o][cell] # Undef =>
            IF mode # "closed" /\ o = Obj /\ InBuffer(cell[1])
            THEN data[cell[1] - start_row][cell[2]] = shadow[o][cell]
            ELSE HoldsOnDisk(o, cell)

\* The parts of the inductive invariant that Coherent rests on: a handle
\* opened READ_ONLY sees no write error and no fill, and its buffer shows
\* nothing the file does not hold; a fill goes block by block.
WriterErrors == ferr => mode # "closed" /\ Writable /\ "write" \in Faults
WriterFills  == filling # Undef => mode # "closed" /\ Writable /\ next_row = BlockStart(next_row)
ReadOnlyOnDisk ==
    mode = "READ_ONLY" =>
        \A cell \in Cells : shadow[Obj][cell] # Undef => HoldsOnDisk(Obj, cell)

IInv ==
    /\ TypeOK
    /\ BlockShape
    /\ WriterErrors
    /\ WriterFills
    /\ ReadOnlyOnDisk
    /\ Coherent

\* No operation on a handle opened READ_ONLY changes the file, not even a
\* put, a fill or the flush of close_grid_io.
ReadOnlyUntouched == [][mode = "READ_ONLY" => files' = files]_vars

\* Nothing clears the error flag of fp: after one error the buffer never
\* again moves to another block, until the handle is closed.
ErrorPinsBuffer ==
    [][ferr /\ mode' # "closed" => ferr' /\ UNCHANGED <<start_row, final_row>>]_vars

\* close_grid_io leaves everything the client relies on in the file; however
\* else the handle ends, by a close whose write fails or by an exit without
\* close, only cells of the current block can be lost.
OnlyBufferLost ==
    [][mode \notin {"closed", "TEMPORARY"} /\ mode' = "closed" =>
        /\ close_grid_io => shadow' = shadow
        /\ \A o \in Objects, cell \in Cells :
              (o = Obj /\ InBuffer(cell[1])) \/ shadow'[o][cell] = shadow[o][cell]]_vars

\* The paged buffer implements the plain grid of GridStore.
Store == INSTANCE GridStore WITH
    store <- shadow,
    todo <- IF filling = Undef THEN {}
            ELSE {cell \in Cells : cell[1] >= next_row},
    MayFail <- Faults # {}
Refines == Store!Spec
=============================================================================
