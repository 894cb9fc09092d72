---------------------------- MODULE GridIOProofs ----------------------------
(***************************************************************************)
(* What GridIO's runs check for three rows, proved for every grid, buffer  *)
(* size, datum range and set of inputs; and that the paged buffer is       *)
(* transparent: with clients that write only handles opened to write, and  *)
(* no read errors, a get returns what was stored (Coherent), and GridIO    *)
(* implements GridStore.                                                   *)
(***************************************************************************)
EXTENDS GridIO, TLAPS

\* C integer division: the quotient that the alignment of
\* exchange_row_buffer multiplies back.
LEMMA Division ==
    ASSUME NEW n \in Nat, NEW d \in Nat \ {0}
    PROVE  /\ n \div d \in Nat
           /\ (n \div d) * d \in Nat
           /\ (n \div d) * d <= n
           /\ n < (n \div d) * d + d
<1>1. n \div d \in Nat BY SMT
<1>2. (n \div d) * d <= n /\ n < (n \div d) * d + d BY SMT
<1> QED BY <1>1, <1>2, SMT

LEMMA DivisionOfMultiple ==
    ASSUME NEW q \in Nat, NEW d \in Nat \ {0}
    PROVE  ((q * d) \div d) * d = q * d
<1> QED BY SMT

\* The block exchange_row_buffer reads holds the row asked for and lies
\* inside the grid.
LEMMA BlockFacts ==
    ASSUME NEW row \in Rows
    PROVE  /\ BlockStart(row) \in Rows
           /\ BlockStart(row) <= row
           /\ BlockRows(row) \in 1 .. Incr
           /\ row <= BlockStart(row) + BlockRows(row) - 1
           /\ BlockStart(row) + BlockRows(row) <= Height
           /\ BlockStart(BlockStart(row)) = BlockStart(row)
<1> Incr \in Nat \ {0} /\ Incr <= Height /\ Height \in Nat \ {0} /\ row \in Nat /\ row < Height
    BY GridAssumption, BufferAssumption DEF Rows
<1>1. /\ BlockStart(row) \in Nat
      /\ BlockStart(row) <= row
      /\ row < BlockStart(row) + Incr
    BY Division DEF BlockStart
<1>2. BlockStart(BlockStart(row)) = BlockStart(row)
    BY DivisionOfMultiple, Division DEF BlockStart
<1> QED BY <1>1, <1>2 DEF BlockRows, Rows

-----------------------------------------------------------------------------
(***************************************************************************)
(* Types.                                                                  *)
(***************************************************************************)

LEMMA EncodingsAreData == \A x \in Inputs : Encodings(x) \subseteq Datum
BY DEF Encodings

\* The two files a handle can stand for.
LEMMA ObjIsObject == Obj \in Objects /\ \A m \in Modes : ObjectOf(m) \in Objects
BY DEF Obj, ObjectOf, Objects

LEMMA ZeroTypes ==
    /\ ZeroRow \in RowData
    /\ ZeroBuffer \in [Slots -> RowData]
    /\ NoFile \in File
    /\ Blank \in [Cells -> Datum \cup {Undef}]
<1>1. 0 \in Datum BY GridAssumption DEF Datum
<1>2. ZeroRow \in RowData BY <1>1 DEF ZeroRow, RowData
<1>3. 0 \in 0 .. Height + Incr BY GridAssumption, BufferAssumption
<1> QED BY <1>2, <1>3 DEF ZeroBuffer, NoFile, Blank, File

\* Reading rows of a file into a buffer keeps the buffer's type.
LEMMA LoadedType ==
    ASSUME NEW old \in [Slots -> RowData], NEW f \in File, NEW b \in Rows, NEW n \in Nat, b + n <= Height
    PROVE  Loaded(old, f, b, n) \in [Slots -> RowData]
<1> SUFFICES ASSUME NEW i \in Slots, i < n, b + i < f.len
             PROVE  f.row[b + i] \in RowData
    BY DEF Loaded
<1>1. f.len \in 0 .. Height + Incr /\ f.row \in [Rows -> RowData] BY DEF File
<1>2. b + i \in Rows BY <1>1, GridAssumption, BufferAssumption DEF Slots, Rows
<1> QED BY <1>1, <1>2

\* Writing rows of the buffer to the file keeps the file's type.
LEMMA WrittenType ==
    ASSUME TypeOK, NEW k \in 0 .. num_rows
    PROVE  Written(k) \in File
<1>1. /\ start_row \in Rows /\ num_rows \in 1 .. Incr
      /\ data \in [Slots -> RowData]
      /\ Height \in Nat /\ Incr \in Nat
    BY GridAssumption, BufferAssumption DEF TypeOK
<1>2. Disk \in File BY ObjIsObject DEF TypeOK, Disk
<1>3. /\ Disk.len \in 0 .. Height + Incr
      /\ Disk.row \in [Rows -> RowData]
    BY <1>2 DEF File
<1>4. \A r \in Rows : start_row <= r /\ r < start_row + k => r - start_row \in Slots
    BY <1>1 DEF Rows, Slots
<1>5. (IF k > 0 /\ start_row + k > Disk.len THEN start_row + k ELSE Disk.len) \in 0 .. Height + Incr
    BY <1>1, <1>3 DEF Rows
<1> QED BY <1>1, <1>3, <1>4, <1>5 DEF Written, File

LEMMA FlushedType == TypeOK => Flushed \in File /\ Disk \in File
<1> SUFFICES ASSUME TypeOK PROVE Flushed \in File /\ Disk \in File
    OBVIOUS
<1>1. Disk \in File BY ObjIsObject DEF TypeOK, Disk
<1>2. num_rows \in 0 .. num_rows BY BufferAssumption, GridAssumption DEF TypeOK
<1>3. Written(num_rows) \in File BY <1>2, WrittenType
<1> QED BY <1>1, <1>3 DEF Flushed

\* The exchange a get, a put or a fill makes keeps the type of the buffer.
LEMMA ExchangeType ==
    ASSUME TypeOK, NEW row \in Rows
    PROVE  /\ FirstRow(row) \in Rows
           /\ LastRow(row) \in Rows
           /\ Count(row) \in 1 .. Incr
           /\ Fetched(row) \in [Slots -> RowData]
           /\ InBuffer(row) => row - start_row \in Nat
<1>1. start_row \in Rows /\ final_row \in Rows /\ num_rows \in 1 .. Incr
      /\ data \in [Slots -> RowData]
    BY DEF TypeOK
<1>2. BlockStart(row) + BlockRows(row) - 1 \in Rows
    BY BlockFacts, GridAssumption, BufferAssumption DEF Rows
<1>3. Flushed \in File BY FlushedType
<1>4. BlockRows(row) \in Nat BY BlockFacts, BufferAssumption
<1>5. Loaded(data, Flushed, BlockStart(row), BlockRows(row)) \in [Slots -> RowData]
    BY <1>1, <1>3, <1>4, BlockFacts, LoadedType
<1> QED
    BY <1>1, <1>2, <1>5, BlockFacts DEF FirstRow, LastRow, Count, Fetched, InBuffer, Rows

\* Where the block lies does not depend on num_rows, so no error disturbs it.
TypeInv == TypeOK /\ Aligned

LEMMA AlignedSpan ==
    ASSUME TypeInv
    PROVE  /\ final_row - start_row < Incr
           /\ \A row \in Rows : InBuffer(row) => row - start_row \in Slots
<1>1. start_row \in Rows /\ final_row \in Rows BY DEF TypeInv, TypeOK
<1>2. BlockRows(start_row) \in 1 .. Incr BY <1>1, BlockFacts
<1>3. final_row = start_row + BlockRows(start_row) - 1 BY DEF TypeInv, Aligned
<1> QED BY <1>1, <1>2, <1>3, BufferAssumption, GridAssumption DEF InBuffer, Slots, Rows

\* Wherever the exchange leaves the buffer, it holds a block that contains
\* the row asked for.
LEMMA MoveAligned ==
    ASSUME TypeInv, NEW row \in Rows
    PROVE  /\ FirstRow(row) = BlockStart(FirstRow(row))
           /\ LastRow(row) = FirstRow(row) + BlockRows(FirstRow(row)) - 1
           /\ FirstRow(row) <= row /\ row <= LastRow(row)
           /\ row - FirstRow(row) \in Slots
<1>1. CASE InBuffer(row)
    BY <1>1, AlignedSpan DEF TypeInv, Aligned, FirstRow, LastRow, InBuffer
<1>2. CASE ~InBuffer(row)
  <2>1. FirstRow(row) = BlockStart(row) /\ LastRow(row) = BlockStart(row) + BlockRows(row) - 1
      BY <1>2 DEF FirstRow, LastRow
  <2>2. BlockRows(BlockStart(row)) = BlockRows(row)
      BY BlockFacts DEF BlockRows
  <2>3. row - BlockStart(row) \in Slots
      BY BlockFacts, GridAssumption, BufferAssumption DEF Rows, Slots
  <2> QED BY <2>1, <2>2, <2>3, BlockFacts, GridAssumption, BufferAssumption DEF Rows
<1> QED BY <1>1, <1>2

LEMMA MoveType ==
    ASSUME TypeInv, NEW row \in Rows, MoveTo(row)
    PROVE  /\ start_row' \in Rows /\ final_row' \in Rows /\ num_rows' \in 1 .. Incr
           /\ Aligned'
<1>1. TypeOK BY DEF TypeInv
<1> QED BY <1>1, ExchangeType, MoveAligned DEF MoveTo, Aligned, BlockStart, BlockRows

\* The opened file, and what a close leaves of a file's contents.
LEMMA OpenedType ==
    ASSUME TypeOK, NEW m \in Modes
    PROVE  /\ Opened(m) \in File
           /\ Loaded(ZeroBuffer, Opened(m), 0, Incr) \in [Slots -> RowData]
           /\ \A j \in 0 .. Incr - 1 : Overwritten(Opened(m), j) \in File
<1>1. Opened(m) \in File BY ZeroTypes, ObjIsObject DEF Opened, TypeOK
<1>2. \A n \in 0 .. Incr : Loaded(ZeroBuffer, Opened(m), 0, n) \in [Slots -> RowData]
  <2> TAKE n \in 0 .. Incr
  <2>1. 0 \in Rows /\ n \in Nat /\ 0 + n <= Height
      BY GridAssumption, BufferAssumption DEF Rows
  <2> QED BY <1>1, <2>1, ZeroTypes, LoadedType
<1>3. ASSUME NEW j \in 0 .. Incr - 1 PROVE Overwritten(Opened(m), j) \in File
  <2>1. Loaded(ZeroBuffer, Opened(m), 0, j) \in [Slots -> RowData]
      BY <1>2, BufferAssumption, GridAssumption
  <2>2. /\ Opened(m).len \in 0 .. Height + Incr
        /\ Opened(m).row \in [Rows -> RowData]
      BY <1>1 DEF File
  <2>3. \A r \in Rows : r < Incr => r \in Slots
      BY BufferAssumption, GridAssumption DEF Rows, Slots
  <2>4. (IF Opened(m).len > Incr THEN Opened(m).len ELSE Incr) \in 0 .. Height + Incr
      BY <2>2, BufferAssumption, GridAssumption
  <2> QED BY <2>1, <2>2, <2>3, <2>4 DEF Overwritten, File
<1> QED BY <1>1, <1>2, <1>3, BufferAssumption, GridAssumption

LEMMA SurvivingType ==
    ASSUME TypeOK, NEW o \in Objects, NEW f
    PROVE  Surviving(o, f) \in [Cells -> Datum \cup {Undef}]
BY DEF Surviving, TypeOK

\* The buffer of a handle just opened or just gone.
LEMMA FreshBuffer ==
    /\ 0 \in Rows /\ Incr - 1 \in Rows /\ Incr \in 1 .. Incr
    /\ BlockStart(0) = 0 /\ BlockRows(0) = Incr
<1>1. 0 \in Rows BY GridAssumption DEF Rows
<1>2. BlockStart(0) = 0 BY <1>1, BlockFacts, BufferAssumption DEF Rows, BlockStart
<1> QED BY <1>1, <1>2, GridAssumption, BufferAssumption DEF Rows, BlockRows

-----------------------------------------------------------------------------
(***************************************************************************)
(* Type correctness, whatever stdio reports and clients do.                *)
(***************************************************************************)

LEMMA TypeInit == Init => TypeInv
<1> SUFFICES ASSUME Init PROVE TypeInv
    OBVIOUS
<1>1. Aligned BY FreshBuffer DEF Init, Aligned
<1>2. shadow \in [Objects -> [Cells -> Datum \cup {Undef}]]
  <2> SUFFICES ASSUME NEW o \in Objects, NEW cell \in Cells, cell[1] < files[o].len
               PROVE  files[o].row[cell[1]][cell[2]] \in Datum
      BY DEF Init, Contents
  <2> QED BY DEF Init, File, Cells, RowData
<1>3. 0 \in Rows /\ Incr - 1 \in Rows /\ Incr \in 1 .. Incr /\ ZeroBuffer \in [Slots -> RowData]
    BY FreshBuffer, ZeroTypes
<1>4. Done \in Replies BY DEF Done, Replies
<1> QED BY <1>1, <1>2, <1>3, <1>4 DEF Init, TypeInv, TypeOK

LEMMA TypeOpen == TypeInv /\ (\E m \in Modes : Open(m)) => TypeInv'
<1> SUFFICES ASSUME TypeInv, NEW m \in Modes, Open(m) PROVE TypeInv'
    OBVIOUS
<1> TypeOK BY DEF TypeInv
<1>1. Aligned' BY FreshBuffer DEF Open, Aligned, BlockStart, BlockRows
<1>2. files' \in [Objects -> File] BY OpenedType DEF Open, TypeOK
<1>3. data' \in [Slots -> RowData] BY OpenedType DEF Open
<1>4. shadow' \in [Objects -> [Cells -> Datum \cup {Undef}]]
    BY ZeroTypes, ObjIsObject DEF Open, TypeOK
<1>5. start_row' \in Rows /\ final_row' \in Rows /\ num_rows' \in 1 .. Incr
    BY FreshBuffer DEF Open
<1>6. reply' \in Replies BY DEF Open, Done, Replies
<1> QED BY <1>1, <1>2, <1>3, <1>4, <1>5, <1>6 DEF Open, TypeInv, TypeOK

LEMMA TypeOpenFails == TypeInv /\ (\E m \in Modes : OpenFails(m)) => TypeInv'
<1> SUFFICES ASSUME TypeInv, NEW m \in Modes, OpenFails(m) PROVE TypeInv'
    OBVIOUS
<1> TypeOK BY DEF TypeInv
<1> DEFINE o == ObjectOf(m)
           left(j) == CASE m = "READ_ONLY" -> Opened(m)
                        [] m = "TEMPORARY" -> NoFile
                        [] OTHER -> Overwritten(Opened(m), j)
<1>1. PICK j \in 0 .. Incr - 1 :
        /\ files' = [files EXCEPT ![o] = left(j)]
        /\ shadow' = [shadow EXCEPT ![o] = Surviving(o, left(j))]
    BY DEF OpenFails
<1>2. left(j) \in File BY OpenedType, ZeroTypes
<1>3. o \in Objects BY ObjIsObject
<1>4. Surviving(o, left(j)) \in [Cells -> Datum \cup {Undef}] BY <1>3, SurvivingType
<1> HIDE DEF o, left
<1>5. files' \in [Objects -> File] BY <1>1, <1>2 DEF TypeOK
<1>6. shadow' \in [Objects -> [Cells -> Datum \cup {Undef}]] BY <1>1, <1>4 DEF TypeOK
<1>7. Aligned' BY DEF OpenFails, bufferVars, TypeInv, Aligned, BlockStart, BlockRows
<1>8. reply' \in Replies BY DEF OpenFails, Failed, Replies
<1> QED BY <1>5, <1>6, <1>7, <1>8 DEF OpenFails, bufferVars, TypeInv, TypeOK

\* A handle that ends leaves a fresh buffer behind.
LEMMA TypeLeave ==
    ASSUME TypeInv, NEW f \in File, Leave(f)
    PROVE  TypeInv'
<1> TypeOK BY DEF TypeInv
<1> DEFINE left == IF mode = "TEMPORARY" THEN NoFile ELSE f
<1>1. left \in File BY ZeroTypes
<1>2. Surviving(Obj, left) \in [Cells -> Datum \cup {Undef}]
    BY ObjIsObject, SurvivingType
<1>3. files' = [files EXCEPT ![Obj] = left] /\ shadow' = [shadow EXCEPT ![Obj] = Surviving(Obj, left)]
    BY DEF Leave
<1> HIDE DEF left
<1>4. files' \in [Objects -> File] /\ shadow' \in [Objects -> [Cells -> Datum \cup {Undef}]]
    BY <1>1, <1>2, <1>3 DEF TypeOK
<1>5. Aligned' BY FreshBuffer DEF Leave, Aligned, BlockStart, BlockRows
<1>6. reply' \in Replies BY DEF Leave, Done, Replies
<1> QED BY <1>4, <1>5, <1>6, FreshBuffer, ZeroTypes DEF Leave, TypeInv, TypeOK

LEMMA TypeClose ==
    TypeInv /\ (close_grid_io \/ CloseLosesBuffer \/ ExitWithoutClose) => TypeInv'
<1> SUFFICES ASSUME TypeInv, close_grid_io \/ CloseLosesBuffer \/ ExitWithoutClose
             PROVE  TypeInv'
    OBVIOUS
<1> TypeOK BY DEF TypeInv
<1>1. CASE close_grid_io BY <1>1, FlushedType, TypeLeave DEF close_grid_io
<1>2. CASE ExitWithoutClose BY <1>2, FlushedType, TypeLeave DEF ExitWithoutClose
<1>3. CASE CloseLosesBuffer
  <2>1. PICK k \in 0 .. num_rows - 1 : Leave(Written(k)) BY <1>3 DEF CloseLosesBuffer
  <2>2. k \in 0 .. num_rows BY DEF TypeOK
  <2> QED BY <2>1, <2>2, WrittenType, TypeLeave
<1> QED BY <1>1, <1>2, <1>3

\* An exchange that fails moves num_rows at most, never the block's bounds.
LEMMA TypeFailure ==
    ASSUME TypeInv, NEW row \in Rows, FlushFails \/ LoadFails(row)
    PROVE  /\ files' \in [Objects -> File] /\ data' \in [Slots -> RowData]
           /\ num_rows' \in 1 .. Incr /\ ferr' \in BOOLEAN
           /\ UNCHANGED <<start_row, final_row>> /\ Aligned'
<1> TypeOK BY DEF TypeInv
<1>1. CASE FlushFails
  <2>1. PICK k \in 0 .. num_rows : files' = [files EXCEPT ![Obj] = Written(k)]
      BY <1>1 DEF FlushFails
  <2>2. files' \in [Objects -> File] BY <2>1, WrittenType DEF TypeOK
  <2> QED
      BY <1>1, <2>2 DEF FlushFails, bufferVars, TypeInv, TypeOK, Aligned, BlockStart, BlockRows
<1>2. CASE LoadFails(row)
  <2>1. PICK j \in 0 .. BlockRows(row) : data' = Loaded(data, Flushed, BlockStart(row), j)
      BY <1>2 DEF LoadFails
  <2>2. j \in Nat /\ BlockStart(row) + j <= Height
      BY BlockFacts, GridAssumption, BufferAssumption DEF Rows
  <2>3. data' \in [Slots -> RowData]
      BY <2>1, <2>2, BlockFacts, FlushedType, LoadedType DEF TypeOK
  <2>4. files' \in [Objects -> File] BY <1>2, FlushedType DEF LoadFails, TypeOK
  <2>5. num_rows' \in 1 .. Incr BY <1>2, BlockFacts DEF LoadFails
  <2> QED BY <1>2, <2>3, <2>4, <2>5 DEF LoadFails, TypeInv, Aligned, BlockStart, BlockRows
<1> QED BY <1>1, <1>2

LEMMA TypeGet ==
    TypeInv /\ (\E row \in Rows, col \in Cols : get_element(row, col)) => TypeInv'
<1> SUFFICES ASSUME TypeInv, NEW row \in Rows, NEW col \in Cols, get_element(row, col)
             PROVE  TypeInv'
    OBVIOUS
<1> TypeOK BY DEF TypeInv
<1> USE DEF get_element, Reach
<1>1. start_row' \in Rows /\ final_row' \in Rows /\ num_rows' \in 1 .. Incr /\ Aligned'
    BY MoveType
<1>2. data' \in [Slots -> RowData] BY ExchangeType
<1>3. row - start_row' \in Slots BY MoveAligned DEF MoveTo
<1>4. reply' \in Replies BY <1>2, <1>3 DEF Read, Replies, RowData, Cells
<1>5. files' \in [Objects -> File] BY FlushedType DEF TypeOK
<1> QED BY <1>1, <1>2, <1>4, <1>5 DEF TypeInv, TypeOK

LEMMA TypePut ==
    TypeInv /\ (\E row \in Rows, col \in Cols, x \in Inputs : put_element(row, col, x)) => TypeInv'
<1> SUFFICES ASSUME TypeInv, NEW row \in Rows, NEW col \in Cols, NEW x \in Inputs,
                    put_element(row, col, x)
             PROVE  TypeInv'
    OBVIOUS
<1> TypeOK BY DEF TypeInv
<1> USE DEF put_element, Reach
<1>1. start_row' \in Rows /\ final_row' \in Rows /\ num_rows' \in 1 .. Incr /\ Aligned'
    BY MoveType
<1>2. PICK d \in Encodings(x) :
          /\ data' = [Fetched(row) EXCEPT ![row - FirstRow(row)][col] = d]
          /\ shadow' = [shadow EXCEPT ![Obj][<<row, col>>] = d]
    OBVIOUS
<1>3. d \in Datum BY EncodingsAreData
<1>4. data' \in [Slots -> RowData] BY <1>2, <1>3, ExchangeType DEF RowData
<1>5. shadow' \in [Objects -> [Cells -> Datum \cup {Undef}]] BY <1>2, <1>3 DEF TypeOK
<1>6. files' \in [Objects -> File] BY FlushedType DEF TypeOK
<1>7. reply' \in Replies BY DEF Done, Replies
<1> QED BY <1>1, <1>4, <1>5, <1>6, <1>7 DEF TypeInv, TypeOK

LEMMA TypeFill ==
    TypeInv /\ ((\E x \in Inputs : FillStart(x)) \/ FillBlock \/ FillFails) => TypeInv'
<1> SUFFICES ASSUME TypeInv, (\E x \in Inputs : FillStart(x)) \/ FillBlock \/ FillFails
             PROVE  TypeInv'
    OBVIOUS
<1> TypeOK BY DEF TypeInv
<1> next_row \in Rows BY DEF TypeOK
<1> 0 \in Rows BY FreshBuffer
<1>1. CASE \E x \in Inputs : FillStart(x)
    BY <1>1, EncodingsAreData
       DEF FillStart, bufferVars, TypeInv, TypeOK, Aligned, BlockStart, BlockRows
<1>2. CASE FillBlock
  <2> USE <1>2 DEF FillBlock
  <2>1. start_row' \in Rows /\ final_row' \in Rows /\ num_rows' \in 1 .. Incr /\ Aligned'
      BY MoveType
  <2>2. filling \in Datum BY DEF TypeOK
  <2>3. data' \in [Slots -> RowData] BY <2>2, ExchangeType DEF RowData
  <2>4. shadow' \in [Objects -> [Cells -> Datum \cup {Undef}]] BY <2>2 DEF TypeOK
  <2>5. files' \in [Objects -> File] BY FlushedType DEF TypeOK
  <2>6. next_row' \in Rows /\ filling' \in Datum \cup {Undef} /\ reply' \in Replies
    <3> HIDE DEF FillBlock
    <3>1. CASE next_row + Incr < Height
      <4>1. next_row' = next_row + Incr /\ UNCHANGED <<filling, reply>> BY <3>1 DEF FillBlock
      <4> QED BY <3>1, <4>1, GridAssumption, BufferAssumption DEF TypeOK, Rows
    <3>2. CASE ~(next_row + Incr < Height)
      <4>1. next_row' = 0 /\ filling' = Undef /\ reply' = Done BY <3>2 DEF FillBlock
      <4> QED BY <4>1 DEF Done, Replies
    <3> QED BY <3>1, <3>2
  <2> QED BY <2>1, <2>3, <2>4, <2>5, <2>6 DEF TypeInv, TypeOK
<1>3. CASE FillFails
    BY <1>3, TypeFailure DEF FillFails, TypeInv, TypeOK, Failed, Replies
<1> QED BY <1>1, <1>2, <1>3

LEMMA TypeRefused ==
    /\ TypeInv /\ (\E row \in Rows : ExchangeFails(row)) => TypeInv'
    /\ TypeInv /\ (\E row \in -1 .. Height, col \in -1 .. Width : OutOfBounds(row, col)) => TypeInv'
<1>1. ASSUME TypeInv, NEW row \in Rows, ExchangeFails(row) PROVE TypeInv'
    BY <1>1, TypeFailure DEF ExchangeFails, TypeInv, TypeOK, Failed, Replies
<1>2. ASSUME TypeInv, NEW row \in -1 .. Height, NEW col \in -1 .. Width, OutOfBounds(row, col)
      PROVE  TypeInv'
    BY <1>2 DEF OutOfBounds, bufferVars, TypeInv, TypeOK, Aligned, BlockStart, BlockRows, Failed, Replies
<1> QED BY <1>1, <1>2

LEMMA TypeStep == TypeInv /\ [Next]_vars => TypeInv'
<1> SUFFICES ASSUME TypeInv, [Next]_vars PROVE TypeInv'
    OBVIOUS
<1>1. CASE UNCHANGED vars
    BY <1>1 DEF vars, bufferVars, TypeInv, TypeOK, Aligned, BlockStart, BlockRows
<1>2. CASE Next
    BY <1>2, TypeOpen, TypeOpenFails, TypeRefused, TypeGet, TypePut, TypeFill, TypeClose DEF Next
<1> QED BY <1>1, <1>2

LEMMA TypeInvariance == Spec => []TypeInv
<1> QED BY TypeInit, TypeStep, PTL DEF Spec

\* Every variable keeps its type: in particular no access leaves the buffer's
\* rows, whatever errors stdio reports and whatever clients do.
THEOREM TypeCorrect == Spec => []TypeOK
<1>1. TypeInv => TypeOK BY DEF TypeInv
<1> QED BY <1>1, TypeInvariance, PTL
-----------------------------------------------------------------------------
(***************************************************************************)
(* What no step does, whatever stdio reports and clients do.               *)
(***************************************************************************)

\* A handle that is not writable writes its file back unchanged.
LEMMA UnwrittenUnchanged ==
    ASSUME TypeOK, mode = "READ_ONLY"
    PROVE  [files EXCEPT ![Obj] = Flushed] = files
BY DEF TypeOK, Flushed, Disk, Writable

LEMMA ReadOnlyStep ==
    TypeOK /\ [Next]_vars => [mode = "READ_ONLY" => files' = files]_vars
<1> SUFFICES ASSUME TypeOK, Next, mode = "READ_ONLY" PROVE files' = files
    OBVIOUS
<1> ~Writable BY DEF Writable
<1> mode # "closed" /\ mode # "TEMPORARY" OBVIOUS
<1>1. ASSUME NEW row \in Rows, FlushFails \/ LoadFails(row) PROVE files' = files
    BY <1>1, UnwrittenUnchanged DEF FlushFails, LoadFails
<1>2. ASSUME NEW f, Leave(f), f = Disk PROVE files' = files
    BY <1>2 DEF Leave, Disk, TypeOK
<1>3. Flushed = Disk BY DEF Flushed
<1>4. CASE \E m \in Modes : Open(m) \/ OpenFails(m)
    BY <1>4 DEF Open, OpenFails
<1>5. CASE \E row \in -1 .. Height, col \in -1 .. Width : OutOfBounds(row, col)
    BY <1>5 DEF OutOfBounds
<1>6. CASE \E row \in Rows : ExchangeFails(row)
    BY <1>6, <1>1 DEF ExchangeFails
<1>7. CASE \E row \in Rows, col \in Cols : get_element(row, col)
    BY <1>7, UnwrittenUnchanged DEF get_element, Reach
<1>8. CASE \E row \in Rows, col \in Cols, x \in Inputs : put_element(row, col, x)
    BY <1>8, UnwrittenUnchanged DEF put_element, Reach
<1>9. CASE \E x \in Inputs : FillStart(x)
    BY <1>9 DEF FillStart
<1>10. CASE FillBlock
    BY <1>10, UnwrittenUnchanged DEF FillBlock
<1>11. CASE FillFails
    BY <1>11, <1>1 DEF FillFails, TypeOK
<1>12. CASE close_grid_io
    BY <1>12, <1>2, <1>3 DEF close_grid_io
<1>13. CASE CloseLosesBuffer
    BY <1>13 DEF CloseLosesBuffer
<1>14. CASE ExitWithoutClose
    BY <1>14, <1>2 DEF ExitWithoutClose
<1> QED
    BY <1>4, <1>5, <1>6, <1>7, <1>8, <1>9, <1>10, <1>11, <1>12, <1>13, <1>14 DEF Next

\* exchange_row_buffer's only test of io_mode keeps every operation, the
\* flush of close_grid_io included, away from a file opened READ_ONLY.
THEOREM ReadOnlyFile == Spec => ReadOnlyUntouched
<1>1. TypeOK /\ [Next]_vars => [mode = "READ_ONLY" => files' = files]_vars
    BY ReadOnlyStep
<1> QED BY <1>1, TypeCorrect, PTL DEF Spec, ReadOnlyUntouched

LEMMA PinStep ==
    TypeOK /\ [Next]_vars =>
        [ferr /\ mode' # "closed" /\ mode # "closed"
            => ferr' /\ UNCHANGED <<start_row, final_row>>]_vars
<1> SUFFICES ASSUME TypeOK, Next, ferr, mode' # "closed", mode # "closed"
             PROVE  ferr' /\ UNCHANGED <<start_row, final_row>>
    OBVIOUS
<1>1. ASSUME NEW row \in Rows, FlushFails \/ LoadFails(row)
      PROVE  ferr' /\ UNCHANGED <<start_row, final_row>>
    BY <1>1 DEF FlushFails, LoadFails, bufferVars
<1>2. ASSUME NEW row \in Rows, InBuffer(row), MoveTo(row)
      PROVE  UNCHANGED <<start_row, final_row>>
    BY <1>2 DEF MoveTo, FirstRow, LastRow
<1>3. CASE \E m \in Modes : Open(m) \/ OpenFails(m)
    BY <1>3 DEF Open, OpenFails
<1>4. CASE \E row \in -1 .. Height, col \in -1 .. Width : OutOfBounds(row, col)
    BY <1>4 DEF OutOfBounds, bufferVars
<1>5. CASE \E row \in Rows : ExchangeFails(row)
    BY <1>5, <1>1 DEF ExchangeFails
<1>6. CASE \E row \in Rows, col \in Cols : get_element(row, col)
    BY <1>6, <1>2 DEF get_element, Reach
<1>7. CASE \E row \in Rows, col \in Cols, x \in Inputs : put_element(row, col, x)
    BY <1>7, <1>2 DEF put_element, Reach
<1>8. CASE \E x \in Inputs : FillStart(x)
    BY <1>8 DEF FillStart, bufferVars
<1>9. CASE FillBlock
    BY <1>9, <1>2 DEF FillBlock, TypeOK
<1>10. CASE FillFails
    BY <1>10, <1>1 DEF FillFails, TypeOK
<1>11. CASE close_grid_io \/ CloseLosesBuffer \/ ExitWithoutClose
    BY <1>11 DEF close_grid_io, CloseLosesBuffer, ExitWithoutClose, Leave
<1> QED
    BY <1>3, <1>4, <1>5, <1>6, <1>7, <1>8, <1>9, <1>10, <1>11 DEF Next

\* A closed handle has no error flag.
ClosedClean == mode = "closed" => ~ferr /\ filling = Undef
LEMMA ClosedCleanInvariance == Spec => []ClosedClean
<1>1. Init => ClosedClean BY DEF Init, ClosedClean
<1>2. ClosedClean /\ [Next]_vars => ClosedClean'
  <2> SUFFICES ASSUME ClosedClean, [Next]_vars, mode' = "closed"
               PROVE  ~ferr' /\ filling' = Undef
      BY DEF ClosedClean
  <2>1. CASE mode = "closed"
    <3>1. CASE UNCHANGED vars BY <2>1, <3>1 DEF vars, ClosedClean
    <3>2. CASE Next
      BY <2>1, <3>2 DEF ClosedClean, Next, Ready, Modes, Open, OpenFails, OutOfBounds,
         ExchangeFails, get_element, put_element, FillStart, FillBlock, FillFails,
         close_grid_io, CloseLosesBuffer, ExitWithoutClose
    <3> QED BY <3>1, <3>2
  <2>2. CASE mode # "closed"
      BY <2>2 DEF vars, Next, Open, OpenFails, OutOfBounds,
         ExchangeFails, get_element, put_element, FillStart, FillBlock, FillFails,
         close_grid_io, CloseLosesBuffer, ExitWithoutClose, Leave, Ready
  <2> QED BY <2>1, <2>2
<1> QED BY <1>1, <1>2, PTL DEF Spec

\* ferror without clearerr: one error of a read or a write keeps the buffer
\* where it is until the handle is closed.
THEOREM ErrorsPin == Spec => ErrorPinsBuffer
<1>1. TypeOK /\ ClosedClean /\ [Next]_vars =>
        [ferr /\ mode' # "closed" => ferr' /\ UNCHANGED <<start_row, final_row>>]_vars
    BY PinStep DEF ClosedClean
<1> QED BY <1>1, TypeCorrect, ClosedCleanInvariance, PTL DEF Spec, ErrorPinsBuffer

-----------------------------------------------------------------------------
(***************************************************************************)
(* What an exchange does to the cells a client relies on.                  *)
(***************************************************************************)

LEMMA IInvFacts ==
    ASSUME IInv
    PROVE  /\ TypeOK /\ TypeInv
           /\ num_rows = final_row - start_row + 1
           /\ start_row \in Nat /\ final_row \in Nat
BY DEF IInv, BlockShape, TypeInv, Aligned, TypeOK, Rows

LEMMA CellFacts ==
    ASSUME NEW cell \in Cells
    PROVE  /\ cell[1] \in Rows /\ cell[1] \in Nat /\ cell[1] < Height
           /\ cell[2] \in Cols
           /\ cell = <<cell[1], cell[2]>>
BY GridAssumption DEF Cells, Rows

\* A cell outside the buffer is where it was however many rows are written.
LEMMA WrittenKeepsOthers ==
    ASSUME IInv, NEW k \in 0 .. num_rows, NEW cell \in Cells,
           ~InBuffer(cell[1]), HoldsOnDisk(Obj, cell)
    PROVE  /\ cell[1] < Written(k).len
           /\ Written(k).row[cell[1]][cell[2]] = shadow[Obj][cell]
<1>1. ~(start_row <= cell[1] /\ cell[1] < start_row + k)
    BY IInvFacts, CellFacts DEF InBuffer, TypeOK
<1>2. Disk.len \in 0 .. Height + Incr BY IInvFacts, FlushedType DEF File
<1>3. Written(k).len >= Disk.len
    BY <1>2, IInvFacts, BufferAssumption, GridAssumption DEF Written, TypeOK
<1>4. Written(k).row[cell[1]] = Disk.row[cell[1]] BY <1>1, CellFacts DEF Written
<1> QED
    BY <1>2, <1>3, <1>4, CellFacts, IInvFacts, BufferAssumption, GridAssumption
       DEF HoldsOnDisk, Disk, Written, TypeOK

\* Once the buffer is written back, the file holds everything.
LEMMA FlushedHolds ==
    ASSUME IInv, mode # "closed", NEW cell \in Cells, shadow[Obj][cell] # Undef
    PROVE  /\ cell[1] < Flushed.len
           /\ Flushed.row[cell[1]][cell[2]] = shadow[Obj][cell]
<1> Obj \in Objects BY ObjIsObject
<1>1. CASE ~Writable
    BY <1>1 DEF IInv, ReadOnlyOnDisk, Writable, HoldsOnDisk, Flushed, Disk
<1>2. CASE Writable /\ ~InBuffer(cell[1])
  <2>1. HoldsOnDisk(Obj, cell) BY <1>2 DEF IInv, Coherent
  <2>2. num_rows \in 0 .. num_rows BY IInvFacts, BufferAssumption DEF TypeOK
  <2> QED BY <1>2, <2>1, <2>2, WrittenKeepsOthers DEF Flushed
<1>3. CASE Writable /\ InBuffer(cell[1])
  <2>1. data[cell[1] - start_row][cell[2]] = shadow[Obj][cell]
      BY <1>3 DEF IInv, Coherent
  <2>2. start_row <= cell[1] /\ cell[1] < start_row + num_rows
      BY <1>3, IInvFacts, CellFacts DEF InBuffer
  <2>3. Flushed = Written(num_rows) BY <1>3 DEF Flushed
  <2>4. Disk.len \in 0 .. Height + Incr BY IInvFacts, FlushedType DEF File
  <2>5. cell[1] < Written(num_rows).len
      BY <2>2, <2>4, IInvFacts, CellFacts, BufferAssumption, GridAssumption DEF Written, TypeOK
  <2>6. Written(num_rows).row[cell[1]] = data[cell[1] - start_row]
      BY <2>2, CellFacts DEF Written
  <2> QED BY <2>1, <2>3, <2>5, <2>6
<1> QED BY <1>1, <1>2, <1>3

\* Where FirstRow and LastRow put the buffer, Fetched has its cells.
LEMMA FetchedHolds ==
    ASSUME IInv, mode # "closed", NEW row \in Rows,
           NEW cell \in Cells, shadow[Obj][cell] # Undef,
           FirstRow(row) <= cell[1], cell[1] <= LastRow(row)
    PROVE  Fetched(row)[cell[1] - FirstRow(row)][cell[2]] = shadow[Obj][cell]
<1> Obj \in Objects BY ObjIsObject
<1>1. CASE InBuffer(row)
    BY <1>1 DEF IInv, Coherent, FirstRow, LastRow, Fetched, InBuffer
<1>2. CASE ~InBuffer(row)
  <2> DEFINE i == cell[1] - BlockStart(row)
  <2>1. /\ BlockStart(row) \in Nat /\ BlockRows(row) \in 1 .. Incr
        /\ FirstRow(row) = BlockStart(row)
        /\ LastRow(row) = BlockStart(row) + BlockRows(row) - 1
      BY <1>2, BlockFacts DEF FirstRow, LastRow, Rows
  <2>2. i \in Slots /\ i < BlockRows(row) /\ BlockStart(row) + i = cell[1]
      BY <2>1, CellFacts, BufferAssumption, GridAssumption DEF Slots
  <2>3. Fetched(row)[i] = Flushed.row[cell[1]]
      BY <1>2, <2>2, FlushedHolds DEF Fetched, Loaded
  <2> QED BY <2>1, <2>3, FlushedHolds
<1> QED BY <1>1, <1>2

\* The block's bounds after a successful exchange agree.
LEMMA MoveShape ==
    ASSUME IInv, NEW row \in Rows, MoveTo(row)
    PROVE  BlockShape'
<1>1. Aligned' BY IInvFacts, MoveType
<1>2. num_rows' = BlockRows(start_row')
  <2>1. CASE InBuffer(row)
      BY <2>1 DEF MoveTo, FirstRow, Count, IInv, BlockShape
  <2>2. CASE ~InBuffer(row)
      BY <2>2, BlockFacts DEF MoveTo, FirstRow, Count, BlockRows
  <2> QED BY <2>1, <2>2
<1> QED BY <1>1, <1>2 DEF BlockShape, BlockRows, BlockStart
-----------------------------------------------------------------------------
(***************************************************************************)
(* IInv is inductive.                                                      *)
(***************************************************************************)

LEMMA IInvInit == Init => IInv
<1> SUFFICES ASSUME Init PROVE IInv
    OBVIOUS
<1>1. TypeInv BY TypeInit
<1>2. BlockShape
  <2>1. start_row = 0 /\ final_row = Incr - 1 /\ num_rows = Incr BY DEF Init
  <2> QED BY <1>1, <2>1, FreshBuffer DEF TypeInv, BlockShape
<1>3. Coherent BY DEF Init, Coherent, HoldsOnDisk, Contents
<1> QED BY <1>1, <1>2, <1>3
        DEF IInv, TypeInv, Init, WriterErrors, WriterFills, ReadOnlyOnDisk, Modes

\* A cell the handle does not reach stays on disk.
LEMMA OthersOnDisk ==
    ASSUME IInv, NEW o \in Objects, NEW cell \in Cells, shadow[o][cell] # Undef,
           o # Obj \/ mode = "closed"
    PROVE  HoldsOnDisk(o, cell)
BY DEF IInv, Coherent

LEMMA IInvOpen ==
    ASSUME IInv, NEW m \in Modes, Open(m)
    PROVE  IInv'
<1> DEFINE obj == ObjectOf(m)
<1> mode = "closed" /\ mode' = m /\ m # "closed" BY DEF Open, Modes
<1>1. TypeInv' BY IInvFacts, TypeOpen
<1>2. BlockShape' BY <1>1, FreshBuffer DEF Open, TypeInv, BlockShape, BlockRows, BlockStart
<1>3. ~ferr' /\ filling' = Undef BY DEF Open, IInv, WriterFills
<1>4. ASSUME NEW o \in Objects, NEW cell \in Cells, shadow'[o][cell] # Undef
      PROVE  /\ cell[1] < files'[o].len
             /\ files'[o].row[cell[1]][cell[2]] = shadow'[o][cell]
  <2>1. CASE o = obj /\ m \in {"WRITE", "TEMPORARY"}
      BY <1>4, <2>1, IInvFacts DEF Open, Blank, TypeOK
  <2>2. CASE ~(o = obj /\ m \in {"WRITE", "TEMPORARY"})
    <3>1. files'[o] = files[o] /\ shadow'[o] = shadow[o]
        BY <2>2, IInvFacts DEF Open, Opened, TypeOK
    <3> QED BY <1>4, <3>1, OthersOnDisk DEF HoldsOnDisk
  <2> QED BY <2>1, <2>2
<1>5. ASSUME NEW cell \in Cells, shadow'[obj][cell] # Undef,
             start_row' <= cell[1], cell[1] <= final_row'
      PROVE  data'[cell[1] - start_row'][cell[2]] = shadow'[obj][cell]
  <2>1. /\ cell[1] - start_row' = cell[1]
        /\ cell[1] \in Slots /\ cell[1] < Incr /\ 0 + cell[1] = cell[1]
      BY <1>5, CellFacts, BufferAssumption, GridAssumption DEF Open, Slots
  <2>2. obj \in Objects /\ files'[obj] = Opened(m)
      BY ObjIsObject, IInvFacts DEF Open, TypeOK
  <2>3. cell[1] < Opened(m).len /\ Opened(m).row[cell[1]][cell[2]] = shadow'[obj][cell]
      BY <1>4, <1>5, <2>2
  <2>4. data'[cell[1]] = Opened(m).row[cell[1]]
      BY <2>1, <2>3 DEF Open, Loaded
  <2> QED BY <2>1, <2>3, <2>4
<1>6. Coherent' BY <1>4, <1>5 DEF Coherent, HoldsOnDisk, Obj, InBuffer
<1>7. ReadOnlyOnDisk' BY <1>4, ObjIsObject DEF ReadOnlyOnDisk, HoldsOnDisk, Obj
<1> QED BY <1>1, <1>2, <1>3, <1>6, <1>7 DEF IInv, TypeInv, WriterErrors, WriterFills

LEMMA IInvLeave ==
    ASSUME IInv, NEW f \in File, Leave(f), filling = Undef
    PROVE  IInv'
<1> DEFINE left == IF mode = "TEMPORARY" THEN NoFile ELSE f
<1> Obj \in Objects BY ObjIsObject
<1>1. TypeInv' BY IInvFacts, TypeLeave
<1>2. BlockShape' BY <1>1, FreshBuffer DEF Leave, TypeInv, BlockShape, BlockRows, BlockStart
<1>3. ~ferr' /\ filling' = Undef /\ mode' = "closed" BY DEF Leave
<1>4. ASSUME NEW o \in Objects, NEW cell \in Cells, shadow'[o][cell] # Undef
      PROVE  /\ cell[1] < files'[o].len
             /\ files'[o].row[cell[1]][cell[2]] = shadow'[o][cell]
  <2>1. CASE o = Obj
    <3>1. files'[o] = left /\ shadow'[o] = Surviving(Obj, left)
        BY <2>1, IInvFacts DEF Leave, TypeOK
    <3> HIDE DEF left
    <3> QED BY <1>4, <3>1 DEF Surviving, Contents
  <2>2. CASE o # Obj
    <3>1. files'[o] = files[o] /\ shadow'[o] = shadow[o]
        BY <2>2, IInvFacts DEF Leave, TypeOK
    <3> QED BY <1>4, <2>2, <3>1, OthersOnDisk DEF HoldsOnDisk
  <2> QED BY <2>1, <2>2
<1>5. Coherent' BY <1>3, <1>4 DEF Coherent, HoldsOnDisk
<1> QED BY <1>1, <1>2, <1>3, <1>5
        DEF IInv, TypeInv, WriterErrors, WriterFills, ReadOnlyOnDisk

\* A write that fails part way leaves the block in the buffer; without read
\* errors nothing else fails.
LEMMA IInvFailure ==
    ASSUME IInv, "read" \notin Faults, mode # "closed", NEW row \in Rows,
           FlushFails \/ LoadFails(row), UNCHANGED <<mode, shadow>>
    PROVE  BlockShape' /\ ReadOnlyOnDisk' /\ Coherent' /\ Writable /\ "write" \in Faults
<1> Obj \in Objects BY ObjIsObject
<1>1. ~LoadFails(row) BY DEF LoadFails, IInv, WriterErrors
<1>2. PICK k \in 0 .. num_rows : files' = [files EXCEPT ![Obj] = Written(k)]
    BY <1>1 DEF FlushFails
<1>3. Writable /\ UNCHANGED bufferVars BY <1>1 DEF FlushFails
<1> "write" \in Faults BY <1>1, IInvFacts, BufferAssumption DEF FlushFails, IInv, WriterErrors
<1>4. BlockShape'
    BY <1>3 DEF bufferVars, IInv, BlockShape, Aligned, BlockStart, BlockRows
<1>5. ReadOnlyOnDisk' BY <1>3 DEF Writable, ReadOnlyOnDisk
<1>6. ASSUME NEW o \in Objects, NEW cell \in Cells, shadow[o][cell] # Undef,
             ~(o = Obj /\ InBuffer(cell[1]))
      PROVE  /\ cell[1] < files'[o].len
             /\ files'[o].row[cell[1]][cell[2]] = shadow[o][cell]
  <2>1. HoldsOnDisk(o, cell) BY <1>6 DEF IInv, Coherent
  <2>2. CASE o = Obj
    <3>1. files'[o] = Written(k) BY <1>2, <2>2, IInvFacts DEF TypeOK
    <3> QED BY <1>6, <2>1, <2>2, <3>1, WrittenKeepsOthers
  <2>3. CASE o # Obj
    <3>1. files'[o] = files[o] BY <1>2, <2>3, IInvFacts DEF TypeOK
    <3> QED BY <2>1, <3>1 DEF HoldsOnDisk
  <2> QED BY <2>2, <2>3
<1>7. Coherent'
    BY <1>3, <1>6 DEF bufferVars, IInv, Coherent, HoldsOnDisk, Obj, InBuffer
<1> QED BY <1>3, <1>4, <1>5, <1>7

\* A successful exchange, or none when the row is in the buffer: what the
\* client relies on is in the buffer where the buffer covers it, on disk
\* elsewhere.
LEMMA ReachHolds ==
    ASSUME IInv, mode # "closed", NEW row \in Rows, MoveTo(row),
           NEW f, f = Flushed \/ (f = Disk /\ InBuffer(row)),
           NEW cell \in Cells, shadow[Obj][cell] # Undef
    PROVE  IF start_row' <= cell[1] /\ cell[1] <= final_row'
           THEN Fetched(row)[cell[1] - start_row'][cell[2]] = shadow[Obj][cell]
           ELSE cell[1] < f.len /\ f.row[cell[1]][cell[2]] = shadow[Obj][cell]
<1> Obj \in Objects BY ObjIsObject
<1>1. CASE start_row' <= cell[1] /\ cell[1] <= final_row'
    BY <1>1, FetchedHolds DEF MoveTo
<1>2. CASE ~(start_row' <= cell[1] /\ cell[1] <= final_row') /\ f = Flushed
    BY <1>2, FlushedHolds
<1>3. CASE ~(start_row' <= cell[1] /\ cell[1] <= final_row') /\ f = Disk /\ InBuffer(row)
  <2>1. ~InBuffer(cell[1]) BY <1>3 DEF MoveTo, FirstRow, LastRow, InBuffer
  <2> QED BY <1>3, <2>1 DEF IInv, Coherent, HoldsOnDisk, Disk
<1> QED BY <1>1, <1>2, <1>3

\* get, put and fill leave the other object alone.
LEMMA CoherentByObject ==
    ASSUME IInv, mode # "closed", UNCHANGED mode,
           \A o \in Objects : o # Obj => files'[o] = files[o] /\ shadow'[o] = shadow[o],
           \A cell \in Cells : shadow'[Obj][cell] # Undef =>
               IF start_row' <= cell[1] /\ cell[1] <= final_row'
               THEN data'[cell[1] - start_row'][cell[2]] = shadow'[Obj][cell]
               ELSE /\ cell[1] < files'[Obj].len
                    /\ files'[Obj].row[cell[1]][cell[2]] = shadow'[Obj][cell]
    PROVE  Coherent'
<1> SUFFICES ASSUME NEW o \in Objects, NEW cell \in Cells, shadow'[o][cell] # Undef
             PROVE  IF o = Obj /\ start_row' <= cell[1] /\ cell[1] <= final_row'
                    THEN data'[cell[1] - start_row'][cell[2]] = shadow'[o][cell]
                    ELSE /\ cell[1] < files'[o].len
                         /\ files'[o].row[cell[1]][cell[2]] = shadow'[o][cell]
    BY DEF Coherent, HoldsOnDisk, Obj, InBuffer
<1>1. CASE o = Obj BY <1>1
<1>2. CASE o # Obj BY <1>2, OthersOnDisk DEF HoldsOnDisk
<1> QED BY <1>1, <1>2

LEMMA IInvGet ==
    ASSUME IInv, NEW row \in Rows, NEW col \in Cols, get_element(row, col)
    PROVE  IInv'
<1> USE DEF get_element, Reach
<1> Obj \in Objects /\ mode # "closed" BY ObjIsObject DEF Ready
<1>1. TypeInv' BY IInvFacts, TypeGet
<1>2. BlockShape' BY MoveShape
<1>3. /\ files'[Obj] = Flushed \/ (files'[Obj] = Disk /\ InBuffer(row))
      /\ \A o \in Objects : o # Obj => files'[o] = files[o]
    BY IInvFacts DEF TypeOK, Disk
<1>4. Coherent'
  <2> SUFFICES ASSUME NEW cell \in Cells, shadow[Obj][cell] # Undef
               PROVE  IF start_row' <= cell[1] /\ cell[1] <= final_row'
                      THEN data'[cell[1] - start_row'][cell[2]] = shadow[Obj][cell]
                      ELSE /\ cell[1] < files'[Obj].len
                           /\ files'[Obj].row[cell[1]][cell[2]] = shadow[Obj][cell]
      BY <1>3, CoherentByObject
  <2> QED BY <1>3, ReachHolds
<1>5. ReadOnlyOnDisk'
  <2>1. mode = "READ_ONLY" => files' = files BY IInvFacts, UnwrittenUnchanged
  <2> QED BY <2>1 DEF IInv, ReadOnlyOnDisk, HoldsOnDisk, Obj
<1>6. WriterErrors' /\ WriterFills'
    BY DEF IInv, WriterErrors, WriterFills, Writable, BlockStart
<1> QED BY <1>1, <1>2, <1>4, <1>5, <1>6 DEF IInv, TypeInv

LEMMA IInvPut ==
    ASSUME IInv, Disciplined, NEW row \in Rows, NEW col \in Cols, NEW x \in Inputs,
           put_element(row, col, x)
    PROVE  IInv'
<1> USE DEF put_element, Reach
<1> Obj \in Objects /\ mode # "closed" /\ Writable BY ObjIsObject DEF Ready
<1>1. TypeInv' BY IInvFacts, TypePut
<1>2. BlockShape' BY MoveShape
<1>3. /\ files'[Obj] = Flushed \/ (files'[Obj] = Disk /\ InBuffer(row))
      /\ \A o \in Objects : o # Obj => files'[o] = files[o] /\ shadow'[o] = shadow[o]
    BY IInvFacts DEF TypeOK, Disk
<1>4. PICK d \in Encodings(x) :
          /\ data' = [Fetched(row) EXCEPT ![row - FirstRow(row)][col] = d]
          /\ shadow' = [shadow EXCEPT ![Obj][<<row, col>>] = d]
    OBVIOUS
<1>5. ASSUME NEW cell \in Cells, shadow'[Obj][cell] # Undef
      PROVE  IF start_row' <= cell[1] /\ cell[1] <= final_row'
             THEN data'[cell[1] - start_row'][cell[2]] = shadow'[Obj][cell]
             ELSE /\ cell[1] < files'[Obj].len
                  /\ files'[Obj].row[cell[1]][cell[2]] = shadow'[Obj][cell]
  <2>1. /\ start_row' = FirstRow(row) /\ final_row' = LastRow(row)
        /\ start_row' <= row /\ row <= final_row'
        /\ row - start_row' \in Slots /\ start_row' \in Nat
      BY IInvFacts, MoveAligned, MoveType DEF MoveTo, Rows
  <2>2. Fetched(row) \in [Slots -> RowData] BY IInvFacts, ExchangeType
  <2>3. CASE cell = <<row, col>>
    <3>1. shadow'[Obj][cell] = d BY <1>4, <2>3, IInvFacts DEF TypeOK
    <3>2. data'[row - start_row'][col] = d BY <1>4, <2>1, <2>2 DEF RowData
    <3> QED BY <2>1, <2>3, <3>1, <3>2
  <2>4. CASE cell # <<row, col>>
    <3>1. shadow'[Obj][cell] = shadow[Obj][cell] BY <1>4, <2>4, IInvFacts DEF TypeOK
    <3>2. ASSUME start_row' <= cell[1], cell[1] <= final_row'
          PROVE  data'[cell[1] - start_row'][cell[2]] = Fetched(row)[cell[1] - start_row'][cell[2]]
      <4>1. cell[1] # row \/ cell[2] # col BY <2>4, CellFacts
      <4>2. cell[1] - start_row' \in Slots
          BY <2>1, <3>2, IInvFacts, MoveAligned, MoveType, BlockFacts, CellFacts,
             BufferAssumption, GridAssumption DEF Slots, Rows
      <4>3. cell[1] - start_row' = row - start_row' => cell[1] = row
          BY <2>1, CellFacts DEF Rows
      <4> QED BY <1>4, <2>1, <2>2, <4>1, <4>2, <4>3, CellFacts DEF RowData
    <3> QED BY <1>3, <1>5, <3>1, <3>2, ReachHolds
  <2> QED BY <2>3, <2>4
<1>6. Coherent' BY <1>3, <1>5, CoherentByObject
<1>7. ReadOnlyOnDisk' BY DEF ReadOnlyOnDisk, Writable
<1>8. WriterErrors' /\ WriterFills'
    BY DEF IInv, WriterErrors, WriterFills, Writable, BlockStart
<1> QED BY <1>1, <1>2, <1>6, <1>7, <1>8 DEF IInv, TypeInv

LEMMA NextBlock ==
    ASSUME NEW n \in Rows, n = BlockStart(n), n + Incr < Height
    PROVE  n + Incr = BlockStart(n + Incr)
<1> DEFINE q == n \div Incr
<1>1. n \in Nat /\ Incr \in Nat \ {0} BY BufferAssumption, GridAssumption DEF Rows
<1>2. q \in Nat /\ n = q * Incr BY <1>1, Division DEF BlockStart
<1>3. n + Incr = (q + 1) * Incr BY <1>1, <1>2
<1>4. (((q + 1) * Incr) \div Incr) * Incr = (q + 1) * Incr
    BY <1>1, <1>2, DivisionOfMultiple
<1> QED BY <1>3, <1>4 DEF BlockStart

LEMMA IInvFillBlock ==
    ASSUME IInv, FillBlock
    PROVE  IInv'
<1> DEFINE row == next_row
<1> USE DEF FillBlock
<1>1. /\ Obj \in Objects /\ mode # "closed" /\ Writable
      /\ row \in Rows /\ row = BlockStart(row) /\ filling \in Datum
    BY ObjIsObject, IInvFacts DEF IInv, WriterFills, TypeOK
<1>2. TypeInv' BY IInvFacts, TypeFill
<1>3. BlockShape' BY <1>1, MoveShape
<1>4. /\ files'[Obj] = Flushed
      /\ \A o \in Objects : o # Obj => files'[o] = files[o] /\ shadow'[o] = shadow[o]
    BY IInvFacts, <1>1 DEF TypeOK, Disk
<1>5. /\ start_row' = FirstRow(row) /\ final_row' = LastRow(row)
      /\ Count(row) = final_row' - start_row' + 1
      /\ start_row' \in Nat /\ final_row' \in Nat /\ Count(row) \in 1 .. Incr
    BY <1>1, <1>2, <1>3, IInvFacts, ExchangeType
       DEF MoveTo, BlockShape, Aligned, TypeInv, TypeOK, Rows
<1>6. ASSUME NEW cell \in Cells, shadow'[Obj][cell] # Undef
      PROVE  IF start_row' <= cell[1] /\ cell[1] <= final_row'
             THEN data'[cell[1] - start_row'][cell[2]] = shadow'[Obj][cell]
             ELSE /\ cell[1] < files'[Obj].len
                  /\ files'[Obj].row[cell[1]][cell[2]] = shadow'[Obj][cell]
  <2>1. CASE start_row' <= cell[1] /\ cell[1] <= final_row'
    <3>1. /\ cell[1] - start_row' \in Slots /\ cell[1] - start_row' < Count(row)
          /\ FirstRow(row) <= cell[1] /\ cell[1] < FirstRow(row) + Count(row)
        BY <1>5, <2>1, CellFacts, BufferAssumption, GridAssumption DEF Slots
    <3>2. shadow'[Obj][cell] = filling BY <1>1, <3>1, IInvFacts DEF TypeOK
    <3>3. data'[cell[1] - start_row'][cell[2]] = filling BY <3>1, CellFacts
    <3> QED BY <2>1, <3>2, <3>3
  <2>2. CASE ~(start_row' <= cell[1] /\ cell[1] <= final_row')
    <3>1. ~(FirstRow(row) <= cell[1] /\ cell[1] < FirstRow(row) + Count(row))
        BY <1>5, <2>2, CellFacts
    <3>2. shadow'[Obj][cell] = shadow[Obj][cell] BY <1>1, <3>1, IInvFacts DEF TypeOK
    <3> QED BY <1>1, <1>4, <1>6, <2>2, <3>2, FlushedHolds
  <2> QED BY <2>1, <2>2
<1>7. Coherent' BY <1>1, <1>4, <1>6, CoherentByObject
<1>8. ReadOnlyOnDisk' BY <1>1 DEF ReadOnlyOnDisk, Writable
<1>9. WriterErrors' BY DEF IInv, WriterErrors, Writable
<1>10. WriterFills'
  <2>1. mode' = mode /\ mode' # "closed" /\ Writable' BY <1>1 DEF Writable
  <2>2. CASE row + Incr < Height
    <3>1. next_row' = row + Incr BY <2>2
    <3>2. next_row' = BlockStart(next_row') BY <1>1, <2>2, <3>1, NextBlock
    <3> QED BY <2>1, <3>2 DEF WriterFills, BlockStart
  <2>3. CASE ~(row + Incr < Height)
    <3>1. filling' = Undef BY <2>3
    <3> QED BY <3>1 DEF WriterFills
  <2> QED BY <2>2, <2>3
<1> QED BY <1>2, <1>3, <1>7, <1>8, <1>9, <1>10 DEF IInv, TypeInv

\* A step that leaves the file, the buffer and the mode alone, and starts a
\* fill at most.
LEMMA IInvQuiet ==
    ASSUME IInv, TypeInv', UNCHANGED <<mode, files, bufferVars, ferr, shadow>>, WriterFills'
    PROVE  IInv'
BY DEF IInv, TypeInv, bufferVars, BlockShape, Aligned, BlockStart, BlockRows, WriterErrors,
   Writable, ReadOnlyOnDisk, HoldsOnDisk, Obj, Coherent, InBuffer

LEMMA IInvStep ==
    "read" \notin Faults /\ Disciplined => (IInv /\ [Next]_vars => IInv')
<1> SUFFICES ASSUME "read" \notin Faults, Disciplined, IInv, [Next]_vars PROVE IInv'
    OBVIOUS
<1>1. TypeInv' BY IInvFacts, TypeStep
<1>2. CASE UNCHANGED vars
    BY <1>1, <1>2, IInvQuiet DEF vars, IInv, WriterFills, Writable, BlockStart
<1>3. CASE \E m \in Modes : Open(m) \/ OpenFails(m)
    BY <1>3, IInvOpen DEF OpenFails
<1>4. CASE \E row \in -1 .. Height, col \in -1 .. Width : OutOfBounds(row, col)
    BY <1>1, <1>4, IInvQuiet DEF OutOfBounds, IInv, WriterFills, Writable, BlockStart
<1>5. CASE \E row \in Rows : ExchangeFails(row)
  <2>1. PICK row \in Rows : ExchangeFails(row) BY <1>5
  <2>2. mode # "closed" /\ filling' = Undef BY <2>1 DEF ExchangeFails, Ready
  <2>3. BlockShape' /\ ReadOnlyOnDisk' /\ Coherent' /\ Writable /\ "write" \in Faults
      BY <2>1, <2>2, IInvFailure DEF ExchangeFails
  <2> QED BY <1>1, <2>1, <2>2, <2>3
          DEF ExchangeFails, IInv, TypeInv, WriterErrors, WriterFills, Writable
<1>6. CASE \E row \in Rows, col \in Cols : get_element(row, col)
    BY <1>6, IInvGet
<1>7. CASE \E row \in Rows, col \in Cols, x \in Inputs : put_element(row, col, x)
    BY <1>7, IInvPut
<1>8. CASE \E x \in Inputs : FillStart(x)
    BY <1>1, <1>8, IInvQuiet, FreshBuffer
       DEF FillStart, Ready, WriterFills, Writable, BlockStart
<1>9. CASE FillBlock
    BY <1>9, IInvFillBlock
<1>10. CASE FillFails
  <2>1. mode # "closed" /\ next_row \in Rows
      BY <1>10, IInvFacts DEF FillFails, IInv, WriterFills, TypeOK
  <2>2. BlockShape' /\ ReadOnlyOnDisk' /\ Coherent' /\ Writable /\ "write" \in Faults
      BY <1>10, <2>1, IInvFailure DEF FillFails
  <2> QED BY <1>1, <1>10, <2>1, <2>2
          DEF FillFails, IInv, TypeInv, WriterErrors, WriterFills, Writable
<1>11. CASE close_grid_io \/ ExitWithoutClose
    BY <1>11, IInvLeave, IInvFacts, FlushedType DEF close_grid_io, ExitWithoutClose, Ready
<1>12. CASE CloseLosesBuffer
  <2>1. PICK k \in 0 .. num_rows - 1 : Leave(Written(k)) BY <1>12 DEF CloseLosesBuffer
  <2>2. k \in 0 .. num_rows BY IInvFacts DEF TypeOK
  <2> QED BY <1>12, <2>1, <2>2, IInvLeave, IInvFacts, WrittenType DEF CloseLosesBuffer, Ready
<1> QED
    BY <1>2, <1>3, <1>4, <1>5, <1>6, <1>7, <1>8, <1>9, <1>10, <1>11, <1>12 DEF Next

LEMMA IInvInvariance ==
    ASSUME "read" \notin Faults, Disciplined
    PROVE  Spec => []IInv
<1>1. IInv /\ [Next]_vars => IInv' BY IInvStep
<1> QED BY <1>1, IInvInit, PTL DEF Spec

\* Without read errors, and with clients that write only what they opened to
\* write, a cell the client relies on is always where get_element_grid_io
\* will find it.
THEOREM BufferCoherent ==
    ASSUME "read" \notin Faults, Disciplined
    PROVE  Spec => []Coherent
<1>1. IInv => Coherent BY DEF IInv
<1> QED BY <1>1, IInvInvariance, PTL

\* Without read errors start_row, final_row and num_rows always agree.
THEOREM BufferShape ==
    ASSUME "read" \notin Faults, Disciplined
    PROVE  Spec => []BlockShape
<1>1. IInv => BlockShape BY DEF IInv
<1> QED BY <1>1, IInvInvariance, PTL

\* Without read errors the assertion of get_element_grid_io and
\* put_element_grid_io holds.
THEOREM AssertionHolds ==
    ASSUME "read" \notin Faults, Disciplined
    PROVE  Spec => []AssertInBuffer
<1>1. IInv => AssertInBuffer
  <2> SUFFICES ASSUME IInv, NEW row \in Rows, InBuffer(row)
               PROVE  row - start_row < num_rows
      BY DEF AssertInBuffer
  <2> QED BY IInvFacts DEF InBuffer, Rows
<1> QED BY <1>1, IInvInvariance, PTL
-----------------------------------------------------------------------------
(***************************************************************************)
(* GridIO implements GridStore.                                            *)
(***************************************************************************)

\* GridStore's grid, objects and replies are GridIO's.
LEMMA StoreData ==
    /\ Store!Cells = Cells /\ Store!Datum = Datum /\ Store!Objects = Objects
    /\ Store!Modes = Modes /\ Store!Done = Done /\ Store!Failed = Failed
    /\ Store!Blank = Blank
    /\ \A m : Store!ObjectOf(m) = ObjectOf(m)
    /\ \A cell, v : Store!Read(cell, v) = Read(cell, v)
    /\ \A x : Store!Encodings(x) = Encodings(x)
<1>1. Store!Cells = Cells
    BY DEF Store!Cells, Cells, Store!Rows, Rows, Store!Cols, Cols
<1>2. Store!Datum = Datum /\ Store!Objects = Objects /\ Store!Modes = Modes
    BY DEF Store!Datum, Datum, Store!Objects, Objects, Store!Modes, Modes
<1>3. Store!Done = Done /\ Store!Failed = Failed /\ \A cell, v : Store!Read(cell, v) = Read(cell, v)
    BY DEF Store!Done, Done, Store!Failed, Failed, Store!Read, Read
<1>4. Store!Blank = Blank BY <1>1 DEF Store!Blank, Blank
<1>5. \A m : Store!ObjectOf(m) = ObjectOf(m) BY DEF Store!ObjectOf, ObjectOf
<1>6. \A x : Store!Encodings(x) = Encodings(x)
    BY <1>2 DEF Store!Encodings, Encodings, Store!Truncate, Truncate
<1> QED BY <1>1, <1>2, <1>3, <1>4, <1>5, <1>6

LEMMA StoreInit == Init => Store!Init
<1> SUFFICES ASSUME Init PROVE Store!Init
    OBVIOUS
<1>1. shadow \in [Objects -> [Cells -> Datum \cup {Undef}]] BY TypeInit DEF TypeInv, TypeOK
<1> QED BY <1>1, StoreData DEF Init, Store!Init

LEMMA StoreOpen == ASSUME IInv, NEW m \in Modes, Open(m) PROVE Store!Open(m)
<1>1. filling = Undef BY DEF Open, IInv, WriterFills
<1> QED BY <1>1, StoreData DEF Open, Store!Open

LEMMA StoreGet ==
    ASSUME IInv, NEW row \in Rows, NEW col \in Cols, get_element(row, col)
    PROVE  Store!Get(<<row, col>>)
<1> USE DEF get_element, Reach
<1> DEFINE v == data'[row - start_row'][col]
<1>1. data' \in [Slots -> RowData] /\ row - start_row' \in Slots
    BY IInvFacts, ExchangeType, MoveAligned DEF MoveTo
<1>2. v \in Datum BY <1>1 DEF RowData
<1>3. shadow[Obj][<<row, col>>] \in {v, Undef}
  <2>1. CASE shadow[Obj][<<row, col>>] = Undef BY <2>1
  <2>2. CASE shadow[Obj][<<row, col>>] # Undef
    <3>1. <<row, col>> \in Cells /\ mode # "closed" BY DEF Cells, Ready
    <3>2. FirstRow(row) <= row /\ row <= LastRow(row) BY IInvFacts, MoveAligned
    <3> QED BY <2>2, <3>1, <3>2, FetchedHolds DEF MoveTo
  <2> QED BY <2>1, <2>2
<1>4. reply' = Read(<<row, col>>, v) OBVIOUS
<1> HIDE DEF v
<1> QED BY <1>2, <1>3, <1>4, StoreData DEF Store!Get, Store!Ready, Ready, Obj

LEMMA StorePut ==
    ASSUME Disciplined, NEW row \in Rows, NEW col \in Cols, NEW x \in Inputs,
           put_element(row, col, x)
    PROVE  Store!Put(<<row, col>>, x)
BY StoreData DEF put_element, Store!Put, Store!Ready, Ready, Writable, Obj

LEMMA StoreFillStart ==
    ASSUME Disciplined, NEW x \in Inputs, FillStart(x)
    PROVE  Store!FillStart(x)
<1>1. filling' # Undef BY EncodingsAreData, GridAssumption DEF FillStart, Datum
<1>2. {cell \in Cells : cell[1] >= 0} = Cells BY CellFacts
<1> QED BY <1>1, <1>2, StoreData DEF FillStart, Store!FillStart, Store!Ready, Ready, Writable

\* A fill's next row is the first row of the block it goes to.
LEMMA FillGoesForward ==
    ASSUME IInv, FillBlock
    PROVE  FirstRow(next_row) = next_row
<1>1. next_row = BlockStart(next_row) /\ next_row \in Rows
    BY DEF IInv, WriterFills, FillBlock, TypeOK
<1>2. CASE ~InBuffer(next_row) BY <1>1, <1>2 DEF FirstRow
<1>3. CASE InBuffer(next_row)
  <2> DEFINE p == start_row \div Incr
             q == next_row \div Incr
  <2>1. Incr \in Nat \ {0} /\ next_row \in Nat /\ start_row \in Nat
      BY <1>1, IInvFacts, BufferAssumption, GridAssumption DEF Rows
  <2>2. p \in Nat /\ q \in Nat /\ start_row = p * Incr /\ next_row = q * Incr
      BY <1>1, <2>1, Division DEF IInv, BlockShape, Aligned, BlockStart
  <2>3. start_row <= next_row /\ next_row - start_row < Incr
      BY <1>1, <1>3, <2>1, IInvFacts, AlignedSpan, BufferAssumption DEF InBuffer, Slots
  <2> HIDE DEF p, q
  <2>4. ~(p < q)
    <3> SUFFICES ASSUME p < q PROVE FALSE
        OBVIOUS
    <3>1. (p + 1) * Incr <= q * Incr BY <2>1, <2>2
    <3> QED BY <2>1, <2>2, <2>3, <3>1
  <2>5. ~(q < p)
    <3> SUFFICES ASSUME q < p PROVE FALSE
        OBVIOUS
    <3>1. (q + 1) * Incr <= p * Incr BY <2>1, <2>2
    <3> QED BY <2>1, <2>2, <2>3, <3>1
  <2> QED BY <1>3, <2>2, <2>4, <2>5 DEF FirstRow
<1> QED BY <1>2, <1>3

LEMMA StoreFillSome ==
    ASSUME IInv, FillBlock
    PROVE  \E reached \in SUBSET Cells : Store!FillSome(reached)
<1> DEFINE row == next_row
           toDo == {cell \in Cells : cell[1] >= row}
           reached == {cell \in Cells : row <= cell[1] /\ cell[1] < row + Count(row)}
<1>1. /\ filling # Undef /\ row \in Rows /\ row = BlockStart(row) /\ FirstRow(row) = row
    BY FillGoesForward, IInvFacts DEF FillBlock, IInv, WriterFills, TypeOK
<1>2. Count(row) = BlockRows(row)
    BY <1>1 DEF Count, FirstRow, IInv, BlockShape
<1>3. row \in Nat /\ row < Height /\ Incr \in Nat \ {0} /\ Count(row) \in 1 .. Incr
    BY <1>1, <1>2, BlockFacts, BufferAssumption, GridAssumption DEF Rows
<1>4. reached \subseteq toDo BY <1>3, CellFacts
<1>5. shadow' = [shadow EXCEPT ![Obj] =
                    [cell \in Cells |-> IF cell \in reached THEN filling ELSE shadow[Obj][cell]]]
  <2>1. shadow' = [shadow EXCEPT ![Obj] =
                    [cell \in Cells |-> IF row <= cell[1] /\ cell[1] < row + Count(row)
                                        THEN filling ELSE shadow[Obj][cell]]]
      BY <1>1 DEF FillBlock
  <2>2. \A cell \in Cells : cell \in reached <=> (row <= cell[1] /\ cell[1] < row + Count(row))
      OBVIOUS
  <2> HIDE DEF reached
  <2>3. [cell \in Cells |-> IF row <= cell[1] /\ cell[1] < row + Count(row)
                            THEN filling ELSE shadow[Obj][cell]]
        = [cell \in Cells |-> IF cell \in reached THEN filling ELSE shadow[Obj][cell]]
      BY <2>2
  <2> QED BY <2>1, <2>3
<1>6. CASE row + Incr < Height
  <2>1. next_row' = row + Incr /\ UNCHANGED <<filling, reply, mode>> BY <1>6 DEF FillBlock
  <2>2. Count(row) = Incr BY <1>1, <1>2, <1>3, <1>6, GridAssumption DEF BlockRows
  <2>3. toDo \ reached = {cell \in Cells : cell[1] >= row + Incr}
      BY <1>3, <2>2, CellFacts
  <2>4. toDo \ reached # {}
    <3>1. 0 \in Cols /\ row + Incr \in Rows
        BY <1>3, <1>6, GridAssumption DEF Cols, Rows
    <3>2. <<row + Incr, 0>> \in Cells BY <3>1 DEF Cells
    <3>3. row + Incr >= row + Incr BY <1>3
    <3> QED BY <2>3, <3>2, <3>3
  <2> HIDE DEF toDo, reached
  <2>5. toDo' = {cell \in Cells : cell[1] >= row + Incr} BY <2>1 DEF toDo
  <2> QED BY <1>1, <1>4, <1>5, <2>1, <2>3, <2>4, <2>5, StoreData DEF Store!FillSome, Obj, toDo, reached
<1>7. CASE ~(row + Incr < Height)
  <2>1. filling' = Undef /\ reply' = Done /\ UNCHANGED mode BY <1>7 DEF FillBlock
  <2>2. row + Count(row) = Height
      BY <1>1, <1>2, <1>3, <1>7, GridAssumption DEF BlockRows
  <2>3. toDo \ reached = {} BY <1>3, <2>2, CellFacts
  <2> QED BY <1>1, <1>4, <1>5, <2>1, <2>3, StoreData DEF Store!FillSome, Obj
<1> QED BY <1>6, <1>7

\* What the end of a handle leaves of the store.
LEMMA StoreAbandon ==
    ASSUME IInv, Ready, NEW f, Leave(f)
    PROVE  Store!Abandon
<1> DEFINE left == IF mode = "TEMPORARY" THEN NoFile ELSE f
<1>1. Obj \in Objects /\ shadow \in [Objects -> [Cells -> Datum \cup {Undef}]]
    BY ObjIsObject, IInvFacts DEF TypeOK
<1>2. shadow' = [shadow EXCEPT ![Obj] = Surviving(Obj, left)] BY DEF Leave
<1> HIDE DEF left
<1>3. shadow' \in [Objects -> [Cells -> Datum \cup {Undef}]]
    BY <1>1, <1>2, IInvFacts, SurvivingType
<1>4. \A o \in Objects, cell \in Cells : shadow'[o][cell] \in {shadow[o][cell], Undef}
    BY <1>1, <1>2 DEF Surviving
<1> QED BY <1>3, <1>4, StoreData DEF Leave, Ready, Store!Abandon, Store!Ready

LEMMA StoreStep ==
    "read" \notin Faults /\ Disciplined =>
        (IInv /\ [Next]_vars => [Store!Next]_Store!storeVars)
<1> SUFFICES ASSUME "read" \notin Faults, Disciplined, IInv, [Next]_vars
             PROVE  Store!Next \/ UNCHANGED Store!storeVars
    OBVIOUS
<1>1. CASE UNCHANGED vars
    BY <1>1 DEF vars, Store!storeVars
<1>2. CASE \E m \in Modes : Open(m) \/ OpenFails(m)
    BY <1>2, StoreOpen, StoreData DEF OpenFails, Store!Next
<1>3. CASE \E row \in -1 .. Height, col \in -1 .. Width : OutOfBounds(row, col)
    BY <1>3, StoreData DEF OutOfBounds, Ready, Store!Refuse, Store!Ready, Store!Next
<1>4. CASE \E row \in Rows : ExchangeFails(row)
    BY <1>4, StoreData DEF ExchangeFails, Ready, Store!Refuse, Store!Ready, Store!Next
<1>5. CASE \E row \in Rows, col \in Cols : get_element(row, col)
    BY <1>5, StoreGet, StoreData DEF Cells, Store!Next
<1>6. CASE \E row \in Rows, col \in Cols, x \in Inputs : put_element(row, col, x)
    BY <1>6, StorePut, StoreData DEF Cells, Store!Next
<1>7. CASE \E x \in Inputs : FillStart(x)
    BY <1>7, StoreFillStart DEF Store!Next
<1>8. CASE FillBlock
    BY <1>8, StoreFillSome, StoreData DEF Store!Next
<1>9. CASE FillFails
  <2>1. mode # "closed" /\ next_row \in Rows
      BY <1>9, IInvFacts DEF FillFails, IInv, WriterFills, TypeOK
  <2>2. Faults # {} BY <1>9, <2>1, IInvFailure DEF FillFails
  <2> QED BY <1>9, <2>2, StoreData DEF FillFails, Store!FillFails, Store!Next
<1>10. CASE close_grid_io \/ CloseLosesBuffer \/ ExitWithoutClose
    BY <1>10, StoreAbandon DEF close_grid_io, CloseLosesBuffer, ExitWithoutClose, Store!Next
<1> QED
    BY <1>1, <1>2, <1>3, <1>4, <1>5, <1>6, <1>7, <1>8, <1>9, <1>10 DEF Next

\* The paged buffer implements the plain grid: without read errors, clients
\* that write only what they opened to write cannot tell grid_io.c from an
\* array that close_grid_io saves.
THEOREM ImplementsStore ==
    ASSUME "read" \notin Faults, Disciplined
    PROVE  Spec => Refines
<1>1. IInv /\ [Next]_vars => [Store!Next]_Store!storeVars BY StoreStep
<1> QED BY <1>1, StoreInit, IInvInvariance, PTL DEF Spec, Store!Spec, Refines

\* A cell that is not in the buffer, or that a whole flush has written,
\* survives the end of the handle.
LEMMA EndKeeps ==
    ASSUME IInv, mode # "closed", mode # "TEMPORARY", NEW f, Leave(f),
           NEW o \in Objects, NEW cell \in Cells,
           o = Obj /\ shadow[Obj][cell] # Undef =>
               cell[1] < f.len /\ f.row[cell[1]][cell[2]] = shadow[Obj][cell]
    PROVE  shadow'[o][cell] = shadow[o][cell]
<1>1. shadow' = [shadow EXCEPT ![Obj] = Surviving(Obj, f)] BY DEF Leave
<1>2. shadow \in [Objects -> [Cells -> Datum \cup {Undef}]] BY IInvFacts DEF TypeOK
<1> QED BY <1>1, <1>2 DEF Surviving, Contents

LEMMA LossStep ==
    "read" \notin Faults /\ Disciplined =>
        (IInv /\ [Next]_vars =>
            [mode \notin {"closed", "TEMPORARY"} /\ mode' = "closed" =>
                /\ close_grid_io => shadow' = shadow
                /\ \A o \in Objects, cell \in Cells :
                      (o = Obj /\ InBuffer(cell[1])) \/ shadow'[o][cell] = shadow[o][cell]]_vars)
<1> SUFFICES ASSUME IInv, Next, mode \notin {"closed", "TEMPORARY"}, mode' = "closed"
             PROVE  /\ close_grid_io => shadow' = shadow
                    /\ \A o \in Objects, cell \in Cells :
                          (o = Obj /\ InBuffer(cell[1])) \/ shadow'[o][cell] = shadow[o][cell]
    OBVIOUS
<1>1. CASE close_grid_io
  <2>1. \A o \in Objects, cell \in Cells : shadow'[o][cell] = shadow[o][cell]
      BY <1>1, FlushedHolds, EndKeeps DEF close_grid_io
  <2>2. shadow \in [Objects -> [Cells -> Datum \cup {Undef}]] BY IInvFacts DEF TypeOK
  <2>3. shadow' \in [Objects -> [Cells -> Datum \cup {Undef}]]
      BY <1>1, IInvFacts, FlushedType, TypeLeave DEF close_grid_io, TypeInv, TypeOK
  <2>4. \A o \in Objects : shadow'[o] = shadow[o] BY <2>1, <2>2, <2>3
  <2> QED BY <2>1, <2>2, <2>3, <2>4
<1>2. CASE ~close_grid_io
  <2> SUFFICES ASSUME NEW o \in Objects, NEW cell \in Cells, ~(o = Obj /\ InBuffer(cell[1]))
               PROVE  shadow'[o][cell] = shadow[o][cell]
      BY <1>2
  <2>1. o = Obj /\ shadow[Obj][cell] # Undef => HoldsOnDisk(Obj, cell) BY DEF IInv, Coherent
  <2>2. CASE ExitWithoutClose
      BY <2>1, <2>2, EndKeeps DEF ExitWithoutClose, HoldsOnDisk, Disk
  <2>3. CASE CloseLosesBuffer
    <3>1. PICK k \in 0 .. num_rows - 1 : Leave(Written(k)) BY <2>3 DEF CloseLosesBuffer
    <3>2. k \in 0 .. num_rows BY IInvFacts DEF TypeOK
    <3>3. o = Obj /\ shadow[Obj][cell] # Undef =>
              cell[1] < Written(k).len /\ Written(k).row[cell[1]][cell[2]] = shadow[Obj][cell]
        BY <2>1, <3>2, WrittenKeepsOthers
    <3> QED BY <3>1, <3>3, EndKeeps
  <2> QED
      BY <1>2, <2>2, <2>3 DEF Next, Open, OpenFails, OutOfBounds, ExchangeFails,
         get_element, put_element, FillStart, FillBlock, FillFails, Modes
<1> QED BY <1>1, <1>2

\* close_grid_io saves everything; a close whose write fails, or an exit
\* without close, loses cells of one block at most.
THEOREM EndLosesBuffer ==
    ASSUME "read" \notin Faults, Disciplined
    PROVE  Spec => OnlyBufferLost
<1>1. IInv /\ [Next]_vars =>
        [mode \notin {"closed", "TEMPORARY"} /\ mode' = "closed" =>
            /\ close_grid_io => shadow' = shadow
            /\ \A o \in Objects, cell \in Cells :
                  (o = Obj /\ InBuffer(cell[1])) \/ shadow'[o][cell] = shadow[o][cell]]_vars
    BY LossStep
<1> QED BY <1>1, IInvInvariance, PTL DEF Spec, OnlyBufferLost
=============================================================================
