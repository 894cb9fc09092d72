------------------------------ MODULE CdbBuffer ------------------------------
(***************************************************************************)
(* src/src/cdb.c: the life of cdb_class instances, originals and copies,   *)
(* and the data buffer each reads segments into, one at a time from disk   *)
(* or all at once into memory.                                             *)
(*                                                                         *)
(* Memory is a set of addresses of blocks.  What is modelled of a block is *)
(* whether it is allocated and, for a data buffer, what it holds: the data *)
(* of one segment, of all of them, or neither.  The header and the index   *)
(* are allocated and freed together and count as one block.  Headers tell  *)
(* the truth, so that the buffer init_cdb allocates is large enough for    *)
(* every segment.  An instance that could not be made or copied completely *)
(* and is given up may leak; no other can see it.                          *)
(***************************************************************************)
EXTENDS Naturals

CONSTANTS
    Handles,    \* the instances a program may hold
    Address,    \* where calloc and realloc find memory
    NULL,
    SegCount,   \* the number of segments in the file
    Faults      \* what may fail: "alloc", "grow", "reopen", "read"

ASSUME CdbBufferAssumption ==
    /\ NULL \notin Address
    /\ SegCount \in Nat \ {0}
    /\ Faults \subseteq {"alloc", "grow", "reopen", "read"}

Segments == 1 .. SegCount
All == SegCount + 1     \* the data of all segments
Nothing == 0            \* the data of none
Part == {"index", "data_buffer"}
First == 1

VARIABLES
    open,       \* the handles that are instances
    block,      \* the blocks their pointers point to, or NULL
    heap,       \* the blocks allocated
    holds,      \* what each block holds, as a data buffer
    get_data,   \* "disk" or "memory": the function that reads a segment
    is_loaded,
    segment,    \* the current segment
    data_ptr,   \* the segment data_ptr points to, or Nothing
    stopped     \* "no", "exited" by load_all_seg_data_cdb, "crashed", or
                \* "dangling": the next use of an instance is undefined

vars == <<open, block, heap, holds, get_data, is_loaded, segment, data_ptr, stopped>>

Running == stopped = "no"
NoBlocks == [p \in Part |-> NULL]
Pointed(h) == {block[h][p] : p \in Part} \ {NULL}

\* calloc of n blocks, at any free addresses: each part gets one of its own.
Fresh == {b \in [Part -> Address \ heap] : b["index"] # b["data_buffer"]}

-----------------------------------------------------------------------------
\* The members of a new instance, and of a handle that is none.
new_cdb(h) ==
    /\ get_data' = [get_data EXCEPT ![h] = "disk"]
    /\ is_loaded' = [is_loaded EXCEPT ![h] = FALSE]
    /\ segment' = [segment EXCEPT ![h] = First]
    /\ data_ptr' = [data_ptr EXCEPT ![h] = Nothing]

\* init_cdb opens, allocates and reads, and frees everything on any failure.
init_cdb(h) ==
    /\ Running
    /\ h \notin open
    /\ \E b \in Fresh :
        /\ block' = [block EXCEPT ![h] = b]
        /\ heap' = heap \cup {b[p] : p \in Part}
        /\ holds' = [holds EXCEPT ![b["data_buffer"]] = Nothing]
    /\ open' = open \cup {h}
    /\ new_cdb(h)
    /\ UNCHANGED stopped

\* free_cdb frees what the pointers of the instance point to.
free_cdb(h) ==
    /\ Running
    /\ h \in open
    /\ open' = open \ {h}
    /\ heap' = heap \ Pointed(h)
    /\ block' = [block EXCEPT ![h] = NoBlocks]
    /\ holds' = [b \in Address |-> IF b \in Pointed(h) THEN Nothing ELSE holds[b]]
    /\ new_cdb(h)
    /\ UNCHANGED stopped

-----------------------------------------------------------------------------
\* copy_of_cdb: the instance is copied verbatim and then gets a file pointer,
\* a header, an index and a buffer of its own.  The copy is at the first
\* segment, but its data_ptr where the original's was.
CopyShared(h, b) ==     \* mutant of CopyBlocks: the buffer is not allocated
    [b EXCEPT !["data_buffer"] = block[h]["data_buffer"]]
CopyBlocks(h, b) == b
CopyHolds(h) == holds[block[h]["data_buffer"]]
copy_of_cdb(h, c) ==
    /\ Running
    /\ h \in open /\ c \notin open
    /\ block[h]["data_buffer"] # NULL
    /\ \E b \in Fresh :
        /\ block' = [block EXCEPT ![c] = CopyBlocks(h, b)]
        /\ heap' = heap \cup {b[p] : p \in Part}
        /\ holds' = [holds EXCEPT ![b["data_buffer"]] = CopyHolds(h)]
    /\ open' = open \cup {c}
    /\ get_data' = [get_data EXCEPT ![c] = get_data[h]]
    /\ is_loaded' = [is_loaded EXCEPT ![c] = is_loaded[h]]
    /\ segment' = [segment EXCEPT ![c] = First]
    /\ data_ptr' = [data_ptr EXCEPT ![c] = data_ptr[h]]
    /\ UNCHANGED stopped

\* The file cannot be opened again: free_cdb of the copy, whose pointers are
\* still the original's.  What the original does from here on is undefined,
\* and behaviours are followed no further.
CopyReopenFails(h) ==
    /\ Running
    /\ h \in open /\ Handles \ open # {}
    /\ "reopen" \in Faults
    /\ heap' = heap \ Pointed(h)
    /\ stopped' = "dangling"
    /\ UNCHANGED <<open, block, holds, get_data, is_loaded, segment, data_ptr>>

\* A header, index or buffer cannot be allocated: copy_of_cdb reports it, tests
\* the wrong buffer, and goes on to the memcpy into NULL.
CopyAllocFails(h) ==
    /\ Running
    /\ h \in open /\ Handles \ open # {}
    /\ "alloc" \in Faults
    /\ stopped' = "crashed"
    /\ UNCHANGED <<open, block, heap, holds, get_data, is_loaded, segment, data_ptr>>

-----------------------------------------------------------------------------
\* load_all_seg_data_cdb.
StayLoaded(h) == UNCHANGED <<open, segment, data_ptr, is_loaded, get_data>>  \* mutant of Unload
Unload(h) ==
    /\ is_loaded' = [is_loaded EXCEPT ![h] = FALSE]
    /\ get_data' = [get_data EXCEPT ![h] = "disk"]
    /\ UNCHANGED <<open, segment, data_ptr>>

\* realloc may move the buffer.
Grown(h) == {b \in Address : b \notin heap \/ b = block[h]["data_buffer"]}
Grow(h, b, content) ==
    /\ block' = [block EXCEPT ![h]["data_buffer"] = b]
    /\ heap' = (heap \ {block[h]["data_buffer"]}) \cup {b}
    /\ holds' = [holds EXCEPT ![b] = content]

\* All data together exceed CDB_MAX_BUFFER_SIZE.
LoadTooLarge(h) ==
    /\ Running
    /\ h \in open
    /\ Unload(h)
    /\ UNCHANGED <<block, heap, holds, stopped>>

LoadAll(h) ==
    /\ Running
    /\ h \in open
    /\ \E b \in Grown(h) : Grow(h, b, All)
    /\ is_loaded' = [is_loaded EXCEPT ![h] = TRUE]
    /\ get_data' = [get_data EXCEPT ![h] = "memory"]
    /\ UNCHANGED <<open, segment, data_ptr, stopped>>

\* fread stops short; is_loaded and get_data were reset at the start.
LoadReadFails(h) ==
    /\ Running
    /\ h \in open
    /\ "read" \in Faults
    /\ \E b \in Grown(h) : Grow(h, b, Nothing)
    /\ Unload(h)
    /\ UNCHANGED stopped

\* realloc fails and loses the old buffer; a second one that succeeds ends
\* the program, and one that fails does not.
LoadGrowFails(h) ==
    /\ Running
    /\ h \in open
    /\ "grow" \in Faults
    /\ Unload(h)
    /\ \/ stopped' = "exited" /\ UNCHANGED <<block, heap, holds>>
       \/ block' = [block EXCEPT ![h]["data_buffer"] = NULL] /\ UNCHANGED <<heap, holds, stopped>>

-----------------------------------------------------------------------------
\* load_current_seg_data_cdb, by cdb_read_disk or cdb_read_memory.
ReadDisk(h) ==
    /\ Running
    /\ h \in open /\ get_data[h] = "disk"
    /\ block[h]["data_buffer"] # NULL
    /\ holds' = [holds EXCEPT ![block[h]["data_buffer"]] = segment[h]]
    /\ data_ptr' = [data_ptr EXCEPT ![h] = segment[h]]
    /\ UNCHANGED <<open, block, heap, get_data, is_loaded, segment, stopped>>

ReadDiskFails(h) ==
    /\ Running
    /\ h \in open /\ get_data[h] = "disk"
    /\ block[h]["data_buffer"] # NULL
    /\ "read" \in Faults
    /\ holds' = [holds EXCEPT ![block[h]["data_buffer"]] = Nothing]
    /\ data_ptr' = [data_ptr EXCEPT ![h] = Nothing]
    /\ UNCHANGED <<open, block, heap, get_data, is_loaded, segment, stopped>>

ReadDiskCrashes(h) ==
    /\ Running
    /\ h \in open /\ get_data[h] = "disk"
    /\ block[h]["data_buffer"] = NULL
    /\ stopped' = "crashed"
    /\ UNCHANGED <<open, block, heap, holds, get_data, is_loaded, segment, data_ptr>>

ReadMemory(h) ==
    /\ Running
    /\ h \in open /\ get_data[h] = "memory"
    /\ data_ptr' = [data_ptr EXCEPT ![h] = segment[h]]
    /\ UNCHANGED <<open, block, heap, holds, get_data, is_loaded, segment, stopped>>

\* The client makes another segment current.
Seek(h, s) ==
    /\ Running
    /\ h \in open
    /\ segment' = [segment EXCEPT ![h] = s]
    /\ UNCHANGED <<open, block, heap, holds, get_data, is_loaded, data_ptr, stopped>>

Init ==
    /\ open = {}
    /\ block = [h \in Handles |-> NoBlocks]
    /\ heap = {}
    /\ holds = [b \in Address |-> Nothing]
    /\ get_data = [h \in Handles |-> "disk"]
    /\ is_loaded = [h \in Handles |-> FALSE]
    /\ segment = [h \in Handles |-> 1]
    /\ data_ptr = [h \in Handles |-> Nothing]
    /\ stopped = "no"

Next ==
    \/ \E h \in Handles :
        \/ init_cdb(h) \/ free_cdb(h)
        \/ CopyReopenFails(h) \/ CopyAllocFails(h)
        \/ LoadTooLarge(h) \/ LoadAll(h) \/ LoadReadFails(h) \/ LoadGrowFails(h)
        \/ ReadDisk(h) \/ ReadDiskFails(h) \/ ReadDiskCrashes(h) \/ ReadMemory(h)
    \/ \E h, c \in Handles : copy_of_cdb(h, c)
    \/ \E h \in Handles, s \in Segments : Seek(h, s)

Spec == Init /\ [][Next]_vars

-----------------------------------------------------------------------------
\* Every variable has its type.
TypeOK ==
    /\ open \subseteq Handles
    /\ block \in [Handles -> [Part -> Address \cup {NULL}]]
    /\ heap \subseteq Address
    /\ holds \in [Address -> 0 .. SegCount + 1]
    /\ get_data \in [Handles -> {"disk", "memory"}]
    /\ is_loaded \in [Handles -> BOOLEAN]
    /\ segment \in [Handles -> Segments]
    /\ data_ptr \in [Handles -> 0 .. SegCount]
    /\ stopped \in {"no", "exited", "crashed", "dangling"}

\* The blocks of an instance are allocated, and no other instance and no other
\* member points to them: original and copy may be read, loaded and freed in
\* any order.  Only the data buffer may be missing, after a load that failed.
Owned ==
    stopped # "dangling" => \A h \in open :
        /\ block[h]["index"] # NULL
        /\ \A p \in Part : block[h][p] # NULL =>
            /\ block[h][p] \in heap
            /\ \A g \in open, q \in Part : block[g][q] = block[h][p] => g = h /\ q = p

\* The function that reads segments goes with what the buffer holds, for copies
\* of a loaded instance and after a load that failed too: cdb_read_memory finds
\* every segment where it looks for it.
LoadedHoldsAll ==
    \A h \in open :
        /\ is_loaded[h] <=> get_data[h] = "memory"
        /\ is_loaded[h] => /\ block[h]["data_buffer"] # NULL
                           /\ holds[block[h]["data_buffer"]] = All

\* What a call on one instance does cannot be seen through another, the copy it
\* came from or was made of included.
View(h) == <<block[h], get_data[h], is_loaded[h], segment[h], data_ptr[h],
             IF block[h]["data_buffer"] = NULL THEN Nothing ELSE holds[block[h]["data_buffer"]]>>
Independent ==
    [][\A g, h \in open \cap open' : g # h => View(g)' = View(g) \/ View(h)' = View(h)]_vars

\* The inductive invariant of CdbBufferProofs.
IInv == TypeOK /\ Owned /\ LoadedHoldsAll
=============================================================================
