------------------------------ MODULE GridStore ------------------------------
(***************************************************************************)
(* What grid_io.h promises its clients, with no buffer in sight: a grid of *)
(* cells that get, put and fill read and write, which close leaves on disk *)
(* for the next open.  A cell nobody has given a value is Undef and reads  *)
(* as anything: the preloaded buffer is only as good as the file behind it *)
(* is long.  GridIO is shown to implement this module.                     *)
(***************************************************************************)
EXTENDS GridDatum

CONSTANT MayFail    \* TRUE iff stdio can report a write error

VARIABLES
    store,   \* store[o][cell]: the value of a cell of object o, or Undef
    mode,    \* mode of the open handle, or "closed"
    filling, \* datum a running fill stores, or Undef
    todo,    \* cells a running fill has not reached
    reply    \* result of the last operation

storeVars == <<store, mode, filling, todo, reply>>

Blank == [cell \in Cells |-> Undef]
Ready == mode # "closed" /\ filling = Undef

Init ==
    /\ store \in [Objects -> [Cells -> Datum \cup {Undef}]]
    /\ mode = "closed"
    /\ filling = Undef
    /\ todo = {}
    /\ reply = Done

\* Opening to write, or a temporary, starts from nothing.
Open(m) ==
    /\ mode = "closed"
    /\ mode' = m
    /\ store' = IF m \in {"WRITE", "TEMPORARY"}
                THEN [store EXCEPT ![ObjectOf(m)] = Blank]
                ELSE store
    /\ reply' = Done
    /\ UNCHANGED <<filling, todo>>

\* An operation refused: out of bounds, or an input/output error.
Refuse ==
    /\ Ready
    /\ reply' = Failed
    /\ UNCHANGED <<store, mode, filling, todo>>

Get(cell) ==
    /\ Ready
    /\ \E v \in Datum :
        /\ store[ObjectOf(mode)][cell] \in {v, Undef}
        /\ reply' = Read(cell, v)
    /\ UNCHANGED <<store, mode, filling, todo>>

Put(cell, x) ==
    /\ Ready
    /\ mode # "READ_ONLY"
    /\ \E d \in Encodings(x) :
          store' = [store EXCEPT ![ObjectOf(mode)][cell] = d]
    /\ reply' = Done
    /\ UNCHANGED <<mode, filling, todo>>

FillStart(x) ==
    /\ Ready
    /\ mode # "READ_ONLY"
    /\ filling' \in Encodings(x)
    /\ todo' = Cells
    /\ UNCHANGED <<store, mode, reply>>

\* A fill reaches some more cells; it succeeds with the last one.
FillSome(reached) ==
    /\ filling # Undef
    /\ reached \subseteq todo
    /\ todo' = todo \ reached
    /\ store' = [store EXCEPT ![ObjectOf(mode)] =
                    [cell \in Cells |-> IF cell \in reached THEN filling ELSE @[cell]]]
    /\ IF todo' = {}
       THEN filling' = Undef /\ reply' = Done
       ELSE UNCHANGED <<filling, reply>>
    /\ UNCHANGED mode

FillFails ==
    /\ MayFail
    /\ filling # Undef
    /\ filling' = Undef
    /\ todo' = {}
    /\ reply' = Failed
    /\ UNCHANGED <<store, mode>>

Close ==
    /\ Ready
    /\ mode' = "closed"
    /\ reply' = Done
    /\ UNCHANGED <<store, filling, todo>>

\* The program ends without close_grid_io, or close fails to write: what was
\* not yet on disk is gone.
Abandon ==
    /\ Ready
    /\ mode' = "closed"
    /\ reply' = Done
    /\ store' \in [Objects -> [Cells -> Datum \cup {Undef}]]
    /\ \A o \in Objects, cell \in Cells :
          store'[o][cell] \in {store[o][cell], Undef}
    /\ UNCHANGED <<filling, todo>>

Next ==
    \/ \E m \in Modes : Open(m)
    \/ Refuse
    \/ \E cell \in Cells : Get(cell)
    \/ \E cell \in Cells, x \in Inputs : Put(cell, x)
    \/ \E x \in Inputs : FillStart(x)
    \/ \E reached \in SUBSET Cells : FillSome(reached)
    \/ FillFails
    \/ Close
    \/ Abandon

Spec == Init /\ [][Next]_storeVars
=============================================================================
