-------------------------- MODULE CdbBufferProofs --------------------------
(***************************************************************************)
(* What CdbBuffer's run checks for two instances and five addresses,       *)
(* proved for any number of instances, any memory and any file.            *)
(***************************************************************************)
EXTENDS CdbBuffer, TLAPS

Ready == IInv /\ Running

LEMMA Constants ==
    /\ SegCount \in Nat \ {0}
    /\ First \in Segments
    /\ Nothing \in 0 .. SegCount /\ Nothing \in 0 .. SegCount + 1
    /\ All \in 0 .. SegCount + 1
    /\ \A s \in Segments : s \in 0 .. SegCount /\ s \in 0 .. SegCount + 1 /\ s # Nothing
BY CdbBufferAssumption DEF Segments, First, Nothing, All

\* What IInv says of the state before a step.
LEMMA Before ==
    ASSUME Ready
    PROVE  /\ TypeOK
           /\ stopped = "no"
           /\ NULL \notin Address
           /\ \A h \in open : block[h]["index"] # NULL
           /\ \A h \in open, p \in Part : block[h][p] # NULL =>
                /\ block[h][p] \in heap
                /\ \A g \in open, q \in Part : block[g][q] = block[h][p] => g = h /\ q = p
BY CdbBufferAssumption DEF Ready, IInv, Owned, Running

LEMMA FreshFacts ==
    ASSUME NEW b \in Fresh
    PROVE  /\ b \in [Part -> Address]
           /\ \A p \in Part : b[p] \in Address /\ b[p] \notin heap
           /\ \A p, q \in Part : b[p] = b[q] => p = q
BY DEF Fresh, Part

-----------------------------------------------------------------------------
(***************************************************************************)
(* Owned.                                                                  *)
(***************************************************************************)

\* Blocks calloc finds for a new instance belong to it alone.
LEMMA NewOwned ==
    ASSUME Ready, NEW h \in Handles, h \notin open, NEW b \in Fresh,
           open' = open \cup {h},
           block' = [block EXCEPT ![h] = b],
           heap' = heap \cup {b[p] : p \in Part}
    PROVE  Owned'
<1>1. /\ block \in [Handles -> [Part -> Address \cup {NULL}]] /\ open \subseteq Handles
    BY DEF Ready, IInv, TypeOK
<1>2. block'[h] = b /\ \A g \in open : block'[g] = block[g] /\ g # h
    BY <1>1
<1>3. \A p \in Part : b[p] # NULL /\ b[p] \in heap' /\ b[p] \notin heap
    BY FreshFacts, CdbBufferAssumption
<1>4. "index" \in Part BY DEF Part
<1>5. \A g \in open' : block'[g]["index"] # NULL
    BY <1>2, <1>3, <1>4, Before
<1>6. ASSUME NEW g \in open', NEW p \in Part, block'[g][p] # NULL,
             NEW k \in open', NEW q \in Part
      PROVE  /\ block'[g][p] \in heap'
             /\ block'[k][q] = block'[g][p] => k = g /\ q = p
    <2>1. CASE g = h /\ k = h
        BY <2>1, <1>2, <1>3, FreshFacts
    <2>2. CASE g = h /\ k # h
        <3>1. k \in open /\ block'[k][q] = block[k][q] BY <2>2, <1>2
        <3>2. block[k][q] = NULL \/ block[k][q] \in heap BY <3>1, Before
        <3> QED BY <2>2, <3>1, <3>2, <1>2, <1>3
    <2>3. CASE g # h
        <3>1. g \in open /\ block'[g][p] = block[g][p] /\ block[g][p] \in heap
            BY <2>3, <1>2, <1>6, Before
        <3>2. CASE k = h BY <3>1, <3>2, <1>2, <1>3
        <3>3. CASE k # h
            <4>1. k \in open /\ block'[k][q] = block[k][q] BY <3>3, <1>2
            <4> QED BY <3>1, <4>1, <1>6, Before
        <3> QED BY <3>2, <3>3
    <2> QED BY <2>1, <2>2, <2>3
<1> QED BY <1>5, <1>6 DEF Owned

\* realloc leaves the buffer where it is or moves it to a free address.
LEMMA GrownOwned ==
    ASSUME Ready, NEW h \in open, NEW b \in Grown(h), NEW content, Grow(h, b, content),
           open' = open
    PROVE  Owned'
<1>1. /\ block \in [Handles -> [Part -> Address \cup {NULL}]] /\ open \subseteq Handles
      /\ heap \subseteq Address
    BY DEF Ready, IInv, TypeOK
<1> DEFINE old == block[h]["data_buffer"]
<1>2. /\ b \in Address /\ b # NULL /\ (b \notin heap \/ b = old)
      /\ heap' = (heap \ {old}) \cup {b}
    BY CdbBufferAssumption DEF Grow, Grown
<1>3. /\ block'[h]["data_buffer"] = b /\ block'[h]["index"] = block[h]["index"]
      /\ \A g \in open : g # h => block'[g] = block[g]
    BY <1>1 DEF Grow, Part
<1>4. ASSUME NEW g \in open, NEW p \in Part, ~(g = h /\ p = "data_buffer"), block[g][p] # NULL
      PROVE  /\ block'[g][p] = block[g][p]
             /\ block[g][p] \in heap /\ block[g][p] # old /\ block[g][p] # b
    <2>1. block'[g][p] = block[g][p] BY <1>3, <1>4 DEF Part
    <2>2. block[g][p] \in heap BY <1>4, Before
    <2>3. block[g][p] # old BY <1>4, Before DEF Part
    <2> QED BY <2>1, <2>2, <2>3, <1>2
<1>5. \A g \in open, p \in Part : block[g][p] = NULL /\ ~(g = h /\ p = "data_buffer") => block'[g][p] = NULL
    BY <1>3 DEF Part
<1>6. \A g \in open' : block'[g]["index"] # NULL
    BY <1>3, Before
<1>7. ASSUME NEW g \in open', NEW p \in Part, block'[g][p] # NULL,
             NEW k \in open', NEW q \in Part
      PROVE  /\ block'[g][p] \in heap'
             /\ block'[k][q] = block'[g][p] => k = g /\ q = p
    <2>1. CASE g = h /\ p = "data_buffer"
        <3>1. block'[g][p] = b BY <2>1, <1>3
        <3>2. block'[g][p] \in heap' BY <3>1, <1>2
        <3>3. ASSUME ~(k = h /\ q = "data_buffer") PROVE block'[k][q] # b
            <4>1. k \in open BY <1>7
            <4>2. block[k][q] = NULL => block'[k][q] = NULL BY <4>1, <3>3, <1>5
            <4>3. block[k][q] # NULL => block'[k][q] # b BY <4>1, <3>3, <1>4
            <4> QED BY <4>2, <4>3, <1>2
        <3> QED BY <2>1, <3>1, <3>2, <3>3
    <2>2. CASE ~(g = h /\ p = "data_buffer")
        <3>1. block[g][p] # NULL BY <2>2, <1>5, <1>7
        <3>2. /\ block'[g][p] = block[g][p] /\ block[g][p] \in heap
              /\ block[g][p] # old /\ block[g][p] # b
            BY <3>1, <2>2, <1>4
        <3>3. block'[g][p] \in heap' BY <3>2, <1>2
        <3>4. k = h /\ q = "data_buffer" => block'[k][q] # block'[g][p]
            BY <3>2, <1>3
        <3>5. ASSUME ~(k = h /\ q = "data_buffer"), block'[k][q] = block'[g][p]
              PROVE  k = g /\ q = p
            <4>1. k \in open /\ g \in open BY <1>7
            <4>2. block'[k][q] # NULL BY <3>5, <3>2, <3>1
            <4>3. block[k][q] # NULL BY <4>1, <4>2, <3>5, <1>5
            <4>4. block'[k][q] = block[k][q] BY <4>1, <4>3, <3>5, <1>4
            <4>5. block[k][q] = block[g][p] BY <4>4, <3>2, <3>5
            <4> QED BY <4>1, <4>5, <3>1, <1>7, Before
        <3> QED BY <3>3, <3>4, <3>5
    <2> QED BY <2>1, <2>2
<1> QED BY <1>6, <1>7 DEF Owned

\* free_cdb takes no block of another instance.
LEMMA FreeOwned ==
    ASSUME Ready, NEW h \in Handles, free_cdb(h)
    PROVE  Owned'
<1>1. block \in [Handles -> [Part -> Address \cup {NULL}]] /\ open \subseteq Handles
    BY DEF Ready, IInv, TypeOK
<1>2. /\ h \in open
      /\ open' = open \ {h}
      /\ heap' = heap \ Pointed(h)
      /\ \A g \in open' : g \in open /\ g # h /\ block'[g] = block[g]
    BY <1>1 DEF free_cdb
<1>3. ASSUME NEW g \in open', NEW p \in Part, block[g][p] # NULL
      PROVE  block[g][p] \in heap'
    <2>1. block[g][p] \in heap BY <1>2, <1>3, Before
    <2>2. \A q \in Part : block[h][q] # block[g][p] BY <1>2, <1>3, Before
    <2> QED BY <1>2, <2>1, <2>2 DEF Pointed
<1> QED BY <1>2, <1>3, Before DEF Owned

\* A realloc that fails leaves the instance without a buffer.
LEMMA LostOwned ==
    ASSUME Ready, NEW h \in open,
           block' = [block EXCEPT ![h]["data_buffer"] = NULL],
           open' = open, heap' = heap
    PROVE  Owned'
<1>1. block \in [Handles -> [Part -> Address \cup {NULL}]] /\ open \subseteq Handles
    BY DEF Ready, IInv, TypeOK
<1>2. /\ \A g \in open, p \in Part : ~(g = h /\ p = "data_buffer") => block'[g][p] = block[g][p]
      /\ block'[h]["data_buffer"] = NULL
    BY <1>1 DEF Part
<1>3. \A g \in open' : block'[g]["index"] # NULL
    BY <1>2, Before DEF Part
<1>4. ASSUME NEW g \in open', NEW p \in Part, block'[g][p] # NULL,
             NEW k \in open', NEW q \in Part
      PROVE  /\ block'[g][p] \in heap'
             /\ block'[k][q] = block'[g][p] => k = g /\ q = p
    <2>1. block'[g][p] = block[g][p] BY <1>2, <1>4
    <2>2. block'[k][q] = block[k][q] \/ block'[k][q] = NULL BY <1>2
    <2> QED BY <2>1, <2>2, <1>4, Before
<1> QED BY <1>3, <1>4 DEF Owned

-----------------------------------------------------------------------------
(***************************************************************************)
(* TypeOK and LoadedHoldsAll.                                              *)
(***************************************************************************)

LEMMA TypeStep ==
    ASSUME Ready, Next
    PROVE  TypeOK'
<1> USE DEF TypeOK
<1>0. TypeOK /\ stopped = "no" /\ NULL \notin Address BY Before
<1>1. ASSUME NEW h \in Handles, new_cdb(h)
      PROVE  /\ get_data' \in [Handles -> {"disk", "memory"}]
             /\ is_loaded' \in [Handles -> BOOLEAN]
             /\ segment' \in [Handles -> Segments]
             /\ data_ptr' \in [Handles -> 0 .. SegCount]
    BY <1>0, <1>1, Constants DEF new_cdb
<1>2. ASSUME NEW h \in Handles, Unload(h)
      PROVE  /\ open' \subseteq Handles
             /\ get_data' \in [Handles -> {"disk", "memory"}]
             /\ is_loaded' \in [Handles -> BOOLEAN]
             /\ segment' \in [Handles -> Segments]
             /\ data_ptr' \in [Handles -> 0 .. SegCount]
    BY <1>0, <1>2 DEF Unload
<1>3. ASSUME NEW h \in Handles, NEW b \in Fresh, NEW x \in 0 .. SegCount + 1,
             block' = [block EXCEPT ![h] = b],
             heap' = heap \cup {b[p] : p \in Part},
             holds' = [holds EXCEPT ![b["data_buffer"]] = x]
      PROVE  /\ block' \in [Handles -> [Part -> Address \cup {NULL}]]
             /\ heap' \subseteq Address
             /\ holds' \in [Address -> 0 .. SegCount + 1]
    <2>1. b \in [Part -> Address \cup {NULL}] /\ \A p \in Part : b[p] \in Address
        BY FreshFacts
    <2> QED BY <1>0, <1>3, <2>1
<1>4. ASSUME NEW h \in Handles, NEW b \in Grown(h), NEW x \in 0 .. SegCount + 1, Grow(h, b, x)
      PROVE  /\ block' \in [Handles -> [Part -> Address \cup {NULL}]]
             /\ heap' \subseteq Address
             /\ holds' \in [Address -> 0 .. SegCount + 1]
    <2>1. b \in Address BY DEF Grown
    <2> QED BY <1>0, <1>4, <2>1 DEF Grow
<1>5. ASSUME NEW h \in Handles, init_cdb(h) PROVE TypeOK'
    BY <1>0, <1>1, <1>3, <1>5, Constants DEF init_cdb
<1>6. ASSUME NEW h \in Handles, free_cdb(h) PROVE TypeOK'
    <2>1. block' \in [Handles -> [Part -> Address \cup {NULL}]]
        BY <1>0, <1>6 DEF free_cdb, NoBlocks
    <2>2. holds' \in [Address -> 0 .. SegCount + 1]
        BY <1>0, <1>6, Constants DEF free_cdb
    <2> QED BY <1>0, <1>1, <1>6, <2>1, <2>2 DEF free_cdb
<1>7. ASSUME NEW h \in Handles, NEW c \in Handles, copy_of_cdb(h, c) PROVE TypeOK'
    <2>1. block[h]["data_buffer"] \in Address
        BY <1>0, <1>7 DEF copy_of_cdb, Part
    <2>2. CopyHolds(h) \in 0 .. SegCount + 1
        BY <1>0, <2>1 DEF CopyHolds
    <2>3. PICK b \in Fresh :
            /\ block' = [block EXCEPT ![c] = b]
            /\ heap' = heap \cup {b[p] : p \in Part}
            /\ holds' = [holds EXCEPT ![b["data_buffer"]] = CopyHolds(h)]
        BY <1>7 DEF copy_of_cdb, CopyBlocks
    <2>4. /\ block' \in [Handles -> [Part -> Address \cup {NULL}]]
          /\ heap' \subseteq Address
          /\ holds' \in [Address -> 0 .. SegCount + 1]
        BY <1>3, <2>2, <2>3
    <2> QED BY <1>0, <1>7, <2>4, Constants DEF copy_of_cdb
<1>8. ASSUME NEW h \in Handles, CopyReopenFails(h) \/ CopyAllocFails(h) \/ ReadDiskCrashes(h)
      PROVE  TypeOK'
    BY <1>0, <1>8 DEF CopyReopenFails, CopyAllocFails, ReadDiskCrashes
<1>9. ASSUME NEW h \in Handles, LoadTooLarge(h) \/ LoadReadFails(h)
      PROVE  TypeOK'
    BY <1>0, <1>2, <1>4, <1>9, Constants DEF LoadTooLarge, LoadReadFails
<1>10. ASSUME NEW h \in Handles, LoadAll(h) PROVE TypeOK'
    BY <1>0, <1>4, <1>10, Constants DEF LoadAll
<1>11. ASSUME NEW h \in Handles, LoadGrowFails(h) PROVE TypeOK'
    <2>1. [block EXCEPT ![h]["data_buffer"] = NULL] \in [Handles -> [Part -> Address \cup {NULL}]]
        BY <1>0
    <2>2. block' = block \/ block' = [block EXCEPT ![h]["data_buffer"] = NULL]
        BY <1>11 DEF LoadGrowFails
    <2>3. block' \in [Handles -> [Part -> Address \cup {NULL}]]
        BY <1>0, <2>1, <2>2
    <2> QED BY <1>0, <1>2, <1>11, <2>3 DEF LoadGrowFails
<1>12. ASSUME NEW h \in Handles, ReadDisk(h) \/ ReadDiskFails(h) \/ ReadMemory(h)
       PROVE  TypeOK'
    <2>1. segment[h] \in 0 .. SegCount /\ segment[h] \in 0 .. SegCount + 1
        BY <1>0, Constants
    <2>2. CASE ReadDisk(h) BY <1>0, <2>1, <2>2 DEF ReadDisk
    <2>3. CASE ReadDiskFails(h) BY <1>0, <2>3, Constants DEF ReadDiskFails
    <2>4. CASE ReadMemory(h) BY <1>0, <2>1, <2>4 DEF ReadMemory
    <2> QED BY <1>12, <2>2, <2>3, <2>4
<1>13. ASSUME NEW h \in Handles, NEW s \in Segments, Seek(h, s) PROVE TypeOK'
    BY <1>0, <1>13 DEF Seek
<1> QED BY <1>5, <1>6, <1>7, <1>8, <1>9, <1>10, <1>11, <1>12, <1>13 DEF Next

\* What LoadedHoldsAll says of one instance.
Honest(h) ==
    /\ is_loaded[h] <=> get_data[h] = "memory"
    /\ is_loaded[h] => /\ block[h]["data_buffer"] # NULL
                       /\ holds[block[h]["data_buffer"]] = All

\* It is kept for an instance whose own members and buffer stay as they are.
LEMMA HonestKept ==
    ASSUME Ready, NEW h \in open,
           is_loaded'[h] = is_loaded[h], get_data'[h] = get_data[h],
           block'[h] = block[h],
           \A b \in Address : b = block[h]["data_buffer"] => holds'[b] = holds[b]
    PROVE  Honest(h)'
<1>1. Honest(h) BY DEF Ready, IInv, LoadedHoldsAll, Honest
<1>2. block[h]["data_buffer"] \in Address \cup {NULL}
    BY DEF Ready, IInv, TypeOK, Part
<1> QED BY <1>1, <1>2 DEF Honest
\* A step of one instance that writes no buffer but its own, and no block that
\* belongs to another.
LEMMA OthersHonest ==
    ASSUME Ready, NEW h \in Handles, NEW g \in open, g # h,
           \/ new_cdb(h) /\ \E b \in Fresh, x \in 0 .. SegCount + 1 :
                /\ block' = [block EXCEPT ![h] = b]
                /\ holds' = [holds EXCEPT ![b["data_buffer"]] = x]
           \/ \E b \in Grown(h), x \in 0 .. SegCount + 1 :
                /\ h \in open
                /\ Grow(h, b, x)
                /\ is_loaded'[g] = is_loaded[g] /\ get_data'[g] = get_data[g]
    PROVE  Honest(g)'
<1>1. /\ block \in [Handles -> [Part -> Address \cup {NULL}]] /\ open \subseteq Handles
      /\ holds \in [Address -> 0 .. SegCount + 1]
      /\ is_loaded \in [Handles -> BOOLEAN] /\ get_data \in [Handles -> {"disk", "memory"}]
    BY DEF Ready, IInv, TypeOK
<1>2. block[g]["data_buffer"] = NULL \/ block[g]["data_buffer"] \in heap
    BY Before DEF Part
<1>3. CASE new_cdb(h) /\ \E b \in Fresh, x \in 0 .. SegCount + 1 :
                /\ block' = [block EXCEPT ![h] = b]
                /\ holds' = [holds EXCEPT ![b["data_buffer"]] = x]
    <2>1. PICK b \in Fresh, x \in 0 .. SegCount + 1 :
                /\ block' = [block EXCEPT ![h] = b]
                /\ holds' = [holds EXCEPT ![b["data_buffer"]] = x]
        BY <1>3
    <2>2. is_loaded'[g] = is_loaded[g] /\ get_data'[g] = get_data[g] /\ block'[g] = block[g]
        BY <1>1, <1>3, <2>1 DEF new_cdb
    <2>3. b["data_buffer"] \notin heap /\ b["data_buffer"] \in Address
        BY FreshFacts DEF Part
    <2>4. \A a \in Address : a = block[g]["data_buffer"] => holds'[a] = holds[a]
        BY <1>1, <1>2, <2>1, <2>3, CdbBufferAssumption
    <2> QED BY <2>2, <2>4, HonestKept
<1>4. CASE \E b \in Grown(h), x \in 0 .. SegCount + 1 :
                /\ h \in open
                /\ Grow(h, b, x)
                /\ is_loaded'[g] = is_loaded[g] /\ get_data'[g] = get_data[g]
    <2>1. PICK b \in Grown(h), x \in 0 .. SegCount + 1 :
                /\ h \in open
                /\ Grow(h, b, x)
                /\ is_loaded'[g] = is_loaded[g] /\ get_data'[g] = get_data[g]
        BY <1>4
    <2>2. block'[g] = block[g]
        BY <1>1, <2>1 DEF Grow
    <2>3. b \in Address /\ (b \notin heap \/ b = block[h]["data_buffer"])
        BY DEF Grown
    <2>4. block[g]["data_buffer"] \in Address => block[g]["data_buffer"] # block[h]["data_buffer"]
        BY <2>1, Before DEF Part
    <2>5. \A a \in Address : a = block[g]["data_buffer"] => holds'[a] = holds[a]
        BY <1>1, <1>2, <2>1, <2>3, <2>4, CdbBufferAssumption DEF Grow
    <2> QED BY <2>1, <2>2, <2>5, HonestKept
<1> QED BY <1>3, <1>4

LEMMA LoadedStep ==
    ASSUME Ready, Next
    PROVE  LoadedHoldsAll'
<1>0. /\ block \in [Handles -> [Part -> Address \cup {NULL}]] /\ open \subseteq Handles
      /\ holds \in [Address -> 0 .. SegCount + 1]
      /\ is_loaded \in [Handles -> BOOLEAN] /\ get_data \in [Handles -> {"disk", "memory"}]
      /\ segment \in [Handles -> Segments]
    BY DEF Ready, IInv, TypeOK
<1>1. SUFFICES ASSUME NEW g \in open' PROVE Honest(g)'
    BY DEF LoadedHoldsAll, Honest
<1>2. ASSUME NEW h \in Handles, init_cdb(h) PROVE Honest(g)'
    <2>1. new_cdb(h) /\ \E b \in Fresh, x \in 0 .. SegCount + 1 :
                /\ block' = [block EXCEPT ![h] = b]
                /\ holds' = [holds EXCEPT ![b["data_buffer"]] = x]
        BY <1>2, Constants DEF init_cdb
    <2>2. CASE g = h BY <1>0, <1>2, <2>2 DEF init_cdb, new_cdb, Honest
    <2>3. CASE g # h
        <3>1. g \in open BY <1>2, <2>3 DEF init_cdb
        <3> QED BY <2>1, <2>3, <3>1, OthersHonest
    <2> QED BY <2>2, <2>3
<1>3. ASSUME NEW h \in Handles, free_cdb(h) PROVE Honest(g)'
    <2>1. g \in open /\ g # h BY <1>3 DEF free_cdb
    <2>2. \A b \in Address : b = block[g]["data_buffer"] => b \notin Pointed(h)
        <3> SUFFICES ASSUME NEW p \in Part, block[g]["data_buffer"] \in Address,
                            block[h][p] = block[g]["data_buffer"]
                     PROVE  FALSE
            BY DEF Pointed
        <3> QED BY <2>1, <1>3, Before DEF free_cdb, Part
    <2>3. \A b \in Address : b = block[g]["data_buffer"] => holds'[b] = holds[b]
        BY <1>3, <2>2 DEF free_cdb
    <2>4. is_loaded'[g] = is_loaded[g] /\ get_data'[g] = get_data[g] /\ block'[g] = block[g]
        BY <1>0, <1>3, <2>1 DEF free_cdb, new_cdb
    <2> QED BY <2>1, <2>3, <2>4, HonestKept
<1>4. ASSUME NEW h \in Handles, NEW c \in Handles, copy_of_cdb(h, c) PROVE Honest(g)'
    <2>1. PICK b \in Fresh :
            /\ block' = [block EXCEPT ![c] = b]
            /\ holds' = [holds EXCEPT ![b["data_buffer"]] = holds[block[h]["data_buffer"]]]
        BY <1>4 DEF copy_of_cdb, CopyBlocks, CopyHolds
    <2>2. /\ h \in open /\ block[h]["data_buffer"] \in Address
          /\ is_loaded' = [is_loaded EXCEPT ![c] = is_loaded[h]]
          /\ get_data' = [get_data EXCEPT ![c] = get_data[h]]
          /\ open' = open \cup {c} /\ c \notin open
        BY <1>0, <1>4 DEF copy_of_cdb, Part
    <2>3. b["data_buffer"] \in Address /\ b["data_buffer"] \notin heap /\ b["data_buffer"] # NULL
        BY FreshFacts, CdbBufferAssumption DEF Part
    <2>4. CASE g = c
        <3>1. /\ block'[c] = b
              /\ holds'[b["data_buffer"]] = holds[block[h]["data_buffer"]]
              /\ is_loaded'[c] = is_loaded[h] /\ get_data'[c] = get_data[h]
            BY <1>0, <2>1, <2>2, <2>3
        <3>2. Honest(h) BY <2>2 DEF Ready, IInv, LoadedHoldsAll, Honest
        <3> QED BY <2>3, <2>4, <3>1, <3>2 DEF Honest
    <2>5. CASE g # c
        <3>1. g \in open BY <2>2, <2>5
        <3>2. block[g]["data_buffer"] = NULL \/ block[g]["data_buffer"] \in heap
            BY <3>1, Before DEF Part
        <3>3. \A a \in Address : a = block[g]["data_buffer"] => holds'[a] = holds[a]
            BY <1>0, <2>1, <2>3, <3>2, CdbBufferAssumption
        <3>4. block'[g] = block[g] /\ is_loaded'[g] = is_loaded[g] /\ get_data'[g] = get_data[g]
            BY <1>0, <2>1, <2>2, <2>5, <3>1
        <3> QED BY <3>1, <3>3, <3>4, HonestKept
    <2> QED BY <2>4, <2>5
<1>5. ASSUME UNCHANGED <<open, block, holds, get_data, is_loaded>> PROVE Honest(g)'
    <2>1. g \in open BY <1>5
    <2> QED BY <1>5, <2>1, HonestKept
<1>6. ASSUME NEW h \in Handles, CopyReopenFails(h) \/ CopyAllocFails(h) \/ ReadDiskCrashes(h) \/ ReadMemory(h)
      PROVE  Honest(g)'
    BY <1>5, <1>6 DEF CopyReopenFails, CopyAllocFails, ReadDiskCrashes, ReadMemory
<1>7. ASSUME NEW h \in open, Unload(h), g = h PROVE Honest(g)'
    BY <1>0, <1>7 DEF Unload, Honest
<1>8. ASSUME NEW h \in Handles, LoadTooLarge(h) PROVE Honest(g)'
    <2>1. h \in open /\ g \in open /\ Unload(h) /\ block' = block /\ holds' = holds
        BY <1>8 DEF LoadTooLarge, Unload
    <2>2. CASE g # h
        <3>1. is_loaded'[g] = is_loaded[g] /\ get_data'[g] = get_data[g]
            BY <1>0, <2>1, <2>2 DEF Unload
        <3> QED BY <2>1, <3>1, HonestKept
    <2> QED BY <2>1, <2>2, <1>7
<1>9. ASSUME NEW h \in Handles, LoadReadFails(h) PROVE Honest(g)'
    <2>1. h \in open /\ g \in open /\ Unload(h) /\ \E b \in Grown(h) : Grow(h, b, Nothing)
        BY <1>9 DEF LoadReadFails, Unload
    <2>2. CASE g # h
        <3>1. is_loaded'[g] = is_loaded[g] /\ get_data'[g] = get_data[g]
            BY <1>0, <2>1, <2>2 DEF Unload
        <3> QED BY <2>1, <2>2, <3>1, Constants, OthersHonest
    <2> QED BY <2>1, <2>2, <1>7
<1>10. ASSUME NEW h \in Handles, LoadAll(h) PROVE Honest(g)'
    <2>1. PICK b \in Grown(h) : Grow(h, b, All)
        BY <1>10 DEF LoadAll
    <2>2. /\ h \in open /\ g \in open
          /\ is_loaded' = [is_loaded EXCEPT ![h] = TRUE]
          /\ get_data' = [get_data EXCEPT ![h] = "memory"]
        BY <1>10 DEF LoadAll
    <2>3. CASE g = h
        <3>1. b \in Address /\ b # NULL BY CdbBufferAssumption DEF Grown
        <3>2. block'[h]["data_buffer"] = b /\ holds'[b] = All
            BY <1>0, <2>1, <3>1 DEF Grow, Part
        <3>3. is_loaded'[h] = TRUE /\ get_data'[h] = "memory"
            BY <1>0, <2>2
        <3> QED BY <2>3, <3>1, <3>2, <3>3 DEF Honest
    <2>4. CASE g # h
        <3>1. is_loaded'[g] = is_loaded[g] /\ get_data'[g] = get_data[g]
            BY <1>0, <2>2, <2>4
        <3> QED BY <2>1, <2>2, <2>4, <3>1, Constants, OthersHonest
    <2> QED BY <2>3, <2>4
<1>11. ASSUME NEW h \in Handles, LoadGrowFails(h) PROVE Honest(g)'
    <2>1. /\ h \in open /\ g \in open /\ Unload(h) /\ holds' = holds
          /\ \/ block' = block
             \/ block' = [block EXCEPT ![h]["data_buffer"] = NULL]
        BY <1>11 DEF LoadGrowFails, Unload
    <2>2. CASE g # h
        <3>1. is_loaded'[g] = is_loaded[g] /\ get_data'[g] = get_data[g] /\ block'[g] = block[g]
            BY <1>0, <2>1, <2>2 DEF Unload
        <3> QED BY <2>1, <3>1, HonestKept
    <2> QED BY <2>1, <2>2, <1>7
<1>12. ASSUME NEW h \in Handles, ReadDisk(h) \/ ReadDiskFails(h) PROVE Honest(g)'
    <2>1. /\ h \in open /\ g \in open /\ get_data[h] = "disk"
          /\ UNCHANGED <<block, get_data, is_loaded>>
          /\ block[h]["data_buffer"] # NULL
          /\ \E x \in 0 .. SegCount + 1 : holds' = [holds EXCEPT ![block[h]["data_buffer"]] = x]
        BY <1>0, <1>12, Constants DEF ReadDisk, ReadDiskFails
    <2>2. CASE g = h
        <3>1. Honest(h) BY <2>1 DEF Ready, IInv, LoadedHoldsAll, Honest
        <3> QED BY <2>1, <2>2, <3>1 DEF Honest
    <2>3. CASE g # h
        <3>1. block[g]["data_buffer"] # block[h]["data_buffer"]
            BY <2>1, <2>3, Before DEF Part
        <3>2. \A a \in Address : a = block[g]["data_buffer"] => holds'[a] = holds[a]
            BY <1>0, <2>1, <3>1
        <3> QED BY <2>1, <3>2, HonestKept
    <2> QED BY <2>2, <2>3
<1>13. ASSUME NEW h \in Handles, NEW s \in Segments, Seek(h, s) PROVE Honest(g)'
    BY <1>5, <1>13 DEF Seek
<1> QED BY <1>2, <1>3, <1>4, <1>6, <1>8, <1>9, <1>10, <1>11, <1>12, <1>13 DEF Next

-----------------------------------------------------------------------------
(***************************************************************************)
(* The theorems.                                                           *)
(***************************************************************************)

LEMMA OwnedStep ==
    ASSUME Ready, Next
    PROVE  Owned'
<1>0. stopped = "no" /\ open \subseteq Handles BY Before DEF TypeOK
<1>1. ASSUME NEW h \in Handles, init_cdb(h) PROVE Owned'
    BY <1>1, NewOwned DEF init_cdb
<1>2. ASSUME NEW h \in Handles, free_cdb(h) PROVE Owned'
    BY <1>2, FreeOwned
<1>3. ASSUME NEW h \in Handles, NEW c \in Handles, copy_of_cdb(h, c) PROVE Owned'
    BY <1>3, NewOwned DEF copy_of_cdb, CopyBlocks
<1>4. ASSUME NEW h \in Handles, CopyReopenFails(h) PROVE Owned'
    BY <1>4 DEF CopyReopenFails, Owned
<1>5. ASSUME UNCHANGED <<open, block, heap>> PROVE Owned'
    BY <1>5, Before DEF Owned
<1>6. ASSUME NEW h \in Handles, LoadAll(h) \/ LoadReadFails(h) PROVE Owned'
    BY <1>6, GrownOwned DEF LoadAll, LoadReadFails, Unload
<1>7. ASSUME NEW h \in Handles, LoadGrowFails(h) PROVE Owned'
    <2>1. CASE block' = block BY <1>5, <1>7, <2>1 DEF LoadGrowFails, Unload
    <2>2. CASE block' = [block EXCEPT ![h]["data_buffer"] = NULL]
        BY <1>7, <2>2, LostOwned DEF LoadGrowFails, Unload
    <2> QED BY <1>7, <2>1, <2>2 DEF LoadGrowFails
<1>8. ASSUME NEW h \in Handles,
             CopyAllocFails(h) \/ LoadTooLarge(h) \/ ReadDisk(h) \/ ReadDiskFails(h)
                \/ ReadDiskCrashes(h) \/ ReadMemory(h)
      PROVE  Owned'
    BY <1>5, <1>8 DEF CopyAllocFails, LoadTooLarge, ReadDisk, ReadDiskFails, ReadDiskCrashes,
        ReadMemory, Unload
<1>9. ASSUME NEW h \in Handles, NEW s \in Segments, Seek(h, s) PROVE Owned'
    BY <1>5, <1>9 DEF Seek
<1> QED BY <1>1, <1>2, <1>3, <1>4, <1>6, <1>7, <1>8, <1>9 DEF Next

LEMMA InitIInv == Init => IInv
<1> SUFFICES ASSUME Init PROVE IInv OBVIOUS
<1>1. TypeOK
    <2>1. block \in [Handles -> [Part -> Address \cup {NULL}]] BY DEF Init, NoBlocks
    <2>2. /\ holds \in [Address -> 0 .. SegCount + 1]
          /\ data_ptr \in [Handles -> 0 .. SegCount]
        BY Constants DEF Init
    <2>3. segment \in [Handles -> Segments] BY Constants DEF Init, First
    <2> QED BY <2>1, <2>2, <2>3 DEF Init, TypeOK
<1> QED BY <1>1 DEF Init, IInv, Owned, LoadedHoldsAll

LEMMA NextRunning == Next => Running
BY DEF Next, init_cdb, free_cdb, copy_of_cdb, CopyReopenFails, CopyAllocFails, LoadTooLarge,
    LoadAll, LoadReadFails, LoadGrowFails, ReadDisk, ReadDiskFails, ReadDiskCrashes, ReadMemory, Seek

LEMMA StepIInv == IInv /\ [Next]_vars => IInv'
<1> SUFFICES ASSUME IInv, [Next]_vars PROVE IInv' OBVIOUS
<1>1. CASE Next
    <2>1. Ready BY <1>1, NextRunning DEF Ready
    <2> QED BY <1>1, <2>1, TypeStep, OwnedStep, LoadedStep DEF IInv
<1>2. CASE UNCHANGED vars
    BY <1>2 DEF vars, IInv, TypeOK, Owned, LoadedHoldsAll
<1> QED BY <1>1, <1>2

\* All that the invariant of cdb.c's instances says, in every reachable state.
THEOREM Invariance == Spec => []IInv
<1>1. Init => IInv BY InitIInv
<1>2. IInv /\ [Next]_vars => IInv' BY StepIInv
<1> QED BY <1>1, <1>2, PTL DEF Spec

\* The members of every instance of cdb.c have their types.
THEOREM TypeCorrect == Spec => []TypeOK
<1>1. IInv => TypeOK BY DEF IInv
<1> QED BY <1>1, Invariance, PTL

\* No two instances share memory, and none points to memory that was freed,
\* after any calls of init_cdb, copy_of_cdb, load_all_seg_data_cdb and free_cdb.
THEOREM OwnedCorrect == Spec => []Owned
<1>1. IInv => Owned BY DEF IInv
<1> QED BY <1>1, Invariance, PTL

\* An instance that reads from memory has all segments there.
THEOREM LoadedCorrect == Spec => []LoadedHoldsAll
<1>1. IInv => LoadedHoldsAll BY DEF IInv
<1> QED BY <1>1, Invariance, PTL
-----------------------------------------------------------------------------
(***************************************************************************)
(* Independent.                                                            *)
(***************************************************************************)

Quiet(k) == View(k)' = View(k)

\* A call that writes only free memory and blocks of its own instance is not
\* seen through the others.
LEMMA OthersQuiet ==
    ASSUME Ready, NEW a \in Handles,
           \A k \in open : k # a => /\ block'[k] = block[k]
                                    /\ is_loaded'[k] = is_loaded[k]
                                    /\ get_data'[k] = get_data[k]
                                    /\ segment'[k] = segment[k]
                                    /\ data_ptr'[k] = data_ptr[k],
           \A x \in heap : holds'[x] # holds[x] => a \in open /\ \E p \in Part : x = block[a][p],
           NEW k \in open, k # a
    PROVE  Quiet(k)
<1>1. /\ block'[k] = block[k] /\ is_loaded'[k] = is_loaded[k]
      /\ get_data'[k] = get_data[k] /\ segment'[k] = segment[k] /\ data_ptr'[k] = data_ptr[k]
    OBVIOUS
<1>2. block[k]["data_buffer"] # NULL => holds'[block[k]["data_buffer"]] = holds[block[k]["data_buffer"]]
    <2> SUFFICES ASSUME block[k]["data_buffer"] # NULL,
                        holds'[block[k]["data_buffer"]] # holds[block[k]["data_buffer"]]
                 PROVE  FALSE
        OBVIOUS
    <2>1. block[k]["data_buffer"] \in heap BY Before DEF Part
    <2>2. PICK p \in Part : block[k]["data_buffer"] = block[a][p] BY <2>1
    <2>3. a \in open BY <2>1
    <2> QED BY <2>2, <2>3, Before DEF Part
<1> QED BY <1>1, <1>2 DEF Quiet, View

LEMMA QuietStep ==
    ASSUME Ready, Next
    PROVE  \E a \in Handles : \A k \in open : k # a => Quiet(k)
<1>0. /\ block \in [Handles -> [Part -> Address \cup {NULL}]] /\ open \subseteq Handles
      /\ holds \in [Address -> 0 .. SegCount + 1] /\ heap \subseteq Address
      /\ is_loaded \in [Handles -> BOOLEAN] /\ get_data \in [Handles -> {"disk", "memory"}]
      /\ segment \in [Handles -> Segments] /\ data_ptr \in [Handles -> 0 .. SegCount]
      /\ NULL \notin Address
    BY CdbBufferAssumption DEF Ready, IInv, TypeOK
<1> DEFINE Kept(k) == /\ block'[k] = block[k]
                      /\ is_loaded'[k] = is_loaded[k]
                      /\ get_data'[k] = get_data[k]
                      /\ segment'[k] = segment[k]
                      /\ data_ptr'[k] = data_ptr[k]
           Own(a, x) == a \in open /\ \E p \in Part : x = block[a][p]
<1>1. ASSUME NEW a \in Handles,
             \A k \in open : k # a => Kept(k),
             \A x \in heap : holds'[x] # holds[x] => Own(a, x)
      PROVE  \E h \in Handles : \A k \in open : k # h => Quiet(k)
    BY <1>1, OthersQuiet
<1> HIDE DEF Own
<1>2. ASSUME NEW h \in Handles, init_cdb(h) PROVE \E a \in Handles : \A k \in open : k # a => Quiet(k)
    <2>1. PICK b \in Fresh : /\ block' = [block EXCEPT ![h] = b]
                             /\ holds' = [holds EXCEPT ![b["data_buffer"]] = Nothing]
        BY <1>2 DEF init_cdb
    <2>2. \A x \in heap : holds'[x] = holds[x] BY <1>0, <2>1, FreshFacts DEF Part
    <2>3. \A k \in open : k # h => Kept(k) BY <1>0, <1>2, <2>1 DEF init_cdb, new_cdb
    <2> QED BY <2>2, <2>3, <1>1
<1>3. ASSUME NEW h \in Handles, free_cdb(h) PROVE \E a \in Handles : \A k \in open : k # a => Quiet(k)
    <2>1. \A x \in heap : holds'[x] # holds[x] => x \in Pointed(h) BY <1>0, <1>3 DEF free_cdb
    <2>2. \A x \in heap : holds'[x] # holds[x] => Own(h, x) BY <1>3, <2>1 DEF Pointed, free_cdb, Own
    <2>3. \A k \in open : k # h => Kept(k) BY <1>0, <1>3 DEF free_cdb, new_cdb
    <2> QED BY <2>2, <2>3, <1>1
<1>4. ASSUME NEW h \in Handles, NEW c \in Handles, copy_of_cdb(h, c)
      PROVE  \E a \in Handles : \A k \in open : k # a => Quiet(k)
    <2>1. PICK b \in Fresh : /\ block' = [block EXCEPT ![c] = b]
                             /\ holds' = [holds EXCEPT ![b["data_buffer"]] = CopyHolds(h)]
        BY <1>4 DEF copy_of_cdb, CopyBlocks
    <2>2. \A x \in heap : holds'[x] = holds[x] BY <1>0, <2>1, FreshFacts DEF Part
    <2>3. \A k \in open : k # c => Kept(k) BY <1>0, <1>4, <2>1 DEF copy_of_cdb
    <2> QED BY <2>2, <2>3, <1>1
<1>5. ASSUME NEW h \in Handles, CopyReopenFails(h) \/ CopyAllocFails(h) \/ ReadDiskCrashes(h)
      PROVE  \E a \in Handles : \A k \in open : k # a => Quiet(k)
    BY <1>1, <1>5 DEF CopyReopenFails, CopyAllocFails, ReadDiskCrashes
<1>6. ASSUME NEW h \in Handles, NEW b \in Grown(h), NEW x, Grow(h, b, x), h \in open,
             \A k \in open : k # h => /\ is_loaded'[k] = is_loaded[k] /\ get_data'[k] = get_data[k]
                                      /\ segment'[k] = segment[k] /\ data_ptr'[k] = data_ptr[k]
      PROVE  \E a \in Handles : \A k \in open : k # a => Quiet(k)
    <2>1. \A y \in heap : holds'[y] # holds[y] => y = b BY <1>0, <1>6 DEF Grow
    <2>2. b \notin heap \/ b = block[h]["data_buffer"] BY DEF Grown
    <2>3. \A y \in heap : holds'[y] # holds[y] => Own(h, y) BY <1>6, <2>1, <2>2 DEF Own, Part
    <2>4. \A k \in open : k # h => Kept(k) BY <1>0, <1>6 DEF Grow
    <2> QED BY <2>3, <2>4, <1>1
<1>7. ASSUME NEW h \in Handles, LoadAll(h) PROVE \E a \in Handles : \A k \in open : k # a => Quiet(k)
    BY <1>0, <1>6, <1>7 DEF LoadAll
<1>8. ASSUME NEW h \in Handles, LoadReadFails(h) PROVE \E a \in Handles : \A k \in open : k # a => Quiet(k)
    BY <1>0, <1>6, <1>8 DEF LoadReadFails, Unload
<1>9. ASSUME NEW h \in Handles, LoadTooLarge(h) \/ LoadGrowFails(h)
      PROVE  \E a \in Handles : \A k \in open : k # a => Quiet(k)
    <2>1. holds' = holds BY <1>9 DEF LoadTooLarge, LoadGrowFails
    <2>2. block' = block \/ block' = [block EXCEPT ![h]["data_buffer"] = NULL]
        BY <1>9 DEF LoadTooLarge, LoadGrowFails
    <2>3. Unload(h) BY <1>9 DEF LoadTooLarge, LoadGrowFails
    <2>4. \A k \in open : k # h => Kept(k) BY <1>0, <2>2, <2>3 DEF Unload
    <2> QED BY <2>1, <2>4, <1>1
<1>10. ASSUME NEW h \in Handles, ReadDisk(h) \/ ReadDiskFails(h)
       PROVE  \E a \in Handles : \A k \in open : k # a => Quiet(k)
    <2>1. h \in open /\ UNCHANGED <<block, get_data, is_loaded, segment>> BY <1>10 DEF ReadDisk, ReadDiskFails
    <2>2. \E x : holds' = [holds EXCEPT ![block[h]["data_buffer"]] = x]
        BY <1>10 DEF ReadDisk, ReadDiskFails
    <2>3. \A y \in heap : holds'[y] # holds[y] => y = block[h]["data_buffer"] BY <1>0, <2>2
    <2>4. \A y \in heap : holds'[y] # holds[y] => Own(h, y) BY <2>1, <2>3 DEF Own, Part
    <2>5. \A k \in open : k # h => data_ptr'[k] = data_ptr[k]
        BY <1>0, <1>10 DEF ReadDisk, ReadDiskFails
    <2>6. \A k \in open : k # h => Kept(k) BY <2>1, <2>5
    <2> QED BY <2>4, <2>6, <1>1
<1>11. ASSUME NEW h \in Handles, ReadMemory(h) PROVE \E a \in Handles : \A k \in open : k # a => Quiet(k)
    <2>1. \A k \in open : k # h => Kept(k) BY <1>0, <1>11 DEF ReadMemory
    <2> QED BY <1>11, <2>1, <1>1 DEF ReadMemory
<1>12. ASSUME NEW h \in Handles, NEW s \in Segments, Seek(h, s)
       PROVE  \E a \in Handles : \A k \in open : k # a => Quiet(k)
    <2>1. \A k \in open : k # h => Kept(k) BY <1>0, <1>12 DEF Seek
    <2> QED BY <1>12, <2>1, <1>1 DEF Seek
<1> QED BY <1>2, <1>3, <1>4, <1>5, <1>7, <1>8, <1>9, <1>10, <1>11, <1>12 DEF Next

\* What a call on one instance of cdb.c does is not seen through another, a copy
\* and its original included.
THEOREM IndependentCorrect == Spec => Independent
<1> DEFINE Step == \A g, h \in open \cap open' : g # h => View(g)' = View(g) \/ View(h)' = View(h)
<1>1. ASSUME IInv, [Next]_vars PROVE [Step]_vars
    <2>1. CASE Next
        <3>1. Ready BY <1>1, <2>1, NextRunning DEF Ready
        <3> QED BY <2>1, <3>1, QuietStep DEF Quiet
    <2> QED BY <1>1, <2>1
<1> QED BY <1>1, Invariance, PTL DEF Spec, Independent
=============================================================================
