------------------------- MODULE OtaSpiDisk_proofs --------------------------
(***************************************************************************)
(* Proofs about OtaSpiDisk, for every partition size, block size and set of*)
(* sector contents.  The types and DamageConfined hold whatever fails; the *)
(* cache and the block device need a flash whose reads do not fail.        *)
(***************************************************************************)
EXTENDS OtaSpiDisk, TLAPS

\* Blocks and sectors are numbered from 0.
LEMMA FirstBlock == 0 \in Block /\ 0 \in Offset
BY DiskAssumption DEF Block, Offset

\* A flush that is cut short leaves arbitrary sectors in the cached block.
LEMMA CutBlock ==
  ASSUME TypeOK, FlushCut
  PROVE  \E left \in Sectors : flash' = [flash EXCEPT ![cached] = left]
BY DEF FlushCut

\* flush_cache's possible effects keep the types.
LEMMA FlushType ==
  ASSUME TypeOK, FlushCut \/ FlushCache \/ FlushFails
  PROVE  flash' \in [Block -> Sectors]
BY DEF FlushCut, FlushCache, FlushFails, TypeOK

\* A turn either ends the request or moves it on to a block before its end.
LEMMA TurnType ==
  ASSUME TypeOK, request # Idle, NextTurn
  PROVE  request' \in Transfer \cup {Idle} /\ status' \in {"ok", "error"}
<1>1. request \in Transfer /\ request.block \in Block /\ request.end \in Block
  BY DEF TypeOK, Transfer
<1>2. CASE request.block < request.end /\ UNCHANGED status
             /\ request' = [request EXCEPT !.block = @ + 1, !.first = 0]
  <2>1. request.block + 1 \in Block /\ request.block + 1 <= request.end
    BY <1>1, <1>2, DiskAssumption DEF Block
  <2>2. request' = [op |-> request.op, block |-> request.block + 1, first |-> 0,
                    end |-> request.end, last |-> request.last]
    BY <1>1, <1>2 DEF Transfer
  <2>3. request' \in Transfer
    BY <1>1, <2>1, <2>2, FirstBlock DEF Transfer, Block, Offset
  <2> QED BY <1>2, <2>3 DEF TypeOK
<1>3. CASE request' = Idle /\ status' = "ok"
  BY <1>3
<1> QED BY <1>2, <1>3 DEF NextTurn

\* What load_cache leaves in the cache is a block.
LEMMA LoadedType ==
  ASSUME TypeOK, request # Idle
  PROVE  request.block \in Block /\ Loaded \in Sectors
BY DEF TypeOK, Transfer, Loaded

\* A write turn changes the loaded block in some of its sectors.
LEMMA WriteTurnCache ==
  ASSUME TypeOK, WriteTurn
  PROVE  cache' \in Sectors
<1>1. PICK data \in [Chunk -> Value] :
        cache' = [o \in Offset |-> IF o \in Chunk THEN data[o] ELSE Loaded[o]]
  BY DEF WriteTurn
<1>2. Loaded \in Sectors
  BY LoadedType DEF WriteTurn
<1> QED BY <1>1, <1>2 DEF Sectors, Content

\* Every step preserves the types.
LEMMA NextType == TypeOK /\ [Next]_vars => TypeOK'
<1> SUFFICES ASSUME TypeOK, [Next]_vars PROVE TypeOK'
  OBVIOUS
<1>e. [o \in Offset |-> Torn] \in Sectors
  BY DEF Sectors, Content
<1>1. CASE Submit
  BY <1>1 DEF Submit, TypeOK, disk
<1>2. CASE WriteBack
  BY <1>2, FlushType DEF WriteBack, FlushCache, FlushFails, Fail, TypeOK, disk
<1>3. CASE LoadFails
  BY <1>3 DEF LoadFails, Fail, TypeOK
<1>4. CASE ReadTurn
  BY <1>4, TurnType, LoadedType DEF ReadTurn, TypeOK, NeedsFlush
<1>5. CASE WriteTurn
  BY <1>5, TurnType, LoadedType, WriteTurnCache DEF WriteTurn, TypeOK, NeedsFlush
<1>6. CASE SyncSucceeds
  BY <1>6, FlushType DEF SyncSucceeds, Flush, FlushCache, TypeOK, disk
<1>7. CASE SyncFails
  BY <1>7, FlushType DEF SyncFails, Flush, FlushCache, FlushFails, Fail, TypeOK, disk
<1>8. CASE PowerLoss
  BY <1>8, <1>e, FlushType, FirstBlock DEF PowerLoss, TypeOK
<1>9. CASE UNCHANGED vars
  BY <1>9 DEF vars, disk, TypeOK
<1> QED
  BY <1>1, <1>2, <1>3, <1>4, <1>5, <1>6, <1>7, <1>8, <1>9 DEF Next

\* The types hold initially.
LEMMA InitType == Init => TypeOK
BY FirstBlock DEF Init, TypeOK, Sectors, Content

\* Type correctness of the cache, the partition and the request.
THEOREM TypeCorrect == Spec => []TypeOK
BY InitType, NextType, PTL DEF Spec

-----------------------------------------------------------------------------
\* Writing back touches the cached block only, and it was waiting for that.
LEMMA FlushConfined ==
  ASSUME TypeOK, NeedsFlush, FlushCut \/ FlushCache
  PROVE  \A b \in Block : flash'[b] # flash[b] => b \in Unsaved
BY DEF FlushCut, FlushCache, Unsaved, TypeOK

\* ota_spi_disk.c: the flash changes only where the host wrote, whichever
\* flash operations fail.
THEOREM DamageConfined == Spec => OnlyWrittenBlocksChange
<1> DEFINE Step ==
      /\ \A b \in Block : flash'[b] # flash[b] => b \in Unsaved
      /\ Unsaved' \subseteq Unsaved \cup
           {b \in Block : WriteTurn /\ b = request.block}
<1>1. TypeOK /\ [Next]_vars => [Step]_vars
  <2> SUFFICES ASSUME TypeOK, Next PROVE Step
    OBVIOUS
  <2>1. CASE Submit
    BY <2>1 DEF Submit, disk, Unsaved, NeedsFlush
  <2>2. CASE FlushCache
    BY <2>2, FlushConfined DEF FlushCache, Unsaved, NeedsFlush
  <2>3. CASE FlushFails
    BY <2>3, FlushConfined DEF FlushFails, disk, Unsaved, NeedsFlush
  <2>4. CASE UNCHANGED <<flash, disk>>
    BY <2>4 DEF disk, Unsaved, NeedsFlush
  <2>5. CASE LoadFails
    BY <2>5 DEF LoadFails, Unsaved, NeedsFlush
  <2>6. CASE ReadTurn
    BY <2>6 DEF ReadTurn, LoadReady, Hit, Unsaved, NeedsFlush
  <2>7. CASE WriteTurn
    <3>1. request.block \in Block /\ flash' = flash
      BY <2>7, LoadedType DEF WriteTurn
    <3>2. cached' = request.block
      BY <2>7 DEF WriteTurn
    <3> QED BY <2>7, <3>1, <3>2 DEF Unsaved
  <2>8. CASE PowerLoss
    <3>1. Unsaved' = {}
      BY <2>8 DEF PowerLoss, Unsaved, NeedsFlush
    <3>2. \A b \in Block : flash'[b] # flash[b] => b \in Unsaved
      BY <2>8, FlushConfined DEF PowerLoss
    <3> QED BY <3>1, <3>2
  <2> QED
    BY <2>1, <2>2, <2>3, <2>4, <2>5, <2>6, <2>7, <2>8
       DEF Next, WriteBack, SyncSucceeds, SyncFails, Flush
<1> QED BY <1>1, TypeCorrect, PTL DEF Spec, OnlyWrittenBlocksChange

-----------------------------------------------------------------------------
\* Every step preserves the cache invariant, if no read fails halfway.
LEMMA NextDiskInv ==
  ASSUME "read" \notin Faults
  PROVE  DiskInv /\ [Next]_vars => DiskInv'
<1> SUFFICES ASSUME DiskInv, [Next]_vars PROVE (dirty => valid)' /\ CacheHoldsBlock'
  BY NextType DEF DiskInv
<1>t. TypeOK /\ (dirty => valid) /\ CacheHoldsBlock
  BY DEF DiskInv
<1> USE DEF CacheHoldsBlock, NeedsFlush, Hit
<1>1. CASE Submit
  BY <1>1, <1>t DEF Submit, disk
<1>2. CASE WriteBack
  BY <1>2, <1>t DEF WriteBack, FlushCache, FlushFails, TypeOK, disk
<1>3. CASE LoadFails
  BY <1>3, <1>t DEF LoadFails
<1>4. CASE ReadTurn
  BY <1>4, <1>t DEF ReadTurn, LoadReady, Loaded
<1>5. CASE WriteTurn
  BY <1>5, <1>t DEF WriteTurn, LoadReady, Loaded
<1>6. CASE SyncSucceeds \/ SyncFails
  BY <1>6, <1>t DEF SyncSucceeds, SyncFails, Flush, FlushCache, FlushFails, TypeOK, disk
<1>7. CASE PowerLoss
  BY <1>7 DEF PowerLoss
<1>8. CASE UNCHANGED vars
  BY <1>8, <1>t DEF vars, disk
<1> QED
  BY <1>1, <1>2, <1>3, <1>4, <1>5, <1>6, <1>7, <1>8 DEF Next

\* The cache invariant holds of every behaviour, if no read fails halfway.
LEMMA DiskInvariant ==
  ASSUME "read" \notin Faults
  PROVE  Spec => []DiskInv
<1>1. Init => DiskInv
  BY InitType DEF Init, DiskInv, CacheHoldsBlock
<1>2. DiskInv /\ [Next]_vars => DiskInv'
  BY NextDiskInv
<1> QED BY <1>1, <1>2, PTL DEF Spec

\* ota_spi_disk_sync: whatever was written before a successful sync is in the
\* flash after it.
THEOREM SyncSafety ==
  ASSUME "read" \notin Faults
  PROVE  Spec => SyncIsDurable
<1>1. DiskInv /\ [Next]_vars => [SyncSucceeds => flash' = View]_vars
  <2> SUFFICES ASSUME DiskInv, SyncSucceeds PROVE flash' = View
    OBVIOUS
  <2>t. TypeOK /\ (dirty => valid) /\ CacheHoldsBlock
    BY DEF DiskInv
  <2>1. CASE FlushCache
    BY <2>1, <2>t DEF FlushCache, NeedsFlush, View, Hit, TypeOK
  <2>2. CASE ~NeedsFlush /\ UNCHANGED flash
    BY <2>2, <2>t DEF NeedsFlush, View, Hit, TypeOK, CacheHoldsBlock
  <2> QED BY <2>1, <2>2 DEF SyncSucceeds, Flush
<1> QED BY <1>1, DiskInvariant, PTL DEF Spec, SyncIsDurable

-----------------------------------------------------------------------------
\* Writing the cached block back saves it.
LEMMA FlushSaves ==
  ASSUME DiskInv, FlushCache
  PROVE  Device!Save(cached) /\ cached \in Block
<1>1. flash' = [flash EXCEPT ![cached] = cache] /\ UNCHANGED <<cache, cached, valid>>
      /\ valid /\ dirty /\ dirty' = FALSE
  BY DEF FlushCache, NeedsFlush
<1>2. cached \in Block /\ flash \in [Block -> Sectors]
  BY DEF DiskInv, TypeOK
<1>3. View[cached] = cache
  BY <1>1, <1>2 DEF View, Hit
<1>4. View' = View
  BY <1>1, <1>2 DEF View, Hit
<1>5. Unsaved = {cached} /\ Unsaved' = {}
  BY <1>1 DEF Unsaved, NeedsFlush
<1> QED BY <1>1, <1>2, <1>3, <1>4, <1>5 DEF Device!Save

\* A write-back that fails damages the flash, not what is read.
LEMMA FlushDamages ==
  ASSUME DiskInv, FlushFails
  PROVE  Device!Damage(cached) /\ cached \in Block
<1>1. PICK left \in Sectors : flash' = [flash EXCEPT ![cached] = left]
  BY CutBlock DEF FlushFails, DiskInv
<1>2. UNCHANGED disk /\ valid /\ dirty
  BY DEF FlushFails, NeedsFlush
<1>3. cached \in Block /\ flash \in [Block -> Sectors]
  BY DEF DiskInv, TypeOK
<1>4. View' = View
  BY <1>1, <1>2, <1>3 DEF View, Hit, disk
<1>5. Unsaved = {cached} /\ Unsaved' = {cached}
  BY <1>2 DEF Unsaved, NeedsFlush, disk
<1> QED BY <1>1, <1>3, <1>4, <1>5 DEF Device!Damage, Sectors

\* Loading another block over a clean one is invisible.
LEMMA LoadInvisible ==
  ASSUME DiskInv, request # Idle, LoadReady
  PROVE  /\ Loaded = View[request.block]
         /\ \A b \in Block : b # request.block => flash[b] = View[b]
         /\ Unsaved \subseteq {request.block}
<1>1. TypeOK /\ (dirty => valid) /\ CacheHoldsBlock /\ request.block \in Block
  BY LoadedType DEF DiskInv
<1> QED
  BY <1>1 DEF Loaded, LoadReady, View, Hit, Unsaved, NeedsFlush, CacheHoldsBlock

\* ota_spi_disk.c implements the block device.
THEOREM DeviceRefinement ==
  ASSUME "read" \notin Faults
  PROVE  Spec => ImplementsDevice
<1>1. Init => Device!Init
  <2> SUFFICES ASSUME Init PROVE Device!Init
    OBVIOUS
  <2>1. View = flash /\ Unsaved = {}
    BY DEF Init, View, Hit, Unsaved, NeedsFlush
  <2>2. flash \in [Block -> [Offset -> Content]]
    BY DEF Init, Content
  <2> QED BY <2>1, <2>2 DEF Device!Init, Device!Image
<1>2. DiskInv /\ DiskInv' /\ [Next]_vars => [Device!Next]_<<View, flash, Unsaved>>
  <2> SUFFICES ASSUME DiskInv, DiskInv', [Next]_vars
               PROVE  Device!Next \/ UNCHANGED <<View, flash, Unsaved>>
    OBVIOUS
  <2>t. TypeOK /\ TypeOK'
    BY DEF DiskInv
  <2>1. CASE Submit \/ UNCHANGED vars
    BY <2>1 DEF Submit, vars, disk, View, Hit, Unsaved, NeedsFlush
  <2>2. CASE FlushCache
    BY <2>2, FlushSaves DEF Device!Next
  <2>3. CASE FlushFails
    BY <2>3, FlushDamages DEF Device!Next
  <2>4. CASE UNCHANGED <<flash, disk>>
    BY <2>4 DEF disk, View, Hit, Unsaved, NeedsFlush
  <2>5. CASE LoadFails
    BY <2>5 DEF LoadFails, View, Hit, Unsaved, NeedsFlush
  <2>6. CASE ReadTurn
    <3>1. /\ cache' = Loaded /\ cached' = request.block /\ valid' = TRUE
          /\ dirty' = NeedsFlush /\ flash' = flash /\ request # Idle /\ LoadReady
      BY <2>6 DEF ReadTurn
    <3>2. \A b \in Block : View'[b] = View[b]
      BY <3>1, LoadInvisible DEF View, Hit
    <3>3. View' = View
      BY <3>2 DEF View
    <3>4. Unsaved' = Unsaved
      BY <3>1, LoadInvisible DEF Unsaved, NeedsFlush
    <3> QED BY <3>1, <3>3, <3>4
  <2>7. CASE WriteTurn
    <3>1. /\ cached' = request.block /\ valid' = TRUE /\ flash' = flash
          /\ dirty' = (NeedsFlush \/ cache' # Loaded) /\ request # Idle /\ LoadReady
      BY <2>7 DEF WriteTurn
    <3>2. request.block \in Block /\ cache' \in [Offset -> Content]
      BY <2>7, <2>t, <3>1, LoadedType, WriteTurnCache DEF Sectors
    <3>3. View' = [View EXCEPT ![request.block] = cache']
      BY <3>1, <3>2, LoadInvisible DEF View, Hit
    <3>4. Unsaved \subseteq {request.block} /\ Unsaved' \in {Unsaved, {request.block}}
      BY <3>1, LoadInvisible DEF Unsaved, NeedsFlush
    <3>5. View' # View => Unsaved' = {request.block}
      <4>1. View' # View => cache' # Loaded
        BY <3>1, <3>2, <3>3, LoadInvisible DEF View
      <4> QED BY <4>1, <3>1 DEF Unsaved, NeedsFlush
    <3>6. Device!Write(request.block)
      BY <3>1, <3>2, <3>3, <3>4, <3>5 DEF Device!Write
    <3> QED BY <3>2, <3>6 DEF Device!Next
  <2>8. CASE PowerLoss
    <3>1. View' = flash' /\ Unsaved' = {}
      BY <2>8, <2>t DEF PowerLoss, View, Hit, Unsaved, NeedsFlush, TypeOK
    <3>2. flash' \in [Block -> [Offset -> Content]]
      BY <2>t DEF TypeOK, Sectors
    <3>3. \A b \in Block \ Unsaved : flash'[b] = flash[b]
      <4>1. CASE UNCHANGED flash
        BY <4>1
      <4>2. CASE NeedsFlush /\ FlushCut
        <5>1. PICK left \in Sectors : flash' = [flash EXCEPT ![cached] = left]
          BY <4>2, <2>t, CutBlock
        <5> QED BY <4>2, <5>1, <2>t DEF Unsaved, TypeOK
      <4> QED BY <2>8, <4>1, <4>2 DEF PowerLoss
    <3>4. Device!PowerLoss
      BY <3>1, <3>2, <3>3 DEF Device!PowerLoss, Device!Image
    <3> QED BY <3>4 DEF Device!Next
  <2> QED
    BY <2>1, <2>2, <2>3, <2>4, <2>5, <2>6, <2>7, <2>8
       DEF Next, WriteBack, SyncSucceeds, SyncFails, Flush
<1>3. Spec => []DiskInv
  BY DiskInvariant
<1> QED
  BY <1>1, <1>2, <1>3, PTL DEF Spec, ImplementsDevice, Device!Spec
-----------------------------------------------------------------------------
(***************************************************************************)
(* What follows for the users of the volume.                               *)
(***************************************************************************)

\* ota_spi_disk.c: a power loss, at any moment, sets back the one block that was
\* waiting to be saved, and no other: what FatFs has synchronized stays.
THEOREM LossIsOneBlock ==
  ASSUME "read" \notin Faults
  PROVE  Spec => [][PowerLoss => \A b \in Block \ Unsaved : View'[b] = View[b]]_vars
<1>1. DiskInv /\ [Next]_vars =>
        [PowerLoss => \A b \in Block \ Unsaved : View'[b] = View[b]]_vars
  <2> SUFFICES ASSUME DiskInv, PowerLoss, NEW b \in Block, b \notin Unsaved
               PROVE  View'[b] = View[b]
    OBVIOUS
  <2>1. TypeOK /\ (dirty => valid) /\ CacheHoldsBlock
    BY DEF DiskInv
  <2>2. View[b] = flash[b]
    BY <2>1 DEF View, Hit, Unsaved, NeedsFlush, CacheHoldsBlock
  <2>3. View'[b] = flash'[b]
    BY DEF PowerLoss, View, Hit
  <2>4. flash'[b] = flash[b]
    <3>1. CASE UNCHANGED flash
      BY <3>1
    <3>2. CASE NeedsFlush /\ FlushCut
      BY <3>2, <2>1, FlushConfined
    <3> QED BY <3>1, <3>2 DEF PowerLoss
  <2> QED BY <2>2, <2>3, <2>4
<1> QED BY <1>1, DiskInvariant, PTL DEF Spec

\* A block waits in the cache only while the cache is valid, whatever fails.
LEMMA DirtyIsValid == Spec => [](TypeOK /\ (dirty => valid))
<1>1. Init => TypeOK /\ (dirty => valid)
  BY InitType DEF Init
<1>2. TypeOK /\ (dirty => valid) /\ [Next]_vars => TypeOK' /\ (dirty => valid)'
  <2> SUFFICES ASSUME TypeOK, dirty => valid, [Next]_vars PROVE (dirty => valid)'
    BY NextType
  <2> QED
    BY DEF Next, Submit, WriteBack, FlushCache, FlushFails, LoadFails, ReadTurn, WriteTurn,
           SyncSucceeds, SyncFails, Flush, PowerLoss, NeedsFlush, disk, vars
<1> QED BY <1>1, <1>2, PTL DEF Spec

\* load_cache: only a read that fails halfway leaves a clean cache that differs
\* from its block, and its request reports an error.  No other failure does.
THEOREM OnlyReadsSpoilCache ==
  Spec => [][CacheHoldsBlock /\ ~CacheHoldsBlock' =>
               LoadFails /\ status' = "error"]_vars
<1>1. TypeOK /\ (dirty => valid) /\ [Next]_vars =>
        [CacheHoldsBlock /\ ~CacheHoldsBlock' => LoadFails /\ status' = "error"]_vars
  <2> SUFFICES ASSUME TypeOK, dirty => valid, Next, CacheHoldsBlock, ~LoadFails
               PROVE  CacheHoldsBlock'
    BY DEF LoadFails, Fail
  <2>1. CASE UNCHANGED <<flash, disk>>
    BY <2>1 DEF CacheHoldsBlock, disk
  <2>2. CASE FlushCache
    <3>1. flash'[cached] = cache /\ UNCHANGED <<cache, cached>>
      BY <2>2 DEF FlushCache, TypeOK
    <3> QED BY <3>1 DEF CacheHoldsBlock
  <2>3. CASE FlushFails
    BY <2>3 DEF FlushFails, NeedsFlush, disk, CacheHoldsBlock
  <2>4. CASE ReadTurn
    BY <2>4 DEF ReadTurn, LoadReady, Loaded, CacheHoldsBlock, NeedsFlush, Hit
  <2>5. CASE WriteTurn
    <3>1. ~dirty' => ~NeedsFlush /\ cache' = Loaded
      BY <2>5 DEF WriteTurn
    <3> QED BY <2>5, <3>1 DEF WriteTurn, LoadReady, Loaded, CacheHoldsBlock, NeedsFlush, Hit
  <2>6. CASE PowerLoss
    BY <2>6 DEF PowerLoss, CacheHoldsBlock
  <2> QED
    BY <2>1, <2>2, <2>3, <2>4, <2>5, <2>6
       DEF Next, Submit, WriteBack, SyncSucceeds, SyncFails, Flush
<1> QED BY <1>1, DirtyIsValid, PTL DEF Spec

\* A bound on the turns and write-backs that are left of a request.
RequestSteps ==
  IF request = Idle THEN 0
  ELSE 2 * (request.end - request.block) + (IF LoadReady THEN 1 ELSE 2)

LEMMA RequestBounded == TypeOK => RequestSteps \in 0..(2 * BlockCount)
<1> SUFFICES ASSUME TypeOK PROVE RequestSteps \in 0..(2 * BlockCount)
  OBVIOUS
<1>1. BlockCount \in Nat /\ BlockCount >= 1
  BY DiskAssumption
<1>2. CASE request = Idle
  BY <1>1, <1>2 DEF RequestSteps
<1>3. CASE request # Idle
  <2>1. /\ request.block \in 0..(BlockCount - 1) /\ request.end \in 0..(BlockCount - 1)
        /\ request.block <= request.end
    BY <1>3 DEF TypeOK, Transfer, Block
  <2> QED BY <1>1, <1>3, <2>1 DEF RequestSteps
<1> QED BY <1>2, <1>3

\* ota_spi_disk_read, ota_spi_disk_write: a request for any range ends after a
\* bounded number of turns, each with at most one write-back: whatever fails,
\* the main loop does not hang in the volume.
THEOREM RequestProgress ==
  Spec => /\ [](RequestSteps \in 0..(2 * BlockCount))
          /\ [][request # Idle => RequestSteps' < RequestSteps]_vars
<1>1. TypeOK /\ TypeOK' /\ [Next]_vars =>
        [request # Idle => RequestSteps' < RequestSteps]_vars
  <2> SUFFICES ASSUME TypeOK, TypeOK', Next, request # Idle
               PROVE  RequestSteps' < RequestSteps
    OBVIOUS
  <2>1. /\ request.block \in Nat /\ request.end \in Nat
        /\ request.block < request.end \/ request.block = request.end
    BY DiskAssumption DEF TypeOK, Transfer, Block
  <2>2. /\ RequestSteps = 2 * (request.end - request.block) + (IF LoadReady THEN 1 ELSE 2)
        /\ RequestSteps >= 1
    BY <2>1 DEF RequestSteps
  <2>3. CASE request' = Idle
    BY <2>1, <2>2, <2>3 DEF RequestSteps
  <2>4. CASE FlushCache /\ request' = request /\ ~Hit(request.block)
    <3>1. ~LoadReady /\ LoadReady'
      BY <2>4 DEF LoadReady, FlushCache, NeedsFlush, Hit
    <3> QED BY <2>1, <2>2, <2>4, <3>1 DEF RequestSteps
  <2>5. CASE NextTurn /\ LoadReady /\ request' # Idle
    <3>1. /\ request.block < request.end
          /\ request' = [request EXCEPT !.block = @ + 1, !.first = 0]
      BY <2>5 DEF NextTurn
    <3>2. request'.block = request.block + 1 /\ request'.end = request.end
      BY <3>1 DEF TypeOK, Transfer
    <3>3. RequestSteps' = 2 * (request.end - (request.block + 1))
                            + (IF LoadReady' THEN 1 ELSE 2)
      BY <2>5, <3>2 DEF RequestSteps
    <3> HIDE DEF RequestSteps
    <3> QED BY <2>1, <2>2, <2>5, <3>1, <3>3
  <2> QED
    BY <2>3, <2>4, <2>5
       DEF Next, Submit, WriteBack, FlushFails, Fail, LoadFails, ReadTurn, WriteTurn,
           SyncSucceeds, SyncFails, PowerLoss
<1> QED BY <1>1, TypeCorrect, RequestBounded, PTL DEF Spec
=============================================================================
