----------------------------- MODULE OtaSpiDisk -----------------------------
(***************************************************************************)
(* The update volume (components/ota/src/ota_spi_disk.c): a block device   *)
(* of 512-byte sectors on SPI NOR flash, with a write-back cache of one    *)
(* erase block.  FatFs (disk_read, disk_write, disk_ioctl) and the mass    *)
(* storage callbacks of ota_usb_msc.c call it from the main loop.          *)
(*                                                                         *)
(* A request runs over the blocks of a sector range, one block a turn of   *)
(* the loops of ota_spi_disk_read and ota_spi_disk_write.  A turn is       *)
(* load_cache's write-back, where it needs one (WriteBack), and then its   *)
(* read and the copy (ReadTurn, WriteTurn).  The flash operations in Faults*)
(* may report an error halfway.                                            *)
(***************************************************************************)
EXTENDS Naturals

CONSTANTS
  BlockCount,  \* erase blocks of the partition (size / cache_size)
  BlockSize,   \* sectors of a block (cache_size / OTA_DISK_SECTOR_SIZE)
  Value,       \* sector contents
  Torn,        \* a sector whose erase or program was cut short
  Faults       \* flash operations that may report an error

ASSUME DiskAssumption ==
  /\ BlockCount \in Nat \ {0}
  /\ BlockSize \in Nat \ {0}
  /\ Torn \notin Value
  /\ Faults \subseteq {"flush", "command", "read", "wait"}

VARIABLES
  flash,    \* the partition
  cache,    \* disk->cache
  cached,   \* disk->cached_block
  valid,    \* disk->cache_valid
  dirty,    \* disk->cache_dirty
  request,  \* what is left of the request being served
  status    \* what the last request returned

disk == <<cache, cached, valid, dirty>>
vars == <<flash, disk, request, status>>

Block == 0..(BlockCount - 1)
Offset == 0..(BlockSize - 1)
Content == Value \cup {Torn}
Sectors == [Offset -> Content]

\* A read or a write of the sectors from (block, first) to (end, last).
Idle == [op |-> "none"]
Transfer == {r \in [op : {"read", "write"}, block : Block, first : Offset,
                     end : Block, last : Offset] :
               \/ r.block < r.end
               \/ r.block = r.end /\ r.first <= r.last}

TypeOK ==
  /\ flash \in [Block -> Sectors]
  /\ cache \in Sectors
  /\ cached \in Block
  /\ valid \in BOOLEAN
  /\ dirty \in BOOLEAN
  /\ request \in Transfer \cup {Idle}
  /\ status \in {"ok", "error"}

\* ota_spi_disk_init over whatever the partition holds; the cache buffer is
\* zeroed RAM.
Init ==
  /\ flash \in [Block -> [Offset -> Value]]
  /\ cache = [o \in Offset |-> Torn]
  /\ cached = 0
  /\ valid = FALSE
  /\ dirty = FALSE
  /\ request = Idle
  /\ status = "ok"

-----------------------------------------------------------------------------
Hit(b) == valid /\ cached = b
NeedsFlush == valid /\ dirty

\* disk_read, disk_write and the mass storage callbacks: the range is valid.
Submit ==
  /\ request = Idle
  /\ request' \in Transfer
  /\ UNCHANGED <<flash, disk, status>>

Fail ==
  /\ request' = Idle
  /\ status' = "error"

\* The erase of the cached block stopped halfway, or the program after it.
FlushCut ==
  \E left \in Sectors :
    /\ \/ \A o \in Offset : left[o] \in {flash[cached][o], Torn}
       \/ \A o \in Offset : left[o] \in {cache[o], Torn}
    /\ flash' = [flash EXCEPT ![cached] = left]

\* flush_cache, error path: the block stays in the cache, dirty.
FlushFails ==
  /\ "flush" \in Faults
  /\ NeedsFlush
  /\ FlushCut
  /\ Fail
  /\ UNCHANGED disk

\* flush_cache: erase and program.
FlushForgets ==   \* mutant: the flag is cleared, the flash is not written
  /\ NeedsFlush
  /\ dirty' = FALSE
  /\ UNCHANGED <<flash, cache, cached, valid>>

FlushCache ==
  /\ NeedsFlush
  /\ flash' = [flash EXCEPT ![cached] = cache]
  /\ dirty' = FALSE
  /\ UNCHANGED <<cache, cached, valid>>

Flush ==
  \/ FlushCache
  \/ ~NeedsFlush /\ UNCHANGED <<flash, disk>>

\* load_cache writes the cached block back before it loads another.
LoadReadyAlways == TRUE   \* mutant: the dirty block is dropped
LoadReady == Hit(request.block) \/ ~NeedsFlush

WriteBack ==
  /\ request # Idle
  /\ ~Hit(request.block)
  /\ \/ FlushCache /\ UNCHANGED <<request, status>>
     \/ FlushFails

\* What load_cache leaves in the cache when it returns CHIP_OK.
Loaded == IF Hit(request.block) THEN cache ELSE flash[request.block]

\* spi_flash_read stopped halfway through the buffer.  cached_block and
\* cache_valid keep naming the block that was there before.
LoadFails ==
  /\ request # Idle
  /\ ~Hit(request.block) /\ ~NeedsFlush
  /\ \/ "command" \in Faults /\ UNCHANGED cache
     \/ /\ "read" \in Faults
        /\ \E left \in Sectors :
             /\ \A o \in Offset : left[o] \in {cache[o], flash[request.block][o]}
             /\ cache' = left
  /\ Fail
  /\ UNCHANGED <<flash, cached, valid, dirty>>

\* The sectors of the cached block that this turn copies.
Chunk == {o \in Offset :
            /\ request.first <= o
            /\ request.block = request.end => o <= request.last}

\* On to the next block, or the request returns CHIP_OK.
TurnForever ==   \* mutant: the loop runs once too often
  \/ /\ request.block <= request.end
     /\ request' = [request EXCEPT !.block = @ + 1, !.first = 0]
     /\ UNCHANGED status
  \/ /\ request.block > request.end
     /\ request' = Idle
     /\ status' = "ok"

NextTurn ==
  \/ /\ request.block < request.end
     /\ request' = [request EXCEPT !.block = @ + 1, !.first = 0]
     /\ UNCHANGED status
  \/ /\ request.block = request.end
     /\ request' = Idle
     /\ status' = "ok"

\* ota_spi_disk_read, one turn.
ReadTurn ==
  /\ request # Idle /\ request.op = "read"
  /\ LoadReady
  /\ cache' = Loaded
  /\ cached' = request.block
  /\ valid' = TRUE
  /\ dirty' = NeedsFlush
  /\ NextTurn
  /\ UNCHANGED flash

\* ota_spi_disk_write, one turn: the block becomes dirty only if it changes.
WriteTurn ==
  /\ request # Idle /\ request.op = "write"
  /\ LoadReady
  /\ \E data \in [Chunk -> Value] :
       cache' = [o \in Offset |-> IF o \in Chunk THEN data[o] ELSE Loaded[o]]
  /\ cached' = request.block
  /\ valid' = TRUE
  /\ dirty' = (NeedsFlush \/ cache' # Loaded)
  /\ NextTurn
  /\ UNCHANGED flash

\* ota_spi_disk_sync: CTRL_SYNC, SYNCHRONIZE CACHE, eject, the main loop.
SyncSucceeds ==
  /\ request = Idle
  /\ Flush
  /\ status' = "ok"
  /\ UNCHANGED request

SyncFails ==
  /\ request = Idle
  /\ \/ FlushFails
     \/ /\ "wait" \in Faults   \* spi_flash_wait_ready after the flush
        /\ Flush
        /\ Fail

\* Power fails, perhaps while the dirty block is written back, or the program
\* resets; ota_spi_disk_init starts over.
PowerLoss ==
  /\ \/ UNCHANGED flash
     \/ /\ NeedsFlush
        /\ request # Idle => ~Hit(request.block)
        /\ FlushCut
  /\ cache' = [o \in Offset |-> Torn]
  /\ cached' = 0
  /\ valid' = FALSE
  /\ dirty' = FALSE
  /\ request' = Idle
  /\ status' = "ok"

Next ==
  \/ Submit \/ WriteBack \/ LoadFails \/ ReadTurn \/ WriteTurn
  \/ SyncSucceeds \/ SyncFails \/ PowerLoss

Spec == Init /\ [][Next]_vars

-----------------------------------------------------------------------------
(***************************************************************************)
(* Properties.                                                             *)
(***************************************************************************)

\* What a read of block b returns.
View == [b \in Block |-> IF Hit(b) THEN cache ELSE flash[b]]

\* The block that only the cache holds.
Unsaved == IF NeedsFlush THEN {cached} ELSE {}

\* The cache and the flash together implement a block device whose contents
\* change only by writes and that a power loss sets back by one block.  Holds
\* while spi_flash_read reports no errors; an erase or a program that fails
\* costs nothing as long as there is power.
Device == INSTANCE BlockDevice WITH
  Value <- Content,
  contents <- View,
  stable <- flash,
  unsaved <- Unsaved
ImplementsDevice == Device!Spec

\* A sync that returns CHIP_OK leaves everything written before it in the
\* flash: the check of the main loop and the bootloader see the host's files.
SyncIsDurable == [][SyncSucceeds => flash' = View]_vars

\* Whatever the flash reports, reading and syncing put no block at risk: the
\* flash changes only in the block that is waiting to be saved, and a block
\* begins to wait only when a write request changes it.
OnlyWrittenBlocksChange ==
  [][/\ \A b \in Block : flash'[b] # flash[b] => b \in Unsaved
     /\ Unsaved' \subseteq Unsaved \cup
          {b \in Block : WriteTurn /\ b = request.block}]_vars

\* ota_spi_disk.h: "cache_valid: Cached block contains data".  A cache that is
\* valid and clean holds the block that cached_block names.
CacheHoldsBlock == valid /\ ~dirty => cache = flash[cached]

\* With it, the inductive invariant (OtaSpiDisk_proofs).
DiskInv ==
  /\ TypeOK
  /\ dirty => valid
  /\ CacheHoldsBlock
=============================================================================
