----------------------------- MODULE OtaWebusb ------------------------------
(***************************************************************************)
(* The WebUSB receive session (components/ota/src/ota_webusb.c) over the   *)
(* staging area (components/ota/src/ota_staging.c): requests BEGIN, DATA,  *)
(* END and ABORT, the scheduled reboot, and the two flash ranges they work *)
(* on, the metadata sector and the image sectors.                          *)
(*                                                                         *)
(* A request is handled to its end before the next (ota_webusb_task runs in*)
(* the main loop), so a handler is one action.  A flash operation inside it*)
(* may be cut short: its effect is then partial (EraseCut, ...), and either*)
(* the driver reports the error and the handler takes its error path       *)
(* (possible for the operations in Faults), or power failed (PowerLoss).   *)
(***************************************************************************)
EXTENDS Integers, FiniteSets

CONSTANTS
  Image,       \* the valid packages
  Size,        \* their length, in units of the smallest payload
  Capacity,    \* length of the image range (config.image_capacity)
  EraseSize,   \* length of a sector (config.erase_size)
  HeaderSize,  \* OTA_IMAGE_HEADER_SIZE
  MaxPayload,  \* OTA_WEBUSB_DATA_SIZE
  Erased,      \* content of an erased unit
  Junk,        \* any content that is not the unit of a valid package
  None,        \* no package
  Corrupt,     \* a package that validation rejects
  Faults       \* operations that may report an error

\* ota_staging_init rejects a configuration with other sizes.
ASSUME WebusbAssumption ==
  /\ {Erased, Junk, None, Corrupt} \cap Image = {}
  /\ Erased # Junk
  /\ None # Corrupt
  /\ {EraseSize, HeaderSize, MaxPayload} \subseteq Nat \ {0}
  /\ Capacity \in Nat
  /\ \E sectors \in 1..Capacity : Capacity = sectors * EraseSize
  /\ MaxPayload <= EraseSize
  /\ HeaderSize <= Capacity
  /\ Size \in [Image -> HeaderSize..Capacity]
  /\ Faults \subseteq {"clear", "erase", "program", "commit", "read"}

VARIABLES
  meta,           \* metadata sector: Blank, Torn, or a committed package size
  cells,          \* image range, by unit
  receiving,      \* context.receiving
  rebootPending,  \* context.reboot_pending
  total,          \* context.total_size
  received,       \* context.received_size
  erased,         \* context.erased_size
  sent,           \* history: what DATA requests of this session delivered
  clearFailed     \* history: a BEGIN failed since the session began

flash == <<meta, cells>>
session == <<receiving, rebootPending, total, received, erased, sent, clearFailed>>
vars == <<flash, session>>

Blank == 0    \* the metadata sector is erased
Torn == -1    \* magic or CRC of the metadata do not match
Committed == meta \notin {Blank, Torn}

Unit == 0..(Capacity - 1)
Units(first, end) == {i \in Unit : first <= i /\ i < end}
Content == Image \cup {Erased, Junk}

TypeOK ==
  /\ meta \in {Blank, Torn} \cup HeaderSize..Capacity
  /\ cells \in [Unit -> Content]
  /\ receiving \in BOOLEAN
  /\ rebootPending \in BOOLEAN
  /\ total \in 0..Capacity
  /\ received \in 0..Capacity
  /\ erased \in 0..Capacity
  /\ sent \in [Unit -> Image \cup {Junk}]
  /\ clearFailed \in BOOLEAN

\* A device that leaves the factory: chip-erased flash, main just started.
Init ==
  /\ meta = Blank
  /\ cells = [i \in Unit |-> Erased]
  /\ receiving = FALSE
  /\ rebootPending = FALSE
  /\ total = 0
  /\ received = 0
  /\ erased = 0
  /\ sent = [i \in Unit |-> Junk]
  /\ clearFailed = FALSE

-----------------------------------------------------------------------------
(***************************************************************************)
(* The flash.  Programming clears bits: only an erased unit takes a value. *)
(***************************************************************************)
Programmed(old, value) == IF old \in {Erased, value} THEN value ELSE Junk

\* spi_flash_erase_sector(metadata), complete or cut short.
ClearMeta == meta' = Blank
ClearMetaCut == meta' \in {meta, Torn, Blank}

\* Where write_data's loop leaves erased_size before it programs up to end.  One
\* turn is enough: received_size <= erased_size, and a payload fits a sector.
EraseLate(end) == IF erased + 1 < end THEN erased + EraseSize ELSE erased   \* mutant
EraseEnd(end) == IF erased < end THEN erased + EraseSize ELSE erased

\* The image range once the loop is done.
Fresh(end) ==
  [i \in Unit |-> IF i \in Units(erased, EraseEnd(end)) THEN Erased ELSE cells[i]]

(***************************************************************************)
(* ota_staging_validate_package on a package of n units: the header's size *)
(* is n and every unit matches the CRCs.                                   *)
(***************************************************************************)
Stored(v, n) == Size[v] = n /\ \A i \in Units(0, n) : cells[i] = v
ValidatePackage(n) == \E v \in Image : Stored(v, n)

\* What ota_staging_validate_committed finds.
CommittedPackage ==
  CASE meta = Blank -> None
    [] Committed /\ ValidatePackage(meta) ->
         CHOOSE v \in Image : Stored(v, meta)
    [] OTHER -> Corrupt

-----------------------------------------------------------------------------
(***************************************************************************)
(* begin_update                                                            *)
(***************************************************************************)
BeginUncleared(size) ==   \* mutant: the metadata of an older package stays
  /\ total' = size
  /\ received' = 0
  /\ erased' = 0
  /\ receiving' = TRUE
  /\ rebootPending' = FALSE
  /\ sent' = [i \in Unit |-> Junk]
  /\ clearFailed' = FALSE
  /\ UNCHANGED flash

BeginKeepsReboot(size) ==   \* mutant: reboot_pending is not cleared
  /\ ClearMeta
  /\ total' = size
  /\ received' = 0
  /\ erased' = 0
  /\ receiving' = TRUE
  /\ sent' = [i \in Unit |-> Junk]
  /\ clearFailed' = FALSE
  /\ UNCHANGED <<cells, rebootPending>>

BeginUpdate(size) ==
  /\ ClearMeta
  /\ total' = size
  /\ received' = 0
  /\ erased' = 0
  /\ receiving' = TRUE
  /\ rebootPending' = FALSE
  /\ sent' = [i \in Unit |-> Junk]
  /\ clearFailed' = FALSE
  /\ UNCHANGED cells

\* Mutant: the sizes are set before the metadata are cleared.
BeginFailsLate ==
  /\ "clear" \in Faults
  /\ ClearMetaCut
  /\ clearFailed' = TRUE
  /\ total' \in HeaderSize..Capacity /\ received' = 0 /\ erased' = 0
  /\ UNCHANGED <<cells, receiving, rebootPending, sent>>

\* The session in progress, or the scheduled reboot, survives the failure.
BeginFails ==
  /\ "clear" \in Faults
  /\ ClearMetaCut
  /\ clearFailed' = TRUE
  /\ UNCHANGED <<cells, receiving, rebootPending, total, received, erased, sent>>

Begin == BeginFails \/ \E size \in HeaderSize..Capacity : BeginUpdate(size)

(***************************************************************************)
(* write_data: payload v (units of package v, or Junk) for n units at      *)
(* received_size; any other offset is refused.                             *)
(***************************************************************************)
UnboundedData(n) == receiving   \* mutant: end_offset is not compared to total_size
DataAccepted(n) == receiving /\ received + n <= total

WriteData(n, v) ==
  LET end == received + n
      payload == Units(received, end)
  IN
  /\ DataAccepted(n)
  /\ cells' = [i \in Unit |-> IF i \in payload THEN Programmed(Fresh(end)[i], v)
                                              ELSE Fresh(end)[i]]
  /\ erased' = EraseEnd(end)
  /\ received' = end
  /\ sent' = [i \in Unit |-> IF i \in payload THEN v ELSE sent[i]]
  /\ UNCHANGED <<meta, receiving, rebootPending, total, clearFailed>>

\* The sector erase is cut short: any unit of the sector may have changed.
EraseCut(n) ==
  LET sector == Units(erased, erased + EraseSize) IN
  /\ DataAccepted(n)
  /\ erased < received + n
  /\ \E left \in [sector -> {Erased, Junk}], S \in SUBSET sector :
       cells' = [i \in Unit |-> IF i \in S THEN left[i] ELSE cells[i]]

\* The program operation is cut short in the payload's units.
ProgramCut(n, v) ==
  LET end == received + n
      payload == Units(received, end)
  IN
  /\ DataAccepted(n)
  /\ \E left \in [payload -> {Erased, Junk, v}] :
       cells' = [i \in Unit |-> IF i \in payload THEN left[i] ELSE Fresh(end)[i]]

DataFails(n, v) ==
  /\ \/ "erase" \in Faults /\ EraseCut(n) /\ UNCHANGED erased
     \/ "program" \in Faults /\ ProgramCut(n, v) /\ erased' = EraseEnd(received + n)
  /\ receiving' = FALSE
  /\ UNCHANGED <<meta, rebootPending, total, received, sent, clearFailed>>

Data == \E n \in 1..MaxPayload, v \in Image \cup {Junk} :
  DataFails(n, v) \/ WriteData(n, v)

(***************************************************************************)
(* finish_update                                                           *)
(***************************************************************************)
EndAccepted == receiving /\ received = total

\* ota_staging_commit programs the metadata; it does not read it back.
Commit == meta' = IF meta = Blank THEN total ELSE Torn
CommitCut == meta' \in {meta, Torn} \cup {IF meta = Blank THEN total ELSE Torn}

CommitUnvalidated ==   \* mutant: the package is not validated
  /\ EndAccepted
  /\ Commit
  /\ receiving' = FALSE
  /\ rebootPending' = TRUE
  /\ UNCHANGED <<cells, total, received, erased, sent, clearFailed>>

FinishUpdate ==
  /\ EndAccepted
  /\ ValidatePackage(total)
  /\ Commit
  /\ receiving' = FALSE
  /\ rebootPending' = TRUE
  /\ UNCHANGED <<cells, total, received, erased, sent, clearFailed>>

\* The package is rejected, cannot be read, or the commit fails.
EndFails ==
  /\ EndAccepted
  /\ \/ /\ ~ValidatePackage(total) \/ "read" \in Faults
        /\ UNCHANGED meta
     \/ /\ ValidatePackage(total)
        /\ "commit" \in Faults
        /\ CommitCut
  /\ receiving' = FALSE
  /\ UNCHANGED <<cells, rebootPending, total, received, erased, sent, clearFailed>>

End == EndFails \/ FinishUpdate

(***************************************************************************)
(* abort_update drops the session first, then clears the metadata.         *)
(***************************************************************************)
Abort ==
  /\ \/ ClearMeta
     \/ "clear" \in Faults /\ ClearMetaCut
  /\ receiving' = FALSE
  /\ total' = 0
  /\ received' = 0
  /\ rebootPending' = FALSE
  /\ UNCHANGED <<cells, erased, sent, clearFailed>>

-----------------------------------------------------------------------------
\* ota_webusb_init: the session lives in RAM.
ForgetSession ==
  /\ receiving' = FALSE
  /\ rebootPending' = FALSE
  /\ total' = 0
  /\ received' = 0
  /\ erased' = 0
  /\ sent' = [i \in Unit |-> Junk]
  /\ clearFailed' = FALSE

\* ota_webusb_should_reboot, or a reset for another reason, and a boot that
\* may have installed or cleared the package (OtaInstall).
Reboot ==
  /\ ForgetSession
  /\ ClearMeta \/ UNCHANGED meta
  /\ UNCHANGED cells

\* Power fails in a handler, or the bootloader's clear is cut short.
PowerLoss ==
  /\ ForgetSession
  /\ \/ ClearMetaCut /\ UNCHANGED cells
     \/ EndAccepted /\ ValidatePackage(total) /\ CommitCut /\ UNCHANGED cells
     \/ /\ \E n \in 1..MaxPayload, v \in Image \cup {Junk} :
             EraseCut(n) \/ ProgramCut(n, v)
        /\ UNCHANGED meta

Next == Begin \/ Data \/ End \/ Abort \/ Reboot \/ PowerLoss

Spec == Init /\ [][Next]_vars

-----------------------------------------------------------------------------
(***************************************************************************)
(* Properties.                                                             *)
(***************************************************************************)

\* Committed metadata always describe a complete valid package in the image
\* range, through failing operations, power losses and any order of requests:
\* the bootloader never meets a package that was valid at END only.
CommittedIsInstallable == Committed => ValidatePackage(meta)

\* While a session overwrites the image range nothing is committed and no
\* reboot is scheduled, so neither a power loss nor the main loop can hand a
\* half-written package to the bootloader.
ReceivingHidesSlot == receiving => ~Committed /\ ~rebootPending

\* What the host sent in this session is what the flash holds, although the
\* sectors are erased while the data arrives and payloads straddle them.
SentIsStored == receiving => \A i \in Units(0, received) : cells[i] = sent[i]

\* A scheduled reboot (END answered OK) finds the package of this session.  A
\* BEGIN that fails leaves the reboot scheduled, or the older session open, and
\* may spoil the metadata: then the bootloader finds nothing to install, but the
\* image is still complete, and the metadata never name another one.
RebootHasPackage ==
  rebootPending => /\ ValidatePackage(total)
                   /\ meta = total \/ (clearFailed /\ ~Committed)

\* The session and the two flash ranges implement the staging slot that the
\* bootloader is specified against.
Slot == INSTANCE StagingSlot WITH slot <- CommittedPackage
ImplementsSlot == Slot!Spec

-----------------------------------------------------------------------------
(***************************************************************************)
(* The inductive invariant behind these (OtaWebusb_proofs).                *)
(***************************************************************************)

\* erased_size is a whole number of sectors, ahead of received_size.
SessionBounds ==
  /\ \E sectors \in 0..Capacity : erased = sectors * EraseSize
  /\ receiving => received <= total /\ received <= erased

\* Between the two, the range is erased: the next payload can be programmed.
FreshAhead == receiving => \A i \in Units(received, erased) : cells[i] = Erased

SessionInv ==
  /\ TypeOK
  /\ SessionBounds
  /\ FreshAhead
  /\ SentIsStored
  /\ ReceivingHidesSlot
  /\ CommittedIsInstallable

\* Without a failed BEGIN, END programs a blank metadata sector.
RebootInv ==
  /\ SessionInv
  /\ receiving /\ ~clearFailed => meta = Blank
  /\ RebootHasPackage
=============================================================================
