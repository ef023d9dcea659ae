# Verification of the mosaic-mcu keyboard firmware

TLA+ models of the mosaic-mcu keyboard: the over-the-air update, from the byte
stream of the browser tool to the jump into the new application, the volume and
the configuration file beside it, the SPI flash driver under them, the USB
device driver, and the path from a key to the host. They say what must survive
power loss, failing flash, lost packets and a host that does things in any
order. TLC checks the models on small instances; the safety properties are
proved with TLAPS for every value of the constants, with the exceptions that
section 5 names. Paths below are relative to `src/`.

## 1. The system

The keyboard has two programs. The *bootloader* runs at every reset, installs a
package if it finds one, and starts the application or stays in USB recovery
mode. The *application* is the keyboard, and receives packages over USB. Both
run one endless main loop; TinyUSB callbacks run inside it (`tud_task`), so
apart from the USB and SysTick interrupt handlers nothing is concurrent; the USB
handler works on the same endpoints as the calls of the task. What
makes the update hard is what happens *between* the steps: power loss, resets,
flash operations that fail or stop halfway, two independent ways to bring a
package in, two deadlines, and one cache in front of the volume.

| component | source | state | operations |
|---|---|---|---|
| bootloader | `apps/keyboard/bootloader/main.c` | install marker (data flash), application partition; local `interrupted` | boot, validate slot and file, install, recovery |
| staging area | `components/ota/src/ota_staging.c` | metadata sector, image range (SPI flash) | clear, commit, validate |
| package validation | `components/ota/src/ota_image.c` | none | header and CRC checks |
| WebUSB session | `components/ota/src/ota_webusb.c` | `receiving`, `reboot_pending`, sizes, the parser's buffers | BEGIN, DATA, END, ABORT, STATUS, GET/SET_CONFIG, reboot |
| update volume | `components/ota/src/ota_spi_disk.c` | one write-back cache block | read, write, sync |
| mass storage | `components/ota/src/ota_usb_msc.c` | write generation, last write, `ejected` | write, eject, should_check, resume |
| main loop | `apps/keyboard/application/main.c` | active and pending configuration, its deadline | the phases of the loop, resets |
| configuration file | `apps/keyboard/application/ota_system_config.c` | SYSTEM.JSON | load, create, replace |
| SPI flash driver | `components/spi_flash/src/spi_flash.c` | initialized or not; the chip has the content, BUSY and the write enable latch | init, deinit, read, program, erase, wait with timeouts |
| keyboard | `apps/keyboard/core`, `board/keyboard_matrix.c`, `application/keyboard_*.c` | debounce counters, report, pending report | scan, poll, send |
| USB device driver | `chips/wch/ch585/port/src/chip_usb_device.c`, `components/tinyusb` | endpoints with their transfers, response and toggle registers, pending address | open, submit, stall, clear, set address, connect, interrupt handler |
| browser tool | `apps/keyboard/web/app.js` | connection, file, offset | connect, upgrade, save the configuration |
| others | log, BLE, peripherals, Lua, FreeRTOS, demos | | see section 6 |

Interactions. The main loop calls TinyUSB, whose callbacks write the volume
through the cache; `ota_webusb_task` reads requests and writes the staging
area. When the host's writes have been idle, or the disk is ejected, the loop
disconnects, synchronizes, reloads the configuration, validates FIRMWARE.OTA
and resets. After a committed WebUSB session it resets too, later. A SET_CONFIG
waits 100 ms in RAM before it is written to the same volume. The bootloader
shares nothing with the application but flash: the staging area, the volume and
the marker.

What makes each part correct:

* *bootloader*: no incomplete application is ever started; a package disappears
  only when it is installed; an update lands in the end; every boot ends where a
  host can act.
* *staging and session*: a package becomes visible only complete and valid, all
  at once, never while the area is being overwritten.
* *volume*: reads see the last writes; a power loss costs at most the block
  that was being written; a sync leaves nothing in RAM.
* *main loop*: a complete file leads to a reset; resets lose neither blocks nor
  accepted configurations; RAM and SYSTEM.JSON agree.
* *configuration file*: replaced whole or not at all.
* *parser and pages*: a page that reports success has its package committed,
  unless something of a page that was closed in an exchange is left.
* *SPI flash driver*: CHIP_OK means that the whole range was written and nothing
  else; every call returns.
* *USB driver*: every unit is delivered once, however many handshakes are lost;
  driver, registers and host agree after any reset.
* *keyboard*: the report the host last saw is, in the end, the keys that are
  down.

The hazards, with the line where each bites and the property that covers it,
are listed in `PROJECT.json`.

## 2. Modules

| module | models | relation |
|---|---|---|
| `StagingSlot` | what the staging area promises: no package, a valid one, or a corrupt one | abstract |
| `OtaInstall` | the bootloader, from reset to jump | uses `StagingSlot` for what the host does to the slot |
| `OtaWebusb` | receive session and staging area, in units of flash | implements `StagingSlot` |
| `WebusbLink` | the byte stream under the requests, the answers, and the pages of the browser tool | extends `OtaWebusb`, implements it |
| `BlockDevice` | what the volume promises | abstract |
| `OtaSpiDisk` | the block cache | implements `BlockDevice` |
| `NorCalls` | the calls of the SPI flash driver, their ranges, what programming does to a cell | shared by the next two |
| `NorFlash` | what the SPI flash driver promises | abstract, extends `NorCalls` |
| `SpiFlash` | the driver, one SPI transaction a step, and the chip | extends `NorCalls`, implements `NorFlash` |
| `SystemConfig` | the replacement of SYSTEM.JSON, call by call | |
| `AppUpdate` | main loop, mass storage callbacks, SET_CONFIG | extends `SystemConfig`; takes `OtaSpiDisk`, `OtaWebusb` and `OtaInstall` at their abstract level |
| `UsbDevice` | USB driver, interrupt handler and TinyUSB port, against controller, core and host | |
| `Keyboard` | matrix, engine, report and its delivery | takes `UsbDevice` as "an endpoint that is free, busy or closed" |
| `MC*` | constants of the TLC instances | extend the above |
| `*_proofs` | theorems | extend the above |

`StagingSlot` is the joint between the two programs: the session is shown to do
nothing else to the slot, and the bootloader lets the host do no more.
`WebusbLink` is a refinement in place: its steps that hand a request on are
those of `OtaWebusb`, so what is proved of the session holds under the byte
stream.

### OtaInstall

Persistent state: `marker`, `app` (by 512-byte block, each the block of a
package, erased or torn), `slot`, `file`. Everything else is RAM. `pc` names the
statement of `main`, `install_*_update` or `program_update` that comes next.
Each flash operation is a step: `MarkErase` and `MarkWrite` are the two halves
of `mark_install_in_progress`, `ProgramBlock` one turn of the loop of
`program_update`. The effect of an operation that does not complete is
`Partial`; a power loss and a reported error (`InstallFault`) share it.
`CheckFile` includes `mount_update_volume`, which formats a volume whose size it
cannot read. `Start` treats a torn first block as either: its first word may
look like a jump or not.

### OtaWebusb

A handler runs to its end in `ota_webusb_task`, so it is one action, with the
actions `BeginFails`, `DataFails`, `EndFails` for its error paths. Flash is
counted in units; programming only clears bits (`Programmed`), so a unit that
was not erased becomes junk. The CRCs are abstracted to "every unit belongs to
this package, and the size is its size". `sent` and `clearFailed` are history
variables for the properties.

### OtaSpiDisk

A request is a range of sectors, served one erase block a turn; a turn is
`load_cache`'s write-back, if it needs one, and then the read and the copy.
Write-back, read and the wait after a sync may fail; `FlushCut` and `LoadFails`
say what they leave behind.

### NorFlash and SpiFlash

`SpiFlash` has the chip (`mem`, `busy`, `wel`) and the driver. The chip ignores a
program or erase while it is busy or not write-enabled, wraps a program at the
end of its page, and may be busy for any time; nobody tells the driver what was
ignored. `pc` is the place in a call: `wait` the first `spi_flash_wait_ready`,
then `enable`, `command` and `poll` in a turn of the loop of
`spi_flash_program`, once for an erase. A transfer that times out leaves nothing
of its command, all of it, or a prefix of the bytes (`CommandFails`). `Reset` is
one of the processor only: the chip goes on, and `SpiFlashInit` waits for it
because a busy chip does not answer READ JEDEC ID, and `flash_detect_capacity`
refuses an ID of all ones. `NorFlash` is the same device without commands: a
call that returns CHIP_OK has written its range and nothing else; one that fails
has written a part of its range, and the chip may still be at work there
(`unsure`), during which a read returns anything, with CHIP_OK.

### SystemConfig

`write_config_file` in the calls of FatFs that change the volume: SYSTEM.TMP
written (`WriteTemp`, or `WriteTempShort` on a full volume), renamed
(`RenameTemp`), or the old document removed and the new one renamed again
(`RemoveOld`, `ReplaceOld`). Any call may report an error (`CallFails`). Its
callers are phases of `AppUpdate`, which adds power loss between the calls.

### AppUpdate

`pc` is the phase of the loop body: USB callbacks, WebUSB requests,
`apply_pending_web_config`, the reboot, the check; `save`, `create` and `first`
are the phases in which `write_config_file` runs. The files are reduced to
complete, partly written or missing; `dirty` says that blocks are not in the
flash. A reset with dirty blocks may lose or break the file they belong to.
Time is a coarse tick between loop bodies that lowers every countdown. Within a
body the clock reads are microseconds apart; the two deadlines compared
(`WebRebootKeepsConfig`) are set at least one sector erase apart, which is much
longer.

### WebusbLink

Bytes are counted in pieces: a request has `RequestSize` of them, then one for
each unit of payload. `wire` is the endpoint's receive FIFO, in order; `used`,
`dataUsed`, `expected` are the parser's counters; `packet` and `queued` are the
answer in the endpoint and the one behind it. `Task` is one turn of
`ota_webusb_task`, including the handler it calls. `ClosePage` may cut the
request anywhere and leave the answer unread; `torn` remembers that until a page
begins an exchange with nothing of it left (`Clean`). A frame put together from pieces of different requests is taken to have a bad magic, any
command and any size.

### UsbDevice

Endpoints are `<<number, direction>>` pairs. `open`, `active`, `left`, `queued`,
`pending` are the fields of `usb_device`; `resp`, `tog`, `addr`, `connected`
the registers; `event` and `busReset` the interrupt flags with what the
controller latched. `Interrupt` is one run of the handler. A call of the task is
two steps: its checks, with interrupts enabled, and its critical section
(`Call.masked`); the interrupt may fall between. The host sends a SETUP, reads
or writes with its own toggles, loses handshakes and repeats, gives a request
up, or resets the bus. TinyUSB's control transfers (`ctl`, `todo`, `setup`) and
class drivers are external.

Assumed of what is external: a stalled pipe is busy for `usbd`, and it clears
only halted pipes; a stale SETUP that is still queued behind a newer one is
skipped; the host gives a request up only when the device has done what it
could, and waits 10 ms after a reset.

### Keyboard

`since`, `stable`, `debounce` and `report` are `keyboard_engine_t`; `pending` is
`report_pending`. `TaskNotDue`, `TaskScans` and `TaskScanFails` are the three
ways through `keyboard_hid_task`. `Contact` moves a contact at any time, so keys
bounce. `flight` is the report in the endpoint; `Unplug` and `Tud` are resets
of the bus and what TinyUSB makes of them. `recent` keeps the latest samples
for the properties.

## 3. Runs

| run | instance | shows |
|---|---|---|
| `install` | 2 images of 2 and 3 blocks, 2 power losses, every device may fail | `TornNeverStarts`, `WindowHasPackage`, `PackageKeptUntilInstalled`, `UpdateLands` until the data or SPI flash reports an error; `MarkerKeepsRecovery`, `MarkerClearedWhenVerified`, `AlwaysReachesHost`, `InstallsEnd` whatever fails |
| `install_marker_gap` | same, SPI flash may fail | violation of `JumpOnlyToComplete` |
| `webusb_session` | 2 sectors of 2 units, every operation may fail | `CommittedIsInstallable`, `ReceivingHidesSlot`, `SentIsStored`, `RebootHasPackage`, `ImplementsSlot` |
| `webusb_link` | packages of 1 and 2 units, requests of 2 pieces, a FIFO of 3, programming may fail | `SuccessIsCommitted`, `UploadEnds`; `CommittedIsInstallable` with what is left of cut exchanges |
| `disk_cache` | 3 blocks, write-back, commands and wait may fail | `ImplementsDevice`, `SyncIsDurable` |
| `disk_read_fault` | 2 blocks, reads may fail | violation of `CacheHoldsBlock` |
| `spi_flash` | 4 cells in 2 pages and 2 sectors, 2 contents, 1 poll before a timeout | `ImplementsFlash`, `CallsReturn` |
| `app_loop` | 1 package, 2 configurations, 2 host writes per boot, operations may fail | `ConfigMatchesFile`, `ConfigLands`, `ResetIsDurable`, `WebRebootKeepsConfig`, `UpdateTriggersReset` |
| `app_config_dropped` | same, nothing fails | violation of `ResetKeepsConfig` |
| `app_config_short` | same, nothing but a full volume | violation of `PartialIsRejected` |
| `usb_pipes` | the control pipe and one bulk OUT pipe, packets of 1 unit, transfers of 2, one address | `InPacketsOnce`, `OutPacketsOnce`, `OfferedIffActive`, `AddressAgreed`, `HaltedTakesNothing`, `InTransfersDrain` |
| `keyboard_report` | 3 keys with 2 usages, 1 slot, 2 scans | `ScansForceChange`, `ChangeNeedsScans`, `ReportShowsKeys`, `HostUpToDate`, `HostFollows` |

`install`, `webusb_session`, `disk_cache` and `app_loop` also check `TypeOK`. The
types of the other modules are theorems. `AnswersMatch` and
`OnlyWrittenBlocksChange` are proved and not part of a run.

What the exceptions in a property leave open. `RebootHasPackage` covers a BEGIN
that fails while a reboot is scheduled: the device may then reboot without a
package, but never with another one. `AlwaysReachesHost` counts the halt after a
failed flash probe as an end of the boot. `InstallsEnd` lets a package be
installed again once for every operation that fails, so a file that can never be
removed is installed at every boot. `UpdateTriggersReset` lets sessions come and
go, and gives up only for one that stays open. `SuccessIsCommitted` and
`UploadEnds` begin when nothing of a cut exchange is left; for the time before,
`webusb_link` checks that the leftovers, which may complete a request of the
next page, never commit a package that is not whole.

Bounds. Two images of different length cover an update to a longer and to a
shorter image; two power losses are needed for the marker window (the first
breaks the application, the second falls into the retry), more repeat it. Two
sectors let payloads straddle a border, and sessions shorter than the range
leave old content behind; six units (three sectors) were also explored.
`webusb_link` has shorter packages, because the stream multiplies the states:
one unit is an upload with a single DATA, two is one with a loop; a request of
two pieces and a FIFO of three put packets with a request, with its end and a
payload, and with the pieces of two frames into the parser.
Three blocks give the cache one to hold, one to load and one to leave alone;
sectors hold one of two values. Four cells in two pages let a program begin
inside a page and go over into the next; a second poll or a third page adds no
new kind of step, and the theorem covers both. Two host writes per boot
are an old state, a partial one and a complete one; the number of boots is not
bounded. The idle timeout is one tick in `app_loop`, and two, so that a write
falls between the first tick and the last, in the two violation runs; the
theorems hold for any. `ConfigDelay = RebootDelay` is the tightest case that the
configuration parser admits. A transfer of two packets has a first, a last and,
on the control pipe, a status stage after it. Of three keys one shares the first
one's usage and holds a modifier, and one overflows the single slot.

Fairness.

* `OtaInstall`: `WF(BootStep)`, the processor executes `main`. Power losses are
  finite (`MaxLosses`): against a supply that fails at every boot nothing can be
  promised.
* `AppUpdate`: `WF(Loop)`, since `tud_task` and `ota_webusb_task` return when
  their queues are empty; `SF(Tick)`: time passes while the loop runs, but
  `Tick` is disabled in the other phases, hence strong.
* `WebusbLink`: `WF(Task)`, the loop goes on, and `WF(AnswerArrives)`, an open
  page reads its answers. Pages may be closed at any time.
* `SpiFlash`: `WF(Step)`. The chip has no fairness, and no transfer has to fail:
  a call returns because its timeout passes.
* `UsbDevice`: `WF(Interrupt)`, `WF(Task)`, and `SF(HostIn(p, TRUE))` for the IN
  pipes: a host that can read a pipe again and again is heard in the end. It owes
  no OUT packet, request or reset, so liveness is stated for IN transfers only,
  in this instance those of the control pipe.
* `Keyboard`: `WF(TaskNotDue)`, `SF(TaskScans)` (scans do not fail for ever),
  `WF(Tick)`, `WF(Tud)`, and `WF(HostReads)`, the host polls the endpoint.

Host actions otherwise and faults have no fairness.

## 4. What the runs found

* **A torn application can be started** (`install_marker_gap`).
  `mark_install_in_progress` erases the marker before it writes it, also on a
  retry. After one power loss during programming and a second one in that
  window, the application is broken and the marker clear. The staged package
  still rescues the device, unless validating it fails once with an I/O error:
  `main` then goes on, finds no marker and a plausible first word, and starts
  the application. Until the data flash or the SPI flash reports an error this
  cannot happen, which is a theorem (`CrashSafety`).
* **A failed read corrupts the cache** (`disk_read_fault`). `load_cache` reads
  into the only buffer and keeps `cached_block` and `cache_valid` on failure;
  a write to the old block would save the mixture.
* **An accepted configuration can be dropped** (`app_config_dropped`). The
  reset after a check does not look at `config_update_pending`; the WebUSB
  reboot cannot drop one, which is a theorem (`RebootSafety`).
* **A full volume cuts SYSTEM.JSON off** (`app_config_short`). `f_write` stores
  less than the document and returns FR_OK; `write_config_file` only skips
  `f_sync`, renames what there is, and returns OK. The next boot falls back to
  the defaults.

Seen while modelling, without a run of their own:

* An open WebUSB session holds the check of the volume back, and no timeout or
  disconnect ends one. `UpdateTriggersReset` shows that the check comes after
  the session, unless sessions keep it open for ever; the keyboard's README does
  not name the exception. The browser tool sends ABORT after an upgrade that
  failed, but a page that is closed does not.
* `reset_parser` is not called when a host disconnects. Half a request of a
  closed page stays, and the next page's first requests complete it, until
  enough bytes have come or the device is reset. An answer that was not read
  shifts the answers of the next page by one. One such page cannot make a later
  one report a success by mistake, because a page compares the command of an
  answer, but several can: with a FIFO of 7 pieces TLC finds four pages that are
  closed in an exchange, after which the answers lag so far behind that the one
  to an older END passes for the one to the END of a page whose upload has
  failed. With 3 to 6 pieces there is no such behaviour. The real FIFO holds
  many requests, so `SuccessIsCommitted` is stated for pages that begin with
  nothing left, and neither the device nor the page makes sure that they do.
* `spi_flash_read` does not look at BUSY. `ImplementsFlash` shows how far that
  reaches: wrong data with CHIP_OK only while the chip works on for a call that
  has failed. `OtaWebusb` and `OtaSpiDisk` assume that nobody reads in that time.
* `usb_process_out` refuses a packet that is too long without advancing the
  toggle.
* When an endpoint is stalled while a packet is flagged, `usb_process_in` or
  `usb_process_out` overwrites its STALL answer with NAK: the host sees a pipe
  that waits instead of a halted one. No document promises more of
  `chip_usb_device_endpoint_stall` than to stall the endpoint, so there is no
  run that expects the violation. `HaltedTakesNothing` says what does hold: the
  handler finds no transfer and does not arm the pipe. `StallIsKept` proves that
  nothing else takes the answer away.
* An SPI flash that does not answer halts the bootloader for good, with a
  complete application behind it: the second case of `Boot`.

## 5. Proofs

Every theorem is about the module's specification, with its constants arbitrary
apart from the named assumptions of the module.

A liveness property says that something happens if the scheduler, the host and
the chip do their part. What the program itself owes to it is proved instead: a
number of steps left, bounded in every reachable state, that each step of the
program decreases (`BootsEnd`, `CallProgress`, `RequestProgress`,
`UploadProgress`, `BodyEnds`), or what each step of the host gains
(`InProgress`). An endless loop of retries would have no such number. The steps
that may raise it are named in the theorem: a power loss, a chip that gets
ready, a page that is closed, a call of the host.

* `OtaInstall_proofs` (`InstallAssumption`). `JumpOnlyToComplete` is not
  inductive. `InstallInv` adds that an installation works on the package it
  validated (`SourceKept`), under a set marker from the first erased block to
  the last verified one (`Marked`), that the programmed prefix is correct
  (`Programmed`), and that `interrupted` remembers the marker (`Remembered`). It
  is preserved whatever fails, and gives `TypeCorrect`, `RecoveryIsKept` and
  `MarkerClearedSafely`. `CrashInv` adds `Window`, where the processor may be
  while nothing marks a broken application, up to the first error of the data
  flash or the SPI flash. It gives `CrashSafety` and `RetryWindow`;
  `PackageSafety` follows from `InstallInv`. No theorem assumes anything about
  which devices fail. `BootsEnd` counts the steps of a boot (`BootSteps`), and
  the boots that may still follow without a power loss.
* `OtaWebusb_proofs` (`WebusbAssumption`, the checks of `ota_staging_init`).
  `SessionInv`: the erased prefix is a whole number of sectors ahead of the
  received one, what lies between is erased, and the received part is what was
  sent. From it `TypeCorrect`, `CommitSafety`, `SessionIsHidden`,
  `DataIsStored`; with `RebootInv`, `RebootSafety`; and the refinement
  `SlotRefinement`, step by step.
* `WebusbLink_proofs` (`LinkAssumption`: the FIFO has room for the longest
  request). `LinkInv`: what is on the wire was sent by a page, and the parser
  has a payload only behind a whole header. It gives the requests the form
  `OtaWebusb` expects, hence `LinkTypeCorrect` and `SessionRefinement`. Until an
  exchange is cut off, and again from the first request that finds nothing of it
  left, `StepInv` says where the request and the answer are (`InStep`) and how
  much of the file the session holds (`UploadInv`); from it `AnswerSafety` and
  `UploadSafety`, and `UploadProgress`: a page that waits for an answer waits
  for a parser that has all it needs (`Served`). With the refinement, the
  theorems of `OtaWebusb_proofs` hold over the byte stream (`SlotUnderLink`).
* `OtaSpiDisk_proofs` (`DiskAssumption`). `DiskInv`: a clean valid cache equals
  its block. It needs `"read" \notin Faults`, the finding above. From it
  `SyncSafety` and the refinement `DeviceRefinement`. `DamageConfined` needs the
  types only and holds whatever fails; so do `RequestProgress` and
  `OnlyReadsSpoilCache`, which says that the finding is the only way the cache
  goes wrong: no failed program or erase does it. `LossIsOneBlock` is what
  FatFs builds on: a power loss takes back the unsaved block and nothing else.
  It needs the same assumption as `SyncSafety`: after a failed read the cache
  may show a block that the loss of power sets right again.
* `SpiFlash_proofs` (`CallsAssumption`, `FlashAssumption`). `FlashInv` says what
  the chip holds in the middle of a write: the cells the call has come past
  (`Done`) are written, all others are as before (`ContentInv`); a chip that is
  about to get a command is idle, and enabled when it matters (`ReadyInv`); it
  works only in the range of the call (`BusyInv`). `NoWrap` shows that a chunk
  never wraps. From it `TypeCorrect` and the refinement `FlashRefinement`, and
  `CallProgress`, in which the wait for a chip that stays busy ends as well.
* `AppUpdate_proofs` (`AppAssumption`: the parser accepts no reboot delay below
  the configuration delay). `RebootInv`: in a committed session a pending
  configuration is due no later than the reboot (`Deadlines`), and past its
  phase it is not due (`AppliedFirst`). `ConfigInv` adds what
  `write_config_file` has done so far (`Replacing`). From them `RebootSafety`
  and `ConfigAgreement`; directly, `CheckedFileIsDurable`. `SaveInv` says what
  `write_config_file` may rely on after each of its steps; it gives
  `AcceptedIsWritten`. `NoFileForgotten` is inductive. Together with `BodyEnds`
  they are the safety part of `ConfigLands` and `UpdateTriggersReset`.
* `UsbDevice_proofs` (`DataPipesAssumption`, `SizesAssumption`,
  `AddressesAssumption`). `UsbInv` is one invariant for all properties: most of
  it says how far the device has got with the request the host waits for
  (`RequestInv`, `StatusInv`, `LastInInv`), because the toggles of the control
  pipe (`SyncInv`) are right only if the stages follow each other. From it
  `Typing`, `InDelivery`, `OutDelivery`, `Offered`, `Addressing`, `Halting` and
  `StallIsKept`.
  `QueueInv` adds that the packet in the buffer is the next one of its transfer;
  from it `InProgress`.
* `Keyboard_proofs`. `CountInv`: the debounce count of a key is the number of
  latest samples that differ from its debounced state, and the sample before
  those agrees with it (`Counting`). From it `Settling` and `Debouncing`; with `ReportInv`,
  `ReportIsCurrent` and `Delivery`. `ReportIsFaithful` needs induction over the
  keys. The library's induction theorems take an operator, which the provers
  cannot instantiate, so `Inducts` is the same principle for a set of numbers,
  from the well-foundedness of `<` (`Least`); with it the recursive function of
  `Built` unfolds (`Unfolds`), and `BuiltIsRight` says what the report holds
  after each key (`AddKeyRight`).

Only model-checked:

* the liveness properties (`UpdateLands`, `AlwaysReachesHost`, `InstallsEnd`,
  `UpdateTriggersReset`, `ConfigLands`, `UploadEnds`, `InTransfersDrain`,
  `HostFollows`, `CallsReturn`): liveness under fairness is out of the prover's
  reach. What the theorems above leave to TLC is the step from a decreasing
  number to its end, and the fairness of the scheduler, the host and the chip;
* `SyncIsDurable`, `ImplementsDevice` and `LossIsOneBlock` are false after a
  read error (section 4) and are checked and proved without it;
* what a page is told while something of a cut exchange is left: see section 4.

## 6. Not modelled

* CRC arithmetic, header fields and JSON text: validation is a predicate. FatFs
  is external; its files are complete, partial or missing.
* The host as second writer of the volume: the document is written through
  FatFs on a volume the host has mounted. It takes directory and allocation
  blocks with two writers, of which both are external; the code relies on
  `tud_disconnect`, which comes first.
* WebUSB: STATUS, which changes nothing and which no page sends; the texts and
  the progress of the pages; a form that disables its buttons.
* USB driver: cancel, close, deinit, which the keyboard never calls;
  suspend, resume and remote wakeup; FIFO overflow; SET_CONFIGURATION(0).
* Keyboard: the rows and pins of the matrix, whose scan is one step; the LEDs;
  `keyboard_hid_task` is not a phase of `AppUpdate`.
* Time: the 64-bit count over the SysTick overflow interrupt (`chip_time.c:50`).
* Program flash and data flash drivers: only their effect, in `OtaInstall`.
* The memory map is constant and its ranges are disjoint. Log, BLE, Lua,
  FreeRTOS, the other peripherals and the demos carry no logic of the keyboard,
  and the BLE stack is a vendor binary.

Most lines of C in this repository are not the program's own: the vendor's
SDK headers and peripheral drivers under `chips/wch/ch585/sdk`, and the ports
that pass a call on to them. The program's own control logic is in the files
of the table in section 1.

## 7. Plan

Done, in order of importance: `OtaInstall`, `OtaWebusb`, `OtaSpiDisk`,
`AppUpdate`, `WebusbLink`, `SystemConfig`, `UsbDevice`, `Keyboard`, `SpiFlash`,
each with its proofs.

Next:

1. The volume with two writers: a directory block and an allocation block over
   `BlockDevice`, the host's cached copy, and FatFs; the property is that a file
   the host copies is not damaged by the replacement of SYSTEM.JSON.
2. Composition of `OtaInstall` and `AppUpdate` over one volume, so that a file
   validated by the application is the one the bootloader installs.
3. `OtaSpiDisk` over `NorFlash` instead of its own list of faults: what a read
   of a chip that is still at work does to the cache.
4. `chip_time`: the tick count while the overflow interrupt is pending.
5. Proofs: an OUT transfer and the stages of a control transfer come forward as
   `InProgress` says of IN transfers; the report never has more usages than
   slots; what the two refinements of the volume give together once
   `OtaSpiDisk` runs over `NorFlash`.
