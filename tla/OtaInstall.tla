----------------------------- MODULE OtaInstall -----------------------------
(***************************************************************************)
(* The keyboard bootloader (apps/keyboard/bootloader/main.c): one boot from*)
(* reset to the application or to USB recovery, the install marker in data *)
(* flash, the application partition, and the two places a package may come *)
(* from: the WebUSB staging slot and FIRMWARE.OTA on the FAT volume.       *)
(*                                                                         *)
(* Power may fail at any step.  What the step was doing to a flash is then *)
(* partly done (Partial).  A flash operation that reports an error has the *)
(* same partial effects, and the code takes its error path; Faults says    *)
(* which devices may report errors:                                        *)
(*   "app"     program flash: erase, write or verify of the application    *)
(*   "marker"  data flash: erase, write or read of the install marker      *)
(*   "spi"     external SPI flash: staging reads and clears, FAT volume    *)
(***************************************************************************)
EXTENDS Naturals

CONSTANTS
  Image,       \* the valid packages
  None,        \* an empty staging slot, or no FIRMWARE.OTA
  Corrupt,     \* a package that validation rejects
  Erased,      \* an application block of erased program flash
  Torn,        \* an application block with unspecified content
  BlockCount,  \* blocks of an image: io_buffer-sized (512 byte) chunks
  MaxBlocks,   \* blocks in the application partition
  Faults,      \* devices whose operations may report an error
  MaxLosses    \* bound on the number of power losses in a behaviour

ASSUME InstallAssumption ==
  /\ {None, Corrupt, Erased, Torn} \cap Image = {}
  /\ None # Corrupt
  /\ Erased # Torn
  /\ MaxBlocks \in Nat \ {0}
  /\ BlockCount \in [Image -> 1..MaxBlocks]
  /\ Faults \subseteq {"app", "marker", "spi"}
  /\ MaxLosses \in Nat

VARIABLES
  marker,       \* data flash 0x7F00: "clear" (all 0xFF) or "set"
  app,          \* application partition, by block
  slot,         \* what ota_staging_validate_committed finds
  file,         \* what ota_image_validate_file finds at FIRMWARE.OTA
  pc,           \* where the processor is
  interrupted,  \* main's local of that name
  source,       \* package being installed: "slot" or "file"
  image,        \* its header
  next,         \* next block to program
  losses,       \* power losses so far (bounds the model)
  ioFailed      \* history: the data flash or the SPI flash has reported an error

persistent == <<marker, app, slot, file>>
locals == <<interrupted, source, image, next>>
vars == <<persistent, pc, locals, losses, ioFailed>>

Block == 1..MaxBlocks
Package == Image \cup {None, Corrupt}

InstallPc == {"mark_erase", "mark_write", "erase", "program", "complete", "cleanup"}
BootPc == {"reset", "slot", "volume", "start"} \cup InstallPc
HostPc == {"app", "recovery"}

TypeOK ==
  /\ marker \in {"clear", "set"}
  /\ app \in [Block -> Image \cup {Erased, Torn}]
  /\ slot \in Package
  /\ file \in Package
  /\ pc \in BootPc \cup HostPc \cup {"halted"}
  /\ interrupted \in BOOLEAN
  /\ source \in {"slot", "file"}
  /\ image \in Image
  /\ next \in 1..MaxBlocks
  /\ losses \in 0..MaxLosses
  /\ ioFailed \in BOOLEAN

\* The application partition holds image v completely.
Holds(v) == \A b \in 1..BlockCount[v] : app[b] = v
Runnable == \E v \in Image : Holds(v)

(***************************************************************************)
(* A factory device: a complete application or a blank partition, an       *)
(* erased marker, no package.                                              *)
(***************************************************************************)
Init ==
  /\ marker = "clear"
  /\ \/ app = [b \in Block |-> Erased]
     \/ \E v \in Image :
          app = [b \in Block |-> IF b <= BlockCount[v] THEN v ELSE Erased]
  /\ slot = None
  /\ file = None
  /\ pc = "reset"
  /\ interrupted = FALSE
  /\ source = "slot"
  /\ image \in Image
  /\ next = 1
  /\ losses = 0
  /\ ioFailed = FALSE

-----------------------------------------------------------------------------
\* The erase of the slot, or a rewrite of the file, may be under way.
SlotErase ==
  \/ pc = "cleanup" /\ source = "slot"
  \/ pc = "slot" /\ (slot = Corrupt \/ "spi" \in Faults)

FileErase ==   \* f_unlink or f_mkfs
  \/ pc = "cleanup" /\ source = "file"
  \/ pc = "volume" /\ (file = Corrupt \/ "spi" \in Faults)

\* What the operation at pc may have done when it does not complete.
Tear(S) == app' = [b \in Block |-> IF b \in S THEN Torn ELSE app[b]]

Partial ==
  \/ /\ pc \in {"mark_erase", "complete"}
     /\ marker' \in {marker, "clear"}
     /\ UNCHANGED <<app, slot, file>>
  \/ /\ pc = "mark_write"
     /\ marker' \in {"clear", "set"}
     /\ UNCHANGED <<app, slot, file>>
  \/ /\ pc = "erase"
     /\ \E S \in SUBSET (1..BlockCount[image]) : Tear(S)
     /\ UNCHANGED <<marker, slot, file>>
  \/ /\ pc = "program"
     /\ \E S \in SUBSET {next} : Tear(S)
     /\ UNCHANGED <<marker, slot, file>>
  \/ /\ SlotErase
     /\ slot' \in {slot, Corrupt, None}
     /\ UNCHANGED <<marker, app, file>>
  \/ /\ FileErase
     /\ file' \in {file, Corrupt, None}
     /\ UNCHANGED <<marker, app, slot>>
  \/ /\ pc \notin InstallPc
     /\ UNCHANGED persistent

-----------------------------------------------------------------------------
\* install_is_in_progress: a marker that cannot be read counts as set.
NeverInProgress == {FALSE}   \* mutant: the marker is not looked at
InstallIsInProgress ==
  {marker = "set"} \cup (IF "marker" \in Faults THEN {TRUE} ELSE {})

\* main: board, staging and flash probe, then the marker.
Boot ==
  /\ pc = "reset"
  /\ \/ /\ pc' = "slot"
        /\ interrupted' \in InstallIsInProgress
        /\ ioFailed' = (ioFailed \/ (interrupted' /\ marker = "clear"))
     \/ /\ "spi" \in Faults
        /\ pc' = "halted"
        /\ ioFailed' = TRUE
        /\ UNCHANGED interrupted
  /\ UNCHANGED <<persistent, source, image, next, losses>>

\* The package has been validated: program_update begins.
StartInstall(from, package) ==
  /\ package \in Image
  /\ source' = from
  /\ image' = package
  /\ next' = 1
  /\ pc' = "mark_erase"
  /\ UNCHANGED <<persistent, interrupted, losses, ioFailed>>

\* Anything but OK and NOT_FOUND clears the slot, and ignores the result.  A
\* damaged magic reads as NOT_FOUND, so a corrupt slot may also stay.
CheckSlot ==
  /\ pc = "slot"
  /\ \/ StartInstall("slot", slot)
     \/ /\ slot \in {None, Corrupt}
        /\ slot' \in {slot, None}
        /\ pc' = "volume"
        /\ UNCHANGED <<marker, app, file, locals, losses, ioFailed>>
     \/ /\ "spi" \in Faults   \* OTA_IMAGE_IO_ERROR
        /\ ioFailed' = TRUE
        /\ slot' \in {slot, Corrupt, None}
        /\ pc' = "volume"
        /\ UNCHANGED <<marker, app, file, locals, losses>>

\* mount_update_volume formats a volume that has no FAT, and one whose size
\* volume_size_matches_disk cannot read; a file that fails validation is left
\* alone.
CheckFile ==
  /\ pc = "volume"
  /\ \/ StartInstall("file", file)
     \/ /\ file \in {None, Corrupt}
        /\ file' \in {file, None}
        /\ pc' = "start"
        /\ UNCHANGED <<marker, app, slot, locals, losses, ioFailed>>
     \/ /\ "spi" \in Faults
        /\ ioFailed' = TRUE
        /\ file' \in {file, Corrupt, None}
        /\ pc' = "start"
        /\ UNCHANGED <<marker, app, slot, locals, losses>>

\* No update was installed in this boot: application or recovery.
Start ==
  /\ pc = "start"
  /\ \/ ~interrupted /\ app[1] # Erased /\ pc' = "app"
     \/ (interrupted \/ app[1] \notin Image) /\ pc' = "recovery"
  /\ UNCHANGED <<persistent, locals, losses, ioFailed>>

-----------------------------------------------------------------------------
\* mark_install_in_progress, first half: the marker sector is erased.
MarkErase ==
  /\ pc = "mark_erase"
  /\ marker' = "clear"
  /\ pc' = "mark_write"
  /\ UNCHANGED <<app, slot, file, locals, losses, ioFailed>>

\* Mutant: the write is not verified, and did nothing.
MarkWriteLost ==
  /\ pc = "mark_write"
  /\ pc' = "erase"
  /\ UNCHANGED <<persistent, locals, losses, ioFailed>>

\* mark_install_in_progress, second half: write and verify.
MarkWrite ==
  /\ pc = "mark_write"
  /\ marker' = "set"
  /\ pc' = "erase"
  /\ UNCHANGED <<app, slot, file, locals, losses, ioFailed>>

EraseApp ==
  /\ pc = "erase"
  /\ app' = [b \in Block |-> IF b <= BlockCount[image] THEN Erased ELSE app[b]]
  /\ pc' = "program"
  /\ UNCHANGED <<marker, slot, file, locals, losses, ioFailed>>

\* remaining > 0: the loop ends after the image's last block.
LastBlockEarly == BlockCount[image] - 1   \* mutant: off by one
LastBlockLate == BlockCount[image] + 1    \* mutant: off by one
LastBlock == BlockCount[image]

\* One turn of program_update's loop: read, write and verify a block.
ProgramBlock ==
  /\ pc = "program"
  /\ app' = [app EXCEPT ![next] = image]
  /\ \/ next < LastBlock /\ next' = next + 1 /\ UNCHANGED pc
     \/ next >= LastBlock /\ pc' = "complete" /\ UNCHANGED next
  /\ UNCHANGED <<marker, slot, file, interrupted, source, image, losses, ioFailed>>

MarkComplete ==
  /\ pc = "complete"
  /\ marker' = "clear"
  /\ pc' = "cleanup"
  /\ UNCHANGED <<app, slot, file, locals, losses, ioFailed>>

\* Mutant: both packages are removed, whichever was installed.
CleanupBoth ==
  /\ pc = "cleanup"
  /\ slot' = None
  /\ file' = None
  /\ pc' = "reset"
  /\ UNCHANGED <<marker, app, locals, losses, ioFailed>>

\* Mutant: the result of the removal is not looked at.
CleanupUnchecked ==
  /\ pc = "cleanup"
  /\ \/ source = "slot" /\ slot' \in {slot, None} /\ UNCHANGED file
     \/ source = "file" /\ file' \in {file, None} /\ UNCHANGED slot
  /\ pc' = "reset"
  /\ UNCHANGED <<marker, app, locals, losses, ioFailed>>

\* ota_staging_clear or f_unlink of the installed package, then a reset.
Cleanup ==
  /\ pc = "cleanup"
  /\ \/ source = "slot" /\ slot' = None /\ UNCHANGED file
     \/ source = "file" /\ file' = None /\ UNCHANGED slot
  /\ pc' = "reset"
  /\ UNCHANGED <<marker, app, locals, losses, ioFailed>>

\* Mutant: a failed installation is retried at once.
InstallRetried ==
  /\ pc' = "mark_erase"
  /\ UNCHANGED <<interrupted, source, image, next, losses>>

\* install_webusb_update or install_file_update returned false: recovery,
\* after a look at the other package.
InstallFailed ==
  /\ interrupted' = TRUE
  /\ pc' = IF source = "slot" THEN "volume" ELSE "start"
  /\ UNCHANGED <<source, image, next, losses>>

InstallFault ==
  \/ /\ "marker" \in Faults
     /\ pc \in {"mark_erase", "mark_write", "complete"}
     /\ ioFailed' = TRUE
     /\ Partial
     /\ InstallFailed
  \/ /\ "app" \in Faults
     /\ pc \in {"erase", "program"}
     /\ UNCHANGED ioFailed
     /\ Partial
     /\ InstallFailed
  \/ /\ "spi" \in Faults
     /\ pc = "cleanup"
     /\ ioFailed' = TRUE
     /\ Partial
     /\ InstallFailed
  \/ /\ "spi" \in Faults     \* the payload cannot be read
     /\ pc = "program"
     /\ ioFailed' = TRUE
     /\ UNCHANGED persistent
     /\ InstallFailed

BootStep ==
  \/ Boot \/ CheckSlot \/ CheckFile \/ Start
  \/ MarkErase \/ MarkWrite \/ EraseApp \/ ProgramBlock \/ MarkComplete
  \/ Cleanup \/ InstallFault

-----------------------------------------------------------------------------
Slot == INSTANCE StagingSlot

\* A WebUSB session of the application or of recovery mode.
HostStages ==
  /\ pc \in HostPc
  /\ Slot!Next
  /\ UNCHANGED <<marker, app, file, pc, locals, losses, ioFailed>>

\* The host writes the FAT volume; half-written states are Corrupt.
HostWritesFile ==
  /\ pc \in HostPc
  /\ file' \in Package
  /\ UNCHANGED <<marker, app, slot, pc, locals, losses, ioFailed>>

\* chip_system_reset after a committed session or a validated file, or the
\* user's reset.
Reset ==
  /\ pc \in HostPc \cup {"halted"}
  /\ pc' = "reset"
  /\ UNCHANGED <<persistent, locals, losses, ioFailed>>

\* An erase that only an error before it has started.
ErasedOnError ==
  \/ pc = "slot" /\ slot # Corrupt /\ slot' # slot
  \/ pc = "volume" /\ file # Corrupt /\ file' # file

PowerLoss ==
  /\ losses < MaxLosses
  /\ losses' = losses + 1
  /\ Partial
  /\ ioFailed' = (ioFailed \/ ErasedOnError)
  /\ pc' = "reset"
  /\ interrupted' = FALSE
  /\ UNCHANGED <<source, image, next>>

Next == BootStep \/ HostStages \/ HostWritesFile \/ Reset \/ PowerLoss

Fairness == WF_vars(BootStep)

Spec == Init /\ [][Next]_vars /\ Fairness

-----------------------------------------------------------------------------
(***************************************************************************)
(* Properties.  Power losses and a failing program flash are allowed       *)
(* everywhere; the first four exclude errors of the data flash and the SPI *)
(* flash, the last three hold whatever fails.                              *)
(***************************************************************************)

\* README, "Flash layout": "If power is lost during an update, the bootloader
\* stays in USB recovery mode".  The application that is started is complete.
JumpOnlyToComplete == pc = "app" => Runnable

\* An installation cut short by power losses, however often and wherever, is
\* never started, as long as neither the data flash nor the SPI flash has
\* reported an error.  (main.c:484)
TornNeverStarts == ioFailed \/ JumpOnlyToComplete

\* mark_install_in_progress erases the marker it is about to program, so a
\* retried installation has a window in which nothing marks the broken
\* application.  Whenever that window is open a package is still there and
\* the processor is still on its way to (re)install it, so no host and no
\* jump can come in between.
WindowHasPackage ==
  ~ioFailed /\ marker = "clear" /\ app[1] # Erased /\ ~Runnable =>
    /\ slot \in Image \/ file \in Image
    /\ pc \notin HostPc \cup {"start"}

\* The bootloader removes a package only when the application partition holds
\* exactly that package (main.c:297, 314): a crash or a failure anywhere
\* before leaves it in place for the next boot.
PackageKeptUntilInstalled ==
  [][pc \notin HostPc /\ ~ioFailed' =>
       /\ slot \in Image /\ slot' # slot => Holds(slot)
       /\ file \in Image /\ file' # file => Holds(file)]_vars

\* Liveness: a package committed when the processor resets is installed,
\* through any finite number of power losses, unless the program flash fails
\* and the device waits in recovery with the package still staged.
UpdateLands ==
  \A v \in Image :
    pc = "reset" /\ slot = v
      ~> Holds(v) \/ (pc = "recovery" /\ slot = v) \/ ioFailed

\* A set marker keeps the bootloader in recovery: no error path reaches the
\* jump with it.
MarkerKeepsRecovery == pc = "app" => marker = "clear"

\* The only step that clears a set marker other than the start of a retry is
\* one after every block of the image has been programmed and verified.
MarkerClearedWhenVerified ==
  [][marker = "set" /\ marker' = "clear" =>
       pc = "mark_erase" \/ Holds(image)]_vars

\* Liveness: whatever fails, and however often, every boot gets to a host: to
\* the application, to recovery, or to the halt of a failed flash probe.
AlwaysReachesHost == []<>(pc \in HostPc \cup {"halted"})

\* Liveness: a package is not installed again at every boot.  A file that could
\* not be removed, or an installation that failed, costs one more installation:
\* there are infinitely many only if errors go on for ever (a file that can never
\* be removed) or hosts keep bringing packages.
InstallsEnd ==
  []<>(pc = "mark_erase") => \/ []<><<InstallFault>>_vars
                            \/ []<><<HostStages \/ HostWritesFile>>_vars

-----------------------------------------------------------------------------
(***************************************************************************)
(* The inductive invariants behind these (OtaInstall_proofs).              *)
(***************************************************************************)

\* An installation works on the package it validated, under a set marker from
\* the first erased block to the last verified one.
SourceKept ==
  pc \in InstallPc => image = (IF source = "slot" THEN slot ELSE file)

Marked ==
  /\ pc \in {"erase", "program", "complete"} => marker = "set"
  /\ pc = "mark_write" => marker = "clear"

Programmed ==
  /\ pc \in {"mark_erase", "mark_write", "erase"} => next = 1
  /\ pc = "program" => /\ next <= BlockCount[image]
                       /\ \A b \in 1..(next - 1) : app[b] = image
  /\ pc \in {"complete", "cleanup"} => Holds(image)

\* The local variable remembers a set marker up to the jump.
Remembered == pc \in {"slot", "volume", "start"} /\ marker = "set" => interrupted

InstallInv ==
  /\ TypeOK
  /\ SourceKept
  /\ Marked
  /\ Programmed
  /\ Remembered
  /\ MarkerKeepsRecovery

\* Where the processor may be while nothing marks a broken application.
Unmarked == marker = "clear" /\ app[1] # Erased /\ ~Runnable

Window ==
  Unmarked =>
    \/ pc \in {"reset", "slot"} /\ (slot \in Image \/ file \in Image)
    \/ pc = "volume" /\ file \in Image
    \/ pc \in {"mark_erase", "mark_write"}

CrashInv == InstallInv /\ (~ioFailed => Window /\ JumpOnlyToComplete)
=============================================================================
