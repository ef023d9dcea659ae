-------------------------- MODULE OtaInstall_proofs --------------------------
(***************************************************************************)
(* Proofs about OtaInstall, for every set of images, every partition size  *)
(* and every bound on the power losses.                                    *)
(*                                                                         *)
(* InstallInv is inductive whatever devices fail.  CrashInv adds the window*)
(* of a retried installation, up to the first error of the data flash or   *)
(* the SPI flash.                                                          *)
(***************************************************************************)
EXTENDS OtaInstall, TLAPS

\* A partial operation changes only the marker, blocks of the image being
\* installed, or the package it is removing; while a host is attached it
\* changes nothing.
LEMMA PartialType ==
  ASSUME TypeOK, Partial
  PROVE  /\ marker' \in {"clear", "set"}
         /\ app' \in [Block -> Image \cup {Erased, Torn}]
         /\ slot' \in Package
         /\ file' \in Package
<1> USE DEF TypeOK, Package, persistent
<1>1. CASE pc = "erase"
  <2>1. PICK S \in SUBSET (1..BlockCount[image]) : Tear(S)
    BY <1>1 DEF Partial, InstallPc, SlotErase, FileErase
  <2>2. app' \in [Block -> Image \cup {Erased, Torn}]
    BY <2>1 DEF Tear
  <2>3. UNCHANGED <<marker, slot, file>>
    BY <1>1 DEF Partial, InstallPc, SlotErase, FileErase
  <2> QED BY <2>2, <2>3
<1>2. CASE pc = "program"
  <2>1. PICK S \in SUBSET {next} : Tear(S)
    BY <1>2 DEF Partial, InstallPc, SlotErase, FileErase
  <2>2. app' \in [Block -> Image \cup {Erased, Torn}]
    BY <2>1 DEF Tear
  <2>3. UNCHANGED <<marker, slot, file>>
    BY <1>2 DEF Partial, InstallPc, SlotErase, FileErase
  <2> QED BY <2>2, <2>3
<1>3. CASE pc \notin {"erase", "program"}
  BY <1>3 DEF Partial, InstallPc
<1> QED BY <1>1, <1>2, <1>3

\* The type invariant holds initially.
LEMMA InitType == Init => TypeOK
<1> SUFFICES ASSUME Init PROVE TypeOK
  OBVIOUS
<1>1. app \in [Block -> Image \cup {Erased, Torn}]
  <2>1. CASE app = [b \in Block |-> Erased]
    BY <2>1
  <2>2. CASE \E v \in Image :
               app = [b \in Block |-> IF b <= BlockCount[v] THEN v ELSE Erased]
    BY <2>2
  <2> QED BY <2>1, <2>2 DEF Init
<1>2. 0 \in 0..MaxLosses /\ 1 \in 1..MaxBlocks
  BY InstallAssumption
<1> QED
  BY <1>1, <1>2 DEF Init, TypeOK, Package, BootPc

\* Every step preserves the type invariant.
LEMMA NextType == TypeOK /\ [Next]_vars => TypeOK'
<1> SUFFICES ASSUME TypeOK, [Next]_vars PROVE TypeOK'
  OBVIOUS
<1> USE InstallAssumption DEF BootPc, HostPc, InstallPc
<1>1. CASE Boot
  BY <1>1 DEF Boot, TypeOK, persistent, InstallIsInProgress
<1>2. CASE CheckSlot
  <2>1. CASE StartInstall("slot", slot)
    BY <1>2, <2>1 DEF CheckSlot, StartInstall, TypeOK, persistent, Block
  <2>2. CASE ~StartInstall("slot", slot)
    <3>1. ioFailed' \in BOOLEAN
      BY <1>2, <2>2 DEF CheckSlot, TypeOK
    <3> QED BY <1>2, <2>2, <3>1 DEF CheckSlot, TypeOK, locals, Package
  <2> QED BY <2>1, <2>2
<1>3. CASE CheckFile
  <2>1. CASE StartInstall("file", file)
    BY <1>3, <2>1 DEF CheckFile, StartInstall, TypeOK, persistent, Block
  <2>2. CASE ~StartInstall("file", file)
    <3>1. ioFailed' \in BOOLEAN
      BY <1>3, <2>2 DEF CheckFile, TypeOK
    <3> QED BY <1>3, <2>2, <3>1 DEF CheckFile, TypeOK, locals, Package
  <2> QED BY <2>1, <2>2
<1>4. CASE Start
  BY <1>4 DEF Start, TypeOK, persistent, locals
<1>5. CASE MarkErase
  BY <1>5 DEF MarkErase, TypeOK, locals
<1>6. CASE MarkWrite
  BY <1>6 DEF MarkWrite, TypeOK, locals
<1>7. CASE EraseApp
  BY <1>7 DEF EraseApp, TypeOK, locals, Block
<1>8. CASE ProgramBlock
  BY <1>8 DEF ProgramBlock, TypeOK, Block, LastBlock
<1>9. CASE MarkComplete
  BY <1>9 DEF MarkComplete, TypeOK, locals
<1>10. CASE Cleanup
  BY <1>10 DEF Cleanup, TypeOK, locals, Package
<1>11. CASE InstallFault
  <2>1. /\ marker' \in {"clear", "set"}
        /\ app' \in [Block -> Image \cup {Erased, Torn}]
        /\ slot' \in Package
        /\ file' \in Package
    BY <1>11, PartialType DEF InstallFault, persistent, TypeOK
  <2> QED BY <1>11, <2>1 DEF InstallFault, InstallFailed, TypeOK
<1>12. CASE HostStages
  BY <1>12 DEF HostStages, Slot!Next, Slot!Publish, Slot!Discard, Slot!Damage,
               TypeOK, Package, locals
<1>13. CASE HostWritesFile
  BY <1>13 DEF HostWritesFile, TypeOK, locals
<1>14. CASE Reset
  BY <1>14 DEF Reset, TypeOK, persistent, locals
<1>15. CASE PowerLoss
  <2>1. /\ marker' \in {"clear", "set"}
        /\ app' \in [Block -> Image \cup {Erased, Torn}]
        /\ slot' \in Package
        /\ file' \in Package
    BY <1>15, PartialType DEF PowerLoss
  <2>2. losses' \in 0..MaxLosses
    BY <1>15 DEF PowerLoss, TypeOK
  <2> QED BY <1>15, <2>1, <2>2 DEF PowerLoss, TypeOK
<1>16. CASE UNCHANGED vars
  BY <1>16 DEF vars, persistent, locals, TypeOK
<1> QED
  BY <1>1, <1>2, <1>3, <1>4, <1>5, <1>6, <1>7, <1>8, <1>9, <1>10, <1>11,
     <1>12, <1>13, <1>14, <1>15, <1>16 DEF Next, BootStep

\* Type correctness of the boot and installation state.
THEOREM TypeCorrect == Spec => []TypeOK
BY InitType, NextType, PTL DEF Spec
-----------------------------------------------------------------------------
\* Which variable a partial operation can change, by the operation.
LEMMA PartialEffect ==
  ASSUME Partial
  PROVE  /\ pc \notin {"erase", "program"} => app' = app
         /\ pc \notin {"mark_erase", "mark_write", "complete"} => marker' = marker
         /\ pc \in HostPc \cup {"halted", "reset", "start"} =>
              UNCHANGED persistent
         /\ slot' # slot => SlotErase
         /\ file' # file => FileErase
<1>1. pc \notin {"erase", "program"} => app' = app
  BY DEF Partial, persistent
<1>2. pc \notin {"mark_erase", "mark_write", "complete"} => marker' = marker
  BY DEF Partial, persistent
<1>3. slot' # slot => SlotErase
  BY DEF Partial, persistent
<1>4. file' # file => FileErase
  BY DEF Partial, persistent
<1> QED
  BY <1>1, <1>2, <1>3, <1>4 DEF HostPc, persistent, SlotErase, FileErase

\* Holds and Runnable depend only on the application partition.
LEMMA SameApp ==
  ASSUME app' = app
  PROVE  /\ \A v \in Image : Holds(v)' <=> Holds(v)
         /\ Runnable' <=> Runnable
BY DEF Holds, Runnable

\* Every step preserves the invariant of an installation, whatever fails.
LEMMA NextInstallInv == InstallInv /\ [Next]_vars => InstallInv'
<1> SUFFICES ASSUME InstallInv, [Next]_vars PROVE InstallInv'
  OBVIOUS
<1>t. TypeOK /\ TypeOK'
  BY NextType DEF InstallInv
<1>i. image \in Image /\ BlockCount[image] \in 1..MaxBlocks
  BY <1>t, InstallAssumption DEF TypeOK
<1> USE DEF InstallInv, SourceKept, Marked, Programmed, Remembered,
            MarkerKeepsRecovery
<1>1. CASE Boot
  BY <1>1, <1>t DEF Boot, persistent, InstallIsInProgress, InstallPc
<1>2. CASE CheckSlot
  BY <1>2, <1>t DEF CheckSlot, StartInstall, persistent, locals, InstallPc
<1>3. CASE CheckFile
  BY <1>3, <1>t DEF CheckFile, StartInstall, persistent, locals, InstallPc
<1>4. CASE Start
  BY <1>4, <1>t DEF Start, persistent, locals, InstallPc, TypeOK
<1>5. CASE MarkErase
  BY <1>5, <1>t DEF MarkErase, locals, InstallPc
<1>6. CASE MarkWrite
  BY <1>6, <1>t DEF MarkWrite, locals, InstallPc
<1>7. CASE EraseApp
  BY <1>7, <1>t, <1>i DEF EraseApp, locals, InstallPc
<1>8. CASE ProgramBlock
  <2>1. /\ app' = [app EXCEPT ![next] = image]
        /\ UNCHANGED <<marker, slot, file, interrupted, source, image>>
        /\ pc = "program"
    BY <1>8 DEF ProgramBlock
  <2>2. \A b \in 1..next : app'[b] = image
    BY <2>1, <1>t, <1>i DEF TypeOK, Block
  <2>3. CASE next < BlockCount[image] /\ next' = next + 1 /\ UNCHANGED pc
    BY <2>1, <2>2, <2>3, <1>t, <1>i DEF TypeOK, InstallPc
  <2>4. CASE next >= BlockCount[image] /\ pc' = "complete" /\ UNCHANGED next
    <3>1. next = BlockCount[image]
      BY <2>1, <2>4, <1>t, <1>i DEF TypeOK
    <3>2. Holds(image)'
      BY <3>1, <2>1, <2>2 DEF Holds
    <3> QED BY <2>1, <2>4, <3>2, <1>t DEF InstallPc
  <2> QED BY <1>8, <2>3, <2>4 DEF ProgramBlock, LastBlock
<1>9. CASE MarkComplete
  <2>1. Holds(image)'
    BY <1>9, SameApp, <1>i DEF MarkComplete, locals, Holds
  <2> QED BY <1>9, <2>1, <1>t DEF MarkComplete, locals, InstallPc
<1>10. CASE Cleanup
  BY <1>10, <1>t DEF Cleanup, locals, InstallPc
<1>11. CASE InstallFault
  BY <1>11, <1>t DEF InstallFault, InstallFailed, InstallPc
<1>12. CASE HostStages
  BY <1>12, <1>t DEF HostStages, locals, HostPc, InstallPc
<1>13. CASE HostWritesFile
  BY <1>13, <1>t DEF HostWritesFile, locals, HostPc, InstallPc
<1>14. CASE Reset
  BY <1>14, <1>t DEF Reset, InstallPc
<1>15. CASE PowerLoss
  BY <1>15, <1>t DEF PowerLoss, InstallPc
<1>16. CASE UNCHANGED vars
  BY <1>16, <1>i, <1>t DEF vars, persistent, locals, Holds
<1> QED
  BY <1>1, <1>2, <1>3, <1>4, <1>5, <1>6, <1>7, <1>8, <1>9, <1>10, <1>11,
     <1>12, <1>13, <1>14, <1>15, <1>16 DEF Next, BootStep

\* The invariant of an installation holds of every behaviour, whatever
\* devices fail.
LEMMA InstallInvariant == Spec => []InstallInv
<1>1. Init => InstallInv
  BY InitType DEF Init, InstallInv, SourceKept, Marked, Programmed, Remembered,
                  MarkerKeepsRecovery, InstallPc
<1> QED BY <1>1, NextInstallInv, PTL DEF Spec

\* main.c:484: with the marker set the bootloader never jumps, on any error
\* path and for any set of failing devices.
THEOREM RecoveryIsKept == Spec => []MarkerKeepsRecovery
BY InstallInvariant, PTL DEF InstallInv

\* The README's "cleared only after every programmed block has been verified",
\* except for the start of a retry, whatever fails: mark_install_complete runs
\* on a partition that holds the image.
THEOREM MarkerClearedSafely == Spec => MarkerClearedWhenVerified
<1>1. InstallInv /\ [Next]_vars =>
        [marker = "set" /\ marker' = "clear" => pc = "mark_erase" \/ Holds(image)]_vars
  <2> SUFFICES ASSUME InstallInv, [Next]_vars, marker = "set", marker' = "clear",
                      pc # "mark_erase"
               PROVE  Holds(image)
    OBVIOUS
  <2> USE DEF persistent, locals
  <2>1. CASE MarkComplete
    BY <2>1 DEF MarkComplete, InstallInv, Programmed
  <2>2. CASE InstallFault
    <3>1. pc = "complete"
      BY <2>2, PartialEffect DEF InstallFault, InstallInv, Marked, persistent
    <3> QED BY <3>1 DEF InstallInv, Programmed
  <2>3. CASE PowerLoss
    <3>1. pc \in {"mark_write", "complete"}
      BY <2>3, PartialEffect DEF PowerLoss
    <3>2. pc # "mark_write"
      BY DEF InstallInv, Marked
    <3> QED BY <3>1, <3>2 DEF InstallInv, Programmed
  <2>4. CASE MarkErase \/ MarkWrite
    BY <2>4 DEF MarkErase, MarkWrite
  <2> QED
    BY <2>1, <2>2, <2>3, <2>4
       DEF Next, BootStep, Boot, CheckSlot, CheckFile, StartInstall, Start, EraseApp,
           ProgramBlock, Cleanup, HostStages, HostWritesFile, Reset, vars
<1> QED BY <1>1, InstallInvariant, PTL DEF Spec, MarkerClearedWhenVerified

-----------------------------------------------------------------------------
(***************************************************************************)
(* Crash safety, until the data flash or the SPI flash reports an error.   *)
(***************************************************************************)

\* A complete image is a runnable application.
LEMMA HoldsRunnable ==
  ASSUME image \in Image, Holds(image)
  PROVE  Runnable
BY DEF Runnable

\* ioFailed is never reset.
LEMMA ErrorsAreKept == TypeOK /\ [Next]_vars /\ ioFailed => ioFailed'
BY DEF TypeOK, Next, BootStep, Boot, CheckSlot, CheckFile, StartInstall, Start,
       MarkErase, MarkWrite, EraseApp, ProgramBlock, MarkComplete, Cleanup,
       InstallFault, HostStages, HostWritesFile, Reset, PowerLoss, vars

\* Every step preserves the crash invariant.
LEMMA NextCrashInv == CrashInv /\ [Next]_vars => CrashInv'
<1> SUFFICES ASSUME CrashInv, [Next]_vars, ~ioFailed'
             PROVE  Window' /\ JumpOnlyToComplete'
  BY NextInstallInv DEF CrashInv
<1>m. ~ioFailed
  BY ErrorsAreKept DEF CrashInv, InstallInv
<1>t. TypeOK /\ InstallInv /\ Window /\ JumpOnlyToComplete
  BY <1>m DEF CrashInv, InstallInv
<1>d. None \notin Image /\ Corrupt \notin Image
  BY InstallAssumption
<1> USE DEF Window, Unmarked, JumpOnlyToComplete, persistent, locals
\* Steps that leave the application and the marker alone, or set the marker.
<1>1. CASE Boot
  BY <1>1, <1>t, SameApp DEF Boot, InstallIsInProgress
<1>2. CASE CheckSlot
  BY <1>2, <1>t, <1>d, SameApp DEF CheckSlot, StartInstall
<1>3. CASE CheckFile
  BY <1>3, <1>t, <1>d, SameApp DEF CheckFile, StartInstall
<1>4. CASE Start
  <2>1. ~interrupted => marker = "clear"
    BY <1>4, <1>t DEF Start, InstallInv, Remembered, TypeOK
  <2>2. app[1] # Erased /\ ~interrupted => Runnable
    BY <1>4, <2>1, <1>t DEF Start
  <2>3. Unmarked => FALSE
    BY <1>4, <1>t DEF Start
  <2> QED BY <1>4, <2>2, <2>3, SameApp DEF Start
<1>5. CASE MarkErase
  BY <1>5, <1>t DEF MarkErase
<1>6. CASE MarkWrite
  BY <1>6, <1>t DEF MarkWrite
<1>7. CASE EraseApp
  BY <1>7, <1>t DEF EraseApp, InstallInv, Marked
<1>8. CASE ProgramBlock
  BY <1>8, <1>t DEF ProgramBlock, InstallInv, Marked
\* Steps after the last block: the application is complete.
<1>9. CASE MarkComplete
  <2>1. Runnable'
    BY <1>9, <1>t, HoldsRunnable, SameApp
       DEF MarkComplete, InstallInv, Programmed, TypeOK
  <2> QED BY <1>9, <2>1 DEF MarkComplete
<1>10. CASE Cleanup
  <2>1. Runnable'
    BY <1>10, <1>t, HoldsRunnable, SameApp
       DEF Cleanup, InstallInv, Programmed, TypeOK
  <2> QED BY <1>10, <2>1 DEF Cleanup
<1>11. CASE InstallFault
  <2>1. pc \in {"erase", "program"} /\ Partial
    BY <1>11 DEF InstallFault
  <2>2. marker' = "set"
    BY <2>1, PartialEffect, <1>t DEF InstallInv, Marked
  <2> QED BY <1>11, <2>2 DEF InstallFault, InstallFailed
<1>12. CASE HostStages
  BY <1>12, <1>t, SameApp DEF HostStages, HostPc
<1>13. CASE HostWritesFile
  BY <1>13, <1>t, SameApp DEF HostWritesFile, HostPc
<1>14. CASE Reset
  BY <1>14, <1>t, SameApp DEF Reset, HostPc
<1>15. CASE PowerLoss
  <2>1. CASE pc \in {"erase", "program"}
    BY <1>15, <2>1, <1>t, PartialEffect DEF PowerLoss, InstallInv, Marked
  <2>2. CASE pc \in {"complete", "cleanup"}
    <3>1. Runnable'
      BY <1>15, <2>2, <1>t, PartialEffect, HoldsRunnable, SameApp
         DEF PowerLoss, InstallInv, Programmed, TypeOK
    <3> QED BY <1>15, <3>1 DEF PowerLoss
  <2>3. CASE pc \in {"mark_erase", "mark_write"}
    <3>1. image \in Image /\ image = (IF source = "slot" THEN slot ELSE file)
      BY <2>3, <1>t DEF InstallInv, SourceKept, TypeOK, InstallPc
    <3>2. slot' = slot /\ file' = file
      BY <1>15, <2>3, PartialEffect DEF PowerLoss, SlotErase, FileErase
    <3> QED BY <1>15, <3>1, <3>2 DEF PowerLoss
  <2>4. CASE pc \notin InstallPc
    <3>1. app' = app /\ marker' = marker
      BY <1>15, <2>4, PartialEffect DEF PowerLoss, InstallPc
    <3>2. /\ slot \in Image => slot' = slot
          /\ file \in Image => file' = file
      BY <1>15, <2>4, <1>d, PartialEffect
         DEF PowerLoss, ErasedOnError, InstallPc, SlotErase, FileErase
    <3>3. Unmarked' => slot \in Image \/ file \in Image
      BY <1>t, <2>4, <3>1, SameApp DEF InstallPc
    <3> QED BY <1>15, <3>2, <3>3 DEF PowerLoss
  <2> QED BY <2>1, <2>2, <2>3, <2>4 DEF InstallPc
<1>16. CASE UNCHANGED vars
  BY <1>16, <1>t, SameApp DEF vars
<1> QED
  BY <1>1, <1>2, <1>3, <1>4, <1>5, <1>6, <1>7, <1>8, <1>9, <1>10, <1>11,
     <1>12, <1>13, <1>14, <1>15, <1>16 DEF Next, BootStep

\* The crash invariant holds of every behaviour.
LEMMA CrashInvariant == Spec => []CrashInv
<1>1. Init => CrashInv
  <2> SUFFICES ASSUME Init PROVE CrashInv
    OBVIOUS
  <2>1. InstallInv
    BY InitType DEF Init, InstallInv, SourceKept, Marked, Programmed, Remembered,
                    MarkerKeepsRecovery, InstallPc
  <2>2. app[1] = Erased \/ Runnable
    <3>1. CASE app = [b \in Block |-> Erased]
      BY <3>1, InstallAssumption DEF Block
    <3>2. CASE \E v \in Image :
                 app = [b \in Block |-> IF b <= BlockCount[v] THEN v ELSE Erased]
      <4>1. PICK v \in Image :
              app = [b \in Block |-> IF b <= BlockCount[v] THEN v ELSE Erased]
        BY <3>2
      <4>2. Holds(v)
        BY <4>1, InstallAssumption DEF Holds, Block
      <4> QED BY <4>2 DEF Runnable
    <3> QED BY <3>1, <3>2 DEF Init
  <2> QED BY <2>1, <2>2 DEF CrashInv, Window, Unmarked, JumpOnlyToComplete, Init
<1>2. CrashInv /\ [Next]_vars => CrashInv'
  BY NextCrashInv
<1> QED BY <1>1, <1>2, PTL DEF Spec

\* main.c:484, README "Flash layout": power losses at any step of any number
\* of installations never make the bootloader start an incomplete application,
\* until the data flash or the SPI flash reports an error.
THEOREM CrashSafety == Spec => []TornNeverStarts
BY CrashInvariant, PTL DEF CrashInv, TornNeverStarts

\* The marker-less window of a retried installation is always covered by a
\* package that the boot in progress installs.
THEOREM RetryWindow == Spec => []WindowHasPackage
<1>1. CrashInv => WindowHasPackage
  BY DEF CrashInv, Window, Unmarked, WindowHasPackage, HostPc, InstallInv,
         SourceKept, TypeOK, InstallPc
<1> QED BY <1>1, CrashInvariant, PTL

\* main.c:297, 314 and 464: the bootloader removes a valid package only when
\* the application partition holds it.
THEOREM PackageSafety == Spec => PackageKeptUntilInstalled
<1>d. None \notin Image /\ Corrupt \notin Image
  BY InstallAssumption
<1>1. InstallInv /\ [Next]_vars =>
        [pc \notin HostPc /\ ~ioFailed' =>
           /\ slot \in Image /\ slot' # slot => Holds(slot)
           /\ file \in Image /\ file' # file => Holds(file)]_vars
  <2> SUFFICES ASSUME InstallInv, [Next]_vars, pc \notin HostPc, ~ioFailed'
               PROVE  /\ slot \in Image /\ slot' # slot => Holds(slot)
                      /\ file \in Image /\ file' # file => Holds(file)
    OBVIOUS
  <2>1. CASE pc = "cleanup"
    <3>1. Holds(image) /\ image = (IF source = "slot" THEN slot ELSE file)
      BY <2>1 DEF InstallInv, Programmed, SourceKept, InstallPc
    <3>2. /\ slot' # slot => source = "slot"
          /\ file' # file => source = "file"
      <4>1. CASE Cleanup
        BY <4>1 DEF Cleanup
      <4>2. CASE Partial
        BY <4>2, <2>1, PartialEffect DEF SlotErase, FileErase
      <4>3. CASE UNCHANGED <<slot, file>>
        BY <4>3
      <4> QED
        BY <4>1, <4>2, <4>3, <2>1
           DEF Next, BootStep, Boot, CheckSlot, CheckFile, StartInstall, Start,
               MarkErase, MarkWrite, EraseApp, ProgramBlock, MarkComplete,
               InstallFault, HostStages, HostWritesFile, Reset, PowerLoss, HostPc,
               vars, persistent
    <3> QED BY <3>1, <3>2 DEF InstallInv, TypeOK
  <2>2. CASE pc # "cleanup"
    <3>1. /\ slot' # slot => slot \in {None, Corrupt}
          /\ file' # file => file \in {None, Corrupt}
      <4>1. CASE CheckSlot
        BY <4>1 DEF CheckSlot, StartInstall, persistent
      <4>2. CASE CheckFile
        BY <4>2 DEF CheckFile, StartInstall, persistent
      <4>3. CASE PowerLoss
        BY <4>3, <2>2, PartialEffect DEF PowerLoss, ErasedOnError, SlotErase, FileErase
      <4>5. CASE InstallFault
        BY <4>5, <2>2, PartialEffect DEF InstallFault, SlotErase, FileErase, persistent
      <4>4. CASE UNCHANGED <<slot, file>>
        BY <4>4
      <4> QED
        BY <4>1, <4>2, <4>3, <4>4, <4>5, <2>2
           DEF Next, BootStep, Boot, Start, MarkErase, MarkWrite, EraseApp,
               ProgramBlock, MarkComplete, Cleanup, HostStages,
               HostWritesFile, Reset, vars, persistent
    <3> QED BY <3>1, <1>d
  <2> QED BY <2>1, <2>2
<1> QED BY <1>1, InstallInvariant, PTL DEF Spec, PackageKeptUntilInstalled
-----------------------------------------------------------------------------
(***************************************************************************)
(* A boot comes to an end: what AlwaysReachesHost owes to the program and  *)
(* not to fairness.                                                        *)
(***************************************************************************)

\* Steps to the end of an installation, and from there to a host.
InstallSteps ==
  CASE pc = "mark_erase" -> MaxBlocks + 5
    [] pc = "mark_write" -> MaxBlocks + 4
    [] pc = "erase" -> MaxBlocks + 3
    [] pc = "program" -> MaxBlocks + 3 - next
    [] pc = "complete" -> 2
    [] pc = "cleanup" -> 1
    [] OTHER -> 0

OneBoot == 2 * MaxBlocks + 14

BootSteps ==
  CASE pc = "reset" -> OneBoot
    [] pc = "slot" -> OneBoot - 1
    [] pc = "volume" -> MaxBlocks + 7
    [] pc = "start" -> 1
    [] pc \in InstallPc -> InstallSteps + (IF source = "slot" THEN MaxBlocks + 7 ELSE 1)
    [] OTHER -> 0

\* A package that is installed and removed costs another boot.
StepsFor(package) == IF package \in Image THEN OneBoot ELSE 0

StepsLeft == BootSteps + StepsFor(slot) + StepsFor(file)

\* Only installing a package makes the bootloader start over, and it is gone then.
LEMMA BootAgain ==
  ASSUME InstallInv, Cleanup
  PROVE  StepsFor(slot)' + StepsFor(file)' = StepsFor(slot) + StepsFor(file) - OneBoot
<1>1. /\ image \in Image /\ None \notin Image /\ OneBoot \in Nat
      /\ image = (IF source = "slot" THEN slot ELSE file)
  BY InstallAssumption DEF InstallInv, TypeOK, SourceKept, InstallPc, Cleanup, OneBoot
<1>2. CASE source = "slot"
  <2>1. slot \in Image /\ slot' = None /\ file' = file
    BY <1>1, <1>2 DEF Cleanup
  <2> QED BY <1>1, <2>1 DEF StepsFor
<1>3. CASE source = "file"
  <2>1. file \in Image /\ file' = None /\ slot' = slot
    BY <1>1, <1>3 DEF Cleanup
  <2> QED BY <1>1, <2>1 DEF StepsFor
<1> QED BY <1>2, <1>3 DEF InstallInv, TypeOK

\* No step of the bootloader brings a package.
LEMMA NoNewPackage ==
  ASSUME TypeOK, BootStep
  PROVE  /\ StepsFor(slot)' <= StepsFor(slot)
         /\ StepsFor(file)' <= StepsFor(file)
<1>1. {None, Corrupt} \cap Image = {} /\ OneBoot \in Nat
  BY InstallAssumption DEF OneBoot
<1>2. slot' \in {slot, None, Corrupt} /\ file' \in {file, None, Corrupt}
  <2>1. CASE Partial
    BY <2>1 DEF Partial, persistent
  <2>2. CASE CheckSlot
    BY <2>2 DEF CheckSlot, StartInstall, persistent
  <2>3. CASE CheckFile
    BY <2>3 DEF CheckFile, StartInstall, persistent
  <2>4. CASE Cleanup
    BY <2>4 DEF Cleanup
  <2>5. CASE UNCHANGED <<slot, file>>
    BY <2>5
  <2> QED
    BY <2>1, <2>2, <2>3, <2>4, <2>5
       DEF BootStep, Boot, Start, MarkErase, MarkWrite, EraseApp, ProgramBlock,
           MarkComplete, InstallFault, persistent
<1> QED BY <1>1, <1>2 DEF StepsFor

\* Every step of a boot but the reset after an installation is a step forward.
LEMMA BootForward ==
  ASSUME InstallInv, BootStep, ~Cleanup
  PROVE  BootSteps' < BootSteps
<1>1. /\ MaxBlocks \in Nat /\ MaxBlocks >= 1 /\ OneBoot = 2 * MaxBlocks + 14
      /\ next \in 1..MaxBlocks /\ source \in {"slot", "file"}
      /\ image \in Image /\ BlockCount[image] \in 1..MaxBlocks
  BY InstallAssumption DEF OneBoot, InstallInv, TypeOK
<1> USE DEF BootSteps, InstallSteps, InstallPc
<1>2. CASE Boot
  BY <1>1, <1>2 DEF Boot
<1>3. CASE CheckSlot
  BY <1>1, <1>3 DEF CheckSlot, StartInstall
<1>4. CASE CheckFile
  BY <1>1, <1>4 DEF CheckFile, StartInstall
<1>5. CASE Start
  BY <1>1, <1>5 DEF Start
<1>6. CASE MarkErase
  BY <1>1, <1>6 DEF MarkErase, locals
<1>7. CASE MarkWrite
  BY <1>1, <1>7 DEF MarkWrite, locals
<1>8. CASE EraseApp
  <2>1. next' = 1 /\ source' = source
    BY <1>8 DEF EraseApp, locals, InstallInv, Programmed
  <2> QED BY <1>1, <1>8, <2>1 DEF EraseApp
<1>9. CASE ProgramBlock
  <2>1. pc = "program" /\ source' = source
    BY <1>9 DEF ProgramBlock
  <2>2. CASE next < LastBlock /\ next' = next + 1 /\ UNCHANGED pc
    BY <1>1, <2>1, <2>2
  <2>3. CASE pc' = "complete"
    BY <1>1, <2>1, <2>3
  <2> QED BY <1>9, <2>2, <2>3 DEF ProgramBlock
<1>10. CASE MarkComplete
  BY <1>1, <1>10 DEF MarkComplete, locals
<1>11. CASE InstallFault
  <2>1. pc \in InstallPc /\ pc' = IF source = "slot" THEN "volume" ELSE "start"
    BY <1>11 DEF InstallFault, InstallFailed
  <2>2. InstallSteps >= 1
    BY <1>1, <2>1
  <2>3. BootSteps = InstallSteps + (IF source = "slot" THEN MaxBlocks + 7 ELSE 1)
    BY <2>1
  <2>4. BootSteps' = IF source = "slot" THEN MaxBlocks + 7 ELSE 1
    BY <2>1
  <2>5. InstallSteps \in Nat
    BY <1>1, <2>1
  <2> HIDE DEF BootSteps, InstallSteps
  <2> QED BY <1>1, <2>2, <2>3, <2>4, <2>5
<1> QED
  BY <1>2, <1>3, <1>4, <1>5, <1>6, <1>7, <1>8, <1>9, <1>10, <1>11 DEF BootStep

LEMMA StepsBounded == TypeOK => BootSteps \in 0..OneBoot
<1> SUFFICES ASSUME TypeOK PROVE BootSteps \in 0..OneBoot
  OBVIOUS
<1>1. MaxBlocks \in Nat /\ MaxBlocks >= 1 /\ next \in 1..MaxBlocks
  BY InstallAssumption DEF TypeOK
<1>2. InstallSteps \in 0..(MaxBlocks + 5)
  BY <1>1 DEF InstallSteps
<1>3. CASE pc \in InstallPc
  <2>1. BootSteps = InstallSteps + (IF source = "slot" THEN MaxBlocks + 7 ELSE 1)
    BY <1>3 DEF BootSteps, InstallPc
  <2> QED BY <1>1, <1>2, <2>1 DEF OneBoot
<1>4. CASE pc \notin InstallPc
  BY <1>1, <1>4 DEF BootSteps, OneBoot
<1> QED BY <1>3, <1>4

\* main, program_update: between two power losses, and whatever fails, the
\* bootloader takes a bounded number of steps from the reset to a host or to the
\* halt: no error makes it install a package again and again.
THEOREM BootsEnd ==
  Spec => /\ [](StepsLeft \in 0..(3 * OneBoot))
          /\ [][BootStep => StepsLeft' < StepsLeft]_vars
<1> DEFINE Bounded == BootSteps \in 0..OneBoot
<1>1. InstallInv => Bounded
  BY StepsBounded DEF InstallInv
<1>2. OneBoot \in Nat
  BY InstallAssumption DEF OneBoot
<1>3. Bounded => StepsLeft \in 0..(3 * OneBoot)
  <2> SUFFICES ASSUME Bounded PROVE StepsLeft \in 0..(3 * OneBoot)
    OBVIOUS
  <2>1. StepsFor(slot) \in {0, OneBoot} /\ StepsFor(file) \in {0, OneBoot}
    BY DEF StepsFor
  <2> HIDE DEF OneBoot
  <2> QED BY <1>2, <2>1 DEF StepsLeft
<1>4. InstallInv /\ Bounded /\ Bounded' /\ [Next]_vars =>
        [BootStep => StepsLeft' < StepsLeft]_vars
  <2> SUFFICES ASSUME InstallInv, Bounded, Bounded', BootStep PROVE StepsLeft' < StepsLeft
    OBVIOUS
  <2>1. BootSteps \in 0..OneBoot /\ BootSteps' \in 0..OneBoot
    BY DEF OneBoot
  <2>2. /\ StepsFor(slot) \in {0, OneBoot} /\ StepsFor(file) \in {0, OneBoot}
        /\ StepsFor(slot)' \in {0, OneBoot} /\ StepsFor(file)' \in {0, OneBoot}
    BY DEF StepsFor, OneBoot
  <2>3. StepsLeft' = BootSteps' + StepsFor(slot)' + StepsFor(file)'
    BY DEF StepsLeft
  <2>4. CASE Cleanup
    <3>1. StepsFor(slot)' + StepsFor(file)' = StepsFor(slot) + StepsFor(file) - OneBoot
      BY <2>4, BootAgain
    <3>2. pc = "cleanup" /\ pc' = "reset"
      BY <2>4 DEF Cleanup
    <3>3. BootSteps' = OneBoot
      BY <3>2 DEF BootSteps, InstallSteps, InstallPc, OneBoot
    <3>4. BootSteps >= 1
      BY <3>2, InstallAssumption DEF BootSteps, InstallSteps, InstallPc
    <3> HIDE DEF BootSteps, StepsFor, OneBoot
    <3> QED BY <1>2, <2>1, <2>2, <2>3, <3>1, <3>3, <3>4 DEF StepsLeft
  <2>5. CASE ~Cleanup
    <3>1. BootSteps' < BootSteps
      BY <2>5, BootForward
    <3>2. StepsFor(slot)' <= StepsFor(slot) /\ StepsFor(file)' <= StepsFor(file)
      BY NoNewPackage DEF InstallInv
    <3> HIDE DEF BootSteps, StepsFor, OneBoot
    <3> QED BY <1>2, <2>1, <2>2, <2>3, <3>1, <3>2 DEF StepsLeft
  <2> QED BY <2>4, <2>5
<1> QED BY <1>1, <1>3, <1>4, InstallInvariant, PTL DEF Spec
=============================================================================
