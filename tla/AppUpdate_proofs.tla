-------------------------- MODULE AppUpdate_proofs --------------------------
(***************************************************************************)
(* Proofs about AppUpdate, for every set of packages and configurations,   *)
(* all delays that AppAssumption allows, and with failing volume           *)
(* operations.                                                             *)
(***************************************************************************)
EXTENDS AppUpdate, TLAPS

-----------------------------------------------------------------------------
(***************************************************************************)
(* Types.                                                                  *)
(***************************************************************************)
\* A countdown stays in its range.
LEMMA ElapseType ==
  ASSUME NEW max \in Nat, NEW n \in 0..max
  PROVE  Elapse(n) \in 0..max
BY DEF Elapse

\* The delays and the bound on writes are numbers, the default a document.
LEMMA Parameters ==
  /\ ConfigDelay \in Nat /\ RebootDelay \in Nat /\ IdleTimeout \in Nat
  /\ MaxWrites \in Nat
  /\ Default \in Config
  /\ None \notin Config /\ Broken \notin Config /\ None # Broken
  /\ None \notin Image /\ Broken \notin Image
BY AppAssumption

\* A load keeps the configuration valid.
LEMMA LoadType ==
  ASSUME TypeOK, LoadSystemConfig \/ UNCHANGED config
  PROVE  config' \in Config
BY DEF LoadSystemConfig, Parsed, TypeOK

\* A reset leaves every variable of the RAM in its range.
LEMMA ClearedType ==
  ASSUME RamCleared
  PROVE  /\ unchecked' \in BOOLEAN /\ ejected' \in BOOLEAN
         /\ idleLeft' \in 0..IdleTimeout
         /\ session' \in {"none", "receiving", "committed"}
         /\ rebootLeft' \in 0..RebootDelay
         /\ pending' \in Config \cup {None}
         /\ configLeft' \in 0..ConfigDelay
         /\ writes' \in 0..MaxWrites
<1>1. 0 \in 0..IdleTimeout /\ 0 \in 0..RebootDelay /\ 0 \in 0..ConfigDelay
      /\ 0 \in 0..MaxWrites
  BY Parameters
<1> QED BY <1>1 DEF RamCleared

\* The calls of write_config_file keep the types of what they assign.
LEMMA WriteType == ConfigType /\ WriteStep => ConfigType'
<1> SUFFICES ASSUME ConfigType, WriteStep PROVE ConfigType'
  OBVIOUS
<1>1. CASE WriteTemp \/ WriteTempShort
  BY <1>1 DEF WriteTemp, WriteTempShort, ConfigType
<1>2. CASE RenameTemp \/ RemoveOld \/ ReplaceOld
  BY <1>2 DEF RenameTemp, RemoveOld, ReplaceOld, ConfigType, Result
<1>3. CASE CallFails
  <2>1. configFile' \in Config \cup {None, Broken}
    BY <1>3 DEF CallFails, ConfigType
  <2> QED BY <1>3, <2>1 DEF CallFails, ConfigType, Result
<1> QED BY <1>1, <1>2, <1>3 DEF WriteStep

\* Time passes and the types are kept.
LEMMA TickType == TypeOK /\ Tick => TypeOK'
<1> SUFFICES ASSUME TypeOK, Tick PROVE TypeOK'
  OBVIOUS
<1>1. idleLeft' \in 0..IdleTimeout
  BY ElapseType, Parameters DEF Tick, TypeOK
<1>2. rebootLeft' \in 0..RebootDelay
  BY ElapseType, Parameters DEF Tick, TypeOK
<1>3. configLeft' \in 0..ConfigDelay
  BY ElapseType, Parameters DEF Tick, TypeOK
<1> QED BY <1>1, <1>2, <1>3 DEF Tick, TypeOK, ConfigType, volume, document

\* What the host does to the volume keeps the types.
LEMMA HostType == TypeOK /\ (HostWrites \/ HostSyncs \/ HostLoads) => TypeOK'
<1> SUFFICES ASSUME TypeOK, HostWrites \/ HostSyncs \/ HostLoads PROVE TypeOK'
  OBVIOUS
<1>1. CASE HostWrites
  <2>1. writes' \in 0..MaxWrites
    BY <1>1, Parameters DEF HostWrites, TypeOK
  <2>2. idleLeft' \in 0..IdleTimeout
    BY <1>1, Parameters DEF HostWrites, TypeOK
  <2>3. unchecked' \in BOOLEAN /\ failed' \in BOOLEAN /\ dirty' \in BOOLEAN
    BY <1>1 DEF HostWrites, TypeOK, ConfigType
  <2>4. file' \in Image \cup {None, Broken} /\ configFile' \in Config \cup {None, Broken}
    BY <1>1 DEF HostWrites, TypeOK, ConfigType
  <2> QED BY <1>1, <2>1, <2>2, <2>3, <2>4 DEF HostWrites, TypeOK, ConfigType, web, cfg
<1>2. CASE HostSyncs
  <2>1. dirty' \in BOOLEAN /\ failed' \in BOOLEAN /\ ejected' \in BOOLEAN
    BY <1>2 DEF HostSyncs, Sync, SyncFails, TypeOK, ConfigType
  <2> QED BY <1>2, <2>1 DEF HostSyncs, TypeOK, ConfigType, document, web, cfg
<1>3. CASE HostLoads
  <2>1. ConfigType' /\ UNCHANGED <<pc, reason, file, unchecked, idleLeft, web, cfg, writes>>
        /\ ejected' = FALSE
    BY <1>3 DEF HostLoads, TypeOK, ConfigType, volume, document
  <2> QED BY <2>1 DEF TypeOK, web, cfg
<1> QED BY <1>1, <1>2, <1>3

\* What arrives over WebUSB keeps the types.
LEMMA WebType == TypeOK /\ (WebRequest \/ StageWebConfig) => TypeOK'
<1> SUFFICES ASSUME TypeOK, WebRequest \/ StageWebConfig PROVE TypeOK'
  OBVIOUS
<1>1. CASE WebRequest
  <2>1. rebootLeft' \in 0..RebootDelay
    BY <1>1, Parameters DEF WebRequest, TypeOK
  <2>2. session' \in {"none", "receiving", "committed"}
    BY <1>1 DEF WebRequest
  <2> QED BY <1>1, <2>1, <2>2 DEF WebRequest, TypeOK, ConfigType, volume, document, msc, cfg
<1>2. CASE StageWebConfig
  <2>1. configLeft' \in 0..ConfigDelay
    BY <1>2, Parameters DEF StageWebConfig
  <2> QED BY <1>2, <2>1 DEF StageWebConfig, TypeOK, ConfigType, volume, document,
                                  msc, web
<1> QED BY <1>1, <1>2

\* A phase of the loop body keeps the types.
LEMMA LoopType == TypeOK /\ Loop => TypeOK'
<1> SUFFICES ASSUME TypeOK, Loop PROVE TypeOK'
  OBVIOUS
<1>1. CASE UsbDone \/ WebDone \/ NoConfigDue \/ NoRebootDue \/ NoCheckDue
  BY <1>1 DEF UsbDone, WebDone, NoConfigDue, NoRebootDue, NoCheckDue, TypeOK, Phase,
              ConfigType, volume, document, msc, web, cfg
<1>2. CASE ApplyPendingWebConfig
  <2>1. pending \in Config
    BY <1>2 DEF ApplyPendingWebConfig, ConfigDue, TypeOK
  <2>2. ConfigType'
    BY <1>2, <2>1 DEF ApplyPendingWebConfig, SaveConfig, SaveConfigFails, Sync,
                      WriteBegins, document, TypeOK, ConfigType
  <2>3. pc' \in Phase \cup Writing /\ ejected' \in BOOLEAN
    BY <1>2 DEF ApplyPendingWebConfig, Phase, Writing, TypeOK
  <2> QED BY <1>2, <2>2, <2>3 DEF ApplyPendingWebConfig, TypeOK, web
<1>3. CASE WriteConfigFile
  BY <1>3, WriteType DEF WriteConfigFile, TypeOK, msc, web, cfg
<1>4. CASE ConfigSaved \/ Booted \/ DefaultCreated
  <2>1. doc \in Config
    BY <1>4 DEF ConfigSaved, Booted, DefaultCreated, Result, TypeOK, ConfigType
  <2>2. config' \in Config
    BY <1>4, <2>1, Parameters DEF ConfigSaved, Booted, DefaultCreated, TypeOK, cfg
  <2>3. ConfigType'
    BY <1>4 DEF ConfigSaved, Booted, DefaultCreated, WriteEnds, Sync, SyncFails,
                TypeOK, ConfigType
  <2>4. pc' \in Phase \cup {"reset"} /\ reason' \in {"power", "web", "check"}
        /\ ejected' \in BOOLEAN
    BY <1>4 DEF ConfigSaved, Booted, DefaultCreated, ValidateUpdateFile, Resume, TypeOK,
                Phase, msc
  <2>5. UNCHANGED <<file, unchecked, idleLeft, web, pending, configLeft, writes>>
    BY <1>4 DEF ConfigSaved, Booted, DefaultCreated, msc, cfg
  <2> QED BY <2>2, <2>3, <2>4, <2>5 DEF TypeOK, web
<1>5. CASE WebReboot
  <2>1. ConfigType'
    BY <1>5 DEF WebReboot, Sync, SyncFails, TypeOK, ConfigType, document
  <2>2. pc' = "reset" /\ reason' = "web" /\ UNCHANGED <<file, msc, web, cfg, writes>>
    BY <1>5 DEF WebReboot
  <2> QED BY <2>1, <2>2 DEF TypeOK, msc, web, cfg
<1>6. CASE CheckVolume
  <2>1. config' \in Config
    BY <1>6, LoadType DEF CheckVolume
  <2>2. ConfigType'
    BY <1>6, Parameters DEF CheckVolume, WriteBegins, Sync, TypeOK, ConfigType, document
  <2>3. pc' \in Phase \cup Writing \cup {"reset"}
        /\ reason' \in {"power", "web", "check"} /\ ejected' \in BOOLEAN
    BY <1>6 DEF CheckVolume, ValidateUpdateFile, Resume, TypeOK, Phase, Writing
  <2> QED BY <1>6, <2>1, <2>2, <2>3 DEF CheckVolume, TypeOK, web
<1>7. CASE CheckFails
  <2>1. config' \in Config
    BY <1>7, LoadType DEF CheckFails
  <2>2. pc' \in Phase \cup {"reset"} /\ reason' \in {"power", "web", "check"}
        /\ ejected' \in BOOLEAN /\ dirty' \in BOOLEAN /\ failed' \in BOOLEAN
    BY <1>7 DEF CheckFails, ValidateUpdateFile, Resume, TypeOK, Phase
  <2>3. UNCHANGED <<file, document, idleLeft, web, pending, configLeft, writes>>
        /\ unchecked' = FALSE
    BY <1>7 DEF CheckFails
  <2> QED BY <2>1, <2>2, <2>3 DEF TypeOK, ConfigType, document, web
<1>8. CASE Boot
  <2>1. config' \in Config
    BY <1>8, Parameters DEF Boot
  <2>2. ConfigType'
    BY <1>8, Parameters DEF Boot, TypeOK, ConfigType
  <2>3. file' \in Image \cup {None, Broken}
    BY <1>8 DEF Boot, TypeOK
  <2>4. pc' \in Phase \cup Writing /\ UNCHANGED reason
    BY <1>8 DEF Boot, Phase, Writing
  <2>5. RamCleared
    BY <1>8 DEF Boot
  <2> QED BY <2>1, <2>2, <2>3, <2>4, <2>5, ClearedType DEF TypeOK
<1> QED BY <1>1, <1>2, <1>3, <1>4, <1>5, <1>6, <1>7, <1>8 DEF Loop

\* Every step keeps the types.
LEMMA NextType == TypeOK /\ [Next]_vars => TypeOK'
<1> SUFFICES ASSUME TypeOK, [Next]_vars PROVE TypeOK'
  OBVIOUS
<1>1. CASE PowerLoss
  <2>1. ConfigType'
    BY <1>1 DEF PowerLoss, WriteEnds, TypeOK, ConfigType
  <2>2. pc' = "reset" /\ reason' = "power" /\ config' = Default /\ file' = file
        /\ RamCleared
    BY <1>1 DEF PowerLoss
  <2> QED BY <2>1, <2>2, ClearedType, Parameters DEF TypeOK
<1>2. CASE UNCHANGED vars
  BY <1>2 DEF vars, TypeOK, ConfigType, volume, document, msc, web, cfg
<1> QED BY <1>1, <1>2, LoopType, TickType, HostType, WebType DEF Next

\* The types hold when the device is switched on.
LEMMA InitType == Init => TypeOK
<1> SUFFICES ASSUME Init PROVE TypeOK
  OBVIOUS
<1>1. 0 \in 0..IdleTimeout /\ 0 \in 0..RebootDelay /\ 0 \in 0..ConfigDelay
      /\ 0 \in 0..MaxWrites
  BY Parameters
<1> QED BY <1>1, Parameters DEF Init, TypeOK, ConfigType

\* Type correctness: the phases, files and countdowns of the main loop stay in
\* their ranges.
THEOREM TypeCorrect == Spec => []TypeOK
BY InitType, NextType, PTL DEF Spec

-----------------------------------------------------------------------------
(***************************************************************************)
(* The reboot after a WebUSB update keeps an accepted configuration.       *)
(***************************************************************************)
\* The invariant holds when the device is switched on.
LEMMA InitReboot == Init => RebootInv
BY InitType DEF Init, RebootInv, Deadlines, AppliedFirst, WebRebootKeepsConfig

\* The countdowns run together: the earlier deadline stays the earlier one.
LEMMA TickReboot == RebootInv /\ Tick => Deadlines'
<1> SUFFICES ASSUME RebootInv, Tick, (pending # None /\ session = "committed")'
             PROVE  configLeft' <= rebootLeft'
  BY DEF Deadlines
<1>1. configLeft \in Nat /\ rebootLeft \in Nat /\ configLeft <= rebootLeft
  BY Parameters DEF Tick, RebootInv, TypeOK, Deadlines
<1>2. configLeft' = Elapse(configLeft) /\ rebootLeft' = Elapse(rebootLeft)
  BY DEF Tick
<1> QED BY <1>1, <1>2 DEF Elapse

\* Every step preserves the invariant.
LEMMA NextReboot == RebootInv /\ [Next]_vars => RebootInv'
<1> SUFFICES ASSUME RebootInv, [Next]_vars
             PROVE  (Deadlines /\ AppliedFirst /\ WebRebootKeepsConfig)'
  BY NextType DEF RebootInv
<1>t. TypeOK /\ Deadlines /\ AppliedFirst /\ WebRebootKeepsConfig
  BY DEF RebootInv
<1>1. CASE Tick
  <2>1. pc' = "usb"
    BY <1>1 DEF Tick
  <2> QED BY <1>1, <2>1, TickReboot DEF AppliedFirst, WebRebootKeepsConfig
<1>2. CASE StageWebConfig
  BY <1>2 DEF StageWebConfig, StageAllowed, web, Deadlines, AppliedFirst,
              WebRebootKeepsConfig
<1>3. CASE WebRequest
  <2>1. pc' = "web"
    BY <1>3 DEF WebRequest
  <2>2. session' = "committed" => rebootLeft' = RebootDelay
    BY <1>3 DEF WebRequest
  <2>3. UNCHANGED configLeft /\ configLeft \in 0..ConfigDelay
    BY <1>3, <1>t DEF WebRequest, cfg, TypeOK
  <2>4. Deadlines'
    BY <2>2, <2>3, AppAssumption DEF Deadlines
  <2> QED BY <2>1, <2>4 DEF AppliedFirst, WebRebootKeepsConfig
<1>4. CASE HostWrites \/ HostSyncs \/ HostLoads \/ UsbDone \/ WebDone
  BY <1>4, <1>t DEF HostWrites, HostSyncs, HostLoads, UsbDone, WebDone, web, cfg,
                    Deadlines, AppliedFirst, WebRebootKeepsConfig
<1>5. CASE ApplyPendingWebConfig
  BY <1>5 DEF ApplyPendingWebConfig, Deadlines, AppliedFirst, WebRebootKeepsConfig
<1>6. CASE NoConfigDue
  <2>1. pending # None => configLeft > 0
    BY <1>6, <1>t, Parameters DEF NoConfigDue, ConfigDue, TypeOK
  <2> QED BY <1>6, <1>t, <2>1 DEF NoConfigDue, web, cfg, Deadlines, AppliedFirst,
                                  WebRebootKeepsConfig
<1>7. CASE WebReboot
  <2>1. pending = None
    BY <1>7, <1>t, Parameters
       DEF WebReboot, RebootDue, TypeOK, Deadlines, AppliedFirst
  <2> QED BY <1>7, <2>1 DEF WebReboot, cfg, Deadlines, AppliedFirst,
                            WebRebootKeepsConfig
<1>8. CASE NoRebootDue \/ NoCheckDue
  BY <1>8, <1>t DEF NoRebootDue, NoCheckDue, web, cfg, Deadlines, AppliedFirst,
                    WebRebootKeepsConfig
<1>9. CASE CheckVolume \/ CheckFails \/ DefaultCreated
  <2>1. pc' \in {"usb", "create"} \/ (pc' = "reset" /\ reason' = "check")
    BY <1>9 DEF CheckVolume, CheckFails, DefaultCreated, ValidateUpdateFile, Resume
  <2>2. UNCHANGED <<web, pending, configLeft>>
    BY <1>9 DEF CheckVolume, CheckFails, DefaultCreated
  <2> QED BY <1>t, <2>1, <2>2 DEF web, Deadlines, AppliedFirst, WebRebootKeepsConfig
<1>10. CASE Boot \/ PowerLoss
  BY <1>10 DEF Boot, PowerLoss, RamCleared, Deadlines, AppliedFirst,
               WebRebootKeepsConfig
<1>11. CASE WriteConfigFile \/ Booted
  <2>1. UNCHANGED <<web, cfg>> /\ pc' \notin {"reset", "reboot"}
        /\ (pc' = "save" => pc = "save")
    BY <1>11 DEF WriteConfigFile, Booted, Writing
  <2> QED BY <1>t, <2>1 DEF web, cfg, Deadlines, AppliedFirst, WebRebootKeepsConfig
<1>12. CASE ConfigSaved
  <2>1. pending = None
    BY <1>12, <1>t DEF ConfigSaved, AppliedFirst
  <2> QED BY <1>12, <2>1 DEF ConfigSaved, Deadlines, AppliedFirst, WebRebootKeepsConfig
<1>13. CASE UNCHANGED vars
  BY <1>13, <1>t DEF vars, web, cfg, Deadlines, AppliedFirst, WebRebootKeepsConfig
<1> QED
  BY <1>1, <1>2, <1>3, <1>4, <1>5, <1>6, <1>7, <1>8, <1>9, <1>10, <1>11, <1>12, <1>13
     DEF Next, Loop

\* main.c applies a pending configuration before it asks for a reboot, and a
\* SET_CONFIG is accepted only outside a session: the reboot after a WebUSB
\* update never drops one, for all delays with ConfigDelay <= RebootDelay.
THEOREM RebootSafety == Spec => []WebRebootKeepsConfig
<1>1. RebootInv => WebRebootKeepsConfig
  BY DEF RebootInv
<1> QED BY <1>1, InitReboot, NextReboot, PTL DEF Spec

-----------------------------------------------------------------------------
(***************************************************************************)
(* The three sources of the configuration, and the reset after a check.    *)
(***************************************************************************)
\* The reset after a check leaves nothing in RAM: the bootloader finds the file
\* that the application validated.
THEOREM CheckedFileIsDurable == Spec => []ResetIsDurable
<1>1. Init => ResetIsDurable
  BY DEF Init, ResetIsDurable
<1>2. ResetIsDurable /\ [Next]_vars => ResetIsDurable'
  <2> SUFFICES ASSUME ResetIsDurable, [Next]_vars, (pc = "reset" /\ reason = "check")'
               PROVE  file' \in Image /\ ~dirty'
    BY DEF ResetIsDurable
  <2>1. CASE CheckVolume
    BY <2>1 DEF CheckVolume, ValidateUpdateFile, Resume, Sync
  <2>2. CASE CheckFails
    BY <2>2 DEF CheckFails, Resume
  <2>3. CASE DefaultCreated
    BY <2>3 DEF DefaultCreated, ValidateUpdateFile, Resume
  <2>4. CASE UNCHANGED vars
    BY <2>4 DEF ResetIsDurable, vars, volume
  <2>5. CASE Tick \/ HostWrites \/ HostSyncs \/ HostLoads \/ WebRequest \/ StageWebConfig
    BY <2>5 DEF Tick, HostWrites, HostSyncs, HostLoads, WebRequest, StageWebConfig
  <2>6. CASE UsbDone \/ WebDone \/ ApplyPendingWebConfig \/ NoConfigDue
             \/ NoRebootDue \/ NoCheckDue \/ Boot
    BY <2>6 DEF UsbDone, WebDone, ApplyPendingWebConfig, NoConfigDue, NoRebootDue,
                NoCheckDue, Boot
  <2>7. CASE WriteConfigFile \/ ConfigSaved \/ Booted
    BY <2>7 DEF WriteConfigFile, Writing, ConfigSaved, Booted
  <2>8. CASE WebReboot \/ PowerLoss
    BY <2>8 DEF WebReboot, PowerLoss
  <2> QED BY <2>1, <2>2, <2>3, <2>4, <2>5, <2>6, <2>7, <2>8 DEF Next, Loop
<1> QED BY <1>1, <1>2, PTL DEF Spec

\* The calls of write_config_file: what is in the two files when they return.
LEMMA WriteReplaces ==
  ASSUME ConfigType, Replacing, WriteStep
  PROVE  /\ step' # "idle" /\ doc' = doc
         /\ step' \in {"rename", "replace"} => tempFile' \in {doc, Broken}
         /\ step' = "ok" => configFile' \in {doc, Broken}
         /\ step' = "error" => failed'
<1>1. CASE WriteTemp \/ WriteTempShort
  BY <1>1 DEF WriteTemp, WriteTempShort
<1>2. CASE RenameTemp \/ RemoveOld \/ ReplaceOld
  BY <1>2 DEF RenameTemp, RemoveOld, ReplaceOld, Replacing
<1>3. CASE CallFails
  BY <1>3 DEF CallFails
<1> QED BY <1>1, <1>2, <1>3 DEF WriteStep

\* Every step keeps track of the replacement.
LEMMA NextReplacing == ConfigInv /\ [Next]_vars => Replacing'
<1> SUFFICES ASSUME ConfigInv, [Next]_vars PROVE Replacing'
  OBVIOUS
<1>t. TypeOK /\ ConfigType /\ Replacing
  BY DEF ConfigInv, TypeOK
<1>1. CASE UNCHANGED vars
  BY <1>1, <1>t DEF Replacing, vars, volume, document, cfg
<1>2. CASE Tick \/ WebRequest \/ StageWebConfig
  BY <1>2, <1>t DEF Tick, WebRequest, StageWebConfig, Replacing, Writing, volume,
                    document
<1>3. CASE HostWrites \/ HostSyncs \/ HostLoads
  <2>1. pc' = pc /\ pc = "usb" /\ UNCHANGED <<tempFile, step, doc>>
    BY <1>3 DEF HostWrites, HostSyncs, HostLoads, volume, document
  <2> QED BY <1>t, <2>1 DEF Replacing, Writing
<1>4. CASE UsbDone \/ WebDone \/ NoConfigDue \/ NoRebootDue \/ NoCheckDue
  BY <1>4, <1>t DEF UsbDone, WebDone, NoConfigDue, NoRebootDue, NoCheckDue, Replacing,
                    Writing, volume, document
<1>5. CASE ApplyPendingWebConfig
  BY <1>5, <1>t DEF ApplyPendingWebConfig, SaveConfig, SaveConfigFails, WriteBegins,
                    document, Replacing, Writing
<1>6. CASE WriteConfigFile
  BY <1>6, <1>t, WriteReplaces DEF WriteConfigFile, Replacing, cfg
<1>7. CASE ConfigSaved \/ Booted \/ DefaultCreated \/ PowerLoss
  <2>1. step' = "idle" /\ pc' \notin Writing
    BY <1>7 DEF ConfigSaved, Booted, DefaultCreated, PowerLoss, WriteEnds,
                ValidateUpdateFile, Resume, Writing
  <2> QED BY <2>1 DEF Replacing, Writing
<1>8. CASE WebReboot \/ CheckFails
  <2>1. step = "idle" /\ step' = step /\ pc' \notin Writing
    BY <1>8, <1>t DEF WebReboot, CheckFails, ValidateUpdateFile, Resume, Replacing,
                      Writing, document
  <2> QED BY <2>1 DEF Replacing, Writing
<1>9. CASE CheckVolume
  <2>1. step = "idle"
    BY <1>9, <1>t DEF CheckVolume, Replacing, Writing
  <2>2. CASE configFile # None
    BY <1>9, <2>1, <2>2 DEF CheckVolume, ValidateUpdateFile, Resume, Replacing, Writing,
                            document
  <2>3. CASE configFile = None
    BY <1>9, <2>3 DEF CheckVolume, WriteBegins, Replacing, Writing
  <2> QED BY <2>2, <2>3
<1>10. CASE Boot
  <2>1. step = "idle"
    BY <1>10, <1>t DEF Boot, Replacing, Writing
  <2> QED BY <1>10, <2>1 DEF Boot, Replacing, Writing
<1> QED
  BY <1>1, <1>2, <1>3, <1>4, <1>5, <1>6, <1>7, <1>8, <1>9, <1>10 DEF Next, Loop

\* Every step keeps the active configuration and SYSTEM.JSON together.
LEMMA NextConfig == ConfigInv /\ [Next]_vars => ConfigMatchesFile'
<1> SUFFICES ASSUME ConfigInv, [Next]_vars, (pc \in Phase /\ ~unchecked /\ ~failed)'
             PROVE  configFile' \in {config', Broken}
  BY DEF ConfigMatchesFile
<1>t. TypeOK /\ ConfigType /\ Replacing /\ ConfigMatchesFile
  BY DEF ConfigInv, TypeOK
<1>1. CASE UNCHANGED vars
  BY <1>1, <1>t DEF ConfigMatchesFile, vars, volume, document, msc, cfg
<1>2. CASE Tick \/ WebRequest \/ StageWebConfig
  BY <1>2, <1>t DEF Tick, WebRequest, StageWebConfig, ConfigMatchesFile, volume,
                    document, msc, cfg
<1>3. CASE HostWrites \/ HostSyncs \/ HostLoads
  BY <1>3, <1>t DEF HostWrites, HostSyncs, HostLoads, Sync, SyncFails,
                    ConfigMatchesFile, volume, document, cfg
<1>4. CASE UsbDone \/ WebDone \/ NoConfigDue \/ NoRebootDue \/ NoCheckDue
  <2>1. pc \in Phase
    BY <1>4 DEF UsbDone, WebDone, NoConfigDue, NoRebootDue, NoCheckDue, Phase
  <2>2. UNCHANGED <<volume, msc, cfg, failed>>
    BY <1>4 DEF UsbDone, WebDone, NoConfigDue, NoRebootDue, NoCheckDue
  <2> QED BY <1>t, <2>1, <2>2 DEF ConfigMatchesFile, volume, document, msc, cfg
<1>5. CASE ApplyPendingWebConfig
  BY <1>5 DEF ApplyPendingWebConfig, SaveConfigFails, Phase
<1>6. CASE WriteConfigFile \/ WebReboot \/ PowerLoss
  BY <1>6 DEF WriteConfigFile, WebReboot, PowerLoss, Writing, Phase
<1>7. CASE ConfigSaved
  <2>1. step = "ok"
    BY <1>7, <1>t DEF ConfigSaved, Result, Replacing
  <2> QED BY <1>7, <1>t, <2>1 DEF ConfigSaved, Replacing
<1>8. CASE Booted
  <2>1. UNCHANGED <<configFile, config>>
    BY <1>8 DEF Booted, cfg
  <2>2. step # "error"
    BY <1>8, <1>t DEF Booted, Sync, SyncFails, Replacing
  <2> QED BY <1>8, <1>t, <2>1, <2>2 DEF Booted, Result, Replacing
<1>9. CASE DefaultCreated
  <2>1. step = "ok"
    BY <1>9, <1>t DEF DefaultCreated, Result, Replacing
  <2> QED BY <1>9, <1>t, <2>1 DEF DefaultCreated, Replacing
<1>10. CASE CheckFails
  BY <1>10 DEF CheckFails
<1>11. CASE CheckVolume
  <2>1. configFile # None /\ LoadSystemConfig /\ UNCHANGED document
    BY <1>11 DEF CheckVolume, Phase
  <2> QED BY <1>t, <2>1 DEF LoadSystemConfig, Parsed, document, ConfigType
<1>12. CASE Boot
  <2>1. /\ configFile' # None
        /\ config' = (IF configFile' \in Config THEN configFile' ELSE Default)
    BY <1>12 DEF Boot, Phase
  <2>2. configFile' \in Config \cup {None, Broken}
    BY <1>t, NextType DEF TypeOK, ConfigType
  <2> QED BY <2>1, <2>2
<1> QED
  BY <1>1, <1>2, <1>3, <1>4, <1>5, <1>6, <1>7, <1>8, <1>9, <1>10, <1>11, <1>12
     DEF Next, Loop

\* Boot, the check of the volume and SET_CONFIG all leave the active
\* configuration equal to the document, whatever order they come in and
\* although the document is replaced in steps.
THEOREM ConfigAgreement == Spec => []ConfigMatchesFile
<1>1. Init => ConfigInv
  BY InitType DEF Init, ConfigInv, Replacing, Writing, ConfigMatchesFile, Phase
<1>2. ConfigInv /\ [Next]_vars => ConfigInv'
  BY NextType, NextReplacing, NextConfig DEF ConfigInv
<1>3. ConfigInv => ConfigMatchesFile
  BY DEF ConfigInv
<1> QED BY <1>1, <1>2, <1>3, PTL DEF Spec

-----------------------------------------------------------------------------
(***************************************************************************)
(* What the program owes to ConfigLands and UpdateTriggersReset: nothing   *)
(* that was accepted is forgotten, and no phase of the loop waits.         *)
(***************************************************************************)

\* What write_config_file has written, unless something failed in this boot.
Stored ==
  /\ step \in {"rename", "replace"} => tempFile = doc \/ failed
  /\ step = "ok" => configFile = doc \/ failed

SaveInv == ConfigInv /\ Stored

LEMMA NextStored == ConfigInv /\ Stored /\ [Next]_vars => Stored'
<1> SUFFICES ASSUME ConfigInv, Stored, [Next]_vars PROVE Stored'
  OBVIOUS
<1>t. Replacing
  BY DEF ConfigInv
<1>1. CASE step' \in {"idle", "write"}
  BY <1>1 DEF Stored
<1>2. CASE WriteConfigFile
  BY <1>2 DEF WriteConfigFile, WriteStep, WriteTemp, WriteTempShort, RenameTemp, RemoveOld,
              ReplaceOld, CallFails, Stored
<1>3. CASE pc \notin Writing /\ step' = step
  BY <1>t, <1>3 DEF Replacing, Stored
<1>4. CASE UNCHANGED vars
  BY <1>4 DEF vars, volume, document, Stored
<1>5. CASE ConfigSaved \/ DefaultCreated \/ Booted \/ PowerLoss
  BY <1>1, <1>5 DEF ConfigSaved, DefaultCreated, Booted, PowerLoss, WriteEnds
<1>6. CASE ApplyPendingWebConfig \/ CheckVolume \/ Boot
  <2>1. pc \notin Writing /\ (step' = step \/ step' = "write")
    BY <1>6 DEF ApplyPendingWebConfig, SaveConfig, SaveConfigFails, CheckVolume, Boot,
                WriteBegins, document, Writing
  <2> QED BY <1>1, <1>3, <2>1
<1>7. CASE Tick \/ HostWrites \/ HostSyncs \/ HostLoads \/ WebRequest \/ StageWebConfig
  BY <1>3, <1>7 DEF Tick, HostWrites, HostSyncs, HostLoads, WebRequest, StageWebConfig,
                    volume, document, Writing
<1>8. CASE UsbDone \/ WebDone \/ NoConfigDue \/ NoRebootDue \/ NoCheckDue
           \/ WebReboot \/ CheckFails
  BY <1>3, <1>8 DEF UsbDone, WebDone, NoConfigDue, NoRebootDue, NoCheckDue, WebReboot,
                    CheckFails, volume, document, Writing
<1> QED
  BY <1>2, <1>4, <1>5, <1>6, <1>7, <1>8 DEF Next, Loop

LEMMA SaveInvariant == Spec => []SaveInv
<1>1. Init => SaveInv
  BY InitType DEF Init, SaveInv, Stored, ConfigInv, Replacing, Writing, ConfigMatchesFile,
                  Phase
<1>2. SaveInv /\ [Next]_vars => SaveInv'
  BY NextType, NextReplacing, NextConfig, NextStored DEF SaveInv, ConfigInv
<1> QED BY <1>1, <1>2, PTL DEF Spec

\* An accepted configuration waits, and nobody puts its deadline off or puts
\* another one in its place.
Waits == pending' = pending /\ configLeft' <= configLeft
Begins == pc = "config" /\ pc' = "save" /\ doc' = pending

LEMMA PendingKept ==
  ASSUME TypeOK, Next, pending # None, pc' # "reset", pc # "reset", ~failed'
  PROVE  Waits \/ Begins
<1>1. configLeft \in Nat
  BY Parameters DEF TypeOK
<1>2. CASE UNCHANGED <<pending, configLeft>>
  BY <1>1, <1>2 DEF Waits
<1>3. CASE Tick
  BY <1>1, <1>3 DEF Tick, Elapse, Waits
<1>4. CASE ApplyPendingWebConfig
  BY <1>4 DEF ApplyPendingWebConfig, SaveConfig, SaveConfigFails, WriteBegins, Begins
<1>5. ~(StageWebConfig \/ Boot \/ PowerLoss)
  BY DEF StageWebConfig, StageAllowed, Boot, PowerLoss
<1>6. CASE HostWrites \/ HostSyncs \/ HostLoads \/ WebRequest
  BY <1>2, <1>6 DEF HostWrites, HostSyncs, HostLoads, WebRequest, cfg
<1>7. CASE UsbDone \/ WebDone \/ NoConfigDue \/ NoRebootDue \/ NoCheckDue \/ WebReboot
  BY <1>2, <1>7 DEF UsbDone, WebDone, NoConfigDue, NoRebootDue, NoCheckDue, WebReboot, cfg
<1>8. CASE WriteConfigFile \/ ConfigSaved \/ DefaultCreated \/ CheckVolume \/ CheckFails
           \/ Booted
  BY <1>2, <1>8 DEF WriteConfigFile, ConfigSaved, DefaultCreated, CheckVolume, CheckFails,
                    Booted, cfg
<1> QED BY <1>3, <1>4, <1>5, <1>6, <1>7, <1>8 DEF Next, Loop

\* A save goes on with its document until that is SYSTEM.JSON and active.
LEMMA SaveCompletes ==
  ASSUME SaveInv, Next, pc = "save", pc' # "reset", ~failed'
  PROVE  \/ pc' = "save" /\ doc' = doc
         \/ configFile' = doc /\ config' = doc
<1>1. Stored /\ Replacing
  BY DEF SaveInv, ConfigInv
<1>2. CASE WriteConfigFile
  <2>1. doc' = doc
    BY <1>2 DEF WriteConfigFile, WriteStep, WriteTemp, WriteTempShort, RenameTemp,
                RemoveOld, ReplaceOld, CallFails
  <2> QED BY <1>2, <2>1 DEF WriteConfigFile
<1>3. CASE ConfigSaved
  <2>1. UNCHANGED <<configFile, failed>>
    BY <1>3 DEF ConfigSaved
  <2>2. step = "ok"
    BY <1>1, <1>3, <2>1 DEF ConfigSaved, Result, Replacing
  <2> QED BY <1>1, <1>3, <2>1, <2>2 DEF ConfigSaved, Stored
<1>4. ~(PowerLoss \/ Tick \/ HostWrites \/ HostSyncs \/ HostLoads \/ WebRequest
        \/ StageWebConfig)
  BY DEF PowerLoss, Tick, HostWrites, HostSyncs, HostLoads, WebRequest, StageWebConfig
<1>5. ~(UsbDone \/ WebDone \/ ApplyPendingWebConfig \/ NoConfigDue \/ DefaultCreated
        \/ WebReboot \/ NoRebootDue \/ CheckVolume \/ CheckFails \/ NoCheckDue
        \/ Boot \/ Booted)
  BY DEF UsbDone, WebDone, ApplyPendingWebConfig, NoConfigDue, DefaultCreated, WebReboot,
         NoRebootDue, CheckVolume, CheckFails, NoCheckDue, Boot, Booted
<1> QED BY <1>2, <1>3, <1>4, <1>5 DEF Next, Loop

\* apply_pending_web_config, write_config_file: between a SET_CONFIG answered with
\* OK and its document in SYSTEM.JSON and in force there is only a reset or an
\* error.  An OK of write_config_file means the document, unless f_write stored
\* less (PartialIsRejected, which the code breaks, leaves that out).
THEOREM AcceptedIsWritten ==
  Spec => /\ [](step = "ok" /\ ~failed => configFile = doc)
          /\ [][pending # None => \/ Waits \/ Begins
                                  \/ pc' = "reset" \/ pc = "reset" \/ failed']_vars
          /\ [][pc = "save" => \/ pc' = "save" /\ doc' = doc
                               \/ configFile' = doc /\ config' = doc
                               \/ pc' = "reset" \/ failed']_vars
<1>1. SaveInv => (step = "ok" /\ ~failed => configFile = doc)
  BY DEF SaveInv, Stored
<1>2. SaveInv /\ [Next]_vars =>
        [pending # None => \/ Waits \/ Begins
                           \/ pc' = "reset" \/ pc = "reset" \/ failed']_vars
  BY PendingKept DEF SaveInv, ConfigInv
<1>3. SaveInv /\ [Next]_vars =>
        [pc = "save" => \/ pc' = "save" /\ doc' = doc
                        \/ configFile' = doc /\ config' = doc
                        \/ pc' = "reset" \/ failed']_vars
  BY SaveCompletes
<1> QED BY <1>1, <1>2, <1>3, SaveInvariant, PTL DEF Spec

-----------------------------------------------------------------------------
FileWaits == file \in Image /\ pc \notin {"reset", "create"} => unchecked \/ failed

LEMMA NextFileWaits ==
  ASSUME FileWaits, [Next]_vars
  PROVE  FileWaits'
<1> SUFFICES ASSUME file' \in Image, pc' \notin {"reset", "create"}
             PROVE  unchecked' \/ failed'
  BY DEF FileWaits
<1>1. CASE UNCHANGED <<file, unchecked, failed>> /\ pc \notin {"reset", "create"}
  BY <1>1 DEF FileWaits
<1>2. CASE HostWrites
  BY <1>2 DEF HostWrites, FileWaits, volume
<1>3. CASE HostSyncs
  BY <1>3 DEF HostSyncs, Sync, SyncFails, FileWaits
<1>4. CASE UsbDone \/ WebDone \/ NoConfigDue \/ NoRebootDue \/ NoCheckDue
  BY <1>1, <1>4 DEF UsbDone, WebDone, NoConfigDue, NoRebootDue, NoCheckDue, volume, msc
<1>5. CASE Tick \/ HostLoads \/ WebRequest \/ StageWebConfig
  BY <1>1, <1>5 DEF Tick, HostLoads, WebRequest, StageWebConfig, volume, msc
<1>6. CASE ApplyPendingWebConfig
  BY <1>6 DEF ApplyPendingWebConfig, SaveConfig, Sync, SaveConfigFails, FileWaits
<1>7. CASE WriteConfigFile
  BY <1>7 DEF WriteConfigFile, WriteStep, WriteTemp, WriteTempShort, RenameTemp, RemoveOld,
              ReplaceOld, CallFails, FileWaits, msc
<1>8. CASE ConfigSaved
  BY <1>1, <1>8 DEF ConfigSaved
<1>9. CASE Booted
  BY <1>9 DEF Booted, Sync, SyncFails, FileWaits, msc
<1>10. CASE CheckVolume \/ CheckFails \/ DefaultCreated
  BY <1>10 DEF CheckVolume, CheckFails, DefaultCreated, ValidateUpdateFile
<1>11. CASE WebReboot \/ PowerLoss
  BY <1>11 DEF WebReboot, PowerLoss
<1>12. CASE Boot
  BY <1>12, Parameters DEF Boot
<1>13. CASE UNCHANGED vars
  BY <1>13 DEF vars, volume, msc, FileWaits
<1> QED
  BY <1>2, <1>3, <1>4, <1>5, <1>6, <1>7, <1>8, <1>9, <1>10, <1>11, <1>12, <1>13
     DEF Next, Loop

\* tud_msc_write10_cb, the check of the loop: a complete FIRMWARE.OTA is never
\* forgotten.  While the loop runs it is still to be checked, or an operation on
\* the volume has failed; only the reset that installs it ends this.
THEOREM NoFileForgotten == Spec => []FileWaits
<1>1. Init => FileWaits
  BY DEF Init, FileWaits
<1> QED BY <1>1, NextFileWaits, PTL DEF Spec

-----------------------------------------------------------------------------
\* Steps to the end of write_config_file, and of the body.
WriteSteps ==
  CASE step = "write" -> 3
    [] step = "rename" -> 2
    [] step = "replace" -> 1
    [] OTHER -> 0

BodySteps ==
  CASE pc = "web" -> 17
    [] pc = "config" -> 16
    [] pc = "save" -> 12 + WriteSteps
    [] pc = "reboot" -> 11
    [] pc = "check" -> 10
    [] pc = "create" -> 6 + WriteSteps
    [] pc = "reset" -> 5
    [] pc = "first" -> 1 + WriteSteps
    [] OTHER -> 0

LEMMA BodyForward ==
  ASSUME Loop, pc # "usb"
  PROVE  BodySteps' < BodySteps
<1>1. WriteSteps \in 0..3 /\ WriteSteps' \in 0..3
  BY DEF WriteSteps
<1>2. CASE WriteConfigFile
  <2>1. WriteSteps' < WriteSteps
    BY <1>2 DEF WriteConfigFile, WriteStep, WriteTemp, WriteTempShort, RenameTemp,
                RemoveOld, ReplaceOld, CallFails, WriteSteps
  <2>2. pc' = pc /\ pc \in {"save", "create", "first"}
    BY <1>2 DEF WriteConfigFile, Writing
  <2> QED BY <1>1, <2>1, <2>2 DEF BodySteps
<1>3. CASE UsbDone \/ WebDone \/ ApplyPendingWebConfig \/ NoConfigDue
  <2>1. pc # "web" => pc = "config" /\ pc' \in {"save", "reboot"}
    BY <1>3 DEF UsbDone, WebDone, ApplyPendingWebConfig, NoConfigDue
  <2>2. pc = "web" => pc' = "config"
    BY <1>3 DEF UsbDone, WebDone, ApplyPendingWebConfig, NoConfigDue
  <2> QED BY <1>1, <2>1, <2>2 DEF BodySteps
<1>4. CASE ConfigSaved \/ DefaultCreated \/ Booted
  <2>1. \/ pc = "save" /\ pc' = "reboot"
        \/ pc = "create" /\ pc' \in {"usb", "reset"}
        \/ pc = "first" /\ pc' = "usb"
    BY <1>4 DEF ConfigSaved, DefaultCreated, Booted, ValidateUpdateFile, Resume
  <2> QED BY <1>1, <2>1 DEF BodySteps
<1>5. CASE WebReboot \/ NoRebootDue
  BY <1>5 DEF WebReboot, NoRebootDue, BodySteps
<1>6. CASE CheckVolume \/ CheckFails \/ NoCheckDue
  <2>1. pc = "check" /\ pc' \in {"usb", "reset", "create"}
    BY <1>6 DEF CheckVolume, CheckFails, NoCheckDue, ValidateUpdateFile, Resume
  <2> QED BY <1>1, <2>1 DEF BodySteps
<1>7. CASE Boot
  <2>1. pc = "reset" /\ pc' \in {"usb", "first"}
    BY <1>7 DEF Boot
  <2> QED BY <1>1, <2>1 DEF BodySteps
<1> QED BY <1>2, <1>3, <1>4, <1>5, <1>6, <1>7 DEF Loop

\* main: whatever fails, the loop comes back to tud_task, from any phase, from the
\* middle of a save and from a reset, in a bounded number of steps of its own.
THEOREM BodyEnds ==
  Spec => /\ [](BodySteps \in 0..17)
          /\ [][Loop /\ pc # "usb" => BodySteps' < BodySteps]_vars
<1>1. BodySteps \in 0..17
  BY DEF BodySteps, WriteSteps
<1>2. [Next]_vars => [Loop /\ pc # "usb" => BodySteps' < BodySteps]_vars
  BY BodyForward
<1> QED BY <1>1, <1>2, PTL DEF Spec
=============================================================================
