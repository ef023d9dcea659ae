----------------------------- MODULE AppUpdate ------------------------------
(***************************************************************************)
(* The main loop of the keyboard application                               *)
(* (apps/keyboard/application/main.c) with the mass storage callbacks of   *)
(* components/ota/src/ota_usb_msc.c: the check of the update volume once   *)
(* the host stops writing, the configuration staged over WebUSB, the       *)
(* reboot after a committed WebUSB session, and the resets they cause.     *)
(*                                                                         *)
(* The loop body runs its phases in order; USB events are served in the    *)
(* first two.  Time is counted in coarse ticks and advances between bodies:*)
(* the clock reads of one body are microseconds apart, and two deadlines   *)
(* differ by more, because a sector erase lies between the requests that   *)
(* set them.  The receive session is abstracted to its phase (OtaWebusb),  *)
(* the volume to two files and "has unsaved blocks" (OtaSpiDisk).  The     *)
(* replacement of SYSTEM.JSON is SystemConfig's, step by step.             *)
(***************************************************************************)
EXTENDS Naturals, SystemConfig

CONSTANTS
  Image,        \* valid packages
  Visible,      \* those with usb_disk_visible
  Default,      \* the one that ota_system_config_load creates
  ConfigDelay,  \* OTA_WEB_CONFIG_APPLY_DELAY_MS
  RebootDelay,  \* webusb_reboot_delay_ms
  IdleTimeout,  \* usb_idle_timeout_ms
  MaxWrites     \* bound on the host's writes to the volume, per boot

\* The parser accepts reboot delays from 100 ms on, the fixed ConfigDelay.
ASSUME AppAssumption ==
  /\ {None, Broken} \cap (Image \cup Config) = {}
  /\ None # Broken
  /\ Visible \subseteq Config
  /\ Default \in Visible
  /\ {ConfigDelay, RebootDelay, IdleTimeout, MaxWrites} \subseteq Nat
  /\ ConfigDelay <= RebootDelay
  /\ DiskFails \in BOOLEAN

VARIABLES
  pc,          \* phase of the loop body, or "reset"
  reason,      \* who reset: "power", "web" or "check"
  file,        \* FIRMWARE.OTA as FatFs reads it
  unchecked,   \* write_generation # checked_generation
  ejected,     \* ejected
  idleLeft,    \* ticks until usb_idle_timeout_ms after last_write_ms
  session,     \* WebUSB: "none", "receiving" or "committed"
  rebootLeft,  \* ticks until reboot_deadline
  config,      \* system_config
  pending,     \* pending_config_json, or None: ~config_update_pending
  configLeft,  \* ticks until pending_config_deadline
  writes       \* host writes in this boot (bounds the model)

volume == <<file, document, dirty>>
msc == <<unchecked, ejected, idleLeft>>
web == <<session, rebootLeft>>
cfg == <<config, pending, configLeft>>
vars == <<pc, reason, volume, msc, web, cfg, writes, failed>>

\* The loop's phases, and those that wait for write_config_file to return.
Phase == {"usb", "web", "config", "reboot", "check"}
Writing == {"save", "create", "first"}

TypeOK ==
  /\ ConfigType
  /\ pc \in Phase \cup Writing \cup {"reset"}
  /\ reason \in {"power", "web", "check"}
  /\ file \in Image \cup {None, Broken}
  /\ unchecked \in BOOLEAN
  /\ ejected \in BOOLEAN
  /\ idleLeft \in 0..IdleTimeout
  /\ session \in {"none", "receiving", "committed"}
  /\ rebootLeft \in 0..RebootDelay
  /\ config \in Config
  /\ pending \in Config \cup {None}
  /\ configLeft \in 0..ConfigDelay
  /\ writes \in 0..MaxWrites

\* A device that is switched on for the first time.
Init ==
  /\ pc = "reset"
  /\ reason = "power"
  /\ file = None
  /\ configFile = None /\ tempFile = None /\ dirty = FALSE
  /\ step = "idle" /\ doc = None
  /\ unchecked = FALSE
  /\ ejected = FALSE
  /\ idleLeft = 0
  /\ session = "none"
  /\ rebootLeft = 0
  /\ config = Default
  /\ pending = None
  /\ configLeft = 0
  /\ writes = 0
  /\ failed = FALSE

-----------------------------------------------------------------------------
\* One tick for every deadline.
Countdown(n) == n - 1   \* mutant: runs past the deadline
Elapse(n) == IF n > 0 THEN n - 1 ELSE 0

Tick ==
  /\ pc = "usb"
  /\ \E n \in {idleLeft, rebootLeft, configLeft} : n > 0
  /\ idleLeft' = Elapse(idleLeft)
  /\ rebootLeft' = Elapse(rebootLeft)
  /\ configLeft' = Elapse(configLeft)
  /\ UNCHANGED <<pc, reason, volume, unchecked, ejected, session, config, pending,
                 writes, failed>>

(***************************************************************************)
(* tud_task: the mass storage callbacks.                                   *)
(***************************************************************************)
\* tud_msc_write10_cb: the host writes some blocks of one of the two files.
HostWrites ==
  /\ pc = "usb"
  /\ config \in Visible
  /\ writes < MaxWrites
  /\ writes' = writes + 1
  /\ \/ file' \in Image \cup {None, Broken} /\ UNCHANGED configFile
     \/ configFile' \in Config \cup {None, Broken} /\ UNCHANGED file
  /\ dirty' \in BOOLEAN
  /\ \/ /\ idleLeft' = IdleTimeout
        /\ unchecked' = TRUE
        /\ UNCHANGED failed
     \/ /\ DiskFails     \* some blocks are written, the generation stays
        /\ failed' = TRUE
        /\ UNCHANGED <<idleLeft, unchecked>>
  /\ UNCHANGED <<pc, reason, tempFile, step, doc, ejected, web, cfg>>

\* ota_spi_disk_sync: afterwards nothing is dirty, or it failed.
SyncSkipped == UNCHANGED <<dirty, failed>>   \* mutant: sync does nothing
Sync == dirty' = FALSE /\ UNCHANGED failed
SyncFails == DiskFails /\ failed' = TRUE /\ UNCHANGED dirty

\* tud_msc_start_stop_cb and SYNCHRONIZE CACHE.
HostSyncs ==
  /\ pc = "usb"
  /\ config \in Visible
  /\ ejected' \in {ejected, TRUE}
  /\ Sync \/ SyncFails
  /\ UNCHANGED <<pc, reason, file, document, unchecked, idleLeft, web, cfg, writes>>

HostLoads ==
  /\ pc = "usb"
  /\ config \in Visible
  /\ ejected' = FALSE
  /\ UNCHANGED <<pc, reason, volume, unchecked, idleLeft, web, cfg, writes, failed>>

UsbDone ==
  /\ pc = "usb"
  /\ pc' = "web"
  /\ UNCHANGED <<reason, volume, msc, web, cfg, writes, failed>>

(***************************************************************************)
(* ota_webusb_task.  What BEGIN, DATA, END and ABORT do to the session.    *)
(***************************************************************************)
WebRequest ==
  /\ pc = "web"
  /\ \/ session' = "receiving"                       \* BEGIN
        /\ UNCHANGED rebootLeft
     \/ session = "receiving" /\ session' = "committed"   \* END
        /\ rebootLeft' = RebootDelay
     \/ session' = "none"                            \* ABORT; DATA, END fail
        /\ UNCHANGED rebootLeft
  /\ UNCHANGED <<pc, reason, volume, msc, cfg, writes, failed>>

\* stage_web_config: SET_CONFIG with a valid document.
StageAnytime == pending = None   \* mutant: ota_webusb_is_busy is not asked
StageAllowed == pending = None /\ session = "none"

StageWebConfig ==
  /\ pc = "web"
  /\ StageAllowed
  /\ pending' \in Config
  /\ configLeft' = ConfigDelay
  /\ UNCHANGED <<pc, reason, volume, msc, web, config, writes, failed>>

WebDone ==
  /\ pc = "web"
  /\ pc' = "config"
  /\ UNCHANGED <<reason, volume, msc, web, cfg, writes, failed>>

(***************************************************************************)
(* apply_pending_web_config.  tud_disconnect and tud_connect frame it; the *)
(* host's unfinished copies end as they are.                               *)
(***************************************************************************)
ConfigDue == pending # None /\ configLeft = 0

SaveConfig == Sync /\ WriteBegins(pending)

\* The synchronization before it failed, or f_mount did.
SaveConfigFails ==
  /\ DiskFails
  /\ failed' = TRUE
  /\ dirty' \in BOOLEAN
  /\ UNCHANGED document

ApplyPendingWebConfig ==
  /\ pc = "config"
  /\ ConfigDue
  /\ pending' = None
  /\ \/ SaveConfig /\ pc' = "save" /\ UNCHANGED ejected
     \/ SaveConfigFails /\ pc' = "reboot" /\ ejected' = FALSE
  /\ UNCHANGED <<reason, file, unchecked, idleLeft, web, config, configLeft, writes>>

\* write_config_file is at work for one of its callers.
WriteConfigFile ==
  /\ pc \in Writing
  /\ WriteStep
  /\ UNCHANGED <<pc, reason, file, msc, web, cfg, writes>>

ConfigSaved ==
  /\ pc = "save" /\ step \in Result
  /\ config' = IF step = "ok" THEN doc ELSE config
  /\ WriteEnds
  /\ ejected' = FALSE
  /\ pc' = "reboot"
  /\ UNCHANGED <<reason, file, configFile, dirty, unchecked, idleLeft, web, pending,
                 configLeft, writes, failed>>

NoConfigDue ==
  /\ pc = "config"
  /\ ~ConfigDue
  /\ pc' = "reboot"
  /\ UNCHANGED <<reason, volume, msc, web, cfg, writes, failed>>

(***************************************************************************)
(* ota_webusb_should_reboot: the result of the sync is ignored.            *)
(***************************************************************************)
RebootDue == session = "committed" /\ rebootLeft = 0

WebReboot ==
  /\ pc = "reboot"
  /\ RebootDue
  /\ Sync \/ SyncFails
  /\ pc' = "reset"
  /\ reason' = "web"
  /\ UNCHANGED <<file, document, msc, web, cfg, writes>>

NoRebootDue ==
  /\ pc = "reboot"
  /\ ~RebootDue
  /\ pc' = "check"
  /\ UNCHANGED <<reason, volume, msc, web, cfg, writes, failed>>

-----------------------------------------------------------------------------
(***************************************************************************)
(* The check of the volume.                                                *)
(***************************************************************************)
\* ota_usb_msc_should_check, and the loop's own conditions.
ShouldCheck == unchecked /\ (ejected \/ idleLeft = 0)

CheckDue == config \in Visible /\ session = "none" /\ ShouldCheck

\* ota_system_config_load, apply_system_config.
NotReloaded == UNCHANGED config   \* mutant: load, do not apply
LoadSystemConfig == config' = Parsed(config)

\* ota_usb_msc_resume, tud_connect.
Resume == pc' = "usb" /\ ejected' = FALSE /\ UNCHANGED reason

\* The end of the check.  validate_update_file reads the whole file through the
\* cache: when it succeeds, every other block has been written back.
ValidateUpdateFile ==
  IF file \in Image THEN pc' = "reset" /\ reason' = "check" /\ UNCHANGED ejected
                    ELSE Resume

CheckVolume ==
  /\ pc = "check"
  /\ CheckDue
  /\ Sync
  /\ unchecked' = FALSE
  /\ \/ /\ configFile # None
        /\ LoadSystemConfig
        /\ ValidateUpdateFile
        /\ UNCHANGED document
     \/ /\ configFile = None      \* the default document is created
        /\ WriteBegins(Default)
        /\ pc' = "create"
        /\ UNCHANGED <<reason, ejected, config>>
  /\ UNCHANGED <<file, idleLeft, web, pending, configLeft, writes>>

\* The sync, the load or the validation fails.  The writes count as checked.
CheckFails ==
  /\ pc = "check"
  /\ CheckDue
  /\ DiskFails
  /\ failed' = TRUE
  /\ unchecked' = FALSE
  /\ \/ Resume /\ dirty' \in BOOLEAN
     \/ /\ file \in Image     \* only the load failed
        /\ ValidateUpdateFile
        /\ dirty' = FALSE
  /\ LoadSystemConfig \/ UNCHANGED config
  /\ UNCHANGED <<file, document, idleLeft, web, pending, configLeft, writes>>

DefaultCreated ==
  /\ pc = "create" /\ step \in Result
  /\ config' = IF step = "ok" THEN Default ELSE config
  /\ WriteEnds
  /\ \/ ValidateUpdateFile /\ UNCHANGED failed
        /\ dirty' = IF file \in Image THEN FALSE ELSE dirty
     \/ DiskFails /\ Resume /\ failed' = TRUE /\ dirty' \in BOOLEAN
  /\ UNCHANGED <<file, configFile, unchecked, idleLeft, web, pending,
                 configLeft, writes>>

\* Mutant: writes made during a session count as checked.
NoCheckForgets ==
  /\ pc = "check"
  /\ ~CheckDue
  /\ pc' = "usb"
  /\ unchecked' = (unchecked /\ session = "none")
  /\ UNCHANGED <<reason, volume, ejected, idleLeft, web, cfg, writes, failed>>

NoCheckDue ==
  /\ pc = "check"
  /\ ~CheckDue
  /\ pc' = "usb"
  /\ UNCHANGED <<reason, volume, msc, web, cfg, writes, failed>>

-----------------------------------------------------------------------------
(***************************************************************************)
(* The reset, the bootloader (OtaInstall: a valid file is installed and    *)
(* removed) and main up to the loop.  Unsaved blocks are lost: a file they *)
(* belong to is gone or broken.                                            *)
(***************************************************************************)
\* What the RAM holds starts afresh.
RamCleared ==
  /\ unchecked' = FALSE /\ ejected' = FALSE /\ idleLeft' = 0
  /\ session' = "none" /\ rebootLeft' = 0
  /\ pending' = None /\ configLeft' = 0
  /\ writes' = 0

Boot ==
  /\ pc = "reset"
  /\ \/ file' = (IF file \in Image THEN None ELSE file)
     \/ dirty /\ file' \in {None, Broken}
  /\ configFile' \in {configFile} \cup (IF dirty THEN {None, Broken} ELSE {})
  /\ dirty' = FALSE
  /\ RamCleared
  /\ \/ /\ configFile' # None
        /\ config' = (IF configFile' \in Config THEN configFile' ELSE Default)
        /\ pc' = "usb" /\ UNCHANGED <<step, doc>>
        /\ failed' = FALSE
     \/ /\ configFile' = None      \* the default document is created
        /\ config' = Default
        /\ pc' = "first" /\ step' = "write" /\ doc' = Default
        /\ failed' = FALSE
     \/ /\ DiskFails     \* defaults, until a load succeeds
        /\ config' = Default
        /\ pc' = "usb" /\ UNCHANGED <<step, doc>>
        /\ failed' = TRUE
  /\ UNCHANGED <<reason, tempFile>>

\* load_system_config returns, with the defaults in either case.
Booted ==
  /\ pc = "first" /\ step \in Result
  /\ WriteEnds
  /\ Sync \/ SyncFails
  /\ pc' = "usb"
  /\ UNCHANGED <<reason, file, configFile, msc, web, cfg, writes>>

\* Power fails, perhaps in a call of write_config_file: then blocks of the
\* volume may be torn.
PowerLoss ==
  /\ pc' = "reset"
  /\ reason' = "power"
  /\ dirty' \in {dirty, dirty \/ pc \in Writing}
  /\ WriteEnds
  /\ RamCleared
  /\ config' = Default /\ failed' = FALSE
  /\ UNCHANGED <<file, configFile>>

Loop ==
  \/ UsbDone \/ WebDone
  \/ ApplyPendingWebConfig \/ NoConfigDue
  \/ WriteConfigFile \/ ConfigSaved \/ DefaultCreated
  \/ WebReboot \/ NoRebootDue
  \/ CheckVolume \/ CheckFails \/ NoCheckDue
  \/ Boot \/ Booted

Next ==
  \/ Loop \/ Tick \/ PowerLoss
  \/ HostWrites \/ HostSyncs \/ HostLoads
  \/ WebRequest \/ StageWebConfig

\* The loop goes on, and time passes while it does.
Fairness == WF_vars(Loop) /\ SF_vars(Tick)

Spec == Init /\ [][Next]_vars /\ Fairness

-----------------------------------------------------------------------------
(***************************************************************************)
(* Properties.                                                             *)
(***************************************************************************)

\* Once the host's writes have been checked, and unless a volume operation
\* failed, there is a document, and the active configuration is the one in it
\* if it is valid: the three ways to change it (boot, check, WebUSB) never
\* leave the two apart, although the old document is removed before the new
\* one takes its name.
ConfigMatchesFile ==
  pc \in Phase /\ ~unchecked /\ ~failed => configFile \in {config, Broken}

\* README, "System configuration": a SET_CONFIG that was answered with OK is
\* written and becomes active, unless the device is reset before, a volume
\* operation fails, or the volume is full.
ConfigLands ==
  \A c \in Config :
    pending = c ~> \/ configFile = c /\ config = c
                   \/ pc = "reset" \/ failed

\* README, "System configuration": "A malformed or partially written document is
\* rejected".  When write_config_file returns OK, SYSTEM.JSON is the document.
PartialIsRejected == step = "ok" => configFile = doc

\* The reset after a check leaves nothing of the volume in RAM: the bootloader
\* finds the file that was validated, whatever failed before.
ResetIsDurable == pc = "reset" /\ reason = "check" => file \in Image /\ ~dirty

\* The reboot after a WebUSB update never drops an accepted configuration:
\* SET_CONFIG is refused during a session, its delay is not the longer one, and
\* the loop applies it first.
WebRebootKeepsConfig == pc = "reset" /\ reason = "web" => pending = None

\* README, "Copy that exact file": once the host stops writing, a complete file
\* leads to a reset, unless the disk is hidden or a volume operation fails.  A
\* WebUSB session puts the reset off, which README does not say, but does not
\* make the loop forget it: only sessions that never end for good, as one that
\* its page left open, prevent it.
UpdateTriggersReset ==
  unchecked /\ file \in Image
    ~> \/ pc = "reset" \/ file \notin Image
       \/ config \notin Visible \/ failed
       \/ []<>(session # "none")

\* README, "System configuration": a configuration saved from the WebUSB tool
\* replaces the document.  No reset by the program comes in between.
ResetKeepsConfig == pc = "reset" /\ reason # "power" => pending = None

-----------------------------------------------------------------------------
(***************************************************************************)
(* The inductive invariants of AppUpdate_proofs: behind                    *)
(* WebRebootKeepsConfig,                                                   *)
(***************************************************************************)
Deadlines ==
  pending # None /\ session = "committed" => configLeft <= rebootLeft

AppliedFirst ==
  /\ pc = "reboot" /\ pending # None => configLeft > 0
  /\ pc = "save" => pending = None

RebootInv == TypeOK /\ Deadlines /\ AppliedFirst /\ WebRebootKeepsConfig

\* And behind ConfigMatchesFile: what write_config_file has done so far.
Replacing ==
  /\ pc \in Writing <=> step # "idle"
  /\ step \in {"rename", "replace"} => tempFile \in {doc, Broken}
  /\ step = "ok" => configFile \in {doc, Broken}
  /\ step = "error" => failed
  /\ pc \in {"create", "first"} => doc = Default
  /\ pc = "first" => config = Default

ConfigInv == TypeOK /\ Replacing /\ ConfigMatchesFile
=============================================================================
