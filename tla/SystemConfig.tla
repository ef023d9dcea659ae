---------------------------- MODULE SystemConfig ----------------------------
(***************************************************************************)
(* SYSTEM.JSON and its replacement                                         *)
(* (apps/keyboard/application/ota_system_config.c): write_config_file in   *)
(* the calls of FatFs that change the volume, each of which may report an  *)
(* error.  FatFs is external: f_write on a full volume returns FR_OK and a *)
(* smaller count; f_unlink, f_rename, f_sync and f_close save what they    *)
(* change (CTRL_SYNC).  A left-over SYSTEM.TMP is not kept: the next write *)
(* removes or truncates it.  Callers are the phases of AppUpdate.          *)
(***************************************************************************)
CONSTANTS
  Config,       \* valid SYSTEM.JSON documents
  None,         \* a file that does not exist, no pending configuration
  Broken,       \* a file that is partly written or invalid
  DiskFails     \* volume operations may report an error

VARIABLES
  configFile,  \* SYSTEM.JSON as FatFs reads it
  tempFile,    \* SYSTEM.TMP, while it is being written
  dirty,       \* the volume has blocks that are not in the flash
  step,        \* next call of write_config_file, or its result
  doc,         \* the document it writes
  failed       \* history: a volume operation failed in this boot, or f_write
               \* stored less than the document

document == <<configFile, tempFile, step, doc>>

Result == {"ok", "error"}

ConfigType ==
  /\ configFile \in Config \cup {None, Broken}
  /\ tempFile \in Config \cup {None, Broken}
  /\ dirty \in BOOLEAN
  /\ step \in {"idle", "write", "rename", "replace"} \cup Result
  /\ doc \in IF step = "idle" THEN {None} ELSE Config
  /\ failed \in BOOLEAN

\* write_config_file is called, and returns.
WriteBegins(c) == step' = "write" /\ doc' = c /\ UNCHANGED <<configFile, tempFile>>
WriteEnds == step' = "idle" /\ doc' = None /\ tempFile' = None

\* f_unlink, f_open, f_write, f_sync and f_close of SYSTEM.TMP.
WriteTemp ==
  /\ step = "write"
  /\ tempFile' = doc
  /\ dirty' = FALSE
  /\ step' = "rename"
  /\ UNCHANGED <<configFile, doc, failed>>

\* f_write stores less than size: result stays FR_OK, only f_sync is skipped.
WriteTempShort ==
  /\ step = "write"
  /\ tempFile' = Broken
  /\ failed' = TRUE
  /\ dirty' = FALSE
  /\ step' = "rename"
  /\ UNCHANGED <<configFile, doc>>

\* f_rename, if there is no SYSTEM.JSON; else it returns FR_EXIST, and f_unlink.
RenameTemp ==
  /\ step = "rename"
  /\ configFile = None
  /\ configFile' = tempFile
  /\ tempFile' = None
  /\ step' = "ok"
  /\ UNCHANGED <<dirty, doc, failed>>

RenamedOnce ==      \* mutant: no second f_rename
  step = "rename" /\ configFile # None /\ configFile' = None /\ step' = "ok"
  /\ UNCHANGED <<tempFile, dirty, doc, failed>>
RemoveOld ==
  /\ step = "rename"
  /\ configFile # None
  /\ configFile' = None
  /\ step' = "replace"
  /\ UNCHANGED <<tempFile, dirty, doc, failed>>

\* The second f_rename.
ReplaceOld ==
  /\ step = "replace"
  /\ configFile' = tempFile
  /\ tempFile' = None
  /\ step' = "ok"
  /\ UNCHANGED <<dirty, doc, failed>>

\* A call fails, before or after it changed the volume; SYSTEM.TMP is removed,
\* and SYSTEM.JSON may be gone as well.
CallFails ==
  /\ step \in {"write", "rename", "replace"}
  /\ DiskFails
  /\ failed' = TRUE
  /\ configFile' \in IF step = "write" THEN {configFile} ELSE {configFile, None}
  /\ tempFile' = None
  /\ dirty' \in BOOLEAN
  /\ step' = "error"
  /\ UNCHANGED doc

WriteStep ==
  WriteTemp \/ WriteTempShort \/ RenameTemp \/ RemoveOld \/ ReplaceOld \/ CallFails

\* ota_system_config_load of a document that exists: one that is rejected
\* changes nothing.
Parsed(config) == IF configFile \in Config THEN configFile ELSE config
=============================================================================
