------------------------------ MODULE Keyboard ------------------------------
(***************************************************************************)
(* From the keys to the host: the scan of the matrix, the debouncing and   *)
(* the Boot Keyboard report (keyboard_engine.c), and the delivery of the   *)
(* report (keyboard_hid.c) through TinyUSB's HID driver, which is external *)
(* and modelled from the calls keyboard_hid_task makes.                    *)
(***************************************************************************)
EXTENDS Naturals, Sequences, FiniteSets

CONSTANTS
  KeyCount,       \* positions, numbered in the order of the bindings
  Modifiers,      \* modifier bits
  Usages,         \* usage codes of ordinary keys
  Binding,        \* position -> [modifier, usage]
  Slots,          \* usages a report has room for (KEYBOARD_HID_KEY_SLOTS)
  DebounceScans,  \* scans a change must last
  ScanInterval    \* least time between scans

Keys == 1..KeyCount
NoUsage == "none"
Rollover == "rollover"

ASSUME SizesAssumption ==
  /\ KeyCount \in Nat /\ Slots \in Nat \ {0}
  /\ DebounceScans \in Nat \ {0} /\ ScanInterval \in Nat \ {0}
ASSUME BindingAssumption ==
  Binding \in [Keys -> [modifier : SUBSET Modifiers, usage : Usages \cup {NoUsage}]]

VARIABLES
  down,      \* keys that are physically closed; contacts bounce
  since,     \* time since the last scan, up to ScanInterval (reached: first_scan or due)
  stable, debounce, report,   \* keyboard_engine_t
  pending,   \* report_pending; pending_report is the report of the last poll
  mounted, busy,      \* TinyUSB: configured, endpoint taken
  wired,     \* the endpoint is open: no bus reset since it was configured
  flight,    \* the reports in the endpoint, at most one
  hostSees,  \* the last report the host has read since it found the device
  \* for the properties: the latest samples, the newest first, and whether a
  \* report has been handed over since the host found the device
  recent, handed

engine == <<since, stable, debounce, report>>
usb == <<mounted, busy, wired, flight, hostSees, handed>>
vars == <<down, engine, pending, usb, recent>>

----------------------------------------------------------------------------
(* The report *)

Empty == [modifier |-> {}, usages |-> <<>>]

\* build_report goes through the keys in order, skips a usage it has, and
\* stops at the first one that finds no slot: modifiers of later keys are
\* not looked at.
Add(b, bind) ==
  LET shown == bind.usage = NoUsage \/ \E i \in 1..Len(b.usages) : b.usages[i] = bind.usage
      full == Len(b.usages) >= Slots
  IN [modifier |-> b.modifier \cup bind.modifier,
      usages |-> IF shown \/ full THEN b.usages ELSE Append(b.usages, bind.usage),
      over |-> ~shown /\ full]

\* What is built after the keys up to k, for each k.
Blank == [modifier |-> {}, usages |-> <<>>, over |-> FALSE]
AddKey(b, held, k) == IF b.over \/ ~held[k] THEN b ELSE Add(b, Binding[k])

Built(held) ==
  LET built[k \in 0..KeyCount] ==
        IF k = 0 THEN Blank ELSE AddKey(built[k - 1], held, k)
  IN built

BuildReport(held) ==
  LET b == Built(held)[KeyCount]
  IN [modifier |-> b.modifier,
      usages |-> IF b.over THEN [i \in 1..Slots |-> Rollover] ELSE b.usages]

Report == {BuildReport(held) : held \in [Keys -> BOOLEAN]}

TypeOK ==
  /\ down \in SUBSET Keys
  /\ since \in 0..ScanInterval
  /\ stable \in [Keys -> BOOLEAN] /\ debounce \in [Keys -> 0..DebounceScans - 1]
  /\ report \in Report /\ pending \in BOOLEAN
  /\ mounted \in BOOLEAN /\ busy \in BOOLEAN /\ wired \in BOOLEAN
  /\ flight \in {{}} \cup {{r} : r \in Report} /\ hostSees \in Report \cup {Empty}
  /\ recent \in [1..DebounceScans -> [Keys -> BOOLEAN]] /\ handed \in BOOLEAN

----------------------------------------------------------------------------
(* keyboard_engine_poll *)

\* scan_matrix: one row after the other; a row that changes in between is a
\* change of down before or after the scan.
Sample == [k \in Keys |-> k \in down]

\* mutant: a sample that agrees does not start the count again.
CountKept(k) == IF Sample[k] = stable[k] THEN debounce[k] ELSE debounce[k] + 1
Count(k) == IF Sample[k] = stable[k] THEN 0 ELSE debounce[k] + 1

\* mutant: one scan too many.
SettledLate(k) == Count(k) > DebounceScans
Settled(k) == Count(k) >= DebounceScans

Debounce ==
  /\ stable' = [k \in Keys |-> IF Settled(k) THEN Sample[k] ELSE stable[k]]
  /\ debounce' = [k \in Keys |-> IF Settled(k) THEN 0 ELSE Count(k)]

\* mutant: only a press makes a new report.
PressRebuilds == \E k \in Keys : Settled(k) /\ Sample[k]
Rebuild == \E k \in Keys : Settled(k)

Scan ==
  /\ since' = 0
  /\ Debounce
  /\ report' = IF Rebuild THEN BuildReport(stable') ELSE report
  /\ recent' = [i \in 1..DebounceScans |-> IF i = 1 THEN Sample ELSE recent[i - 1]]

Due == since = ScanInterval

----------------------------------------------------------------------------
(* keyboard_hid_task, for each outcome of the poll *)

\* tud_hid_ready, and tud_hid_keyboard_report, which fails if the endpoint
\* was closed by a bus reset that TinyUSB has not seen yet.
Ready == mounted /\ ~busy
Deliver(wanted) ==
  IF wanted /\ Ready /\ wired
  THEN /\ pending' = FALSE
       /\ flight' = {report'} /\ busy' = TRUE /\ handed' = TRUE
       /\ UNCHANGED <<mounted, wired, hostSees>>
  ELSE pending' = wanted /\ UNCHANGED usb

\* mutant: a report that could not be sent is forgotten.
OnlyNew == report' # report
Wanted == pending \/ report' # report

TaskNotDue == ~Due /\ UNCHANGED <<down, engine, recent>> /\ Deliver(pending)
TaskScans == Due /\ Scan /\ UNCHANGED down /\ Deliver(Wanted)

\* The scan fails: the counts stay, and a pending report is not sent.
TaskScanFails ==
  /\ Due
  /\ since' = 0
  /\ UNCHANGED <<down, stable, debounce, report, pending, usb, recent>>

----------------------------------------------------------------------------
(* Keys, time, TinyUSB and the host *)

Contact(k) ==
  /\ down' = IF k \in down THEN down \ {k} ELSE down \cup {k}
  /\ UNCHANGED <<engine, pending, usb, recent>>

Tick ==
  /\ since < ScanInterval
  /\ since' = since + 1
  /\ UNCHANGED <<down, stable, debounce, report, pending, usb, recent>>

\* The host polls the endpoint.
HostReads ==
  /\ wired
  /\ hostSees' \in flight /\ flight' = {}
  /\ UNCHANGED <<down, engine, pending, mounted, busy, wired, recent, handed>>

\* A bus reset, or the device disconnects: the host releases all keys.
Unplug ==
  /\ wired
  /\ wired' = FALSE /\ flight' = {} /\ hostSees' = Empty /\ handed' = FALSE
  /\ UNCHANGED <<down, engine, pending, mounted, busy, recent>>

\* tud_task takes its events: transfer complete, bus reset, SET_CONFIGURATION.
TudComplete ==
  /\ wired /\ busy /\ flight = {}
  /\ busy' = FALSE
  /\ UNCHANGED <<down, engine, pending, mounted, wired, flight, hostSees, recent, handed>>

TudReset ==
  /\ mounted /\ ~wired
  /\ mounted' = FALSE /\ busy' = FALSE
  /\ UNCHANGED <<down, engine, pending, wired, flight, hostSees, recent, handed>>

TudMount ==
  /\ ~mounted
  /\ mounted' = TRUE /\ wired' = TRUE
  /\ UNCHANGED <<down, engine, pending, busy, flight, hostSees, recent, handed>>

----------------------------------------------------------------------------
Released == [k \in Keys |-> FALSE]

Init ==
  /\ down \in SUBSET Keys
  /\ since = ScanInterval
  /\ stable = Released /\ debounce = [k \in Keys |-> 0]
  /\ report = BuildReport(Released) /\ pending = FALSE
  /\ mounted = FALSE /\ busy = FALSE /\ wired = FALSE
  /\ flight = {} /\ hostSees = Empty
  /\ recent = [i \in 1..DebounceScans |-> Released] /\ handed = FALSE

Tud == TudComplete \/ TudReset \/ TudMount
Next == \/ TaskNotDue \/ TaskScans \/ TaskScanFails
        \/ \E k \in Keys : Contact(k)
        \/ Tick \/ HostReads \/ Unplug \/ Tud

\* The main loop runs, time passes, scans do not fail for ever, and the host
\* polls the endpoint.
Spec ==
  /\ Init /\ [][Next]_vars
  /\ WF_vars(TaskNotDue) /\ SF_vars(TaskScans)
  /\ WF_vars(Tick) /\ WF_vars(Tud) /\ WF_vars(HostReads)

----------------------------------------------------------------------------
(* Properties *)

\* "Consecutive scans required for change": a key changes its debounced state
\* only when the latest DebounceScans samples, failed scans left out, agree.
ChangeNeedsScans ==
  [][\A k \in Keys : stable'[k] # stable[k] =>
       \A i \in 1..DebounceScans : recent'[i][k] = stable'[k]]_vars

\* And it does change then: the state is never behind DebounceScans equal samples.
ScansForceChange ==
  \A k \in Keys, v \in BOOLEAN :
    (\A i \in 1..DebounceScans : recent[i][k] = v) => stable[k] = v

\* The report is that of the debounced keys, though it is rebuilt only when
\* one of them changes: its usages are those of the held keys, each once, with
\* all their modifiers, or it signals rollover.
ReportShowsKeys ==
  LET held == {k \in Keys : stable[k]}
      usages == {Binding[k].usage : k \in held} \ {NoUsage}
      shown == {report.usages[i] : i \in 1..Len(report.usages)}
  IN IF Cardinality(usages) > Slots
     THEN shown = {Rollover}
     ELSE /\ shown = usages /\ Len(report.usages) = Cardinality(usages)
          /\ report.modifier = UNION {Binding[k].modifier : k \in held}

\* Once a report was handed over on this connection, the host has read the
\* current report, or will read it next, or it is still to be sent: delivery
\* may skip states of the keyboard but never ends with an old one.
HostUpToDate ==
  \/ pending
  \/ handed /\ IF flight = {} THEN hostSees = report ELSE flight = {report}
  \/ ~handed /\ flight = {} /\ hostSees = Empty

\* When the keys and the connection come to rest, the host comes to see the
\* report of the keys, unless none was due since it found the device.
Disturbed == down' # down \/ wired' # wired
HostFollows ==
  []<><<Disturbed>>_vars
  \/ <>[](wired /\ handed => hostSees = BuildReport(Sample))
=============================================================================
