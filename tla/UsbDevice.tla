------------------------------ MODULE UsbDevice ------------------------------
(***************************************************************************)
(* The USB device driver (chip_usb_device.c) under TinyUSB's port          *)
(* (dcd_chip.c): the endpoints with their transfers, response and toggle   *)
(* registers, the address, the interrupt handler, and the calls of the     *)
(* task, which check their arguments with interrupts enabled and work in a *)
(* critical section.  The controller, the host and the TinyUSB core are    *)
(* external and modelled from how the driver uses them: the controller     *)
(* answers a packet from the response register, raises the flag and        *)
(* answers NAK until the handler clears it (RB_UC_INT_BUSY); a handshake   *)
(* may be lost, so a sender repeats a packet with the same toggle.         *)
(***************************************************************************)
EXTENDS Naturals

CONSTANTS
  DataPipes,   \* <<endpoint, direction>> pairs of the configuration, endpoint > 0
  MaxPacket,   \* largest packet of a pipe, in units of data
  MaxTransfer, \* longest transfer submitted to a data pipe, in units of data
  Addresses    \* addresses the host assigns

ASSUME DataPipesAssumption == DataPipes \subseteq ((Nat \ {0}) \X {"OUT", "IN"})
ASSUME SizesAssumption == MaxPacket \in Nat \ {0} /\ MaxTransfer \in Nat
ASSUME AddressesAssumption == Addresses \subseteq Nat \ {0}

Out0 == <<0, "OUT">>
In0  == <<0, "IN">>
Control == {Out0, In0}
Pipe == Control \cup DataPipes

NoPacket == MaxPacket + 1   \* the host holds no packet whose handshake was lost

Request == {r \in [kind : {"address", "clear", "config", "read", "bad"},
                  addr : Addresses \cup {0}, pipe : DataPipes \cup {In0}] :
              /\ r.kind = "address" <=> r.addr # 0
              /\ r.kind = "clear" <=> r.pipe # In0}
NoRequest == [kind |-> "none", addr |-> 0, pipe |-> In0]

\* A flagged packet: who sent what, whether its toggle was the expected one
\* (RB_UIS_TOG_OK) and, for the properties, whether the host saw the
\* handshake and whether the packet is new to the driver.
Packet == [token : {"none", "IN", "OUT", "SETUP"}, pipe : Pipe, len : 0..MaxPacket,
           ok : BOOLEAN, acked : BOOLEAN, new : BOOLEAN,
           request : Request \cup {NoRequest}]
NoEvent == [token |-> "none", pipe |-> In0, len |-> 0, ok |-> FALSE, acked |-> FALSE,
            new |-> FALSE, request |-> NoRequest]
InPacket(p) == [NoEvent EXCEPT !.token = "IN", !.pipe = p]
OutPacket(p, len, acked, ok, new) ==
  [token |-> "OUT", pipe |-> p, len |-> len, ok |-> ok, acked |-> acked, new |-> new,
   request |-> NoRequest]
SetupPacket(r) == [NoEvent EXCEPT !.token = "SETUP", !.request = r]

\* A call of the task: masked once it is in its critical section.
Call == [op : {"none", "submit", "stall", "clear", "open", "address"}, pipe : Pipe,
         size : 0..MaxTransfer, addr : Addresses \cup {0}, masked : BOOLEAN]
NoCall == [op |-> "none", pipe |-> In0, size |-> 0, addr |-> 0, masked |-> FALSE]
PipeCall(op, p, n) == [NoCall EXCEPT !.op = op, !.pipe = p, !.size = n]
AddressCall(a) == [NoCall EXCEPT !.op = "address", !.addr = a]
InCriticalSection(c) == [c EXCEPT !.masked = TRUE]

VARIABLES
  \* usb_device: endpoint[].open, transfer[], pending_address (0: not pending);
  \* left is total - transferred, and 0 where nothing is active and nobody
  \* reads the old value
  open, active, left, queued, pending,
  \* registers: endpoint response and toggle bits, device address, pull-up
  resp, tog, addr, connected,
  \* interrupt flags and what the controller latched with them
  event, busReset,
  \* the TinyUSB core: the call in progress and its control request
  call, ctl, todo, configured, setup, stale, resetSeen, halted,
  \* the host
  hostUp, hAddr, hReq, hUse, hTog, unacked,
  \* for the properties: the receiver has taken the packet its sender still
  \* holds; a packet was refused with an error event
  taken, failed

driver == <<open, active, left, queued, pending>>
registers == <<resp, tog, addr, connected>>
flags == <<event, busReset>>
stack == <<call, ctl, todo, configured, setup, stale, resetSeen, halted>>
host == <<hostUp, hAddr, hReq, hUse, hTog, unacked>>
vars == <<driver, registers, flags, stack, host, taken, failed>>

DriverType ==
  /\ open \in [Pipe -> BOOLEAN] /\ active \in [Pipe -> BOOLEAN]
  /\ left \in [Pipe -> 0..MaxTransfer] /\ queued \in [Pipe -> 0..MaxPacket]
  /\ pending \in Addresses \cup {0}
RegisterType ==
  /\ resp \in [Pipe -> {"NAK", "ACK", "STALL"}] /\ tog \in [Pipe -> BOOLEAN]
  /\ addr \in Addresses \cup {0} /\ connected \in BOOLEAN
FlagType ==
  /\ event \in Packet /\ busReset \in BOOLEAN
StackType ==
  /\ call \in Call
  /\ ctl \in {"idle", "open", "status", "data", "statusOut", "refuse"}
  /\ todo \in SUBSET DataPipes /\ configured \in BOOLEAN
  /\ setup \in Request \cup {NoRequest} /\ stale \in BOOLEAN
  /\ resetSeen \in BOOLEAN /\ halted \in [Pipe -> BOOLEAN]
HostType ==
  /\ hostUp \in BOOLEAN /\ hAddr \in Addresses \cup {0}
  /\ hReq \in Request \cup {NoRequest}
  /\ hUse \in [DataPipes -> {"off", "on", "clearing"}]
  /\ hTog \in [Pipe -> BOOLEAN] /\ unacked \in [Pipe -> 0..NoPacket]
GhostType ==
  /\ taken \in [Pipe -> BOOLEAN] /\ failed \in [Pipe -> BOOLEAN]
TypeOK == DriverType /\ RegisterType /\ FlagType /\ StackType /\ HostType /\ GhostType

----------------------------------------------------------------------------
(* Helpers *)

All(v) == [p \in Pipe |-> v]
On(f, S, v) == [p \in Pipe |-> IF p \in S THEN v ELSE f[p]]

IsIn(p) == p[2] = "IN"
InPipes == {p \in Pipe : IsIn(p)}
\* usb_endpoint_update_mode: one open direction enables both.
Enabled(p) == \E q \in Pipe : q[1] = p[1] /\ open[q]
PacketSize(p) == IF open[p] THEN MaxPacket ELSE 0
Smaller(m, n) == IF m < n THEN m ELSE n

\* The host uses a control pipe during a request, a data pipe once configured.
Talks(p) == IF p \in Control THEN hReq # NoRequest ELSE hUse[p] = "on"
Reachable == connected /\ hostUp /\ ~busReset /\ addr = hAddr
WireReady == Reachable /\ event = NoEvent
Pending == busReset \/ event # NoEvent
Masked == call.masked

----------------------------------------------------------------------------
(* The interrupt handler *)

\* usb_toggle_manual_endpoint
\* mutant: the toggle is not flipped.
ToggleLeftAlone(p) == UNCHANGED tog
Toggle(p) == tog' = [tog EXCEPT ![p] = ~@]

\* active = false, or the whole transfer cleared; then the answer is NAK.
Finish(p) ==
  /\ active' = [active EXCEPT ![p] = FALSE]
  /\ left' = [left EXCEPT ![p] = 0] /\ queued' = [queued EXCEPT ![p] = 0]
\* mutant: the response register keeps its ACK.
DisarmKeepsAnswer(p) == Finish(p) /\ UNCHANGED resp
Disarm(p) == Finish(p) /\ resp' = [resp EXCEPT ![p] = "NAK"]

\* mutant: the pending address survives.
KeepAddress == UNCHANGED pending
DropAddress == pending' = 0

ResetEndpoints ==
  /\ open' = [p \in Pipe |-> p \in Control]
  /\ active' = All(FALSE) /\ left' = All(0) /\ queued' = All(0)
  /\ DropAddress
  /\ tog' = All(FALSE)
  /\ resp' = [p \in Pipe |-> IF p = Out0 THEN "ACK" ELSE "NAK"]

\* usb_interrupt_handler, first block.  A packet flagged at the same time is
\* only skipped in this pass: its flag stays set for the next one.
ProcessBusReset ==
  /\ ~Masked /\ busReset
  /\ busReset' = FALSE
  /\ addr' = 0
  /\ ResetEndpoints
  /\ resetSeen' = TRUE                     \* the event queues behind what is there
  /\ stale' = (setup # NoRequest)
  /\ halted' = All(FALSE)
  /\ taken' = All(FALSE) /\ failed' = All(FALSE)
  /\ UNCHANGED <<connected, event, call, ctl, todo, configured, setup, host>>

ProcessSetup ==
  /\ ~Masked /\ ~busReset /\ event.token = "SETUP"
  /\ event' = NoEvent
  /\ active' = On(active, Control, FALSE)
  /\ left' = On(left, Control, 0) /\ queued' = On(queued, Control, 0)
  /\ DropAddress
  /\ tog' = On(tog, Control, TRUE)
  /\ resp' = On(resp, Control, "NAK")
  /\ setup' = event.request /\ stale' = FALSE
  /\ ctl' = "idle"             \* what the old request waited for never comes
  /\ halted' = On(halted, Control, FALSE)
  /\ taken' = On(taken, Control, FALSE) /\ failed' = On(failed, Control, FALSE)
  /\ UNCHANGED <<open, addr, connected, busReset, call, todo, configured, resetSeen,
                 host>>

\* usb_load_next_in_packet, with n units of the transfer remaining.
LoadNextIn(p, n) ==
  /\ left' = [left EXCEPT ![p] = n]
  /\ queued' = [queued EXCEPT ![p] = Smaller(n, PacketSize(p))]
  /\ resp' = [resp EXCEPT ![p] = "ACK"]
  /\ taken' = [taken EXCEPT ![p] = FALSE]

\* mutant: one more empty packet.
OneMoreToSend(rest) == rest >= 0
MoreToSend(rest) == rest > 0

InEvent == ~Masked /\ ~busReset /\ event.token = "IN"
UnsentAfter(p) == left[p] - queued[p]

ProcessInIdle ==
  /\ InEvent /\ ~active[event.pipe]
  /\ event' = NoEvent
  /\ resp' = [resp EXCEPT ![event.pipe] = "NAK"]
  /\ UNCHANGED <<driver, tog, addr, connected, busReset, stack, host, taken, failed>>

ProcessInMore ==
  /\ InEvent /\ active[event.pipe] /\ MoreToSend(UnsentAfter(event.pipe))
  /\ event' = NoEvent
  /\ Toggle(event.pipe)
  /\ LoadNextIn(event.pipe, UnsentAfter(event.pipe))
  /\ UNCHANGED <<open, active, pending, addr, connected, busReset, stack, host, failed>>

ProcessInLast ==
  /\ InEvent /\ active[event.pipe] /\ ~MoreToSend(UnsentAfter(event.pipe))
  /\ event' = NoEvent
  /\ Toggle(event.pipe)
  /\ Disarm(event.pipe)
  /\ taken' = [taken EXCEPT ![event.pipe] = FALSE]
  /\ IF event.pipe = In0 /\ pending # 0
     THEN addr' = pending /\ pending' = 0
     ELSE UNCHANGED <<addr, pending>>
  /\ UNCHANGED <<open, connected, busReset, stack, host, failed>>

ProcessIn == ProcessInIdle \/ ProcessInMore \/ ProcessInLast

\* A packet with the other toggle is a repetition and is not looked at.
\* mutant: the toggle of a packet is not looked at.
AnyPacket == TRUE
ExpectedPacket == event.ok

OutEvent == ~Masked /\ ~busReset /\ event.token = "OUT"
Fits(p) == event.len <= left[p] /\ event.len <= PacketSize(p)

ProcessOutIgnored ==
  /\ OutEvent /\ ~ExpectedPacket
  /\ event' = NoEvent
  /\ UNCHANGED <<driver, registers, busReset, stack, host, taken, failed>>

ProcessOutIdle ==
  /\ OutEvent /\ ExpectedPacket /\ ~active[event.pipe]
  /\ event' = NoEvent
  /\ resp' = [resp EXCEPT ![event.pipe] = "NAK"]
  /\ UNCHANGED <<driver, tog, addr, connected, busReset, stack, host, taken, failed>>

\* The transfer is aborted; the toggle stays, though the packet was answered.
ProcessOutTooLong ==
  /\ OutEvent /\ ExpectedPacket /\ active[event.pipe] /\ ~Fits(event.pipe)
  /\ event' = NoEvent
  /\ Disarm(event.pipe)
  /\ failed' = [failed EXCEPT ![event.pipe] = TRUE]
  /\ UNCHANGED <<open, pending, tog, addr, connected, busReset, stack, host, taken>>

ProcessOutStored ==
  /\ OutEvent /\ ExpectedPacket /\ active[event.pipe] /\ Fits(event.pipe)
  /\ event' = NoEvent
  /\ Toggle(event.pipe)
  /\ LET p == event.pipe
     IN /\ IF event.len = left[p] \/ event.len < PacketSize(p)
           THEN Disarm(p)
           ELSE /\ left' = [left EXCEPT ![p] = @ - event.len]
                /\ resp' = [resp EXCEPT ![p] = "ACK"]
                /\ UNCHANGED <<active, queued>>
        /\ taken' = [taken EXCEPT ![p] = ~event.acked]
  /\ UNCHANGED <<open, pending, addr, connected, busReset, stack, host, failed>>

ProcessOut == \/ ProcessOutIgnored \/ ProcessOutIdle
              \/ ProcessOutTooLong \/ ProcessOutStored

----------------------------------------------------------------------------
(* The calls: what is checked before the critical section, and inside it *)

\* The checks of a call pass; an interrupt may still come before it masks them.
Start(op, p, n) ==
  /\ call = NoCall /\ ~Pending
  /\ (op \in {"submit", "stall", "clear"} => open[p])
  /\ call' = PipeCall(op, p, n)

CriticalEnter ==
  /\ call.op \in {"submit", "stall", "clear", "open"} /\ ~call.masked
  /\ ~Pending
  /\ call' = InCriticalSection(call)
  /\ UNCHANGED <<driver, registers, flags, ctl, todo, configured, setup, stale,
                 resetSeen, halted, host, taken, failed>>

\* chip_usb_device_submit_in and chip_usb_device_submit_out.
Accepts == Masked /\ call.op = "submit" /\ ~active[call.pipe]

SubmitIn ==
  /\ Accepts /\ IsIn(call.pipe)
  /\ call' = NoCall
  /\ active' = [active EXCEPT ![call.pipe] = TRUE]
  /\ LoadNextIn(call.pipe, call.size)
  /\ UNCHANGED <<open, pending, tog, addr, connected, flags, ctl, todo, configured,
                 setup, stale, resetSeen, halted, host, failed>>

SubmitOut ==
  /\ Accepts /\ ~IsIn(call.pipe)
  /\ call' = NoCall
  /\ active' = [active EXCEPT ![call.pipe] = TRUE]
  /\ left' = [left EXCEPT ![call.pipe] = call.size]
  /\ queued' = [queued EXCEPT ![call.pipe] = 0]
  /\ resp' = [resp EXCEPT ![call.pipe] = "ACK"]
  /\ UNCHANGED <<open, pending, tog, addr, connected, flags, ctl, todo, configured,
                 setup, stale, resetSeen, halted, host, taken, failed>>

SubmitBusy ==
  /\ Masked /\ call.op = "submit" /\ active[call.pipe]
  /\ call' = NoCall
  /\ UNCHANGED <<driver, registers, flags, ctl, todo, configured, setup, stale,
                 resetSeen, halted, host, taken, failed>>

Submit == SubmitIn \/ SubmitOut \/ SubmitBusy

\* usb_endpoint_set_stall(p, true)
\* mutant: the transfer stays with the halted pipe.
KeepTransfer(p) == UNCHANGED <<active, left, queued>>
ClearTransfer(p) == Finish(p)

Stall ==
  /\ Masked /\ call.op = "stall"
  /\ call' = NoCall
  /\ ClearTransfer(call.pipe)
  /\ resp' = [resp EXCEPT ![call.pipe] = "STALL"]
  /\ halted' = [halted EXCEPT ![call.pipe] = TRUE]
  /\ UNCHANGED <<open, pending, tog, addr, connected, flags, ctl, todo,
                 configured, setup, stale, resetSeen, host, taken, failed>>

\* usb_endpoint_set_stall(p, false)
ClearStall ==
  /\ Masked /\ call.op = "clear"
  /\ call' = NoCall
  /\ LET p == call.pipe
     IN /\ tog' = [tog EXCEPT ![p] = FALSE]
        /\ resp' = [resp EXCEPT ![p] = "NAK"]
        /\ halted' = [halted EXCEPT ![p] = FALSE]
        /\ taken' = [taken EXCEPT ![p] = FALSE]
        /\ failed' = [failed EXCEPT ![p] = FALSE]
  /\ UNCHANGED <<driver, addr, connected, flags, ctl, todo, configured, setup,
                 stale, resetSeen, host>>

\* chip_usb_device_endpoint_open; TinyUSB refuses the request when it is BUSY.
OpenBusy ==
  /\ Masked /\ call.op = "open" /\ open[call.pipe]
  /\ call' = NoCall
  /\ ctl' = "refuse" /\ configured' = FALSE
  /\ UNCHANGED <<driver, registers, flags, todo, setup, stale, resetSeen, halted, host,
                 taken, failed>>

OpenEndpoint ==
  /\ Masked /\ call.op = "open" /\ ~open[call.pipe]
  /\ call' = NoCall
  /\ open' = [open EXCEPT ![call.pipe] = TRUE]
  /\ Disarm(call.pipe)
  /\ tog' = [tog EXCEPT ![call.pipe] = FALSE]
  /\ todo' = todo \ {call.pipe}
  /\ halted' = [halted EXCEPT ![call.pipe] = FALSE]
  /\ taken' = [taken EXCEPT ![call.pipe] = FALSE]
  /\ failed' = [failed EXCEPT ![call.pipe] = FALSE]
  /\ UNCHANGED <<pending, addr, connected, flags, ctl, configured, setup, stale,
                 resetSeen, host>>

EndpointOpen == OpenBusy \/ OpenEndpoint

\* dcd_set_address: chip_usb_device_set_address, then the status packet.
SetAddress ==
  /\ call.op = "address" /\ ~Pending
  /\ pending' = call.addr
  /\ call' = PipeCall("submit", In0, 0)
  /\ UNCHANGED <<open, active, left, queued, registers, flags, ctl,
                 todo, configured, setup, stale, resetSeen, halted, host, taken, failed>>

\* chip_usb_device_disconnect and chip_usb_device_connect touch the pull-up only.
SetConnected ==
  /\ call = NoCall /\ ~Pending
  /\ connected' = ~connected
  /\ hostUp' = FALSE           \* the host forgets a device that went away
  /\ hAddr' = 0 /\ hReq' = NoRequest /\ hUse' = [p \in DataPipes |-> "off"]
  /\ hTog' = All(FALSE) /\ unacked' = All(NoPacket)
  /\ UNCHANGED <<driver, resp, tog, addr, flags, stack, taken, failed>>

----------------------------------------------------------------------------
(* TinyUSB (external): one request at a time, in the order of its queue *)

\* Nothing of the request is left to do before the next event.
AtRest == \/ ctl \in {"idle", "statusOut"}
          \/ ctl = "refuse" /\ \A p \in Control : halted[p]
Answered == AtRest /\ call = NoCall

\* The handler of the request, up to its first call into the driver.
Takes(kind) ==
  /\ Answered /\ ~Pending /\ setup.kind = kind
  /\ (resetSeen => stale)        \* a request queued before the reset comes first
  /\ setup' = NoRequest
  /\ UNCHANGED <<driver, registers, flags, stale, resetSeen, halted, host, taken, failed>>

TakeAddress ==
  /\ Takes("address")
  /\ call' = AddressCall(setup.addr) /\ ctl' = "idle"
  /\ UNCHANGED <<todo, configured>>

TakeClear ==
  /\ Takes("clear")
  /\ ctl' = "status"
  /\ IF halted[setup.pipe] /\ open[setup.pipe]
     THEN Start("clear", setup.pipe, 0) ELSE UNCHANGED call
  /\ UNCHANGED <<todo, configured>>

TakeConfig ==
  /\ Takes("config")
  /\ ctl' = "open" /\ configured' = TRUE
  /\ todo' = IF configured THEN {} ELSE DataPipes
  /\ UNCHANGED call

TakeRead == Takes("read") /\ ctl' = "data" /\ UNCHANGED <<call, todo, configured>>
TakeBad == Takes("bad") /\ ctl' = "refuse" /\ UNCHANGED <<call, todo, configured>>

TakeSetup == TakeAddress \/ TakeClear \/ TakeConfig \/ TakeRead \/ TakeBad

Calls(op, p, n) ==
  /\ Start(op, p, n)
  /\ UNCHANGED <<driver, registers, flags, todo, configured, setup, stale,
                 resetSeen, halted, host, taken, failed>>

OpenNext == /\ ctl = "open" /\ \E p \in todo : Calls("open", p, 0)
            /\ UNCHANGED ctl
SendStatus == /\ ctl = "status" \/ (ctl = "open" /\ todo = {})
              /\ Calls("submit", In0, 0) /\ ctl' = "idle"
SendData == /\ ctl = "data" /\ \E n \in 0..MaxTransfer : Calls("submit", In0, n)
            /\ ctl' = "statusOut"
ReceiveStatus == /\ ctl = "statusOut" /\ ~active[In0]
                 /\ Calls("submit", Out0, 0) /\ ctl' = "idle"
StallControl == /\ ctl = "refuse"
                /\ \E p \in Control : ~halted[p] /\ Calls("stall", p, 0)
                /\ UNCHANGED ctl

ControlStep == OpenNext \/ SendStatus \/ SendData \/ ReceiveStatus \/ StallControl

\* The bus reset reaches the core after the request it was working on.
StackReset ==
  /\ Answered /\ ~Pending /\ resetSeen
  /\ setup = NoRequest \/ ~stale
  /\ resetSeen' = FALSE /\ stale' = FALSE
  /\ ctl' = "idle" /\ todo' = {} /\ configured' = FALSE
  /\ UNCHANGED <<driver, registers, flags, call, setup, halted, host, taken, failed>>

\* A class driver queues a transfer or halts its pipe (a halted pipe is busy).
ClassSubmit == \E p \in DataPipes : /\ ~halted[p] /\ UNCHANGED ctl
                                    /\ \E n \in 0..MaxTransfer : Calls("submit", p, n)
ClassStall == \E p \in DataPipes : ~halted[p] /\ Calls("stall", p, 0) /\ UNCHANGED ctl

ClassCall == ClassSubmit \/ ClassStall

----------------------------------------------------------------------------
(* The host and the wire (external) *)

\* The pipes the host starts with toggle 0 when the request is done.
Fresh(r) == {p \in DataPipes : \/ r.kind = "config" /\ hUse[p] = "off"
                               \/ r.kind = "clear" /\ p = r.pipe}

\* The host accepted the status packet of its request.
Completes(r, tog0) ==
  /\ hReq' = NoRequest
  /\ hAddr' = IF r.kind = "address" THEN r.addr ELSE hAddr
  /\ hUse' = [p \in DataPipes |->
                IF r.kind = "config" \/ (r.kind = "clear" /\ p = r.pipe)
                THEN "on" ELSE hUse[p]]
  /\ hTog' = On(tog0, Fresh(r), FALSE)
  /\ unacked' = On(unacked, Fresh(r), NoPacket)

\* The host reads an IN pipe; it drops a packet whose toggle it has seen.
Reads(p, acked) ==
  /\ WireReady /\ Talks(p) /\ IsIn(p) /\ Enabled(p) /\ resp[p] = "ACK"
  /\ event' = IF acked THEN InPacket(p) ELSE NoEvent
  /\ UNCHANGED <<driver, registers, busReset, stack, hostUp, failed>>

HostInRepeated(p, acked) ==
  /\ Reads(p, acked) /\ hTog[p] # tog[p]
  /\ UNCHANGED <<hAddr, hReq, hUse, hTog, unacked, taken>>

HostInData(p, acked) ==
  /\ Reads(p, acked) /\ hTog[p] = tog[p]
  /\ p = In0 => hReq.kind = "read"
  /\ taken' = [taken EXCEPT ![p] = TRUE]
  /\ hTog' = [hTog EXCEPT ![p] = ~@]
  /\ UNCHANGED <<hAddr, hReq, hUse, unacked>>

HostInStatus(p, acked) ==
  /\ Reads(p, acked) /\ hTog[p] = tog[p]
  /\ p = In0 /\ hReq.kind # "read"
  /\ taken' = [taken EXCEPT ![p] = TRUE]
  /\ Completes(hReq, [hTog EXCEPT ![p] = ~@])

HostIn(p, acked) ==
  HostInRepeated(p, acked) \/ HostInData(p, acked) \/ HostInStatus(p, acked)

\* The host writes an OUT pipe, again and again until it sees the handshake.
Writes(p, len, acked) ==
  /\ WireReady /\ Talks(p) /\ ~IsIn(p) /\ Enabled(p) /\ resp[p] = "ACK"
  /\ (p = Out0 => hReq.kind = "read" /\ len = 0)
  /\ (unacked[p] # NoPacket => len = unacked[p])
  /\ event' = OutPacket(p, len, acked, hTog[p] = tog[p], ~taken[p])
  /\ UNCHANGED <<driver, registers, busReset, stack, hostUp, hAddr, hUse, failed>>

HostOutLost(p, len) ==
  /\ Writes(p, len, FALSE)
  /\ unacked' = [unacked EXCEPT ![p] = len]
  /\ UNCHANGED <<hTog, hReq, taken>>

HostOutAcked(p, len) ==
  /\ Writes(p, len, TRUE)
  /\ hTog' = [hTog EXCEPT ![p] = ~@]
  /\ unacked' = [unacked EXCEPT ![p] = NoPacket]
  /\ taken' = [taken EXCEPT ![p] = FALSE]
  /\ hReq' = IF p = Out0 THEN NoRequest ELSE hReq

HostOut(p, len) == HostOutLost(p, len) \/ HostOutAcked(p, len)

\* A new request; an unfinished one is given up only after the device has
\* done what it can about it (a host waits seconds, 10 ms after a reset).
HostSetup(r) ==
  /\ WireReady
  /\ setup = NoRequest \/ stale
  /\ AtRest
  /\ call = NoCall \/ (call.op \in {"submit", "stall"} /\ call.pipe \in DataPipes)
  /\ r.kind = "address" => hAddr = 0
  /\ r.kind = "clear" => \/ hUse[r.pipe] = "clearing"
                         \/ hUse[r.pipe] = "on" /\ resp[r.pipe] = "STALL"
  /\ r.kind = "config" => \A p \in DataPipes : hUse[p] = "off"
  /\ event' = SetupPacket(r)
  /\ hReq' = r
  /\ hUse' = [p \in DataPipes |-> IF r.kind = "clear" /\ p = r.pipe
                                  THEN "clearing" ELSE hUse[p]]
  /\ hTog' = On(hTog, Control, TRUE)
  /\ unacked' = On(unacked, Control, NoPacket)
  /\ UNCHANGED <<driver, registers, busReset, stack, hostUp, hAddr, taken, failed>>

\* A bus reset; a packet flagged before it may or may not stay flagged.
HostReset ==
  /\ connected /\ ~busReset
  /\ busReset' = TRUE
  /\ event' \in {event, NoEvent}
  /\ hostUp' = TRUE /\ hAddr' = 0 /\ hReq' = NoRequest
  /\ hUse' = [p \in DataPipes |-> "off"]
  /\ hTog' = All(FALSE) /\ unacked' = All(NoPacket)
  /\ UNCHANGED <<driver, registers, stack, taken, failed>>

----------------------------------------------------------------------------
(* After dcd_init: connected, not yet reset by a host. *)

Init ==
  /\ open = [p \in Pipe |-> p \in Control]
  /\ active = All(FALSE) /\ left = All(0) /\ queued = All(0)
  /\ pending = 0
  /\ resp = [p \in Pipe |-> IF p = Out0 THEN "ACK" ELSE "NAK"]
  /\ tog = All(FALSE) /\ addr = 0 /\ connected = TRUE
  /\ event = NoEvent /\ busReset = FALSE
  /\ call = NoCall /\ ctl = "idle" /\ todo = {} /\ configured = FALSE
  /\ setup = NoRequest /\ stale = FALSE /\ resetSeen = FALSE /\ halted = All(FALSE)
  /\ hostUp = FALSE /\ hAddr = 0 /\ hReq = NoRequest
  /\ hUse = [p \in DataPipes |-> "off"]
  /\ hTog = All(FALSE) /\ unacked = All(NoPacket)
  /\ taken = All(FALSE) /\ failed = All(FALSE)

Interrupt == ProcessBusReset \/ ProcessSetup \/ ProcessIn \/ ProcessOut
Task == \/ CriticalEnter \/ Submit \/ Stall \/ ClearStall \/ EndpointOpen
        \/ SetAddress \/ TakeSetup \/ ControlStep \/ StackReset
Host == \/ \E p \in Pipe, acked \in BOOLEAN : HostIn(p, acked)
        \/ \E p \in Pipe, len \in 0..MaxPacket : HostOut(p, len)
        \/ \E r \in Request : HostSetup(r)
        \/ HostReset

Next == Interrupt \/ Task \/ ClassCall \/ SetConnected \/ Host

\* The interrupt is taken, the task runs, and a host that can read a pipe
\* does so and is heard at last; it owes no OUT packet, request or reset.
Spec ==
  /\ Init /\ [][Next]_vars
  /\ WF_vars(Interrupt) /\ WF_vars(Task)
  /\ \A p \in InPipes : SF_vars(HostIn(p, TRUE))

----------------------------------------------------------------------------
(* Properties *)

\* The host uses the pipe and the driver has neither halted it nor reported
\* an error on it; no SETUP or bus reset is on its way to the handler.
Live(p) == /\ Talks(p) /\ ~halted[p] /\ ~failed[p] /\ ~busReset
           /\ (p \in Control => event.token # "SETUP")

\* The manual toggles keep step with the host's: a packet can be taken from
\* an IN pipe exactly if the host has not taken it yet, whatever handshakes
\* are lost, and the interrupt that makes the driver count a packet as sent
\* comes only after the host has taken that packet.  So no unit of a
\* transfer is lost or delivered twice.
InPacketsOnce ==
  \A p \in Pipe : IsIn(p) /\ Live(p) =>
    /\ (taken[p] <=> hTog[p] # tog[p])
    /\ (event.token = "IN" /\ event.pipe = p => taken[p] /\ active[p])

\* The same for what the host writes: the handler stores a packet exactly if
\* it is new, drops it exactly if it is a repetition, and never has to drop
\* a packet the hardware acknowledged because no transfer waits for it.
OutPacketsOnce ==
  \A p \in Pipe : ~IsIn(p) /\ Live(p) =>
    IF event.token = "OUT" /\ event.pipe = p
    THEN (event.ok <=> event.new) /\ active[p]
    ELSE (taken[p] <=> hTog[p] # tog[p])

\* An accepted transfer is offered to the host, and the hardware answers
\* with or into the buffer of an accepted transfer only: no pipe the host
\* uses hangs on NAK with a transfer in it, or takes a packet without one.
OfferedIffActive ==
  \A p \in Pipe : Live(p) => (active[p] <=> resp[p] = "ACK")

\* chip_usb_device_set_address "takes effect after the next successful
\* endpoint-zero IN status packet": the device answers at another address
\* than the host expects only while that packet is still unconfirmed.
AddressAgreed ==
  hostUp /\ ~busReset =>
    addr = hAddr \/ (addr = 0 /\ pending = hAddr /\ active[In0])

\* usb_endpoint_set_stall: until it is cleared, a halted pipe has no transfer and
\* its hardware takes and gives no packet.  The handler of a packet that was
\* flagged before finds nothing to count it for, and does not arm the pipe; that
\* it may put NAK in place of STALL is not excluded.
HaltedTakesNothing == \A p \in DataPipes : halted[p] => ~active[p] /\ resp[p] # "ACK"

\* A transfer the host keeps reading completes, even if handshakes are lost,
\* unless the pipe is taken from the host.
InTransfersDrain ==
  \A p \in InPipes :
    (active[p] /\ Talks(p) ~> ~active[p] \/ ~Talks(p) \/ ~Reachable)
=============================================================================
