--------------------------- MODULE UsbDevice_proofs ---------------------------
(***************************************************************************)
(* Proofs about UsbDevice, for every set of data pipes, every packet and   *)
(* transfer size and every set of addresses: its type invariant and its    *)
(* safety invariants.  UsbInv is inductive; most of it says how far the    *)
(* device has got with the request the host is waiting for.                *)
(***************************************************************************)
EXTENDS UsbDevice, TLAPS

On0(token, p) == event.token = token /\ event.pipe = p
DataCall == call = NoCall \/ (call.op \in {"submit", "stall"} /\ call.pipe \in DataPipes)
Unused == \A p \in DataPipes : hUse[p] = "off"

\* Events carry pipes of their direction; an IN pipe never fails.
EventInv ==
  /\ event.token = "IN" => IsIn(event.pipe)
  /\ event.token = "OUT" => ~IsIn(event.pipe)
  /\ event.token = "SETUP" => DataCall
  /\ event.token = "SETUP" /\ hReq # NoRequest =>
       event.request = hReq /\ \A p \in Control : hTog[p]
  /\ event.token = "SETUP" /\ hReq = NoRequest => Unused
  /\ \A p \in Pipe : failed[p] => ~IsIn(p)

\* The host waits or uses a pipe only between a reset and the next.
HostInv ==
  /\ hReq # NoRequest => hostUp /\ ~busReset
  /\ ~Unused => hostUp /\ ~busReset
  /\ busReset => hostUp /\ hAddr = 0
  /\ hReq.kind = "address" => hAddr = 0 /\ hReq.addr # 0
  /\ hReq.kind = "config" => Unused
  /\ hReq.kind = "clear" => hReq.pipe \in DataPipes /\ hUse[hReq.pipe] = "clearing"

\* What the calls in progress may still rely on.
CallInv ==
  /\ call.masked => call.op \in {"submit", "stall", "clear", "open"}
  /\ call.op \in {"clear", "open"} => call.pipe \in DataPipes
  /\ call.op = "submit" => (call.pipe \in DataPipes => ~halted[call.pipe])
  /\ call.op = "submit" => (call.pipe = In0 => ctl \in {"idle", "statusOut"})
  /\ call.op = "address" => ctl = "idle"
  /\ call.op = "stall" => (call.pipe \in Control => ctl = "refuse")
  /\ call.op = "clear" => ~active[call.pipe] /\ hUse[call.pipe] # "on"
  /\ call.op = "open" \/ ctl = "open" => Unused
  /\ setup # NoRequest /\ hReq = NoRequest => Unused

\* Responses follow the transfers; a halted data pipe has none.
RespInv ==
  /\ \A p \in Pipe : active[p] => resp[p] = "ACK"
  /\ \A p \in Pipe : resp[p] = "ACK" =>
       active[p] \/ (p = Out0 /\ (busReset \/ event.token = "SETUP" \/ hReq = NoRequest))
  /\ \A p \in DataPipes : resp[p] = "STALL" => halted[p]
  /\ \A p \in DataPipes : halted[p] => resp[p] # "ACK"

\* While the device works on the request, its control pipes are idle; the
\* status or data is offered only when all that comes before is done.
RequestInv ==
  hReq # NoRequest /\ event.token # "SETUP" =>
    /\ setup # NoRequest => /\ setup = hReq /\ ~stale
                            /\ ctl = "idle" /\ DataCall /\ ~active[Out0]
    /\ setup # NoRequest \/ ctl \in {"open", "status", "data", "refuse"} \/ ~DataCall
         => ~active[In0]
    /\ \A p \in Control : halted[p] => ctl = "refuse"
    /\ resetSeen => setup # NoRequest
    /\ hReq.kind # "read" => ~taken[In0]
    /\ call.op = "address" => hReq.kind = "address" /\ call.addr = hReq.addr
    /\ hReq.kind # "address" => pending = 0

\* The status packet of SET_ADDRESS and what it will make the handler do.
StatusInv ==
  hReq.kind = "address" /\ event.token # "SETUP" =>
    /\ ctl = "idle" /\ call.op \notin {"open", "clear"}
    /\ call.op = "submit" => (call.pipe = In0 => pending = hReq.addr /\ call.size = 0)
    /\ active[In0] => pending = hReq.addr /\ left[In0] = 0 /\ queued[In0] = 0

AddressInv ==
  hostUp /\ ~busReset /\ addr # hAddr =>
    /\ addr = 0 /\ pending = hAddr /\ active[In0]
    /\ left[In0] = 0 /\ queued[In0] = 0
    /\ DataCall /\ ctl \in {"idle", "statusOut"}
    /\ setup = NoRequest /\ hReq = NoRequest
    /\ event = NoEvent \/ On0("IN", In0)

LastInInv ==
  hostUp /\ ~busReset /\ On0("IN", In0) =>
    IF hReq # NoRequest THEN hReq.kind = "read"
    ELSE \/ ~active[In0] /\ ~Masked
         \/ pending \in {0, hAddr}

\* A pipe the host does not use is in the state the host starts from.
UnusedInv ==
  hostUp /\ ~busReset => \A p \in DataPipes :
    /\ hUse[p] = "off" => ~tog[p] /\ ~taken[p]
    /\ hUse[p] = "clearing" /\ ~halted[p] => ~tog[p] /\ ~taken[p]
    /\ hUse[p] # "on" /\ (On0("IN", p) \/ On0("OUT", p)) =>
         hUse[p] = "off" /\ ~active[p] /\ ~Masked

\* Toggles, packets and flagged events of the pipes in use.
InSync(p) ==
  /\ taken[p] <=> hTog[p] # tog[p]
  /\ taken[p] => active[p]
  /\ On0("IN", p) => taken[p]

OutSync(p) ==
  IF On0("OUT", p)
  THEN /\ active[p] /\ (event.ok <=> event.new)
       /\ IF event.acked THEN ~taken[p] /\ (event.ok <=> hTog[p] # tog[p])
          ELSE (event.new <=> ~taken[p]) /\ (event.ok <=> hTog[p] = tog[p])
  ELSE taken[p] <=> hTog[p] # tog[p]

SyncInv == \A p \in Pipe : Live(p) => IF IsIn(p) THEN InSync(p) ELSE OutSync(p)

UsbInv == /\ TypeOK /\ EventInv /\ HostInv /\ CallInv /\ RespInv
          /\ RequestInv /\ StatusInv /\ AddressInv /\ LastInInv /\ UnusedInv /\ SyncInv


----------------------------------------------------------------------------
(* The sets the records are built from *)

LEMMA PipeFacts ==
  /\ In0 \in Pipe /\ Out0 \in Pipe /\ In0 # Out0
  /\ In0 \in Control /\ Out0 \in Control
  /\ \A p \in Control : p \in Pipe /\ p \notin DataPipes /\ (p = In0 \/ p = Out0)
  /\ \A p \in DataPipes : p \in Pipe /\ p \notin Control /\ p # In0 /\ p # Out0
  /\ \A p \in Pipe : p \in Control \/ p \in DataPipes
  /\ IsIn(In0) /\ ~IsIn(Out0)
  BY DataPipesAssumption DEF In0, Out0, Control, Pipe, IsIn

LEMMA SizeFacts ==
  /\ MaxPacket \in Nat /\ MaxPacket > 0 /\ MaxTransfer \in Nat
  /\ 0 \in 0..MaxPacket /\ 0 \in 0..MaxTransfer
  /\ NoPacket \in 0..NoPacket /\ \A n \in 0..MaxPacket : n \in 0..NoPacket /\ n # NoPacket
  BY SizesAssumption DEF NoPacket

LEMMA RequestFacts ==
  /\ NoRequest.kind = "none" /\ NoRequest.addr = 0 /\ NoRequest.pipe = In0
  /\ \A r \in Request : /\ r.kind \in {"address", "clear", "config", "read", "bad"}
                        /\ r.addr \in Addresses \cup {0}
                        /\ r.pipe \in DataPipes \cup {In0}
                        /\ r.kind = "address" => r.addr # 0
                        /\ r.kind = "clear" => r.pipe \in DataPipes
                        /\ r # NoRequest
  BY DEF Request, NoRequest

LEMMA PacketFacts ==
  /\ NoEvent \in Packet /\ NoEvent.token = "none" /\ NoEvent.pipe = In0
  /\ NoEvent.request = NoRequest
  /\ \A e \in Packet : /\ e.token \in {"none", "IN", "OUT", "SETUP"} /\ e.pipe \in Pipe
                       /\ e.len \in 0..MaxPacket /\ e.ok \in BOOLEAN
                       /\ e.acked \in BOOLEAN /\ e.new \in BOOLEAN
                       /\ e.request \in Request \cup {NoRequest}
  BY PipeFacts, SizeFacts DEF Packet, NoEvent

LEMMA InPacketFacts ==
  \A p \in Pipe : /\ InPacket(p) \in Packet /\ InPacket(p).token = "IN"
                  /\ InPacket(p).pipe = p
  BY PipeFacts, SizeFacts DEF Packet, NoEvent, InPacket

LEMMA OutPacketFacts ==
  ASSUME NEW p \in Pipe, NEW len \in 0..MaxPacket, NEW acked \in BOOLEAN,
         NEW ok \in BOOLEAN, NEW new \in BOOLEAN
  PROVE  LET e == OutPacket(p, len, acked, ok, new)
         IN /\ e \in Packet /\ e.token = "OUT" /\ e.pipe = p /\ e.len = len
            /\ (e.acked <=> acked) /\ (e.ok <=> ok) /\ (e.new <=> new)
            /\ e # NoEvent
  BY PipeFacts, SizeFacts, PacketFacts DEF Packet, OutPacket

LEMMA SetupPacketFacts ==
  \A r \in Request : /\ SetupPacket(r) \in Packet /\ SetupPacket(r).token = "SETUP"
                     /\ SetupPacket(r).request = r
  BY PipeFacts, SizeFacts DEF Packet, NoEvent, SetupPacket

LEMMA CallFacts ==
  /\ NoCall \in Call /\ NoCall.op = "none" /\ ~NoCall.masked /\ NoCall.pipe = In0
  /\ NoCall.addr = 0
  /\ \A c \in Call : /\ c.op \in {"none", "submit", "stall", "clear", "open", "address"}
                     /\ c.pipe \in Pipe /\ c.size \in 0..MaxTransfer
                     /\ c.addr \in Addresses \cup {0} /\ c.masked \in BOOLEAN
  BY PipeFacts, SizeFacts DEF Call, NoCall

LEMMA MaskedCallFacts ==
  \A c \in Call : LET d == InCriticalSection(c)
                  IN /\ d \in Call /\ d.masked /\ d.op = c.op /\ d.pipe = c.pipe
                     /\ d.size = c.size /\ d.addr = c.addr
  BY DEF Call, InCriticalSection

LEMMA PipeCallFacts ==
  \A op \in {"submit", "stall", "clear", "open"}, p \in Pipe, n \in 0..MaxTransfer :
    LET c == PipeCall(op, p, n)
    IN /\ c \in Call /\ c.op = op /\ c.pipe = p /\ c.size = n /\ ~c.masked /\ c.addr = 0
  BY PipeFacts, SizeFacts DEF Call, NoCall, PipeCall

LEMMA AddressCallFacts ==
  \A a \in Addresses \cup {0} :
    LET c == AddressCall(a)
    IN /\ c \in Call /\ c.op = "address" /\ c.addr = a /\ ~c.masked /\ c.pipe = In0
  BY PipeFacts, SizeFacts DEF Call, NoCall, AddressCall

LEMMA SmallerFacts ==
  /\ \A m \in Nat : Smaller(m, MaxPacket) \in 0..MaxPacket /\ Smaller(0, m) = 0
  /\ \A p \in Pipe : PacketSize(p) = MaxPacket \/ PacketSize(p) = 0
  /\ \A p \in Pipe : PacketSize(p) \in Nat
  /\ \A m \in Nat : \A p \in Pipe : Smaller(m, PacketSize(p)) \in 0..MaxPacket
  BY SizeFacts DEF Smaller, PacketSize

\* What the type invariant says of the records the state holds.
TypedEvent ==
  /\ event.token \in {"none", "IN", "OUT", "SETUP"} /\ event.pipe \in Pipe
  /\ event.len \in 0..MaxPacket /\ event.ok \in BOOLEAN
  /\ event.acked \in BOOLEAN /\ event.new \in BOOLEAN
  /\ event.request \in Request \cup {NoRequest}
  /\ NoEvent \in Packet /\ NoEvent.token = "none" /\ NoEvent.pipe = In0
TypedCall ==
  /\ call.op \in {"none", "submit", "stall", "clear", "open", "address"}
  /\ call.pipe \in Pipe /\ call.size \in 0..MaxTransfer
  /\ call.addr \in Addresses \cup {0} /\ call.masked \in BOOLEAN
  /\ NoCall \in Call /\ NoCall.op = "none" /\ ~NoCall.masked /\ NoCall.pipe = In0
TypedRequest(r) ==
  /\ r.kind \in {"none", "address", "clear", "config", "read", "bad"}
  /\ r.addr \in Addresses \cup {0} /\ r.pipe \in DataPipes \cup {In0}
  /\ r.kind = "clear" => r.pipe \in DataPipes
  /\ r.kind = "address" => r.addr # 0
  /\ r.kind = "none" <=> r = NoRequest
Typed ==
  /\ TypedEvent /\ TypedCall
  /\ TypedRequest(setup) /\ TypedRequest(hReq) /\ TypedRequest(NoRequest)

LEMMA TypedRequestFacts == \A r \in Request \cup {NoRequest} : TypedRequest(r)
<1>1. TypedRequest(NoRequest)
  BY RequestFacts, PipeFacts DEF TypedRequest
<1>2. ASSUME NEW r \in Request PROVE TypedRequest(r)
  BY RequestFacts DEF TypedRequest
<1> QED
  BY <1>1, <1>2

LEMMA TypedFacts == TypeOK => Typed
<1> SUFFICES ASSUME TypeOK PROVE Typed
  OBVIOUS
<1>1. TypedEvent
  BY PacketFacts DEF TypeOK, FlagType, TypedEvent
<1>2. TypedCall
  BY CallFacts DEF TypeOK, StackType, TypedCall
<1>3. TypedRequest(setup) /\ TypedRequest(hReq) /\ TypedRequest(NoRequest)
  BY TypedRequestFacts DEF TypeOK, StackType, HostType
<1> QED
  BY <1>1, <1>2, <1>3 DEF Typed

\* The packet the host writes, as the driver and the properties see it.
Written(p, len, acked) ==
  /\ event'.token = "OUT" /\ event'.pipe = p /\ event'.len = len
  /\ event'.acked <=> acked
  /\ event'.ok <=> hTog[p] = tog[p]
  /\ event'.new <=> ~taken[p]

LEMMA WritesFacts ==
  ASSUME TypeOK, NEW p \in Pipe, NEW len \in 0..MaxPacket, NEW acked \in BOOLEAN,
         Writes(p, len, acked)
  PROVE  Written(p, len, acked)
<1> DEFINE ok == hTog[p] = tog[p]
           new == ~taken[p]
<1>1. ok \in BOOLEAN /\ new \in BOOLEAN
  OBVIOUS
<1>2. event' = OutPacket(p, len, acked, ok, new)
  BY DEF Writes
<1> HIDE DEF ok, new
<1>3. /\ event'.token = "OUT" /\ event'.pipe = p /\ event'.len = len
      /\ (event'.acked <=> acked) /\ (event'.ok <=> ok) /\ (event'.new <=> new)
  BY <1>1, <1>2, OutPacketFacts
<1> QED
  BY <1>3 DEF Written, ok, new

\* Every step keeps DriverType.
LEMMA NextDriverType == TypeOK /\ [Next]_vars => DriverType'
<1> SUFFICES ASSUME TypeOK, [Next]_vars PROVE DriverType'
  OBVIOUS
<1>0. Typed
  BY TypedFacts DEF UsbInv
<1> USE <1>0, PipeFacts, SizeFacts DEF TypeOK, DriverType, RegisterType, FlagType, StackType, HostType, GhostType, Typed, TypedEvent, TypedCall, TypedRequest
<1>1. CASE ProcessBusReset
  BY <1>1
  DEF ProcessBusReset, ResetEndpoints, DropAddress, All, Masked, vars, driver,
    registers, flags, stack, host
<1>2. CASE ProcessSetup
  BY <1>2
  DEF ProcessSetup, DropAddress, On, Masked, vars, driver, registers, flags,
    stack, host
<1>3. CASE ProcessInIdle
  BY <1>3
  DEF ProcessInIdle, InEvent, Masked, vars, driver, registers, flags, stack,
    host
<1>4. CASE ProcessInMore
  BY <1>4, SmallerFacts
  DEF ProcessInMore, InEvent, MoreToSend, UnsentAfter, LoadNextIn, Toggle,
    Masked, vars, driver, registers, flags, stack, host
<1>5. CASE ProcessInLast
  BY <1>5
  DEF ProcessInLast, InEvent, MoreToSend, UnsentAfter, Disarm, Finish, Toggle,
    Masked, vars, driver, registers, flags, stack, host
<1>6. CASE ProcessOutIgnored
  BY <1>6
  DEF ProcessOutIgnored, OutEvent, ExpectedPacket, Masked, vars, driver,
    registers, flags, stack, host
<1>7. CASE ProcessOutIdle
  BY <1>7
  DEF ProcessOutIdle, OutEvent, ExpectedPacket, Masked, vars, driver,
    registers, flags, stack, host
<1>8. CASE ProcessOutTooLong
  BY <1>8
  DEF ProcessOutTooLong, OutEvent, ExpectedPacket, Disarm, Finish, Masked,
    vars, driver, registers, flags, stack, host
<1>9. CASE ProcessOutStored
  <2>1. CASE event.len = left[event.pipe] \/ event.len < PacketSize(event.pipe)
    <3>1. /\ active' = [active EXCEPT ![event.pipe] = FALSE]
          /\ left' = [left EXCEPT ![event.pipe] = 0]
          /\ queued' = [queued EXCEPT ![event.pipe] = 0]
          /\ UNCHANGED <<open, pending>>
      BY <1>9, <2>1 DEF ProcessOutStored, Disarm, Finish
    <3> QED
      BY <3>1
  <2>2. CASE ~(event.len = left[event.pipe] \/ event.len < PacketSize(event.pipe))
    <3>1. left[event.pipe] - event.len \in 0..MaxTransfer
      BY <1>9 DEF ProcessOutStored, Fits
    <3> QED
      BY <1>9, <2>2, <3>1 DEF ProcessOutStored, stack, host
  <2> QED
    BY <2>1, <2>2
<1>10. CASE CriticalEnter
  BY <1>10, MaskedCallFacts
  DEF CriticalEnter, Pending, vars, driver, registers, flags, stack, host
<1>11. CASE SubmitIn
  BY <1>11, SmallerFacts
  DEF SubmitIn, Accepts, LoadNextIn, Masked, vars, driver, registers, flags,
    stack, host
<1>12. CASE SubmitOut
  BY <1>12
  DEF SubmitOut, Accepts, Masked, vars, driver, registers, flags, stack, host
<1>13. CASE SubmitBusy
  BY <1>13
  DEF SubmitBusy, Masked, vars, driver, registers, flags, stack, host
<1>14. CASE Stall
  BY <1>14
  DEF Stall, ClearTransfer, Finish, Masked, vars, driver, registers, flags,
    stack, host
<1>15. CASE ClearStall
  BY <1>15
  DEF ClearStall, Masked, vars, driver, registers, flags, stack, host
<1>16. CASE OpenBusy
  BY <1>16
  DEF OpenBusy, Masked, vars, driver, registers, flags, stack, host
<1>17. CASE OpenEndpoint
  BY <1>17
  DEF OpenEndpoint, Disarm, Finish, Masked, vars, driver, registers, flags,
    stack, host
<1>18. CASE SetAddress
  BY <1>18, PipeCallFacts
  DEF SetAddress, Pending, vars, driver, registers, flags, stack, host
<1>19. CASE SetConnected
  BY <1>19
  DEF SetConnected, Pending, All, vars, driver, registers, flags, stack, host
<1>20. CASE TakeAddress
  BY <1>20, AddressCallFacts
  DEF TakeAddress, Takes, Answered, AtRest, Pending, vars, driver, registers,
    flags, stack, host
<1>21. CASE TakeClear
  BY <1>21, PipeCallFacts
  DEF TakeClear, Takes, Answered, AtRest, Start, Pending, vars, driver,
    registers, flags, stack, host
<1>22. CASE TakeConfig
  BY <1>22
  DEF TakeConfig, Takes, Answered, AtRest, Pending, vars, driver, registers,
    flags, stack, host
<1>23. CASE TakeRead
  BY <1>23
  DEF TakeRead, Takes, Answered, AtRest, Pending, vars, driver, registers,
    flags, stack, host
<1>24. CASE TakeBad
  BY <1>24
  DEF TakeBad, Takes, Answered, AtRest, Pending, vars, driver, registers,
    flags, stack, host
<1>25. CASE OpenNext
  BY <1>25, PipeCallFacts
  DEF OpenNext, Calls, Start, Pending, vars, driver, registers, flags, stack,
    host
<1>26. CASE SendStatus
  BY <1>26, PipeCallFacts
  DEF SendStatus, Calls, Start, Pending, vars, driver, registers, flags, stack,
    host
<1>27. CASE SendData
  BY <1>27, PipeCallFacts
  DEF SendData, Calls, Start, Pending, vars, driver, registers, flags, stack,
    host
<1>28. CASE ReceiveStatus
  BY <1>28, PipeCallFacts
  DEF ReceiveStatus, Calls, Start, Pending, vars, driver, registers, flags,
    stack, host
<1>29. CASE StallControl
  BY <1>29, PipeCallFacts
  DEF StallControl, Calls, Start, Pending, vars, driver, registers, flags,
    stack, host
<1>30. CASE StackReset
  BY <1>30
  DEF StackReset, Answered, Pending, AtRest, vars, driver, registers, flags,
    stack, host
<1>31. CASE ClassSubmit
  BY <1>31, PipeCallFacts
  DEF ClassSubmit, Calls, Start, Pending, vars, driver, registers, flags,
    stack, host
<1>32. CASE ClassStall
  BY <1>32, PipeCallFacts
  DEF ClassStall, Calls, Start, Pending, vars, driver, registers, flags, stack,
    host
<1>33. ASSUME NEW p \in Pipe, NEW acked \in BOOLEAN, HostInRepeated(p, acked) PROVE DriverType'
  BY <1>33, InPacketFacts
  DEF HostInRepeated, Reads, WireReady, Reachable, Talks, vars, driver,
    registers, flags, stack, host
<1>34. ASSUME NEW p \in Pipe, NEW acked \in BOOLEAN, HostInData(p, acked) PROVE DriverType'
  BY <1>34, InPacketFacts
  DEF HostInData, Reads, WireReady, Reachable, Talks, vars, driver, registers,
    flags, stack, host
<1>35. ASSUME NEW p \in Pipe, NEW acked \in BOOLEAN, HostInStatus(p, acked) PROVE DriverType'
  BY <1>35, InPacketFacts
  DEF HostInStatus, Reads, WireReady, Reachable, Talks, Completes, Fresh, On,
    vars, driver, registers, flags, stack, host
<1>36. ASSUME NEW p \in Pipe, NEW len \in 0..MaxPacket, HostOutLost(p, len) PROVE DriverType'
  BY <1>36, OutPacketFacts
  DEF HostOutLost, Writes, WireReady, Reachable, Talks, vars, driver,
    registers, flags, stack, host
<1>37. ASSUME NEW p \in Pipe, NEW len \in 0..MaxPacket, HostOutAcked(p, len) PROVE DriverType'
  BY <1>37, OutPacketFacts
  DEF HostOutAcked, Writes, WireReady, Reachable, Talks, vars, driver,
    registers, flags, stack, host
<1>38. ASSUME NEW r \in Request, HostSetup(r) PROVE DriverType'
  BY <1>38, SetupPacketFacts, RequestFacts
  DEF HostSetup, On, WireReady, Reachable, AtRest, vars, driver, registers,
    flags, stack, host
<1>39. CASE HostReset
  BY <1>39
  DEF HostReset, All, vars, driver, registers, flags, stack, host
<1>40. CASE UNCHANGED vars
  BY <1>40 DEF vars, driver, registers, flags, stack, host
<1> QED
  BY <1>1, <1>2, <1>3, <1>4, <1>5, <1>6, <1>7, <1>8, <1>9, <1>10, <1>11, <1>12,
    <1>13, <1>14, <1>15, <1>16, <1>17, <1>18, <1>19, <1>20, <1>21, <1>22,
    <1>23, <1>24, <1>25, <1>26, <1>27, <1>28, <1>29, <1>30, <1>31, <1>32,
    <1>33, <1>34, <1>35, <1>36, <1>37, <1>38, <1>39, <1>40
  DEF Next, Interrupt, ProcessIn, ProcessOut, Task, Submit, EndpointOpen,
    TakeSetup, ControlStep, ClassCall, Host, HostIn, HostOut

\* Every step keeps RegisterType.
LEMMA NextRegisterType == TypeOK /\ [Next]_vars => RegisterType'
<1> SUFFICES ASSUME TypeOK, [Next]_vars PROVE RegisterType'
  OBVIOUS
<1>0. Typed
  BY TypedFacts DEF UsbInv
<1> USE <1>0, PipeFacts, SizeFacts DEF TypeOK, DriverType, RegisterType, FlagType, StackType, HostType, GhostType, Typed, TypedEvent, TypedCall, TypedRequest
<1>1. CASE ProcessBusReset
  BY <1>1
  DEF ProcessBusReset, ResetEndpoints, DropAddress, All, Masked, vars, driver,
    registers, flags, stack, host
<1>2. CASE ProcessSetup
  BY <1>2
  DEF ProcessSetup, DropAddress, On, Masked, vars, driver, registers, flags,
    stack, host
<1>3. CASE ProcessInIdle
  BY <1>3
  DEF ProcessInIdle, InEvent, Masked, vars, driver, registers, flags, stack,
    host
<1>4. CASE ProcessInMore
  BY <1>4, SmallerFacts
  DEF ProcessInMore, InEvent, MoreToSend, UnsentAfter, LoadNextIn, Toggle,
    Masked, vars, driver, registers, flags, stack, host
<1>5. CASE ProcessInLast
  BY <1>5
  DEF ProcessInLast, InEvent, MoreToSend, UnsentAfter, Disarm, Finish, Toggle,
    Masked, vars, driver, registers, flags, stack, host
<1>6. CASE ProcessOutIgnored
  BY <1>6
  DEF ProcessOutIgnored, OutEvent, ExpectedPacket, Masked, vars, driver,
    registers, flags, stack, host
<1>7. CASE ProcessOutIdle
  BY <1>7
  DEF ProcessOutIdle, OutEvent, ExpectedPacket, Masked, vars, driver,
    registers, flags, stack, host
<1>8. CASE ProcessOutTooLong
  BY <1>8
  DEF ProcessOutTooLong, OutEvent, ExpectedPacket, Disarm, Finish, Masked,
    vars, driver, registers, flags, stack, host
<1>9. CASE ProcessOutStored
  BY <1>9
  DEF ProcessOutStored, OutEvent, ExpectedPacket, Fits, Disarm, Finish, Toggle,
    Masked, vars, driver, registers, flags, stack, host
<1>10. CASE CriticalEnter
  BY <1>10, MaskedCallFacts
  DEF CriticalEnter, Pending, vars, driver, registers, flags, stack, host
<1>11. CASE SubmitIn
  BY <1>11, SmallerFacts
  DEF SubmitIn, Accepts, LoadNextIn, Masked, vars, driver, registers, flags,
    stack, host
<1>12. CASE SubmitOut
  BY <1>12
  DEF SubmitOut, Accepts, Masked, vars, driver, registers, flags, stack, host
<1>13. CASE SubmitBusy
  BY <1>13
  DEF SubmitBusy, Masked, vars, driver, registers, flags, stack, host
<1>14. CASE Stall
  BY <1>14
  DEF Stall, ClearTransfer, Finish, Masked, vars, driver, registers, flags,
    stack, host
<1>15. CASE ClearStall
  BY <1>15
  DEF ClearStall, Masked, vars, driver, registers, flags, stack, host
<1>16. CASE OpenBusy
  BY <1>16
  DEF OpenBusy, Masked, vars, driver, registers, flags, stack, host
<1>17. CASE OpenEndpoint
  BY <1>17
  DEF OpenEndpoint, Disarm, Finish, Masked, vars, driver, registers, flags,
    stack, host
<1>18. CASE SetAddress
  BY <1>18, PipeCallFacts
  DEF SetAddress, Pending, vars, driver, registers, flags, stack, host
<1>19. CASE SetConnected
  BY <1>19
  DEF SetConnected, Pending, All, vars, driver, registers, flags, stack, host
<1>20. CASE TakeAddress
  BY <1>20, AddressCallFacts
  DEF TakeAddress, Takes, Answered, AtRest, Pending, vars, driver, registers,
    flags, stack, host
<1>21. CASE TakeClear
  BY <1>21, PipeCallFacts
  DEF TakeClear, Takes, Answered, AtRest, Start, Pending, vars, driver,
    registers, flags, stack, host
<1>22. CASE TakeConfig
  BY <1>22
  DEF TakeConfig, Takes, Answered, AtRest, Pending, vars, driver, registers,
    flags, stack, host
<1>23. CASE TakeRead
  BY <1>23
  DEF TakeRead, Takes, Answered, AtRest, Pending, vars, driver, registers,
    flags, stack, host
<1>24. CASE TakeBad
  BY <1>24
  DEF TakeBad, Takes, Answered, AtRest, Pending, vars, driver, registers,
    flags, stack, host
<1>25. CASE OpenNext
  BY <1>25, PipeCallFacts
  DEF OpenNext, Calls, Start, Pending, vars, driver, registers, flags, stack,
    host
<1>26. CASE SendStatus
  BY <1>26, PipeCallFacts
  DEF SendStatus, Calls, Start, Pending, vars, driver, registers, flags, stack,
    host
<1>27. CASE SendData
  BY <1>27, PipeCallFacts
  DEF SendData, Calls, Start, Pending, vars, driver, registers, flags, stack,
    host
<1>28. CASE ReceiveStatus
  BY <1>28, PipeCallFacts
  DEF ReceiveStatus, Calls, Start, Pending, vars, driver, registers, flags,
    stack, host
<1>29. CASE StallControl
  BY <1>29, PipeCallFacts
  DEF StallControl, Calls, Start, Pending, vars, driver, registers, flags,
    stack, host
<1>30. CASE StackReset
  BY <1>30
  DEF StackReset, Answered, Pending, AtRest, vars, driver, registers, flags,
    stack, host
<1>31. CASE ClassSubmit
  BY <1>31, PipeCallFacts
  DEF ClassSubmit, Calls, Start, Pending, vars, driver, registers, flags,
    stack, host
<1>32. CASE ClassStall
  BY <1>32, PipeCallFacts
  DEF ClassStall, Calls, Start, Pending, vars, driver, registers, flags, stack,
    host
<1>33. ASSUME NEW p \in Pipe, NEW acked \in BOOLEAN, HostInRepeated(p, acked) PROVE RegisterType'
  BY <1>33, InPacketFacts
  DEF HostInRepeated, Reads, WireReady, Reachable, Talks, vars, driver,
    registers, flags, stack, host
<1>34. ASSUME NEW p \in Pipe, NEW acked \in BOOLEAN, HostInData(p, acked) PROVE RegisterType'
  BY <1>34, InPacketFacts
  DEF HostInData, Reads, WireReady, Reachable, Talks, vars, driver, registers,
    flags, stack, host
<1>35. ASSUME NEW p \in Pipe, NEW acked \in BOOLEAN, HostInStatus(p, acked) PROVE RegisterType'
  BY <1>35, InPacketFacts
  DEF HostInStatus, Reads, WireReady, Reachable, Talks, Completes, Fresh, On,
    vars, driver, registers, flags, stack, host
<1>36. ASSUME NEW p \in Pipe, NEW len \in 0..MaxPacket, HostOutLost(p, len) PROVE RegisterType'
  BY <1>36, OutPacketFacts
  DEF HostOutLost, Writes, WireReady, Reachable, Talks, vars, driver,
    registers, flags, stack, host
<1>37. ASSUME NEW p \in Pipe, NEW len \in 0..MaxPacket, HostOutAcked(p, len) PROVE RegisterType'
  BY <1>37, OutPacketFacts
  DEF HostOutAcked, Writes, WireReady, Reachable, Talks, vars, driver,
    registers, flags, stack, host
<1>38. ASSUME NEW r \in Request, HostSetup(r) PROVE RegisterType'
  BY <1>38, SetupPacketFacts, RequestFacts
  DEF HostSetup, On, WireReady, Reachable, AtRest, vars, driver, registers,
    flags, stack, host
<1>39. CASE HostReset
  BY <1>39
  DEF HostReset, All, vars, driver, registers, flags, stack, host
<1>40. CASE UNCHANGED vars
  BY <1>40 DEF vars, driver, registers, flags, stack, host
<1> QED
  BY <1>1, <1>2, <1>3, <1>4, <1>5, <1>6, <1>7, <1>8, <1>9, <1>10, <1>11, <1>12,
    <1>13, <1>14, <1>15, <1>16, <1>17, <1>18, <1>19, <1>20, <1>21, <1>22,
    <1>23, <1>24, <1>25, <1>26, <1>27, <1>28, <1>29, <1>30, <1>31, <1>32,
    <1>33, <1>34, <1>35, <1>36, <1>37, <1>38, <1>39, <1>40
  DEF Next, Interrupt, ProcessIn, ProcessOut, Task, Submit, EndpointOpen,
    TakeSetup, ControlStep, ClassCall, Host, HostIn, HostOut

\* Every step keeps FlagType.
LEMMA NextFlagType == TypeOK /\ [Next]_vars => FlagType'
<1> SUFFICES ASSUME TypeOK, [Next]_vars PROVE FlagType'
  OBVIOUS
<1>0. Typed
  BY TypedFacts DEF UsbInv
<1> USE <1>0, PipeFacts, SizeFacts DEF TypeOK, DriverType, RegisterType, FlagType, StackType, HostType, GhostType, Typed, TypedEvent, TypedCall, TypedRequest
<1>1. CASE ProcessBusReset
  BY <1>1
  DEF ProcessBusReset, ResetEndpoints, DropAddress, All, Masked, vars, driver,
    registers, flags, stack, host
<1>2. CASE ProcessSetup
  BY <1>2
  DEF ProcessSetup, DropAddress, On, Masked, vars, driver, registers, flags,
    stack, host
<1>3. CASE ProcessInIdle
  BY <1>3
  DEF ProcessInIdle, InEvent, Masked, vars, driver, registers, flags, stack,
    host
<1>4. CASE ProcessInMore
  BY <1>4, SmallerFacts
  DEF ProcessInMore, InEvent, MoreToSend, UnsentAfter, LoadNextIn, Toggle,
    Masked, vars, driver, registers, flags, stack, host
<1>5. CASE ProcessInLast
  BY <1>5
  DEF ProcessInLast, InEvent, MoreToSend, UnsentAfter, Disarm, Finish, Toggle,
    Masked, vars, driver, registers, flags, stack, host
<1>6. CASE ProcessOutIgnored
  BY <1>6
  DEF ProcessOutIgnored, OutEvent, ExpectedPacket, Masked, vars, driver,
    registers, flags, stack, host
<1>7. CASE ProcessOutIdle
  BY <1>7
  DEF ProcessOutIdle, OutEvent, ExpectedPacket, Masked, vars, driver,
    registers, flags, stack, host
<1>8. CASE ProcessOutTooLong
  BY <1>8
  DEF ProcessOutTooLong, OutEvent, ExpectedPacket, Disarm, Finish, Masked,
    vars, driver, registers, flags, stack, host
<1>9. CASE ProcessOutStored
  BY <1>9
  DEF ProcessOutStored, OutEvent, ExpectedPacket, Fits, Disarm, Finish, Toggle,
    Masked, vars, driver, registers, flags, stack, host
<1>10. CASE CriticalEnter
  BY <1>10, MaskedCallFacts
  DEF CriticalEnter, Pending, vars, driver, registers, flags, stack, host
<1>11. CASE SubmitIn
  BY <1>11, SmallerFacts
  DEF SubmitIn, Accepts, LoadNextIn, Masked, vars, driver, registers, flags,
    stack, host
<1>12. CASE SubmitOut
  BY <1>12
  DEF SubmitOut, Accepts, Masked, vars, driver, registers, flags, stack, host
<1>13. CASE SubmitBusy
  BY <1>13
  DEF SubmitBusy, Masked, vars, driver, registers, flags, stack, host
<1>14. CASE Stall
  BY <1>14
  DEF Stall, ClearTransfer, Finish, Masked, vars, driver, registers, flags,
    stack, host
<1>15. CASE ClearStall
  BY <1>15
  DEF ClearStall, Masked, vars, driver, registers, flags, stack, host
<1>16. CASE OpenBusy
  BY <1>16
  DEF OpenBusy, Masked, vars, driver, registers, flags, stack, host
<1>17. CASE OpenEndpoint
  BY <1>17
  DEF OpenEndpoint, Disarm, Finish, Masked, vars, driver, registers, flags,
    stack, host
<1>18. CASE SetAddress
  BY <1>18, PipeCallFacts
  DEF SetAddress, Pending, vars, driver, registers, flags, stack, host
<1>19. CASE SetConnected
  BY <1>19
  DEF SetConnected, Pending, All, vars, driver, registers, flags, stack, host
<1>20. CASE TakeAddress
  BY <1>20, AddressCallFacts
  DEF TakeAddress, Takes, Answered, AtRest, Pending, vars, driver, registers,
    flags, stack, host
<1>21. CASE TakeClear
  BY <1>21, PipeCallFacts
  DEF TakeClear, Takes, Answered, AtRest, Start, Pending, vars, driver,
    registers, flags, stack, host
<1>22. CASE TakeConfig
  BY <1>22
  DEF TakeConfig, Takes, Answered, AtRest, Pending, vars, driver, registers,
    flags, stack, host
<1>23. CASE TakeRead
  BY <1>23
  DEF TakeRead, Takes, Answered, AtRest, Pending, vars, driver, registers,
    flags, stack, host
<1>24. CASE TakeBad
  BY <1>24
  DEF TakeBad, Takes, Answered, AtRest, Pending, vars, driver, registers,
    flags, stack, host
<1>25. CASE OpenNext
  BY <1>25, PipeCallFacts
  DEF OpenNext, Calls, Start, Pending, vars, driver, registers, flags, stack,
    host
<1>26. CASE SendStatus
  BY <1>26, PipeCallFacts
  DEF SendStatus, Calls, Start, Pending, vars, driver, registers, flags, stack,
    host
<1>27. CASE SendData
  BY <1>27, PipeCallFacts
  DEF SendData, Calls, Start, Pending, vars, driver, registers, flags, stack,
    host
<1>28. CASE ReceiveStatus
  BY <1>28, PipeCallFacts
  DEF ReceiveStatus, Calls, Start, Pending, vars, driver, registers, flags,
    stack, host
<1>29. CASE StallControl
  BY <1>29, PipeCallFacts
  DEF StallControl, Calls, Start, Pending, vars, driver, registers, flags,
    stack, host
<1>30. CASE StackReset
  BY <1>30
  DEF StackReset, Answered, Pending, AtRest, vars, driver, registers, flags,
    stack, host
<1>31. CASE ClassSubmit
  BY <1>31, PipeCallFacts
  DEF ClassSubmit, Calls, Start, Pending, vars, driver, registers, flags,
    stack, host
<1>32. CASE ClassStall
  BY <1>32, PipeCallFacts
  DEF ClassStall, Calls, Start, Pending, vars, driver, registers, flags, stack,
    host
<1>33. ASSUME NEW p \in Pipe, NEW acked \in BOOLEAN, HostInRepeated(p, acked) PROVE FlagType'
  BY <1>33, InPacketFacts
  DEF HostInRepeated, Reads, WireReady, Reachable, Talks, vars, driver,
    registers, flags, stack, host
<1>34. ASSUME NEW p \in Pipe, NEW acked \in BOOLEAN, HostInData(p, acked) PROVE FlagType'
  BY <1>34, InPacketFacts
  DEF HostInData, Reads, WireReady, Reachable, Talks, vars, driver, registers,
    flags, stack, host
<1>35. ASSUME NEW p \in Pipe, NEW acked \in BOOLEAN, HostInStatus(p, acked) PROVE FlagType'
  BY <1>35, InPacketFacts
  DEF HostInStatus, Reads, WireReady, Reachable, Talks, Completes, Fresh, On,
    vars, driver, registers, flags, stack, host
<1>36. ASSUME NEW p \in Pipe, NEW len \in 0..MaxPacket, HostOutLost(p, len) PROVE FlagType'
  BY <1>36, OutPacketFacts
  DEF HostOutLost, Writes, WireReady, Reachable, Talks, vars, driver,
    registers, flags, stack, host
<1>37. ASSUME NEW p \in Pipe, NEW len \in 0..MaxPacket, HostOutAcked(p, len) PROVE FlagType'
  BY <1>37, OutPacketFacts
  DEF HostOutAcked, Writes, WireReady, Reachable, Talks, vars, driver,
    registers, flags, stack, host
<1>38. ASSUME NEW r \in Request, HostSetup(r) PROVE FlagType'
  BY <1>38, SetupPacketFacts, RequestFacts
  DEF HostSetup, On, WireReady, Reachable, AtRest, vars, driver, registers,
    flags, stack, host
<1>39. CASE HostReset
  BY <1>39
  DEF HostReset, All, vars, driver, registers, flags, stack, host
<1>40. CASE UNCHANGED vars
  BY <1>40 DEF vars, driver, registers, flags, stack, host
<1> QED
  BY <1>1, <1>2, <1>3, <1>4, <1>5, <1>6, <1>7, <1>8, <1>9, <1>10, <1>11, <1>12,
    <1>13, <1>14, <1>15, <1>16, <1>17, <1>18, <1>19, <1>20, <1>21, <1>22,
    <1>23, <1>24, <1>25, <1>26, <1>27, <1>28, <1>29, <1>30, <1>31, <1>32,
    <1>33, <1>34, <1>35, <1>36, <1>37, <1>38, <1>39, <1>40
  DEF Next, Interrupt, ProcessIn, ProcessOut, Task, Submit, EndpointOpen,
    TakeSetup, ControlStep, ClassCall, Host, HostIn, HostOut

\* Every step keeps StackType.
LEMMA NextStackType == TypeOK /\ [Next]_vars => StackType'
<1> SUFFICES ASSUME TypeOK, [Next]_vars PROVE StackType'
  OBVIOUS
<1>0. Typed
  BY TypedFacts DEF UsbInv
<1> USE <1>0, PipeFacts, SizeFacts DEF TypeOK, DriverType, RegisterType, FlagType, StackType, HostType, GhostType, Typed, TypedEvent, TypedCall, TypedRequest
<1>1. CASE ProcessBusReset
  BY <1>1
  DEF ProcessBusReset, ResetEndpoints, DropAddress, All, Masked, vars, driver,
    registers, flags, stack, host
<1>2. CASE ProcessSetup
  BY <1>2
  DEF ProcessSetup, DropAddress, On, Masked, vars, driver, registers, flags,
    stack, host
<1>3. CASE ProcessInIdle
  BY <1>3
  DEF ProcessInIdle, InEvent, Masked, vars, driver, registers, flags, stack,
    host
<1>4. CASE ProcessInMore
  BY <1>4, SmallerFacts
  DEF ProcessInMore, InEvent, MoreToSend, UnsentAfter, LoadNextIn, Toggle,
    Masked, vars, driver, registers, flags, stack, host
<1>5. CASE ProcessInLast
  BY <1>5
  DEF ProcessInLast, InEvent, MoreToSend, UnsentAfter, Disarm, Finish, Toggle,
    Masked, vars, driver, registers, flags, stack, host
<1>6. CASE ProcessOutIgnored
  BY <1>6
  DEF ProcessOutIgnored, OutEvent, ExpectedPacket, Masked, vars, driver,
    registers, flags, stack, host
<1>7. CASE ProcessOutIdle
  BY <1>7
  DEF ProcessOutIdle, OutEvent, ExpectedPacket, Masked, vars, driver,
    registers, flags, stack, host
<1>8. CASE ProcessOutTooLong
  BY <1>8
  DEF ProcessOutTooLong, OutEvent, ExpectedPacket, Disarm, Finish, Masked,
    vars, driver, registers, flags, stack, host
<1>9. CASE ProcessOutStored
  BY <1>9
  DEF ProcessOutStored, OutEvent, ExpectedPacket, Fits, Disarm, Finish, Toggle,
    Masked, vars, driver, registers, flags, stack, host
<1>10. CASE CriticalEnter
  BY <1>10, MaskedCallFacts
  DEF CriticalEnter, Pending, vars, driver, registers, flags, stack, host
<1>11. CASE SubmitIn
  BY <1>11, SmallerFacts
  DEF SubmitIn, Accepts, LoadNextIn, Masked, vars, driver, registers, flags,
    stack, host
<1>12. CASE SubmitOut
  BY <1>12
  DEF SubmitOut, Accepts, Masked, vars, driver, registers, flags, stack, host
<1>13. CASE SubmitBusy
  BY <1>13
  DEF SubmitBusy, Masked, vars, driver, registers, flags, stack, host
<1>14. CASE Stall
  BY <1>14
  DEF Stall, ClearTransfer, Finish, Masked, vars, driver, registers, flags,
    stack, host
<1>15. CASE ClearStall
  BY <1>15
  DEF ClearStall, Masked, vars, driver, registers, flags, stack, host
<1>16. CASE OpenBusy
  BY <1>16
  DEF OpenBusy, Masked, vars, driver, registers, flags, stack, host
<1>17. CASE OpenEndpoint
  BY <1>17
  DEF OpenEndpoint, Disarm, Finish, Masked, vars, driver, registers, flags,
    stack, host
<1>18. CASE SetAddress
  BY <1>18, PipeCallFacts
  DEF SetAddress, Pending, vars, driver, registers, flags, stack, host
<1>19. CASE SetConnected
  BY <1>19
  DEF SetConnected, Pending, All, vars, driver, registers, flags, stack, host
<1>20. CASE TakeAddress
  BY <1>20, AddressCallFacts
  DEF TakeAddress, Takes, Answered, AtRest, Pending, vars, driver, registers,
    flags, stack, host
<1>21. CASE TakeClear
  BY <1>21, PipeCallFacts
  DEF TakeClear, Takes, Answered, AtRest, Start, Pending, vars, driver,
    registers, flags, stack, host
<1>22. CASE TakeConfig
  BY <1>22
  DEF TakeConfig, Takes, Answered, AtRest, Pending, vars, driver, registers,
    flags, stack, host
<1>23. CASE TakeRead
  BY <1>23
  DEF TakeRead, Takes, Answered, AtRest, Pending, vars, driver, registers,
    flags, stack, host
<1>24. CASE TakeBad
  BY <1>24
  DEF TakeBad, Takes, Answered, AtRest, Pending, vars, driver, registers,
    flags, stack, host
<1>25. CASE OpenNext
  BY <1>25, PipeCallFacts
  DEF OpenNext, Calls, Start, Pending, vars, driver, registers, flags, stack,
    host
<1>26. CASE SendStatus
  BY <1>26, PipeCallFacts
  DEF SendStatus, Calls, Start, Pending, vars, driver, registers, flags, stack,
    host
<1>27. CASE SendData
  BY <1>27, PipeCallFacts
  DEF SendData, Calls, Start, Pending, vars, driver, registers, flags, stack,
    host
<1>28. CASE ReceiveStatus
  BY <1>28, PipeCallFacts
  DEF ReceiveStatus, Calls, Start, Pending, vars, driver, registers, flags,
    stack, host
<1>29. CASE StallControl
  BY <1>29, PipeCallFacts
  DEF StallControl, Calls, Start, Pending, vars, driver, registers, flags,
    stack, host
<1>30. CASE StackReset
  BY <1>30
  DEF StackReset, Answered, Pending, AtRest, vars, driver, registers, flags,
    stack, host
<1>31. CASE ClassSubmit
  BY <1>31, PipeCallFacts
  DEF ClassSubmit, Calls, Start, Pending, vars, driver, registers, flags,
    stack, host
<1>32. CASE ClassStall
  BY <1>32, PipeCallFacts
  DEF ClassStall, Calls, Start, Pending, vars, driver, registers, flags, stack,
    host
<1>33. ASSUME NEW p \in Pipe, NEW acked \in BOOLEAN, HostInRepeated(p, acked) PROVE StackType'
  BY <1>33, InPacketFacts
  DEF HostInRepeated, Reads, WireReady, Reachable, Talks, vars, driver,
    registers, flags, stack, host
<1>34. ASSUME NEW p \in Pipe, NEW acked \in BOOLEAN, HostInData(p, acked) PROVE StackType'
  BY <1>34, InPacketFacts
  DEF HostInData, Reads, WireReady, Reachable, Talks, vars, driver, registers,
    flags, stack, host
<1>35. ASSUME NEW p \in Pipe, NEW acked \in BOOLEAN, HostInStatus(p, acked) PROVE StackType'
  BY <1>35, InPacketFacts
  DEF HostInStatus, Reads, WireReady, Reachable, Talks, Completes, Fresh, On,
    vars, driver, registers, flags, stack, host
<1>36. ASSUME NEW p \in Pipe, NEW len \in 0..MaxPacket, HostOutLost(p, len) PROVE StackType'
  BY <1>36, OutPacketFacts
  DEF HostOutLost, Writes, WireReady, Reachable, Talks, vars, driver,
    registers, flags, stack, host
<1>37. ASSUME NEW p \in Pipe, NEW len \in 0..MaxPacket, HostOutAcked(p, len) PROVE StackType'
  BY <1>37, OutPacketFacts
  DEF HostOutAcked, Writes, WireReady, Reachable, Talks, vars, driver,
    registers, flags, stack, host
<1>38. ASSUME NEW r \in Request, HostSetup(r) PROVE StackType'
  BY <1>38, SetupPacketFacts, RequestFacts
  DEF HostSetup, On, WireReady, Reachable, AtRest, vars, driver, registers,
    flags, stack, host
<1>39. CASE HostReset
  BY <1>39
  DEF HostReset, All, vars, driver, registers, flags, stack, host
<1>40. CASE UNCHANGED vars
  BY <1>40 DEF vars, driver, registers, flags, stack, host
<1> QED
  BY <1>1, <1>2, <1>3, <1>4, <1>5, <1>6, <1>7, <1>8, <1>9, <1>10, <1>11, <1>12,
    <1>13, <1>14, <1>15, <1>16, <1>17, <1>18, <1>19, <1>20, <1>21, <1>22,
    <1>23, <1>24, <1>25, <1>26, <1>27, <1>28, <1>29, <1>30, <1>31, <1>32,
    <1>33, <1>34, <1>35, <1>36, <1>37, <1>38, <1>39, <1>40
  DEF Next, Interrupt, ProcessIn, ProcessOut, Task, Submit, EndpointOpen,
    TakeSetup, ControlStep, ClassCall, Host, HostIn, HostOut

\* Every step keeps HostType.
LEMMA NextHostType == TypeOK /\ [Next]_vars => HostType'
<1> SUFFICES ASSUME TypeOK, [Next]_vars PROVE HostType'
  OBVIOUS
<1>0. Typed
  BY TypedFacts DEF UsbInv
<1> USE <1>0, PipeFacts, SizeFacts DEF TypeOK, DriverType, RegisterType, FlagType, StackType, HostType, GhostType, Typed, TypedEvent, TypedCall, TypedRequest
<1>1. CASE ProcessBusReset
  BY <1>1
  DEF ProcessBusReset, ResetEndpoints, DropAddress, All, Masked, vars, driver,
    registers, flags, stack, host
<1>2. CASE ProcessSetup
  BY <1>2
  DEF ProcessSetup, DropAddress, On, Masked, vars, driver, registers, flags,
    stack, host
<1>3. CASE ProcessInIdle
  BY <1>3
  DEF ProcessInIdle, InEvent, Masked, vars, driver, registers, flags, stack,
    host
<1>4. CASE ProcessInMore
  BY <1>4, SmallerFacts
  DEF ProcessInMore, InEvent, MoreToSend, UnsentAfter, LoadNextIn, Toggle,
    Masked, vars, driver, registers, flags, stack, host
<1>5. CASE ProcessInLast
  BY <1>5
  DEF ProcessInLast, InEvent, MoreToSend, UnsentAfter, Disarm, Finish, Toggle,
    Masked, vars, driver, registers, flags, stack, host
<1>6. CASE ProcessOutIgnored
  BY <1>6
  DEF ProcessOutIgnored, OutEvent, ExpectedPacket, Masked, vars, driver,
    registers, flags, stack, host
<1>7. CASE ProcessOutIdle
  BY <1>7
  DEF ProcessOutIdle, OutEvent, ExpectedPacket, Masked, vars, driver,
    registers, flags, stack, host
<1>8. CASE ProcessOutTooLong
  BY <1>8
  DEF ProcessOutTooLong, OutEvent, ExpectedPacket, Disarm, Finish, Masked,
    vars, driver, registers, flags, stack, host
<1>9. CASE ProcessOutStored
  BY <1>9
  DEF ProcessOutStored, OutEvent, ExpectedPacket, Fits, Disarm, Finish, Toggle,
    Masked, vars, driver, registers, flags, stack, host
<1>10. CASE CriticalEnter
  BY <1>10, MaskedCallFacts
  DEF CriticalEnter, Pending, vars, driver, registers, flags, stack, host
<1>11. CASE SubmitIn
  BY <1>11, SmallerFacts
  DEF SubmitIn, Accepts, LoadNextIn, Masked, vars, driver, registers, flags,
    stack, host
<1>12. CASE SubmitOut
  BY <1>12
  DEF SubmitOut, Accepts, Masked, vars, driver, registers, flags, stack, host
<1>13. CASE SubmitBusy
  BY <1>13
  DEF SubmitBusy, Masked, vars, driver, registers, flags, stack, host
<1>14. CASE Stall
  BY <1>14
  DEF Stall, ClearTransfer, Finish, Masked, vars, driver, registers, flags,
    stack, host
<1>15. CASE ClearStall
  BY <1>15
  DEF ClearStall, Masked, vars, driver, registers, flags, stack, host
<1>16. CASE OpenBusy
  BY <1>16
  DEF OpenBusy, Masked, vars, driver, registers, flags, stack, host
<1>17. CASE OpenEndpoint
  BY <1>17
  DEF OpenEndpoint, Disarm, Finish, Masked, vars, driver, registers, flags,
    stack, host
<1>18. CASE SetAddress
  BY <1>18, PipeCallFacts
  DEF SetAddress, Pending, vars, driver, registers, flags, stack, host
<1>19. CASE SetConnected
  BY <1>19
  DEF SetConnected, Pending, All, vars, driver, registers, flags, stack, host
<1>20. CASE TakeAddress
  BY <1>20, AddressCallFacts
  DEF TakeAddress, Takes, Answered, AtRest, Pending, vars, driver, registers,
    flags, stack, host
<1>21. CASE TakeClear
  BY <1>21, PipeCallFacts
  DEF TakeClear, Takes, Answered, AtRest, Start, Pending, vars, driver,
    registers, flags, stack, host
<1>22. CASE TakeConfig
  BY <1>22
  DEF TakeConfig, Takes, Answered, AtRest, Pending, vars, driver, registers,
    flags, stack, host
<1>23. CASE TakeRead
  BY <1>23
  DEF TakeRead, Takes, Answered, AtRest, Pending, vars, driver, registers,
    flags, stack, host
<1>24. CASE TakeBad
  BY <1>24
  DEF TakeBad, Takes, Answered, AtRest, Pending, vars, driver, registers,
    flags, stack, host
<1>25. CASE OpenNext
  BY <1>25, PipeCallFacts
  DEF OpenNext, Calls, Start, Pending, vars, driver, registers, flags, stack,
    host
<1>26. CASE SendStatus
  BY <1>26, PipeCallFacts
  DEF SendStatus, Calls, Start, Pending, vars, driver, registers, flags, stack,
    host
<1>27. CASE SendData
  BY <1>27, PipeCallFacts
  DEF SendData, Calls, Start, Pending, vars, driver, registers, flags, stack,
    host
<1>28. CASE ReceiveStatus
  BY <1>28, PipeCallFacts
  DEF ReceiveStatus, Calls, Start, Pending, vars, driver, registers, flags,
    stack, host
<1>29. CASE StallControl
  BY <1>29, PipeCallFacts
  DEF StallControl, Calls, Start, Pending, vars, driver, registers, flags,
    stack, host
<1>30. CASE StackReset
  BY <1>30
  DEF StackReset, Answered, Pending, AtRest, vars, driver, registers, flags,
    stack, host
<1>31. CASE ClassSubmit
  BY <1>31, PipeCallFacts
  DEF ClassSubmit, Calls, Start, Pending, vars, driver, registers, flags,
    stack, host
<1>32. CASE ClassStall
  BY <1>32, PipeCallFacts
  DEF ClassStall, Calls, Start, Pending, vars, driver, registers, flags, stack,
    host
<1>33. ASSUME NEW p \in Pipe, NEW acked \in BOOLEAN, HostInRepeated(p, acked) PROVE HostType'
  BY <1>33, InPacketFacts
  DEF HostInRepeated, Reads, WireReady, Reachable, Talks, vars, driver,
    registers, flags, stack, host
<1>34. ASSUME NEW p \in Pipe, NEW acked \in BOOLEAN, HostInData(p, acked) PROVE HostType'
  BY <1>34, InPacketFacts
  DEF HostInData, Reads, WireReady, Reachable, Talks, vars, driver, registers,
    flags, stack, host
<1>35. ASSUME NEW p \in Pipe, NEW acked \in BOOLEAN, HostInStatus(p, acked) PROVE HostType'
  BY <1>35, InPacketFacts
  DEF HostInStatus, Reads, WireReady, Reachable, Talks, Completes, Fresh, On,
    vars, driver, registers, flags, stack, host
<1>36. ASSUME NEW p \in Pipe, NEW len \in 0..MaxPacket, HostOutLost(p, len) PROVE HostType'
  BY <1>36, OutPacketFacts
  DEF HostOutLost, Writes, WireReady, Reachable, Talks, vars, driver,
    registers, flags, stack, host
<1>37. ASSUME NEW p \in Pipe, NEW len \in 0..MaxPacket, HostOutAcked(p, len) PROVE HostType'
  BY <1>37, OutPacketFacts
  DEF HostOutAcked, Writes, WireReady, Reachable, Talks, vars, driver,
    registers, flags, stack, host
<1>38. ASSUME NEW r \in Request, HostSetup(r) PROVE HostType'
  BY <1>38, SetupPacketFacts, RequestFacts
  DEF HostSetup, On, WireReady, Reachable, AtRest, vars, driver, registers,
    flags, stack, host
<1>39. CASE HostReset
  BY <1>39
  DEF HostReset, All, vars, driver, registers, flags, stack, host
<1>40. CASE UNCHANGED vars
  BY <1>40 DEF vars, driver, registers, flags, stack, host
<1> QED
  BY <1>1, <1>2, <1>3, <1>4, <1>5, <1>6, <1>7, <1>8, <1>9, <1>10, <1>11, <1>12,
    <1>13, <1>14, <1>15, <1>16, <1>17, <1>18, <1>19, <1>20, <1>21, <1>22,
    <1>23, <1>24, <1>25, <1>26, <1>27, <1>28, <1>29, <1>30, <1>31, <1>32,
    <1>33, <1>34, <1>35, <1>36, <1>37, <1>38, <1>39, <1>40
  DEF Next, Interrupt, ProcessIn, ProcessOut, Task, Submit, EndpointOpen,
    TakeSetup, ControlStep, ClassCall, Host, HostIn, HostOut

\* Every step keeps GhostType.
LEMMA NextGhostType == TypeOK /\ [Next]_vars => GhostType'
<1> SUFFICES ASSUME TypeOK, [Next]_vars PROVE GhostType'
  OBVIOUS
<1>0. Typed
  BY TypedFacts DEF UsbInv
<1> USE <1>0, PipeFacts, SizeFacts DEF TypeOK, DriverType, RegisterType, FlagType, StackType, HostType, GhostType, Typed, TypedEvent, TypedCall, TypedRequest
<1>1. CASE ProcessBusReset
  BY <1>1
  DEF ProcessBusReset, ResetEndpoints, DropAddress, All, Masked, vars, driver,
    registers, flags, stack, host
<1>2. CASE ProcessSetup
  BY <1>2
  DEF ProcessSetup, DropAddress, On, Masked, vars, driver, registers, flags,
    stack, host
<1>3. CASE ProcessInIdle
  BY <1>3
  DEF ProcessInIdle, InEvent, Masked, vars, driver, registers, flags, stack,
    host
<1>4. CASE ProcessInMore
  BY <1>4, SmallerFacts
  DEF ProcessInMore, InEvent, MoreToSend, UnsentAfter, LoadNextIn, Toggle,
    Masked, vars, driver, registers, flags, stack, host
<1>5. CASE ProcessInLast
  BY <1>5
  DEF ProcessInLast, InEvent, MoreToSend, UnsentAfter, Disarm, Finish, Toggle,
    Masked, vars, driver, registers, flags, stack, host
<1>6. CASE ProcessOutIgnored
  BY <1>6
  DEF ProcessOutIgnored, OutEvent, ExpectedPacket, Masked, vars, driver,
    registers, flags, stack, host
<1>7. CASE ProcessOutIdle
  BY <1>7
  DEF ProcessOutIdle, OutEvent, ExpectedPacket, Masked, vars, driver,
    registers, flags, stack, host
<1>8. CASE ProcessOutTooLong
  BY <1>8
  DEF ProcessOutTooLong, OutEvent, ExpectedPacket, Disarm, Finish, Masked,
    vars, driver, registers, flags, stack, host
<1>9. CASE ProcessOutStored
  BY <1>9
  DEF ProcessOutStored, OutEvent, ExpectedPacket, Fits, Disarm, Finish, Toggle,
    Masked, vars, driver, registers, flags, stack, host
<1>10. CASE CriticalEnter
  BY <1>10, MaskedCallFacts
  DEF CriticalEnter, Pending, vars, driver, registers, flags, stack, host
<1>11. CASE SubmitIn
  BY <1>11, SmallerFacts
  DEF SubmitIn, Accepts, LoadNextIn, Masked, vars, driver, registers, flags,
    stack, host
<1>12. CASE SubmitOut
  BY <1>12
  DEF SubmitOut, Accepts, Masked, vars, driver, registers, flags, stack, host
<1>13. CASE SubmitBusy
  BY <1>13
  DEF SubmitBusy, Masked, vars, driver, registers, flags, stack, host
<1>14. CASE Stall
  BY <1>14
  DEF Stall, ClearTransfer, Finish, Masked, vars, driver, registers, flags,
    stack, host
<1>15. CASE ClearStall
  BY <1>15
  DEF ClearStall, Masked, vars, driver, registers, flags, stack, host
<1>16. CASE OpenBusy
  BY <1>16
  DEF OpenBusy, Masked, vars, driver, registers, flags, stack, host
<1>17. CASE OpenEndpoint
  BY <1>17
  DEF OpenEndpoint, Disarm, Finish, Masked, vars, driver, registers, flags,
    stack, host
<1>18. CASE SetAddress
  BY <1>18, PipeCallFacts
  DEF SetAddress, Pending, vars, driver, registers, flags, stack, host
<1>19. CASE SetConnected
  BY <1>19
  DEF SetConnected, Pending, All, vars, driver, registers, flags, stack, host
<1>20. CASE TakeAddress
  BY <1>20, AddressCallFacts
  DEF TakeAddress, Takes, Answered, AtRest, Pending, vars, driver, registers,
    flags, stack, host
<1>21. CASE TakeClear
  BY <1>21, PipeCallFacts
  DEF TakeClear, Takes, Answered, AtRest, Start, Pending, vars, driver,
    registers, flags, stack, host
<1>22. CASE TakeConfig
  BY <1>22
  DEF TakeConfig, Takes, Answered, AtRest, Pending, vars, driver, registers,
    flags, stack, host
<1>23. CASE TakeRead
  BY <1>23
  DEF TakeRead, Takes, Answered, AtRest, Pending, vars, driver, registers,
    flags, stack, host
<1>24. CASE TakeBad
  BY <1>24
  DEF TakeBad, Takes, Answered, AtRest, Pending, vars, driver, registers,
    flags, stack, host
<1>25. CASE OpenNext
  BY <1>25, PipeCallFacts
  DEF OpenNext, Calls, Start, Pending, vars, driver, registers, flags, stack,
    host
<1>26. CASE SendStatus
  BY <1>26, PipeCallFacts
  DEF SendStatus, Calls, Start, Pending, vars, driver, registers, flags, stack,
    host
<1>27. CASE SendData
  BY <1>27, PipeCallFacts
  DEF SendData, Calls, Start, Pending, vars, driver, registers, flags, stack,
    host
<1>28. CASE ReceiveStatus
  BY <1>28, PipeCallFacts
  DEF ReceiveStatus, Calls, Start, Pending, vars, driver, registers, flags,
    stack, host
<1>29. CASE StallControl
  BY <1>29, PipeCallFacts
  DEF StallControl, Calls, Start, Pending, vars, driver, registers, flags,
    stack, host
<1>30. CASE StackReset
  BY <1>30
  DEF StackReset, Answered, Pending, AtRest, vars, driver, registers, flags,
    stack, host
<1>31. CASE ClassSubmit
  BY <1>31, PipeCallFacts
  DEF ClassSubmit, Calls, Start, Pending, vars, driver, registers, flags,
    stack, host
<1>32. CASE ClassStall
  BY <1>32, PipeCallFacts
  DEF ClassStall, Calls, Start, Pending, vars, driver, registers, flags, stack,
    host
<1>33. ASSUME NEW p \in Pipe, NEW acked \in BOOLEAN, HostInRepeated(p, acked) PROVE GhostType'
  BY <1>33, InPacketFacts
  DEF HostInRepeated, Reads, WireReady, Reachable, Talks, vars, driver,
    registers, flags, stack, host
<1>34. ASSUME NEW p \in Pipe, NEW acked \in BOOLEAN, HostInData(p, acked) PROVE GhostType'
  BY <1>34, InPacketFacts
  DEF HostInData, Reads, WireReady, Reachable, Talks, vars, driver, registers,
    flags, stack, host
<1>35. ASSUME NEW p \in Pipe, NEW acked \in BOOLEAN, HostInStatus(p, acked) PROVE GhostType'
  BY <1>35, InPacketFacts
  DEF HostInStatus, Reads, WireReady, Reachable, Talks, Completes, Fresh, On,
    vars, driver, registers, flags, stack, host
<1>36. ASSUME NEW p \in Pipe, NEW len \in 0..MaxPacket, HostOutLost(p, len) PROVE GhostType'
  BY <1>36, OutPacketFacts
  DEF HostOutLost, Writes, WireReady, Reachable, Talks, vars, driver,
    registers, flags, stack, host
<1>37. ASSUME NEW p \in Pipe, NEW len \in 0..MaxPacket, HostOutAcked(p, len) PROVE GhostType'
  BY <1>37, OutPacketFacts
  DEF HostOutAcked, Writes, WireReady, Reachable, Talks, vars, driver,
    registers, flags, stack, host
<1>38. ASSUME NEW r \in Request, HostSetup(r) PROVE GhostType'
  BY <1>38, SetupPacketFacts, RequestFacts
  DEF HostSetup, On, WireReady, Reachable, AtRest, vars, driver, registers,
    flags, stack, host
<1>39. CASE HostReset
  BY <1>39
  DEF HostReset, All, vars, driver, registers, flags, stack, host
<1>40. CASE UNCHANGED vars
  BY <1>40 DEF vars, driver, registers, flags, stack, host
<1> QED
  BY <1>1, <1>2, <1>3, <1>4, <1>5, <1>6, <1>7, <1>8, <1>9, <1>10, <1>11, <1>12,
    <1>13, <1>14, <1>15, <1>16, <1>17, <1>18, <1>19, <1>20, <1>21, <1>22,
    <1>23, <1>24, <1>25, <1>26, <1>27, <1>28, <1>29, <1>30, <1>31, <1>32,
    <1>33, <1>34, <1>35, <1>36, <1>37, <1>38, <1>39, <1>40
  DEF Next, Interrupt, ProcessIn, ProcessOut, Task, Submit, EndpointOpen,
    TakeSetup, ControlStep, ClassCall, Host, HostIn, HostOut

\* Every step keeps EventInv.
LEMMA NextEventInv == UsbInv /\ [Next]_vars => EventInv'
<1> SUFFICES ASSUME UsbInv, [Next]_vars PROVE EventInv'
  OBVIOUS
<1>0. Typed
  BY TypedFacts DEF UsbInv
<1> USE <1>0, PipeFacts, SizeFacts DEF TypeOK, DriverType, RegisterType, FlagType, StackType, HostType, GhostType, Typed, TypedEvent, TypedCall, TypedRequest, UsbInv, DataCall, Unused, EventInv, HostInv, CallInv
<1>1. CASE ProcessBusReset
  BY <1>1
  DEF ProcessBusReset, ResetEndpoints, DropAddress, All, Masked, vars, driver,
    registers, flags, stack, host
<1>2. CASE ProcessSetup
  BY <1>2
  DEF ProcessSetup, DropAddress, On, Masked, vars, driver, registers, flags,
    stack, host
<1>3. CASE ProcessInIdle
  BY <1>3
  DEF ProcessInIdle, InEvent, Masked, vars, driver, registers, flags, stack,
    host
<1>4. CASE ProcessInMore
  BY <1>4, SmallerFacts
  DEF ProcessInMore, InEvent, MoreToSend, UnsentAfter, LoadNextIn, Toggle,
    Masked, vars, driver, registers, flags, stack, host
<1>5. CASE ProcessInLast
  BY <1>5
  DEF ProcessInLast, InEvent, MoreToSend, UnsentAfter, Disarm, Finish, Toggle,
    Masked, vars, driver, registers, flags, stack, host
<1>6. CASE ProcessOutIgnored
  BY <1>6
  DEF ProcessOutIgnored, OutEvent, ExpectedPacket, Masked, vars, driver,
    registers, flags, stack, host
<1>7. CASE ProcessOutIdle
  BY <1>7
  DEF ProcessOutIdle, OutEvent, ExpectedPacket, Masked, vars, driver,
    registers, flags, stack, host
<1>8. CASE ProcessOutTooLong
  BY <1>8
  DEF ProcessOutTooLong, OutEvent, ExpectedPacket, Disarm, Finish, Masked,
    vars, driver, registers, flags, stack, host
<1>9. CASE ProcessOutStored
  BY <1>9
  DEF ProcessOutStored, OutEvent, ExpectedPacket, Fits, Disarm, Finish, Toggle,
    Masked, vars, driver, registers, flags, stack, host
<1>10. CASE CriticalEnter
  BY <1>10, MaskedCallFacts
  DEF CriticalEnter, Pending, vars, driver, registers, flags, stack, host
<1>11. CASE SubmitIn
  BY <1>11, SmallerFacts
  DEF SubmitIn, Accepts, LoadNextIn, Masked, vars, driver, registers, flags,
    stack, host
<1>12. CASE SubmitOut
  BY <1>12
  DEF SubmitOut, Accepts, Masked, vars, driver, registers, flags, stack, host
<1>13. CASE SubmitBusy
  BY <1>13
  DEF SubmitBusy, Masked, vars, driver, registers, flags, stack, host
<1>14. CASE Stall
  BY <1>14
  DEF Stall, ClearTransfer, Finish, Masked, vars, driver, registers, flags,
    stack, host
<1>15. CASE ClearStall
  BY <1>15
  DEF ClearStall, Masked, vars, driver, registers, flags, stack, host
<1>16. CASE OpenBusy
  BY <1>16
  DEF OpenBusy, Masked, vars, driver, registers, flags, stack, host
<1>17. CASE OpenEndpoint
  BY <1>17
  DEF OpenEndpoint, Disarm, Finish, Masked, vars, driver, registers, flags,
    stack, host
<1>18. CASE SetAddress
  BY <1>18, PipeCallFacts
  DEF SetAddress, Pending, vars, driver, registers, flags, stack, host
<1>19. CASE SetConnected
  BY <1>19
  DEF SetConnected, Pending, All, vars, driver, registers, flags, stack, host
<1>20. CASE TakeAddress
  BY <1>20, AddressCallFacts
  DEF TakeAddress, Takes, Answered, AtRest, Pending, vars, driver, registers,
    flags, stack, host
<1>21. CASE TakeClear
  BY <1>21, PipeCallFacts
  DEF TakeClear, Takes, Answered, AtRest, Start, Pending, vars, driver,
    registers, flags, stack, host
<1>22. CASE TakeConfig
  BY <1>22
  DEF TakeConfig, Takes, Answered, AtRest, Pending, vars, driver, registers,
    flags, stack, host
<1>23. CASE TakeRead
  BY <1>23
  DEF TakeRead, Takes, Answered, AtRest, Pending, vars, driver, registers,
    flags, stack, host
<1>24. CASE TakeBad
  BY <1>24
  DEF TakeBad, Takes, Answered, AtRest, Pending, vars, driver, registers,
    flags, stack, host
<1>25. CASE OpenNext
  BY <1>25, PipeCallFacts
  DEF OpenNext, Calls, Start, Pending, vars, driver, registers, flags, stack,
    host
<1>26. CASE SendStatus
  BY <1>26, PipeCallFacts
  DEF SendStatus, Calls, Start, Pending, vars, driver, registers, flags, stack,
    host
<1>27. CASE SendData
  BY <1>27, PipeCallFacts
  DEF SendData, Calls, Start, Pending, vars, driver, registers, flags, stack,
    host
<1>28. CASE ReceiveStatus
  BY <1>28, PipeCallFacts
  DEF ReceiveStatus, Calls, Start, Pending, vars, driver, registers, flags,
    stack, host
<1>29. CASE StallControl
  BY <1>29, PipeCallFacts
  DEF StallControl, Calls, Start, Pending, vars, driver, registers, flags,
    stack, host
<1>30. CASE StackReset
  BY <1>30
  DEF StackReset, Answered, Pending, AtRest, vars, driver, registers, flags,
    stack, host
<1>31. CASE ClassSubmit
  BY <1>31, PipeCallFacts
  DEF ClassSubmit, Calls, Start, Pending, vars, driver, registers, flags,
    stack, host
<1>32. CASE ClassStall
  BY <1>32, PipeCallFacts
  DEF ClassStall, Calls, Start, Pending, vars, driver, registers, flags, stack,
    host
<1>33. ASSUME NEW p \in Pipe, NEW acked \in BOOLEAN, HostInRepeated(p, acked) PROVE EventInv'
  BY <1>33, InPacketFacts
  DEF HostInRepeated, Reads, WireReady, Reachable, Talks, vars, driver,
    registers, flags, stack, host
<1>34. ASSUME NEW p \in Pipe, NEW acked \in BOOLEAN, HostInData(p, acked) PROVE EventInv'
  BY <1>34, InPacketFacts
  DEF HostInData, Reads, WireReady, Reachable, Talks, vars, driver, registers,
    flags, stack, host
<1>35. ASSUME NEW p \in Pipe, NEW acked \in BOOLEAN, HostInStatus(p, acked) PROVE EventInv'
  BY <1>35, InPacketFacts
  DEF HostInStatus, Reads, WireReady, Reachable, Talks, Completes, Fresh, On,
    vars, driver, registers, flags, stack, host
<1>36. ASSUME NEW p \in Pipe, NEW len \in 0..MaxPacket, HostOutLost(p, len) PROVE EventInv'
  <2>1. Written(p, len, FALSE)
    BY <1>36, WritesFacts DEF HostOutLost, UsbInv
  <2> QED
    BY <1>36, <2>1
    DEF HostOutLost, Writes, Written, WireReady, Reachable, Talks,
        vars, driver, registers, flags, stack, host
<1>37. ASSUME NEW p \in Pipe, NEW len \in 0..MaxPacket, HostOutAcked(p, len) PROVE EventInv'
  <2>1. Written(p, len, TRUE)
    BY <1>37, WritesFacts DEF HostOutAcked, UsbInv
  <2> QED
    BY <1>37, <2>1
    DEF HostOutAcked, Writes, Written, WireReady, Reachable, Talks,
        vars, driver, registers, flags, stack, host
<1>38. ASSUME NEW r \in Request, HostSetup(r) PROVE EventInv'
  BY <1>38, SetupPacketFacts, RequestFacts
  DEF HostSetup, On, WireReady, Reachable, AtRest, vars, driver, registers,
    flags, stack, host
<1>39. CASE HostReset
  BY <1>39
  DEF HostReset, All, vars, driver, registers, flags, stack, host
<1>40. CASE UNCHANGED vars
  BY <1>40 DEF vars, driver, registers, flags, stack, host
<1> QED
  BY <1>1, <1>2, <1>3, <1>4, <1>5, <1>6, <1>7, <1>8, <1>9, <1>10, <1>11, <1>12,
    <1>13, <1>14, <1>15, <1>16, <1>17, <1>18, <1>19, <1>20, <1>21, <1>22,
    <1>23, <1>24, <1>25, <1>26, <1>27, <1>28, <1>29, <1>30, <1>31, <1>32,
    <1>33, <1>34, <1>35, <1>36, <1>37, <1>38, <1>39, <1>40
  DEF Next, Interrupt, ProcessIn, ProcessOut, Task, Submit, EndpointOpen,
    TakeSetup, ControlStep, ClassCall, Host, HostIn, HostOut

\* Every step keeps HostInv.
LEMMA NextHostInv == UsbInv /\ [Next]_vars => HostInv'
<1> SUFFICES ASSUME UsbInv, [Next]_vars PROVE HostInv'
  OBVIOUS
<1>0. Typed
  BY TypedFacts DEF UsbInv
<1> USE <1>0, PipeFacts, SizeFacts DEF TypeOK, DriverType, RegisterType, FlagType, StackType, HostType, GhostType, Typed, TypedEvent, TypedCall, TypedRequest, UsbInv, DataCall, Unused, HostInv, EventInv, CallInv
<1>1. CASE ProcessBusReset
  BY <1>1
  DEF ProcessBusReset, ResetEndpoints, DropAddress, All, Masked, vars, driver,
    registers, flags, stack, host
<1>2. CASE ProcessSetup
  BY <1>2
  DEF ProcessSetup, DropAddress, On, Masked, vars, driver, registers, flags,
    stack, host
<1>3. CASE ProcessInIdle
  BY <1>3
  DEF ProcessInIdle, InEvent, Masked, vars, driver, registers, flags, stack,
    host
<1>4. CASE ProcessInMore
  BY <1>4, SmallerFacts
  DEF ProcessInMore, InEvent, MoreToSend, UnsentAfter, LoadNextIn, Toggle,
    Masked, vars, driver, registers, flags, stack, host
<1>5. CASE ProcessInLast
  BY <1>5
  DEF ProcessInLast, InEvent, MoreToSend, UnsentAfter, Disarm, Finish, Toggle,
    Masked, vars, driver, registers, flags, stack, host
<1>6. CASE ProcessOutIgnored
  BY <1>6
  DEF ProcessOutIgnored, OutEvent, ExpectedPacket, Masked, vars, driver,
    registers, flags, stack, host
<1>7. CASE ProcessOutIdle
  BY <1>7
  DEF ProcessOutIdle, OutEvent, ExpectedPacket, Masked, vars, driver,
    registers, flags, stack, host
<1>8. CASE ProcessOutTooLong
  BY <1>8
  DEF ProcessOutTooLong, OutEvent, ExpectedPacket, Disarm, Finish, Masked,
    vars, driver, registers, flags, stack, host
<1>9. CASE ProcessOutStored
  BY <1>9
  DEF ProcessOutStored, OutEvent, ExpectedPacket, Fits, Disarm, Finish, Toggle,
    Masked, vars, driver, registers, flags, stack, host
<1>10. CASE CriticalEnter
  BY <1>10, MaskedCallFacts
  DEF CriticalEnter, Pending, vars, driver, registers, flags, stack, host
<1>11. CASE SubmitIn
  BY <1>11, SmallerFacts
  DEF SubmitIn, Accepts, LoadNextIn, Masked, vars, driver, registers, flags,
    stack, host
<1>12. CASE SubmitOut
  BY <1>12
  DEF SubmitOut, Accepts, Masked, vars, driver, registers, flags, stack, host
<1>13. CASE SubmitBusy
  BY <1>13
  DEF SubmitBusy, Masked, vars, driver, registers, flags, stack, host
<1>14. CASE Stall
  BY <1>14
  DEF Stall, ClearTransfer, Finish, Masked, vars, driver, registers, flags,
    stack, host
<1>15. CASE ClearStall
  BY <1>15
  DEF ClearStall, Masked, vars, driver, registers, flags, stack, host
<1>16. CASE OpenBusy
  BY <1>16
  DEF OpenBusy, Masked, vars, driver, registers, flags, stack, host
<1>17. CASE OpenEndpoint
  BY <1>17
  DEF OpenEndpoint, Disarm, Finish, Masked, vars, driver, registers, flags,
    stack, host
<1>18. CASE SetAddress
  BY <1>18, PipeCallFacts
  DEF SetAddress, Pending, vars, driver, registers, flags, stack, host
<1>19. CASE SetConnected
  BY <1>19
  DEF SetConnected, Pending, All, vars, driver, registers, flags, stack, host
<1>20. CASE TakeAddress
  BY <1>20, AddressCallFacts
  DEF TakeAddress, Takes, Answered, AtRest, Pending, vars, driver, registers,
    flags, stack, host
<1>21. CASE TakeClear
  BY <1>21, PipeCallFacts
  DEF TakeClear, Takes, Answered, AtRest, Start, Pending, vars, driver,
    registers, flags, stack, host
<1>22. CASE TakeConfig
  BY <1>22
  DEF TakeConfig, Takes, Answered, AtRest, Pending, vars, driver, registers,
    flags, stack, host
<1>23. CASE TakeRead
  BY <1>23
  DEF TakeRead, Takes, Answered, AtRest, Pending, vars, driver, registers,
    flags, stack, host
<1>24. CASE TakeBad
  BY <1>24
  DEF TakeBad, Takes, Answered, AtRest, Pending, vars, driver, registers,
    flags, stack, host
<1>25. CASE OpenNext
  BY <1>25, PipeCallFacts
  DEF OpenNext, Calls, Start, Pending, vars, driver, registers, flags, stack,
    host
<1>26. CASE SendStatus
  BY <1>26, PipeCallFacts
  DEF SendStatus, Calls, Start, Pending, vars, driver, registers, flags, stack,
    host
<1>27. CASE SendData
  BY <1>27, PipeCallFacts
  DEF SendData, Calls, Start, Pending, vars, driver, registers, flags, stack,
    host
<1>28. CASE ReceiveStatus
  BY <1>28, PipeCallFacts
  DEF ReceiveStatus, Calls, Start, Pending, vars, driver, registers, flags,
    stack, host
<1>29. CASE StallControl
  BY <1>29, PipeCallFacts
  DEF StallControl, Calls, Start, Pending, vars, driver, registers, flags,
    stack, host
<1>30. CASE StackReset
  BY <1>30
  DEF StackReset, Answered, Pending, AtRest, vars, driver, registers, flags,
    stack, host
<1>31. CASE ClassSubmit
  BY <1>31, PipeCallFacts
  DEF ClassSubmit, Calls, Start, Pending, vars, driver, registers, flags,
    stack, host
<1>32. CASE ClassStall
  BY <1>32, PipeCallFacts
  DEF ClassStall, Calls, Start, Pending, vars, driver, registers, flags, stack,
    host
<1>33. ASSUME NEW p \in Pipe, NEW acked \in BOOLEAN, HostInRepeated(p, acked) PROVE HostInv'
  BY <1>33, InPacketFacts
  DEF HostInRepeated, Reads, WireReady, Reachable, Talks, vars, driver,
    registers, flags, stack, host
<1>34. ASSUME NEW p \in Pipe, NEW acked \in BOOLEAN, HostInData(p, acked) PROVE HostInv'
  BY <1>34, InPacketFacts
  DEF HostInData, Reads, WireReady, Reachable, Talks, vars, driver, registers,
    flags, stack, host
<1>35. ASSUME NEW p \in Pipe, NEW acked \in BOOLEAN, HostInStatus(p, acked) PROVE HostInv'
  BY <1>35, InPacketFacts
  DEF HostInStatus, Reads, WireReady, Reachable, Talks, Completes, Fresh, On,
    vars, driver, registers, flags, stack, host
<1>36. ASSUME NEW p \in Pipe, NEW len \in 0..MaxPacket, HostOutLost(p, len) PROVE HostInv'
  <2>1. Written(p, len, FALSE)
    BY <1>36, WritesFacts DEF HostOutLost, UsbInv
  <2> QED
    BY <1>36, <2>1
    DEF HostOutLost, Writes, Written, WireReady, Reachable, Talks,
        vars, driver, registers, flags, stack, host
<1>37. ASSUME NEW p \in Pipe, NEW len \in 0..MaxPacket, HostOutAcked(p, len) PROVE HostInv'
  <2>1. Written(p, len, TRUE)
    BY <1>37, WritesFacts DEF HostOutAcked, UsbInv
  <2> QED
    BY <1>37, <2>1
    DEF HostOutAcked, Writes, Written, WireReady, Reachable, Talks,
        vars, driver, registers, flags, stack, host
<1>38. ASSUME NEW r \in Request, HostSetup(r) PROVE HostInv'
  BY <1>38, SetupPacketFacts, RequestFacts
  DEF HostSetup, On, WireReady, Reachable, AtRest, vars, driver, registers,
    flags, stack, host
<1>39. CASE HostReset
  BY <1>39
  DEF HostReset, All, vars, driver, registers, flags, stack, host
<1>40. CASE UNCHANGED vars
  BY <1>40 DEF vars, driver, registers, flags, stack, host
<1> QED
  BY <1>1, <1>2, <1>3, <1>4, <1>5, <1>6, <1>7, <1>8, <1>9, <1>10, <1>11, <1>12,
    <1>13, <1>14, <1>15, <1>16, <1>17, <1>18, <1>19, <1>20, <1>21, <1>22,
    <1>23, <1>24, <1>25, <1>26, <1>27, <1>28, <1>29, <1>30, <1>31, <1>32,
    <1>33, <1>34, <1>35, <1>36, <1>37, <1>38, <1>39, <1>40
  DEF Next, Interrupt, ProcessIn, ProcessOut, Task, Submit, EndpointOpen,
    TakeSetup, ControlStep, ClassCall, Host, HostIn, HostOut

\* Every step keeps CallInv.
LEMMA NextCallInv == UsbInv /\ [Next]_vars => CallInv'
<1> SUFFICES ASSUME UsbInv, [Next]_vars PROVE CallInv'
  OBVIOUS
<1>0. Typed
  BY TypedFacts DEF UsbInv
<1> USE <1>0, PipeFacts, SizeFacts DEF TypeOK, DriverType, RegisterType, FlagType, StackType, HostType, GhostType, Typed, TypedEvent, TypedCall, TypedRequest, UsbInv, DataCall, Unused, CallInv, HostInv, EventInv, RespInv, RequestInv
<1>1. CASE ProcessBusReset
  BY <1>1
  DEF ProcessBusReset, ResetEndpoints, DropAddress, All, Masked, vars, driver,
    registers, flags, stack, host
<1>2. CASE ProcessSetup
  BY <1>2
  DEF ProcessSetup, DropAddress, On, Masked, vars, driver, registers, flags,
    stack, host
<1>3. CASE ProcessInIdle
  BY <1>3
  DEF ProcessInIdle, InEvent, Masked, vars, driver, registers, flags, stack,
    host
<1>4. CASE ProcessInMore
  BY <1>4, SmallerFacts
  DEF ProcessInMore, InEvent, MoreToSend, UnsentAfter, LoadNextIn, Toggle,
    Masked, vars, driver, registers, flags, stack, host
<1>5. CASE ProcessInLast
  BY <1>5
  DEF ProcessInLast, InEvent, MoreToSend, UnsentAfter, Disarm, Finish, Toggle,
    Masked, vars, driver, registers, flags, stack, host
<1>6. CASE ProcessOutIgnored
  BY <1>6
  DEF ProcessOutIgnored, OutEvent, ExpectedPacket, Masked, vars, driver,
    registers, flags, stack, host
<1>7. CASE ProcessOutIdle
  BY <1>7
  DEF ProcessOutIdle, OutEvent, ExpectedPacket, Masked, vars, driver,
    registers, flags, stack, host
<1>8. CASE ProcessOutTooLong
  BY <1>8
  DEF ProcessOutTooLong, OutEvent, ExpectedPacket, Disarm, Finish, Masked,
    vars, driver, registers, flags, stack, host
<1>9. CASE ProcessOutStored
  BY <1>9
  DEF ProcessOutStored, OutEvent, ExpectedPacket, Fits, Disarm, Finish, Toggle,
    Masked, vars, driver, registers, flags, stack, host
<1>10. CASE CriticalEnter
  BY <1>10, MaskedCallFacts
  DEF CriticalEnter, Pending, vars, driver, registers, flags, stack, host
<1>11. CASE SubmitIn
  BY <1>11, SmallerFacts
  DEF SubmitIn, Accepts, LoadNextIn, Masked, vars, driver, registers, flags,
    stack, host
<1>12. CASE SubmitOut
  BY <1>12
  DEF SubmitOut, Accepts, Masked, vars, driver, registers, flags, stack, host
<1>13. CASE SubmitBusy
  BY <1>13
  DEF SubmitBusy, Masked, vars, driver, registers, flags, stack, host
<1>14. CASE Stall
  BY <1>14
  DEF Stall, ClearTransfer, Finish, Masked, vars, driver, registers, flags,
    stack, host
<1>15. CASE ClearStall
  BY <1>15
  DEF ClearStall, Masked, vars, driver, registers, flags, stack, host
<1>16. CASE OpenBusy
  BY <1>16
  DEF OpenBusy, Masked, vars, driver, registers, flags, stack, host
<1>17. CASE OpenEndpoint
  BY <1>17
  DEF OpenEndpoint, Disarm, Finish, Masked, vars, driver, registers, flags,
    stack, host
<1>18. CASE SetAddress
  BY <1>18, PipeCallFacts
  DEF SetAddress, Pending, vars, driver, registers, flags, stack, host
<1>19. CASE SetConnected
  BY <1>19
  DEF SetConnected, Pending, All, vars, driver, registers, flags, stack, host
<1>20. CASE TakeAddress
  BY <1>20, AddressCallFacts
  DEF TakeAddress, Takes, Answered, AtRest, Pending, vars, driver, registers,
    flags, stack, host
<1>21. CASE TakeClear
  <2>1. /\ call = NoCall /\ setup' = NoRequest /\ event = NoEvent /\ ctl' = "status"
        /\ UNCHANGED <<active, halted, hUse, hReq, event>>
    BY <1>21 DEF TakeClear, Takes, Answered, Pending, driver, flags, host
  <2>2. setup.kind = "clear" /\ setup # NoRequest
    BY <1>21 DEF TakeClear, Takes
  <2>3. CASE UNCHANGED call
    BY <2>1, <2>3
  <2>4. CASE halted[setup.pipe] /\ open[setup.pipe] /\ Start("clear", setup.pipe, 0)
    <3>1. /\ call'.op = "clear" /\ call'.pipe = setup.pipe /\ ~call'.masked
      BY <2>4, PipeCallFacts DEF Start
    <3>2. hReq # NoRequest => setup = hReq
      BY <2>1, <2>2
    <3>3. Unused \/ hUse[setup.pipe] = "clearing"
      BY <2>2, <3>2
    <3>4. setup.pipe \in DataPipes /\ ~active[setup.pipe]
      BY <2>2, <2>4
    <3>5. hUse[setup.pipe] # "on"
      BY <3>3, <3>4
    <3> QED
      BY <2>1, <3>1, <3>3, <3>4, <3>5
  <2> QED
    BY <1>21, <2>3, <2>4 DEF TakeClear
<1>22. CASE TakeConfig
  BY <1>22
  DEF TakeConfig, Takes, Answered, AtRest, Pending, vars, driver, registers,
    flags, stack, host
<1>23. CASE TakeRead
  BY <1>23
  DEF TakeRead, Takes, Answered, AtRest, Pending, vars, driver, registers,
    flags, stack, host
<1>24. CASE TakeBad
  BY <1>24
  DEF TakeBad, Takes, Answered, AtRest, Pending, vars, driver, registers,
    flags, stack, host
<1>25. CASE OpenNext
  BY <1>25, PipeCallFacts
  DEF OpenNext, Calls, Start, Pending, vars, driver, registers, flags, stack,
    host
<1>26. CASE SendStatus
  BY <1>26, PipeCallFacts
  DEF SendStatus, Calls, Start, Pending, vars, driver, registers, flags, stack,
    host
<1>27. CASE SendData
  BY <1>27, PipeCallFacts
  DEF SendData, Calls, Start, Pending, vars, driver, registers, flags, stack,
    host
<1>28. CASE ReceiveStatus
  BY <1>28, PipeCallFacts
  DEF ReceiveStatus, Calls, Start, Pending, vars, driver, registers, flags,
    stack, host
<1>29. CASE StallControl
  BY <1>29, PipeCallFacts
  DEF StallControl, Calls, Start, Pending, vars, driver, registers, flags,
    stack, host
<1>30. CASE StackReset
  BY <1>30
  DEF StackReset, Answered, Pending, AtRest, vars, driver, registers, flags,
    stack, host
<1>31. CASE ClassSubmit
  BY <1>31, PipeCallFacts
  DEF ClassSubmit, Calls, Start, Pending, vars, driver, registers, flags,
    stack, host
<1>32. CASE ClassStall
  BY <1>32, PipeCallFacts
  DEF ClassStall, Calls, Start, Pending, vars, driver, registers, flags, stack,
    host
<1>33. ASSUME NEW p \in Pipe, NEW acked \in BOOLEAN, HostInRepeated(p, acked) PROVE CallInv'
  BY <1>33, InPacketFacts
  DEF HostInRepeated, Reads, WireReady, Reachable, Talks, vars, driver,
    registers, flags, stack, host
<1>34. ASSUME NEW p \in Pipe, NEW acked \in BOOLEAN, HostInData(p, acked) PROVE CallInv'
  BY <1>34, InPacketFacts
  DEF HostInData, Reads, WireReady, Reachable, Talks, vars, driver, registers,
    flags, stack, host
<1>35. ASSUME NEW p \in Pipe, NEW acked \in BOOLEAN, HostInStatus(p, acked) PROVE CallInv'
  BY <1>35, InPacketFacts
  DEF HostInStatus, Reads, WireReady, Reachable, Talks, Completes, Fresh, On,
    vars, driver, registers, flags, stack, host
<1>36. ASSUME NEW p \in Pipe, NEW len \in 0..MaxPacket, HostOutLost(p, len) PROVE CallInv'
  <2>1. Written(p, len, FALSE)
    BY <1>36, WritesFacts DEF HostOutLost, UsbInv
  <2> QED
    BY <1>36, <2>1
    DEF HostOutLost, Writes, Written, WireReady, Reachable, Talks,
        vars, driver, registers, flags, stack, host
<1>37. ASSUME NEW p \in Pipe, NEW len \in 0..MaxPacket, HostOutAcked(p, len) PROVE CallInv'
  <2>1. Written(p, len, TRUE)
    BY <1>37, WritesFacts DEF HostOutAcked, UsbInv
  <2> QED
    BY <1>37, <2>1
    DEF HostOutAcked, Writes, Written, WireReady, Reachable, Talks,
        vars, driver, registers, flags, stack, host
<1>38. ASSUME NEW r \in Request, HostSetup(r) PROVE CallInv'
  BY <1>38, SetupPacketFacts, RequestFacts
  DEF HostSetup, On, WireReady, Reachable, AtRest, vars, driver, registers,
    flags, stack, host
<1>39. CASE HostReset
  BY <1>39
  DEF HostReset, All, vars, driver, registers, flags, stack, host
<1>40. CASE UNCHANGED vars
  BY <1>40 DEF vars, driver, registers, flags, stack, host
<1> QED
  BY <1>1, <1>2, <1>3, <1>4, <1>5, <1>6, <1>7, <1>8, <1>9, <1>10, <1>11, <1>12,
    <1>13, <1>14, <1>15, <1>16, <1>17, <1>18, <1>19, <1>20, <1>21, <1>22,
    <1>23, <1>24, <1>25, <1>26, <1>27, <1>28, <1>29, <1>30, <1>31, <1>32,
    <1>33, <1>34, <1>35, <1>36, <1>37, <1>38, <1>39, <1>40
  DEF Next, Interrupt, ProcessIn, ProcessOut, Task, Submit, EndpointOpen,
    TakeSetup, ControlStep, ClassCall, Host, HostIn, HostOut

\* Every step keeps RespInv.
LEMMA NextRespInv == UsbInv /\ [Next]_vars => RespInv'
<1> SUFFICES ASSUME UsbInv, [Next]_vars PROVE RespInv'
  OBVIOUS
<1>0. Typed
  BY TypedFacts DEF UsbInv
<1> USE <1>0, PipeFacts, SizeFacts DEF TypeOK, DriverType, RegisterType, FlagType, StackType, HostType, GhostType, Typed, TypedEvent, TypedCall, TypedRequest, UsbInv, DataCall, Unused, RespInv, EventInv, CallInv, RequestInv, HostInv
<1>1. CASE ProcessBusReset
  BY <1>1
  DEF ProcessBusReset, ResetEndpoints, DropAddress, All, Masked, vars, driver,
    registers, flags, stack, host
<1>2. CASE ProcessSetup
  <2>1. \A p \in Control : ~active'[p] /\ resp'[p] = "NAK" /\ ~halted'[p]
    BY <1>2 DEF ProcessSetup, On
  <2>2. \A p \in DataPipes : /\ active'[p] = active[p] /\ resp'[p] = resp[p]
                              /\ halted'[p] = halted[p]
    BY <1>2 DEF ProcessSetup, On
  <2> QED
    BY <2>1, <2>2
<1>3. CASE ProcessInIdle
  BY <1>3
  DEF ProcessInIdle, InEvent, Masked, vars, driver, registers, flags, stack,
    host
<1>4. CASE ProcessInMore
  <2>1. /\ event.token = "IN" /\ active[event.pipe] /\ event' = NoEvent
        /\ UNCHANGED <<active, halted, busReset, hReq>>
        /\ resp' = [resp EXCEPT ![event.pipe] = "ACK"]
    BY <1>4 DEF ProcessInMore, InEvent, LoadNextIn, stack, host
  <2> QED
    BY <2>1
<1>5. CASE ProcessInLast
  BY <1>5
  DEF ProcessInLast, InEvent, MoreToSend, UnsentAfter, Disarm, Finish, Toggle,
    Masked, vars, driver, registers, flags, stack, host
<1>6. CASE ProcessOutIgnored
  BY <1>6
  DEF ProcessOutIgnored, OutEvent, ExpectedPacket, Masked, vars, driver,
    registers, flags, stack, host
<1>7. CASE ProcessOutIdle
  BY <1>7
  DEF ProcessOutIdle, OutEvent, ExpectedPacket, Masked, vars, driver,
    registers, flags, stack, host
<1>8. CASE ProcessOutTooLong
  BY <1>8
  DEF ProcessOutTooLong, OutEvent, ExpectedPacket, Disarm, Finish, Masked,
    vars, driver, registers, flags, stack, host
<1>9. CASE ProcessOutStored
  BY <1>9
  DEF ProcessOutStored, OutEvent, ExpectedPacket, Fits, Disarm, Finish, Toggle,
    Masked, vars, driver, registers, flags, stack, host
<1>10. CASE CriticalEnter
  BY <1>10, MaskedCallFacts
  DEF CriticalEnter, Pending, vars, driver, registers, flags, stack, host
<1>11. CASE SubmitIn
  BY <1>11, SmallerFacts
  DEF SubmitIn, Accepts, LoadNextIn, Masked, vars, driver, registers, flags,
    stack, host
<1>12. CASE SubmitOut
  BY <1>12
  DEF SubmitOut, Accepts, Masked, vars, driver, registers, flags, stack, host
<1>13. CASE SubmitBusy
  BY <1>13
  DEF SubmitBusy, Masked, vars, driver, registers, flags, stack, host
<1>14. CASE Stall
  BY <1>14
  DEF Stall, ClearTransfer, Finish, Masked, vars, driver, registers, flags,
    stack, host
<1>15. CASE ClearStall
  BY <1>15
  DEF ClearStall, Masked, vars, driver, registers, flags, stack, host
<1>16. CASE OpenBusy
  BY <1>16
  DEF OpenBusy, Masked, vars, driver, registers, flags, stack, host
<1>17. CASE OpenEndpoint
  BY <1>17
  DEF OpenEndpoint, Disarm, Finish, Masked, vars, driver, registers, flags,
    stack, host
<1>18. CASE SetAddress
  BY <1>18, PipeCallFacts
  DEF SetAddress, Pending, vars, driver, registers, flags, stack, host
<1>19. CASE SetConnected
  BY <1>19
  DEF SetConnected, Pending, All, vars, driver, registers, flags, stack, host
<1>20. CASE TakeAddress
  BY <1>20, AddressCallFacts
  DEF TakeAddress, Takes, Answered, AtRest, Pending, vars, driver, registers,
    flags, stack, host
<1>21. CASE TakeClear
  BY <1>21, PipeCallFacts
  DEF TakeClear, Takes, Answered, AtRest, Start, Pending, vars, driver,
    registers, flags, stack, host
<1>22. CASE TakeConfig
  BY <1>22
  DEF TakeConfig, Takes, Answered, AtRest, Pending, vars, driver, registers,
    flags, stack, host
<1>23. CASE TakeRead
  BY <1>23
  DEF TakeRead, Takes, Answered, AtRest, Pending, vars, driver, registers,
    flags, stack, host
<1>24. CASE TakeBad
  BY <1>24
  DEF TakeBad, Takes, Answered, AtRest, Pending, vars, driver, registers,
    flags, stack, host
<1>25. CASE OpenNext
  BY <1>25, PipeCallFacts
  DEF OpenNext, Calls, Start, Pending, vars, driver, registers, flags, stack,
    host
<1>26. CASE SendStatus
  BY <1>26, PipeCallFacts
  DEF SendStatus, Calls, Start, Pending, vars, driver, registers, flags, stack,
    host
<1>27. CASE SendData
  BY <1>27, PipeCallFacts
  DEF SendData, Calls, Start, Pending, vars, driver, registers, flags, stack,
    host
<1>28. CASE ReceiveStatus
  BY <1>28, PipeCallFacts
  DEF ReceiveStatus, Calls, Start, Pending, vars, driver, registers, flags,
    stack, host
<1>29. CASE StallControl
  BY <1>29, PipeCallFacts
  DEF StallControl, Calls, Start, Pending, vars, driver, registers, flags,
    stack, host
<1>30. CASE StackReset
  BY <1>30
  DEF StackReset, Answered, Pending, AtRest, vars, driver, registers, flags,
    stack, host
<1>31. CASE ClassSubmit
  BY <1>31, PipeCallFacts
  DEF ClassSubmit, Calls, Start, Pending, vars, driver, registers, flags,
    stack, host
<1>32. CASE ClassStall
  BY <1>32, PipeCallFacts
  DEF ClassStall, Calls, Start, Pending, vars, driver, registers, flags, stack,
    host
<1>33. ASSUME NEW p \in Pipe, NEW acked \in BOOLEAN, HostInRepeated(p, acked) PROVE RespInv'
  BY <1>33, InPacketFacts
  DEF HostInRepeated, Reads, WireReady, Reachable, Talks, vars, driver,
    registers, flags, stack, host
<1>34. ASSUME NEW p \in Pipe, NEW acked \in BOOLEAN, HostInData(p, acked) PROVE RespInv'
  BY <1>34, InPacketFacts
  DEF HostInData, Reads, WireReady, Reachable, Talks, vars, driver, registers,
    flags, stack, host
<1>35. ASSUME NEW p \in Pipe, NEW acked \in BOOLEAN, HostInStatus(p, acked) PROVE RespInv'
  BY <1>35, InPacketFacts
  DEF HostInStatus, Reads, WireReady, Reachable, Talks, Completes, Fresh, On,
    vars, driver, registers, flags, stack, host
<1>36. ASSUME NEW p \in Pipe, NEW len \in 0..MaxPacket, HostOutLost(p, len) PROVE RespInv'
  <2>1. Written(p, len, FALSE)
    BY <1>36, WritesFacts DEF HostOutLost, UsbInv
  <2>2. /\ UNCHANGED <<resp, active, halted, busReset>>
        /\ event.token = "none" /\ (p = Out0 => hReq # NoRequest)
        /\ hReq' = IF p = Out0 /\ FALSE THEN NoRequest ELSE hReq
        /\ ~IsIn(p) /\ resp[p] = "ACK"
    BY <1>36 DEF HostOutLost, Writes, WireReady, Talks, driver, registers, stack
  <2>3. hReq' # hReq => active[Out0]
    BY <2>2
  <2> QED
    BY <2>1, <2>2, <2>3 DEF Written
<1>37. ASSUME NEW p \in Pipe, NEW len \in 0..MaxPacket, HostOutAcked(p, len) PROVE RespInv'
  <2>1. Written(p, len, TRUE)
    BY <1>37, WritesFacts DEF HostOutAcked, UsbInv
  <2>2. /\ UNCHANGED <<resp, active, halted, busReset>>
        /\ event.token = "none" /\ (p = Out0 => hReq # NoRequest)
        /\ hReq' = IF p = Out0 /\ TRUE THEN NoRequest ELSE hReq
        /\ ~IsIn(p) /\ resp[p] = "ACK"
    BY <1>37 DEF HostOutAcked, Writes, WireReady, Talks, driver, registers, stack
  <2>3. hReq' # hReq => active[Out0]
    BY <2>2
  <2> QED
    BY <2>1, <2>2, <2>3 DEF Written
<1>38. ASSUME NEW r \in Request, HostSetup(r) PROVE RespInv'
  BY <1>38, SetupPacketFacts, RequestFacts
  DEF HostSetup, On, WireReady, Reachable, AtRest, vars, driver, registers,
    flags, stack, host
<1>39. CASE HostReset
  BY <1>39
  DEF HostReset, All, vars, driver, registers, flags, stack, host
<1>40. CASE UNCHANGED vars
  BY <1>40 DEF vars, driver, registers, flags, stack, host
<1> QED
  BY <1>1, <1>2, <1>3, <1>4, <1>5, <1>6, <1>7, <1>8, <1>9, <1>10, <1>11, <1>12,
    <1>13, <1>14, <1>15, <1>16, <1>17, <1>18, <1>19, <1>20, <1>21, <1>22,
    <1>23, <1>24, <1>25, <1>26, <1>27, <1>28, <1>29, <1>30, <1>31, <1>32,
    <1>33, <1>34, <1>35, <1>36, <1>37, <1>38, <1>39, <1>40
  DEF Next, Interrupt, ProcessIn, ProcessOut, Task, Submit, EndpointOpen,
    TakeSetup, ControlStep, ClassCall, Host, HostIn, HostOut

\* Every step keeps RequestInv.
LEMMA NextRequestInv == UsbInv /\ [Next]_vars => RequestInv'
<1> SUFFICES ASSUME UsbInv, [Next]_vars PROVE RequestInv'
  OBVIOUS
<1>0. Typed
  BY TypedFacts DEF UsbInv
<1> USE <1>0, PipeFacts, SizeFacts DEF TypeOK, DriverType, RegisterType, FlagType, StackType, HostType, GhostType, Typed, TypedEvent, TypedCall, TypedRequest, UsbInv, DataCall, Unused, RequestInv, EventInv, HostInv, CallInv, RespInv
<1>1. CASE ProcessBusReset
  BY <1>1
  DEF ProcessBusReset, ResetEndpoints, DropAddress, All, Masked, vars, driver,
    registers, flags, stack, host
<1>2. CASE ProcessSetup
  BY <1>2
  DEF ProcessSetup, DropAddress, On, Masked, vars, driver, registers, flags,
    stack, host
<1>3. CASE ProcessInIdle
  BY <1>3
  DEF ProcessInIdle, InEvent, Masked, vars, driver, registers, flags, stack,
    host
<1>4. CASE ProcessInMore
  BY <1>4, SmallerFacts
  DEF ProcessInMore, InEvent, MoreToSend, UnsentAfter, LoadNextIn, Toggle,
    Masked, vars, driver, registers, flags, stack, host
<1>5. CASE ProcessInLast
  BY <1>5
  DEF ProcessInLast, InEvent, MoreToSend, UnsentAfter, Disarm, Finish, Toggle,
    Masked, vars, driver, registers, flags, stack, host
<1>6. CASE ProcessOutIgnored
  BY <1>6
  DEF ProcessOutIgnored, OutEvent, ExpectedPacket, Masked, vars, driver,
    registers, flags, stack, host
<1>7. CASE ProcessOutIdle
  BY <1>7
  DEF ProcessOutIdle, OutEvent, ExpectedPacket, Masked, vars, driver,
    registers, flags, stack, host
<1>8. CASE ProcessOutTooLong
  BY <1>8
  DEF ProcessOutTooLong, OutEvent, ExpectedPacket, Disarm, Finish, Masked,
    vars, driver, registers, flags, stack, host
<1>9. CASE ProcessOutStored
  BY <1>9
  DEF ProcessOutStored, OutEvent, ExpectedPacket, Fits, Disarm, Finish, Toggle,
    Masked, vars, driver, registers, flags, stack, host
<1>10. CASE CriticalEnter
  BY <1>10, MaskedCallFacts
  DEF CriticalEnter, Pending, vars, driver, registers, flags, stack, host
<1>11. CASE SubmitIn
  BY <1>11, SmallerFacts
  DEF SubmitIn, Accepts, LoadNextIn, Masked, vars, driver, registers, flags,
    stack, host
<1>12. CASE SubmitOut
  BY <1>12
  DEF SubmitOut, Accepts, Masked, vars, driver, registers, flags, stack, host
<1>13. CASE SubmitBusy
  BY <1>13
  DEF SubmitBusy, Masked, vars, driver, registers, flags, stack, host
<1>14. CASE Stall
  BY <1>14
  DEF Stall, ClearTransfer, Finish, Masked, vars, driver, registers, flags,
    stack, host
<1>15. CASE ClearStall
  BY <1>15
  DEF ClearStall, Masked, vars, driver, registers, flags, stack, host
<1>16. CASE OpenBusy
  BY <1>16
  DEF OpenBusy, Masked, vars, driver, registers, flags, stack, host
<1>17. CASE OpenEndpoint
  BY <1>17
  DEF OpenEndpoint, Disarm, Finish, Masked, vars, driver, registers, flags,
    stack, host
<1>18. CASE SetAddress
  BY <1>18, PipeCallFacts
  DEF SetAddress, Pending, vars, driver, registers, flags, stack, host
<1>19. CASE SetConnected
  BY <1>19
  DEF SetConnected, Pending, All, vars, driver, registers, flags, stack, host
<1>20. CASE TakeAddress
  BY <1>20, AddressCallFacts
  DEF TakeAddress, Takes, Answered, AtRest, Pending, vars, driver, registers,
    flags, stack, host
<1>21. CASE TakeClear
  BY <1>21, PipeCallFacts
  DEF TakeClear, Takes, Answered, AtRest, Start, Pending, vars, driver,
    registers, flags, stack, host
<1>22. CASE TakeConfig
  BY <1>22
  DEF TakeConfig, Takes, Answered, AtRest, Pending, vars, driver, registers,
    flags, stack, host
<1>23. CASE TakeRead
  BY <1>23
  DEF TakeRead, Takes, Answered, AtRest, Pending, vars, driver, registers,
    flags, stack, host
<1>24. CASE TakeBad
  BY <1>24
  DEF TakeBad, Takes, Answered, AtRest, Pending, vars, driver, registers,
    flags, stack, host
<1>25. CASE OpenNext
  BY <1>25, PipeCallFacts
  DEF OpenNext, Calls, Start, Pending, vars, driver, registers, flags, stack,
    host
<1>26. CASE SendStatus
  BY <1>26, PipeCallFacts
  DEF SendStatus, Calls, Start, Pending, vars, driver, registers, flags, stack,
    host
<1>27. CASE SendData
  BY <1>27, PipeCallFacts
  DEF SendData, Calls, Start, Pending, vars, driver, registers, flags, stack,
    host
<1>28. CASE ReceiveStatus
  BY <1>28, PipeCallFacts
  DEF ReceiveStatus, Calls, Start, Pending, vars, driver, registers, flags,
    stack, host
<1>29. CASE StallControl
  BY <1>29, PipeCallFacts
  DEF StallControl, Calls, Start, Pending, vars, driver, registers, flags,
    stack, host
<1>30. CASE StackReset
  BY <1>30
  DEF StackReset, Answered, Pending, AtRest, vars, driver, registers, flags,
    stack, host
<1>31. CASE ClassSubmit
  BY <1>31, PipeCallFacts
  DEF ClassSubmit, Calls, Start, Pending, vars, driver, registers, flags,
    stack, host
<1>32. CASE ClassStall
  BY <1>32, PipeCallFacts
  DEF ClassStall, Calls, Start, Pending, vars, driver, registers, flags, stack,
    host
<1>33. ASSUME NEW p \in Pipe, NEW acked \in BOOLEAN, HostInRepeated(p, acked) PROVE RequestInv'
  BY <1>33, InPacketFacts
  DEF HostInRepeated, Reads, WireReady, Reachable, Talks, vars, driver,
    registers, flags, stack, host
<1>34. ASSUME NEW p \in Pipe, NEW acked \in BOOLEAN, HostInData(p, acked) PROVE RequestInv'
  BY <1>34, InPacketFacts
  DEF HostInData, Reads, WireReady, Reachable, Talks, vars, driver, registers,
    flags, stack, host
<1>35. ASSUME NEW p \in Pipe, NEW acked \in BOOLEAN, HostInStatus(p, acked) PROVE RequestInv'
  BY <1>35, InPacketFacts
  DEF HostInStatus, Reads, WireReady, Reachable, Talks, Completes, Fresh, On,
    vars, driver, registers, flags, stack, host
<1>36. ASSUME NEW p \in Pipe, NEW len \in 0..MaxPacket, HostOutLost(p, len) PROVE RequestInv'
  <2>1. Written(p, len, FALSE)
    BY <1>36, WritesFacts DEF HostOutLost, UsbInv
  <2> QED
    BY <1>36, <2>1
    DEF HostOutLost, Writes, Written, WireReady, Reachable, Talks,
        vars, driver, registers, flags, stack, host
<1>37. ASSUME NEW p \in Pipe, NEW len \in 0..MaxPacket, HostOutAcked(p, len) PROVE RequestInv'
  <2>1. Written(p, len, TRUE)
    BY <1>37, WritesFacts DEF HostOutAcked, UsbInv
  <2> QED
    BY <1>37, <2>1
    DEF HostOutAcked, Writes, Written, WireReady, Reachable, Talks,
        vars, driver, registers, flags, stack, host
<1>38. ASSUME NEW r \in Request, HostSetup(r) PROVE RequestInv'
  BY <1>38, SetupPacketFacts, RequestFacts
  DEF HostSetup, On, WireReady, Reachable, AtRest, vars, driver, registers,
    flags, stack, host
<1>39. CASE HostReset
  BY <1>39
  DEF HostReset, All, vars, driver, registers, flags, stack, host
<1>40. CASE UNCHANGED vars
  BY <1>40 DEF vars, driver, registers, flags, stack, host
<1> QED
  BY <1>1, <1>2, <1>3, <1>4, <1>5, <1>6, <1>7, <1>8, <1>9, <1>10, <1>11, <1>12,
    <1>13, <1>14, <1>15, <1>16, <1>17, <1>18, <1>19, <1>20, <1>21, <1>22,
    <1>23, <1>24, <1>25, <1>26, <1>27, <1>28, <1>29, <1>30, <1>31, <1>32,
    <1>33, <1>34, <1>35, <1>36, <1>37, <1>38, <1>39, <1>40
  DEF Next, Interrupt, ProcessIn, ProcessOut, Task, Submit, EndpointOpen,
    TakeSetup, ControlStep, ClassCall, Host, HostIn, HostOut

\* Every step keeps StatusInv.
LEMMA NextStatusInv == UsbInv /\ [Next]_vars => StatusInv'
<1> SUFFICES ASSUME UsbInv, [Next]_vars PROVE StatusInv'
  OBVIOUS
<1>0. Typed
  BY TypedFacts DEF UsbInv
<1> USE <1>0, PipeFacts, SizeFacts DEF TypeOK, DriverType, RegisterType, FlagType, StackType, HostType, GhostType, Typed, TypedEvent, TypedCall, TypedRequest, UsbInv, DataCall, Unused, StatusInv, EventInv, HostInv, CallInv, RespInv, RequestInv, On0
<1>1. CASE ProcessBusReset
  BY <1>1
  DEF ProcessBusReset, ResetEndpoints, DropAddress, All, Masked, vars, driver,
    registers, flags, stack, host
<1>2. CASE ProcessSetup
  BY <1>2
  DEF ProcessSetup, DropAddress, On, Masked, vars, driver, registers, flags,
    stack, host
<1>3. CASE ProcessInIdle
  BY <1>3
  DEF ProcessInIdle, InEvent, Masked, vars, driver, registers, flags, stack,
    host
<1>4. CASE ProcessInMore
  BY <1>4, SmallerFacts
  DEF ProcessInMore, InEvent, MoreToSend, UnsentAfter, LoadNextIn, Toggle,
    Masked, vars, driver, registers, flags, stack, host
<1>5. CASE ProcessInLast
  BY <1>5
  DEF ProcessInLast, InEvent, MoreToSend, UnsentAfter, Disarm, Finish, Toggle,
    Masked, vars, driver, registers, flags, stack, host
<1>6. CASE ProcessOutIgnored
  BY <1>6
  DEF ProcessOutIgnored, OutEvent, ExpectedPacket, Masked, vars, driver,
    registers, flags, stack, host
<1>7. CASE ProcessOutIdle
  BY <1>7
  DEF ProcessOutIdle, OutEvent, ExpectedPacket, Masked, vars, driver,
    registers, flags, stack, host
<1>8. CASE ProcessOutTooLong
  BY <1>8
  DEF ProcessOutTooLong, OutEvent, ExpectedPacket, Disarm, Finish, Masked,
    vars, driver, registers, flags, stack, host
<1>9. CASE ProcessOutStored
  BY <1>9
  DEF ProcessOutStored, OutEvent, ExpectedPacket, Fits, Disarm, Finish, Toggle,
    Masked, vars, driver, registers, flags, stack, host
<1>10. CASE CriticalEnter
  BY <1>10, MaskedCallFacts
  DEF CriticalEnter, Pending, vars, driver, registers, flags, stack, host
<1>11. CASE SubmitIn
  <2>1. CASE call.pipe # In0
    BY <1>11, <2>1 DEF SubmitIn, Accepts, LoadNextIn, Masked, flags, host
  <2>2. CASE call.pipe = In0
    <3>1. /\ call.op = "submit" /\ UNCHANGED <<pending, hReq, event, ctl>> /\ call' = NoCall
      BY <1>11 DEF SubmitIn, Accepts, flags, host
    <3>2. left'[In0] = call.size /\ queued'[In0] = Smaller(call.size, PacketSize(In0))
      BY <1>11, <2>2 DEF SubmitIn, LoadNextIn
    <3>3. Smaller(0, PacketSize(In0)) = 0
      BY SmallerFacts
    <3> QED
      BY <2>2, <3>1, <3>2, <3>3
  <2> QED
    BY <2>1, <2>2
<1>12. CASE SubmitOut
  BY <1>12
  DEF SubmitOut, Accepts, Masked, vars, driver, registers, flags, stack, host
<1>13. CASE SubmitBusy
  BY <1>13
  DEF SubmitBusy, Masked, vars, driver, registers, flags, stack, host
<1>14. CASE Stall
  BY <1>14
  DEF Stall, ClearTransfer, Finish, Masked, vars, driver, registers, flags,
    stack, host
<1>15. CASE ClearStall
  BY <1>15
  DEF ClearStall, Masked, vars, driver, registers, flags, stack, host
<1>16. CASE OpenBusy
  BY <1>16
  DEF OpenBusy, Masked, vars, driver, registers, flags, stack, host
<1>17. CASE OpenEndpoint
  BY <1>17
  DEF OpenEndpoint, Disarm, Finish, Masked, vars, driver, registers, flags,
    stack, host
<1>18. CASE SetAddress
  BY <1>18, PipeCallFacts
  DEF SetAddress, Pending, vars, driver, registers, flags, stack, host
<1>19. CASE SetConnected
  BY <1>19
  DEF SetConnected, Pending, All, vars, driver, registers, flags, stack, host
<1>20. CASE TakeAddress
  BY <1>20, AddressCallFacts
  DEF TakeAddress, Takes, Answered, AtRest, Pending, vars, driver, registers,
    flags, stack, host
<1>21. CASE TakeClear
  BY <1>21, PipeCallFacts
  DEF TakeClear, Takes, Answered, AtRest, Start, Pending, vars, driver,
    registers, flags, stack, host
<1>22. CASE TakeConfig
  BY <1>22
  DEF TakeConfig, Takes, Answered, AtRest, Pending, vars, driver, registers,
    flags, stack, host
<1>23. CASE TakeRead
  BY <1>23
  DEF TakeRead, Takes, Answered, AtRest, Pending, vars, driver, registers,
    flags, stack, host
<1>24. CASE TakeBad
  BY <1>24
  DEF TakeBad, Takes, Answered, AtRest, Pending, vars, driver, registers,
    flags, stack, host
<1>25. CASE OpenNext
  BY <1>25, PipeCallFacts
  DEF OpenNext, Calls, Start, Pending, vars, driver, registers, flags, stack,
    host
<1>26. CASE SendStatus
  BY <1>26, PipeCallFacts
  DEF SendStatus, Calls, Start, Pending, vars, driver, registers, flags, stack,
    host
<1>27. CASE SendData
  BY <1>27, PipeCallFacts
  DEF SendData, Calls, Start, Pending, vars, driver, registers, flags, stack,
    host
<1>28. CASE ReceiveStatus
  BY <1>28, PipeCallFacts
  DEF ReceiveStatus, Calls, Start, Pending, vars, driver, registers, flags,
    stack, host
<1>29. CASE StallControl
  BY <1>29, PipeCallFacts
  DEF StallControl, Calls, Start, Pending, vars, driver, registers, flags,
    stack, host
<1>30. CASE StackReset
  BY <1>30
  DEF StackReset, Answered, Pending, AtRest, vars, driver, registers, flags,
    stack, host
<1>31. CASE ClassSubmit
  BY <1>31, PipeCallFacts
  DEF ClassSubmit, Calls, Start, Pending, vars, driver, registers, flags,
    stack, host
<1>32. CASE ClassStall
  BY <1>32, PipeCallFacts
  DEF ClassStall, Calls, Start, Pending, vars, driver, registers, flags, stack,
    host
<1>33. ASSUME NEW p \in Pipe, NEW acked \in BOOLEAN, HostInRepeated(p, acked) PROVE StatusInv'
  BY <1>33, InPacketFacts
  DEF HostInRepeated, Reads, WireReady, Reachable, Talks, vars, driver,
    registers, flags, stack, host
<1>34. ASSUME NEW p \in Pipe, NEW acked \in BOOLEAN, HostInData(p, acked) PROVE StatusInv'
  BY <1>34, InPacketFacts
  DEF HostInData, Reads, WireReady, Reachable, Talks, vars, driver, registers,
    flags, stack, host
<1>35. ASSUME NEW p \in Pipe, NEW acked \in BOOLEAN, HostInStatus(p, acked) PROVE StatusInv'
  BY <1>35, InPacketFacts
  DEF HostInStatus, Reads, WireReady, Reachable, Talks, Completes, Fresh, On,
    vars, driver, registers, flags, stack, host
<1>36. ASSUME NEW p \in Pipe, NEW len \in 0..MaxPacket, HostOutLost(p, len) PROVE StatusInv'
  <2>1. Written(p, len, FALSE)
    BY <1>36, WritesFacts DEF HostOutLost, UsbInv
  <2> QED
    BY <1>36, <2>1
    DEF HostOutLost, Writes, Written, WireReady, Reachable, Talks,
        vars, driver, registers, flags, stack, host
<1>37. ASSUME NEW p \in Pipe, NEW len \in 0..MaxPacket, HostOutAcked(p, len) PROVE StatusInv'
  <2>1. Written(p, len, TRUE)
    BY <1>37, WritesFacts DEF HostOutAcked, UsbInv
  <2> QED
    BY <1>37, <2>1
    DEF HostOutAcked, Writes, Written, WireReady, Reachable, Talks,
        vars, driver, registers, flags, stack, host
<1>38. ASSUME NEW r \in Request, HostSetup(r) PROVE StatusInv'
  BY <1>38, SetupPacketFacts, RequestFacts
  DEF HostSetup, On, WireReady, Reachable, AtRest, vars, driver, registers,
    flags, stack, host
<1>39. CASE HostReset
  BY <1>39
  DEF HostReset, All, vars, driver, registers, flags, stack, host
<1>40. CASE UNCHANGED vars
  BY <1>40 DEF vars, driver, registers, flags, stack, host
<1> QED
  BY <1>1, <1>2, <1>3, <1>4, <1>5, <1>6, <1>7, <1>8, <1>9, <1>10, <1>11, <1>12,
    <1>13, <1>14, <1>15, <1>16, <1>17, <1>18, <1>19, <1>20, <1>21, <1>22,
    <1>23, <1>24, <1>25, <1>26, <1>27, <1>28, <1>29, <1>30, <1>31, <1>32,
    <1>33, <1>34, <1>35, <1>36, <1>37, <1>38, <1>39, <1>40
  DEF Next, Interrupt, ProcessIn, ProcessOut, Task, Submit, EndpointOpen,
    TakeSetup, ControlStep, ClassCall, Host, HostIn, HostOut

\* Every step keeps AddressInv.
LEMMA NextAddressInv == UsbInv /\ [Next]_vars => AddressInv'
<1> SUFFICES ASSUME UsbInv, [Next]_vars PROVE AddressInv'
  OBVIOUS
<1>0. Typed
  BY TypedFacts DEF UsbInv
<1> USE <1>0, PipeFacts, SizeFacts DEF TypeOK, DriverType, RegisterType, FlagType, StackType, HostType, GhostType, Typed, TypedEvent, TypedCall, TypedRequest, UsbInv, DataCall, Unused, AddressInv, StatusInv, LastInInv, EventInv, HostInv, CallInv, RespInv, RequestInv, On0
<1>1. CASE ProcessBusReset
  BY <1>1
  DEF ProcessBusReset, ResetEndpoints, DropAddress, All, Masked, vars, driver,
    registers, flags, stack, host
<1>2. CASE ProcessSetup
  BY <1>2
  DEF ProcessSetup, DropAddress, On, Masked, vars, driver, registers, flags,
    stack, host
<1>3. CASE ProcessInIdle
  BY <1>3
  DEF ProcessInIdle, InEvent, Masked, vars, driver, registers, flags, stack,
    host
<1>4. CASE ProcessInMore
  BY <1>4, SmallerFacts
  DEF ProcessInMore, InEvent, MoreToSend, UnsentAfter, LoadNextIn, Toggle,
    Masked, vars, driver, registers, flags, stack, host
<1>5. CASE ProcessInLast
  BY <1>5
  DEF ProcessInLast, InEvent, MoreToSend, UnsentAfter, Disarm, Finish, Toggle,
    Masked, vars, driver, registers, flags, stack, host
<1>6. CASE ProcessOutIgnored
  BY <1>6
  DEF ProcessOutIgnored, OutEvent, ExpectedPacket, Masked, vars, driver,
    registers, flags, stack, host
<1>7. CASE ProcessOutIdle
  BY <1>7
  DEF ProcessOutIdle, OutEvent, ExpectedPacket, Masked, vars, driver,
    registers, flags, stack, host
<1>8. CASE ProcessOutTooLong
  BY <1>8
  DEF ProcessOutTooLong, OutEvent, ExpectedPacket, Disarm, Finish, Masked,
    vars, driver, registers, flags, stack, host
<1>9. CASE ProcessOutStored
  BY <1>9
  DEF ProcessOutStored, OutEvent, ExpectedPacket, Fits, Disarm, Finish, Toggle,
    Masked, vars, driver, registers, flags, stack, host
<1>10. CASE CriticalEnter
  BY <1>10, MaskedCallFacts
  DEF CriticalEnter, Pending, vars, driver, registers, flags, stack, host
<1>11. CASE SubmitIn
  BY <1>11, SmallerFacts
  DEF SubmitIn, Accepts, LoadNextIn, Masked, vars, driver, registers, flags,
    stack, host
<1>12. CASE SubmitOut
  BY <1>12
  DEF SubmitOut, Accepts, Masked, vars, driver, registers, flags, stack, host
<1>13. CASE SubmitBusy
  BY <1>13
  DEF SubmitBusy, Masked, vars, driver, registers, flags, stack, host
<1>14. CASE Stall
  BY <1>14
  DEF Stall, ClearTransfer, Finish, Masked, vars, driver, registers, flags,
    stack, host
<1>15. CASE ClearStall
  BY <1>15
  DEF ClearStall, Masked, vars, driver, registers, flags, stack, host
<1>16. CASE OpenBusy
  BY <1>16
  DEF OpenBusy, Masked, vars, driver, registers, flags, stack, host
<1>17. CASE OpenEndpoint
  BY <1>17
  DEF OpenEndpoint, Disarm, Finish, Masked, vars, driver, registers, flags,
    stack, host
<1>18. CASE SetAddress
  BY <1>18, PipeCallFacts
  DEF SetAddress, Pending, vars, driver, registers, flags, stack, host
<1>19. CASE SetConnected
  BY <1>19
  DEF SetConnected, Pending, All, vars, driver, registers, flags, stack, host
<1>20. CASE TakeAddress
  BY <1>20, AddressCallFacts
  DEF TakeAddress, Takes, Answered, AtRest, Pending, vars, driver, registers,
    flags, stack, host
<1>21. CASE TakeClear
  BY <1>21, PipeCallFacts
  DEF TakeClear, Takes, Answered, AtRest, Start, Pending, vars, driver,
    registers, flags, stack, host
<1>22. CASE TakeConfig
  BY <1>22
  DEF TakeConfig, Takes, Answered, AtRest, Pending, vars, driver, registers,
    flags, stack, host
<1>23. CASE TakeRead
  BY <1>23
  DEF TakeRead, Takes, Answered, AtRest, Pending, vars, driver, registers,
    flags, stack, host
<1>24. CASE TakeBad
  BY <1>24
  DEF TakeBad, Takes, Answered, AtRest, Pending, vars, driver, registers,
    flags, stack, host
<1>25. CASE OpenNext
  BY <1>25, PipeCallFacts
  DEF OpenNext, Calls, Start, Pending, vars, driver, registers, flags, stack,
    host
<1>26. CASE SendStatus
  BY <1>26, PipeCallFacts
  DEF SendStatus, Calls, Start, Pending, vars, driver, registers, flags, stack,
    host
<1>27. CASE SendData
  BY <1>27, PipeCallFacts
  DEF SendData, Calls, Start, Pending, vars, driver, registers, flags, stack,
    host
<1>28. CASE ReceiveStatus
  BY <1>28, PipeCallFacts
  DEF ReceiveStatus, Calls, Start, Pending, vars, driver, registers, flags,
    stack, host
<1>29. CASE StallControl
  BY <1>29, PipeCallFacts
  DEF StallControl, Calls, Start, Pending, vars, driver, registers, flags,
    stack, host
<1>30. CASE StackReset
  BY <1>30
  DEF StackReset, Answered, Pending, AtRest, vars, driver, registers, flags,
    stack, host
<1>31. CASE ClassSubmit
  BY <1>31, PipeCallFacts
  DEF ClassSubmit, Calls, Start, Pending, vars, driver, registers, flags,
    stack, host
<1>32. CASE ClassStall
  BY <1>32, PipeCallFacts
  DEF ClassStall, Calls, Start, Pending, vars, driver, registers, flags, stack,
    host
<1>33. ASSUME NEW p \in Pipe, NEW acked \in BOOLEAN, HostInRepeated(p, acked) PROVE AddressInv'
  BY <1>33, InPacketFacts
  DEF HostInRepeated, Reads, WireReady, Reachable, Talks, vars, driver,
    registers, flags, stack, host
<1>34. ASSUME NEW p \in Pipe, NEW acked \in BOOLEAN, HostInData(p, acked) PROVE AddressInv'
  BY <1>34, InPacketFacts
  DEF HostInData, Reads, WireReady, Reachable, Talks, vars, driver, registers,
    flags, stack, host
<1>35. ASSUME NEW p \in Pipe, NEW acked \in BOOLEAN, HostInStatus(p, acked) PROVE AddressInv'
  BY <1>35, InPacketFacts
  DEF HostInStatus, Reads, WireReady, Reachable, Talks, Completes, Fresh, On,
    vars, driver, registers, flags, stack, host
<1>36. ASSUME NEW p \in Pipe, NEW len \in 0..MaxPacket, HostOutLost(p, len) PROVE AddressInv'
  <2>1. Written(p, len, FALSE)
    BY <1>36, WritesFacts DEF HostOutLost, UsbInv
  <2> QED
    BY <1>36, <2>1
    DEF HostOutLost, Writes, Written, WireReady, Reachable, Talks,
        vars, driver, registers, flags, stack, host
<1>37. ASSUME NEW p \in Pipe, NEW len \in 0..MaxPacket, HostOutAcked(p, len) PROVE AddressInv'
  <2>1. Written(p, len, TRUE)
    BY <1>37, WritesFacts DEF HostOutAcked, UsbInv
  <2> QED
    BY <1>37, <2>1
    DEF HostOutAcked, Writes, Written, WireReady, Reachable, Talks,
        vars, driver, registers, flags, stack, host
<1>38. ASSUME NEW r \in Request, HostSetup(r) PROVE AddressInv'
  BY <1>38, SetupPacketFacts, RequestFacts
  DEF HostSetup, On, WireReady, Reachable, AtRest, vars, driver, registers,
    flags, stack, host
<1>39. CASE HostReset
  BY <1>39
  DEF HostReset, All, vars, driver, registers, flags, stack, host
<1>40. CASE UNCHANGED vars
  BY <1>40 DEF vars, driver, registers, flags, stack, host
<1> QED
  BY <1>1, <1>2, <1>3, <1>4, <1>5, <1>6, <1>7, <1>8, <1>9, <1>10, <1>11, <1>12,
    <1>13, <1>14, <1>15, <1>16, <1>17, <1>18, <1>19, <1>20, <1>21, <1>22,
    <1>23, <1>24, <1>25, <1>26, <1>27, <1>28, <1>29, <1>30, <1>31, <1>32,
    <1>33, <1>34, <1>35, <1>36, <1>37, <1>38, <1>39, <1>40
  DEF Next, Interrupt, ProcessIn, ProcessOut, Task, Submit, EndpointOpen,
    TakeSetup, ControlStep, ClassCall, Host, HostIn, HostOut

\* Every step keeps LastInInv.
LEMMA NextLastInInv == UsbInv /\ [Next]_vars => LastInInv'
<1> SUFFICES ASSUME UsbInv, [Next]_vars PROVE LastInInv'
  OBVIOUS
<1>0. Typed
  BY TypedFacts DEF UsbInv
<1> USE <1>0, PipeFacts, SizeFacts DEF TypeOK, DriverType, RegisterType, FlagType, StackType, HostType, GhostType, Typed, TypedEvent, TypedCall, TypedRequest, UsbInv, DataCall, Unused, LastInInv, AddressInv, StatusInv, EventInv, HostInv, CallInv, RespInv, RequestInv, On0, Masked
<1>1. CASE ProcessBusReset
  BY <1>1
  DEF ProcessBusReset, ResetEndpoints, DropAddress, All, Masked, vars, driver,
    registers, flags, stack, host
<1>2. CASE ProcessSetup
  BY <1>2
  DEF ProcessSetup, DropAddress, On, Masked, vars, driver, registers, flags,
    stack, host
<1>3. CASE ProcessInIdle
  BY <1>3
  DEF ProcessInIdle, InEvent, Masked, vars, driver, registers, flags, stack,
    host
<1>4. CASE ProcessInMore
  BY <1>4, SmallerFacts
  DEF ProcessInMore, InEvent, MoreToSend, UnsentAfter, LoadNextIn, Toggle,
    Masked, vars, driver, registers, flags, stack, host
<1>5. CASE ProcessInLast
  BY <1>5
  DEF ProcessInLast, InEvent, MoreToSend, UnsentAfter, Disarm, Finish, Toggle,
    Masked, vars, driver, registers, flags, stack, host
<1>6. CASE ProcessOutIgnored
  BY <1>6
  DEF ProcessOutIgnored, OutEvent, ExpectedPacket, Masked, vars, driver,
    registers, flags, stack, host
<1>7. CASE ProcessOutIdle
  BY <1>7
  DEF ProcessOutIdle, OutEvent, ExpectedPacket, Masked, vars, driver,
    registers, flags, stack, host
<1>8. CASE ProcessOutTooLong
  BY <1>8
  DEF ProcessOutTooLong, OutEvent, ExpectedPacket, Disarm, Finish, Masked,
    vars, driver, registers, flags, stack, host
<1>9. CASE ProcessOutStored
  BY <1>9
  DEF ProcessOutStored, OutEvent, ExpectedPacket, Fits, Disarm, Finish, Toggle,
    Masked, vars, driver, registers, flags, stack, host
<1>10. CASE CriticalEnter
  BY <1>10, MaskedCallFacts
  DEF CriticalEnter, Pending, vars, driver, registers, flags, stack, host
<1>11. CASE SubmitIn
  BY <1>11, SmallerFacts
  DEF SubmitIn, Accepts, LoadNextIn, Masked, vars, driver, registers, flags,
    stack, host
<1>12. CASE SubmitOut
  BY <1>12
  DEF SubmitOut, Accepts, Masked, vars, driver, registers, flags, stack, host
<1>13. CASE SubmitBusy
  BY <1>13
  DEF SubmitBusy, Masked, vars, driver, registers, flags, stack, host
<1>14. CASE Stall
  BY <1>14
  DEF Stall, ClearTransfer, Finish, Masked, vars, driver, registers, flags,
    stack, host
<1>15. CASE ClearStall
  BY <1>15
  DEF ClearStall, Masked, vars, driver, registers, flags, stack, host
<1>16. CASE OpenBusy
  BY <1>16
  DEF OpenBusy, Masked, vars, driver, registers, flags, stack, host
<1>17. CASE OpenEndpoint
  BY <1>17
  DEF OpenEndpoint, Disarm, Finish, Masked, vars, driver, registers, flags,
    stack, host
<1>18. CASE SetAddress
  BY <1>18, PipeCallFacts
  DEF SetAddress, Pending, vars, driver, registers, flags, stack, host
<1>19. CASE SetConnected
  BY <1>19
  DEF SetConnected, Pending, All, vars, driver, registers, flags, stack, host
<1>20. CASE TakeAddress
  BY <1>20, AddressCallFacts
  DEF TakeAddress, Takes, Answered, AtRest, Pending, vars, driver, registers,
    flags, stack, host
<1>21. CASE TakeClear
  BY <1>21, PipeCallFacts
  DEF TakeClear, Takes, Answered, AtRest, Start, Pending, vars, driver,
    registers, flags, stack, host
<1>22. CASE TakeConfig
  BY <1>22
  DEF TakeConfig, Takes, Answered, AtRest, Pending, vars, driver, registers,
    flags, stack, host
<1>23. CASE TakeRead
  BY <1>23
  DEF TakeRead, Takes, Answered, AtRest, Pending, vars, driver, registers,
    flags, stack, host
<1>24. CASE TakeBad
  BY <1>24
  DEF TakeBad, Takes, Answered, AtRest, Pending, vars, driver, registers,
    flags, stack, host
<1>25. CASE OpenNext
  BY <1>25, PipeCallFacts
  DEF OpenNext, Calls, Start, Pending, vars, driver, registers, flags, stack,
    host
<1>26. CASE SendStatus
  BY <1>26, PipeCallFacts
  DEF SendStatus, Calls, Start, Pending, vars, driver, registers, flags, stack,
    host
<1>27. CASE SendData
  BY <1>27, PipeCallFacts
  DEF SendData, Calls, Start, Pending, vars, driver, registers, flags, stack,
    host
<1>28. CASE ReceiveStatus
  BY <1>28, PipeCallFacts
  DEF ReceiveStatus, Calls, Start, Pending, vars, driver, registers, flags,
    stack, host
<1>29. CASE StallControl
  BY <1>29, PipeCallFacts
  DEF StallControl, Calls, Start, Pending, vars, driver, registers, flags,
    stack, host
<1>30. CASE StackReset
  BY <1>30
  DEF StackReset, Answered, Pending, AtRest, vars, driver, registers, flags,
    stack, host
<1>31. CASE ClassSubmit
  BY <1>31, PipeCallFacts
  DEF ClassSubmit, Calls, Start, Pending, vars, driver, registers, flags,
    stack, host
<1>32. CASE ClassStall
  BY <1>32, PipeCallFacts
  DEF ClassStall, Calls, Start, Pending, vars, driver, registers, flags, stack,
    host
<1>33. ASSUME NEW p \in Pipe, NEW acked \in BOOLEAN, HostInRepeated(p, acked) PROVE LastInInv'
  <2>1. CASE p # In0
    BY <1>33, <2>1, InPacketFacts
    DEF HostInRepeated, Reads, WireReady, Reachable, Talks, driver, registers, stack
  <2>2. CASE p = In0
    <3>1. /\ WireReady /\ hReq # NoRequest /\ resp[In0] = "ACK" /\ hTog[In0] # tog[In0]
          /\ UNCHANGED hReq
      BY <1>33, <2>2 DEF HostInRepeated, Reads, Talks
    <3>2. Live(In0)
      BY <3>1 DEF Live, Talks, WireReady, Reachable
    <3>3. taken[In0]
      BY <3>1, <3>2 DEF SyncInv, InSync
    <3>4. hReq.kind = "read"
      BY <3>1, <3>3 DEF WireReady
    <3> QED
      BY <3>1, <3>4
  <2> QED
    BY <2>1, <2>2
<1>34. ASSUME NEW p \in Pipe, NEW acked \in BOOLEAN, HostInData(p, acked) PROVE LastInInv'
  BY <1>34, InPacketFacts
  DEF HostInData, Reads, WireReady, Reachable, Talks, vars, driver, registers,
    flags, stack, host
<1>35. ASSUME NEW p \in Pipe, NEW acked \in BOOLEAN, HostInStatus(p, acked) PROVE LastInInv'
  BY <1>35, InPacketFacts
  DEF HostInStatus, Reads, WireReady, Reachable, Talks, Completes, Fresh, On,
    vars, driver, registers, flags, stack, host
<1>36. ASSUME NEW p \in Pipe, NEW len \in 0..MaxPacket, HostOutLost(p, len) PROVE LastInInv'
  <2>1. Written(p, len, FALSE)
    BY <1>36, WritesFacts DEF HostOutLost, UsbInv
  <2> QED
    BY <1>36, <2>1
    DEF HostOutLost, Writes, Written, WireReady, Reachable, Talks,
        vars, driver, registers, flags, stack, host
<1>37. ASSUME NEW p \in Pipe, NEW len \in 0..MaxPacket, HostOutAcked(p, len) PROVE LastInInv'
  <2>1. Written(p, len, TRUE)
    BY <1>37, WritesFacts DEF HostOutAcked, UsbInv
  <2> QED
    BY <1>37, <2>1
    DEF HostOutAcked, Writes, Written, WireReady, Reachable, Talks,
        vars, driver, registers, flags, stack, host
<1>38. ASSUME NEW r \in Request, HostSetup(r) PROVE LastInInv'
  BY <1>38, SetupPacketFacts, RequestFacts
  DEF HostSetup, On, WireReady, Reachable, AtRest, vars, driver, registers,
    flags, stack, host
<1>39. CASE HostReset
  BY <1>39
  DEF HostReset, All, vars, driver, registers, flags, stack, host
<1>40. CASE UNCHANGED vars
  BY <1>40 DEF vars, driver, registers, flags, stack, host
<1> QED
  BY <1>1, <1>2, <1>3, <1>4, <1>5, <1>6, <1>7, <1>8, <1>9, <1>10, <1>11, <1>12,
    <1>13, <1>14, <1>15, <1>16, <1>17, <1>18, <1>19, <1>20, <1>21, <1>22,
    <1>23, <1>24, <1>25, <1>26, <1>27, <1>28, <1>29, <1>30, <1>31, <1>32,
    <1>33, <1>34, <1>35, <1>36, <1>37, <1>38, <1>39, <1>40
  DEF Next, Interrupt, ProcessIn, ProcessOut, Task, Submit, EndpointOpen,
    TakeSetup, ControlStep, ClassCall, Host, HostIn, HostOut

\* Every step keeps UnusedInv.
LEMMA NextUnusedInv == UsbInv /\ [Next]_vars => UnusedInv'
<1> SUFFICES ASSUME UsbInv, [Next]_vars PROVE UnusedInv'
  OBVIOUS
<1>0. Typed
  BY TypedFacts DEF UsbInv
<1> USE <1>0, PipeFacts, SizeFacts DEF TypeOK, DriverType, RegisterType, FlagType, StackType, HostType, GhostType, Typed, TypedEvent, TypedCall, TypedRequest, UsbInv, DataCall, Unused, Masked, UnusedInv, EventInv, HostInv, CallInv, RespInv, On0
<1>1. CASE ProcessBusReset
  BY <1>1
  DEF ProcessBusReset, ResetEndpoints, DropAddress, All, Masked, vars, driver,
    registers, flags, stack, host
<1>2. CASE ProcessSetup
  BY <1>2
  DEF ProcessSetup, DropAddress, On, Masked, vars, driver, registers, flags,
    stack, host
<1>3. CASE ProcessInIdle
  BY <1>3
  DEF ProcessInIdle, InEvent, Masked, vars, driver, registers, flags, stack,
    host
<1>4. CASE ProcessInMore
  BY <1>4, SmallerFacts
  DEF ProcessInMore, InEvent, MoreToSend, UnsentAfter, LoadNextIn, Toggle,
    Masked, vars, driver, registers, flags, stack, host
<1>5. CASE ProcessInLast
  BY <1>5
  DEF ProcessInLast, InEvent, MoreToSend, UnsentAfter, Disarm, Finish, Toggle,
    Masked, vars, driver, registers, flags, stack, host
<1>6. CASE ProcessOutIgnored
  BY <1>6
  DEF ProcessOutIgnored, OutEvent, ExpectedPacket, Masked, vars, driver,
    registers, flags, stack, host
<1>7. CASE ProcessOutIdle
  BY <1>7
  DEF ProcessOutIdle, OutEvent, ExpectedPacket, Masked, vars, driver,
    registers, flags, stack, host
<1>8. CASE ProcessOutTooLong
  BY <1>8
  DEF ProcessOutTooLong, OutEvent, ExpectedPacket, Disarm, Finish, Masked,
    vars, driver, registers, flags, stack, host
<1>9. CASE ProcessOutStored
  BY <1>9
  DEF ProcessOutStored, OutEvent, ExpectedPacket, Fits, Disarm, Finish, Toggle,
    Masked, vars, driver, registers, flags, stack, host
<1>10. CASE CriticalEnter
  BY <1>10, MaskedCallFacts
  DEF CriticalEnter, Pending, vars, driver, registers, flags, stack, host
<1>11. CASE SubmitIn
  BY <1>11, SmallerFacts
  DEF SubmitIn, Accepts, LoadNextIn, Masked, vars, driver, registers, flags,
    stack, host
<1>12. CASE SubmitOut
  BY <1>12
  DEF SubmitOut, Accepts, Masked, vars, driver, registers, flags, stack, host
<1>13. CASE SubmitBusy
  BY <1>13
  DEF SubmitBusy, Masked, vars, driver, registers, flags, stack, host
<1>14. CASE Stall
  BY <1>14
  DEF Stall, ClearTransfer, Finish, Masked, vars, driver, registers, flags,
    stack, host
<1>15. CASE ClearStall
  BY <1>15
  DEF ClearStall, Masked, vars, driver, registers, flags, stack, host
<1>16. CASE OpenBusy
  BY <1>16
  DEF OpenBusy, Masked, vars, driver, registers, flags, stack, host
<1>17. CASE OpenEndpoint
  BY <1>17
  DEF OpenEndpoint, Disarm, Finish, Masked, vars, driver, registers, flags,
    stack, host
<1>18. CASE SetAddress
  BY <1>18, PipeCallFacts
  DEF SetAddress, Pending, vars, driver, registers, flags, stack, host
<1>19. CASE SetConnected
  BY <1>19
  DEF SetConnected, Pending, All, vars, driver, registers, flags, stack, host
<1>20. CASE TakeAddress
  BY <1>20, AddressCallFacts
  DEF TakeAddress, Takes, Answered, AtRest, Pending, vars, driver, registers,
    flags, stack, host
<1>21. CASE TakeClear
  BY <1>21, PipeCallFacts
  DEF TakeClear, Takes, Answered, AtRest, Start, Pending, vars, driver,
    registers, flags, stack, host
<1>22. CASE TakeConfig
  BY <1>22
  DEF TakeConfig, Takes, Answered, AtRest, Pending, vars, driver, registers,
    flags, stack, host
<1>23. CASE TakeRead
  BY <1>23
  DEF TakeRead, Takes, Answered, AtRest, Pending, vars, driver, registers,
    flags, stack, host
<1>24. CASE TakeBad
  BY <1>24
  DEF TakeBad, Takes, Answered, AtRest, Pending, vars, driver, registers,
    flags, stack, host
<1>25. CASE OpenNext
  BY <1>25, PipeCallFacts
  DEF OpenNext, Calls, Start, Pending, vars, driver, registers, flags, stack,
    host
<1>26. CASE SendStatus
  BY <1>26, PipeCallFacts
  DEF SendStatus, Calls, Start, Pending, vars, driver, registers, flags, stack,
    host
<1>27. CASE SendData
  BY <1>27, PipeCallFacts
  DEF SendData, Calls, Start, Pending, vars, driver, registers, flags, stack,
    host
<1>28. CASE ReceiveStatus
  BY <1>28, PipeCallFacts
  DEF ReceiveStatus, Calls, Start, Pending, vars, driver, registers, flags,
    stack, host
<1>29. CASE StallControl
  BY <1>29, PipeCallFacts
  DEF StallControl, Calls, Start, Pending, vars, driver, registers, flags,
    stack, host
<1>30. CASE StackReset
  BY <1>30
  DEF StackReset, Answered, Pending, AtRest, vars, driver, registers, flags,
    stack, host
<1>31. CASE ClassSubmit
  BY <1>31, PipeCallFacts
  DEF ClassSubmit, Calls, Start, Pending, vars, driver, registers, flags,
    stack, host
<1>32. CASE ClassStall
  BY <1>32, PipeCallFacts
  DEF ClassStall, Calls, Start, Pending, vars, driver, registers, flags, stack,
    host
<1>33. ASSUME NEW p \in Pipe, NEW acked \in BOOLEAN, HostInRepeated(p, acked) PROVE UnusedInv'
  BY <1>33, InPacketFacts
  DEF HostInRepeated, Reads, WireReady, Reachable, Talks, vars, driver,
    registers, flags, stack, host
<1>34. ASSUME NEW p \in Pipe, NEW acked \in BOOLEAN, HostInData(p, acked) PROVE UnusedInv'
  BY <1>34, InPacketFacts
  DEF HostInData, Reads, WireReady, Reachable, Talks, vars, driver, registers,
    flags, stack, host
<1>35. ASSUME NEW p \in Pipe, NEW acked \in BOOLEAN, HostInStatus(p, acked) PROVE UnusedInv'
  BY <1>35, InPacketFacts
  DEF HostInStatus, Reads, WireReady, Reachable, Talks, Completes, Fresh, On,
    vars, driver, registers, flags, stack, host
<1>36. ASSUME NEW p \in Pipe, NEW len \in 0..MaxPacket, HostOutLost(p, len) PROVE UnusedInv'
  <2>1. Written(p, len, FALSE)
    BY <1>36, WritesFacts DEF HostOutLost, UsbInv
  <2>2. /\ UNCHANGED <<hostUp, busReset, hUse, tog, halted, active, call>>
        /\ p \in DataPipes => hUse[p] = "on"
        /\ \A q \in DataPipes : q # p => taken'[q] = taken[q]
    BY <1>36 DEF HostOutLost, Writes, Talks, driver, registers, stack
  <2> QED
    BY <2>1, <2>2 DEF Written
<1>37. ASSUME NEW p \in Pipe, NEW len \in 0..MaxPacket, HostOutAcked(p, len) PROVE UnusedInv'
  <2>1. Written(p, len, TRUE)
    BY <1>37, WritesFacts DEF HostOutAcked, UsbInv
  <2>2. /\ UNCHANGED <<hostUp, busReset, hUse, tog, halted, active, call>>
        /\ p \in DataPipes => hUse[p] = "on"
        /\ \A q \in DataPipes : q # p => taken'[q] = taken[q]
    BY <1>37 DEF HostOutAcked, Writes, Talks, driver, registers, stack
  <2> QED
    BY <2>1, <2>2 DEF Written
<1>38. ASSUME NEW r \in Request, HostSetup(r) PROVE UnusedInv'
  BY <1>38, SetupPacketFacts, RequestFacts
  DEF HostSetup, On, WireReady, Reachable, AtRest, vars, driver, registers,
    flags, stack, host
<1>39. CASE HostReset
  BY <1>39
  DEF HostReset, All, vars, driver, registers, flags, stack, host
<1>40. CASE UNCHANGED vars
  BY <1>40 DEF vars, driver, registers, flags, stack, host
<1> QED
  BY <1>1, <1>2, <1>3, <1>4, <1>5, <1>6, <1>7, <1>8, <1>9, <1>10, <1>11, <1>12,
    <1>13, <1>14, <1>15, <1>16, <1>17, <1>18, <1>19, <1>20, <1>21, <1>22,
    <1>23, <1>24, <1>25, <1>26, <1>27, <1>28, <1>29, <1>30, <1>31, <1>32,
    <1>33, <1>34, <1>35, <1>36, <1>37, <1>38, <1>39, <1>40
  DEF Next, Interrupt, ProcessIn, ProcessOut, Task, Submit, EndpointOpen,
    TakeSetup, ControlStep, ClassCall, Host, HostIn, HostOut

\* Every step keeps SyncInv.
LEMMA NextSyncInv == UsbInv /\ [Next]_vars => SyncInv'
<1> SUFFICES ASSUME UsbInv, [Next]_vars PROVE SyncInv'
  OBVIOUS
<1>0. Typed
  BY TypedFacts DEF UsbInv
<1> USE <1>0, PipeFacts, SizeFacts DEF TypeOK, DriverType, RegisterType, FlagType, StackType, HostType, GhostType, Typed, TypedEvent, TypedCall, TypedRequest, UsbInv, DataCall, Unused, Live, Talks, Masked, SyncInv, InSync, OutSync, On0, EventInv, HostInv, CallInv, RespInv, UnusedInv, RequestInv
<1>1. CASE ProcessBusReset
  BY <1>1
  DEF ProcessBusReset, ResetEndpoints, DropAddress, All, Masked, vars, driver,
    registers, flags, stack, host
<1>2. CASE ProcessSetup
  <2> SUFFICES ASSUME NEW q \in Pipe, Live(q)'
               PROVE  (IF IsIn(q) THEN InSync(q) ELSE OutSync(q))'
    BY DEF SyncInv
  <2>0. /\ tog'[q] \in BOOLEAN /\ hTog'[q] \in BOOLEAN /\ taken'[q] \in BOOLEAN
        /\ tog[q] \in BOOLEAN /\ hTog[q] \in BOOLEAN /\ taken[q] \in BOOLEAN
    BY NextRegisterType, NextHostType, NextGhostType
  <2>1. event.token = "SETUP" /\ event' = NoEvent /\ UNCHANGED <<hReq, hUse, hTog, busReset>>
    BY <1>2 DEF ProcessSetup, host
  <2>2. CASE q \in Control
    <3>1. tog'[q] /\ ~taken'[q]
      BY <1>2, <2>2 DEF ProcessSetup, On
    <3>2. hTog'[q]
      BY <2>1, <2>2
    <3> QED
      BY <2>1, <3>1, <3>2
  <2>3. CASE q \in DataPipes
    <3>1. /\ tog'[q] = tog[q] /\ taken'[q] = taken[q] /\ failed'[q] = failed[q]
          /\ halted'[q] = halted[q] /\ active'[q] = active[q]
      BY <1>2, <2>3 DEF ProcessSetup, On
    <3> QED
      BY <2>1, <2>3, <3>1
  <2> QED
    BY <2>2, <2>3
<1>3. CASE ProcessInIdle
  BY <1>3
  DEF ProcessInIdle, InEvent, Masked, vars, driver, registers, flags, stack,
    host
<1>4. CASE ProcessInMore
  <2> SUFFICES ASSUME NEW q \in Pipe, Live(q)'
               PROVE  (IF IsIn(q) THEN InSync(q) ELSE OutSync(q))'
    BY DEF SyncInv
  <2>0. /\ tog'[q] \in BOOLEAN /\ hTog'[q] \in BOOLEAN /\ taken'[q] \in BOOLEAN
        /\ tog[q] \in BOOLEAN /\ hTog[q] \in BOOLEAN /\ taken[q] \in BOOLEAN
    BY NextRegisterType, NextHostType, NextGhostType
  <2>1. /\ event.token = "IN" /\ event' = NoEvent
        /\ UNCHANGED <<active, busReset, hReq, hUse, hTog, halted, failed>>
    BY <1>4 DEF ProcessInMore, InEvent, stack, host
  <2>2. Live(q)
    BY <2>1
  <2>3. CASE q = event.pipe
    <3>1. tog'[q] = ~tog[q] /\ ~taken'[q]
      BY <1>4, <2>3 DEF ProcessInMore, Toggle, LoadNextIn
    <3>2. taken[q] <=> hTog[q] # tog[q]
      BY <2>1, <2>2, <2>3
    <3>3. taken[q] /\ IsIn(q)
      BY <2>1, <2>2, <2>3
    <3> QED
      BY <2>0, <2>1, <3>1, <3>2, <3>3
  <2>4. CASE q # event.pipe
    <3>1. tog'[q] = tog[q] /\ taken'[q] = taken[q]
      BY <1>4, <2>4 DEF ProcessInMore, Toggle, LoadNextIn
    <3> QED
      BY <2>1, <2>2, <2>4, <3>1
  <2> QED
    BY <2>3, <2>4
<1>5. CASE ProcessInLast
  BY <1>5
  DEF ProcessInLast, InEvent, MoreToSend, UnsentAfter, Disarm, Finish, Toggle,
    Masked, vars, driver, registers, flags, stack, host
<1>6. CASE ProcessOutIgnored
  BY <1>6
  DEF ProcessOutIgnored, OutEvent, ExpectedPacket, Masked, vars, driver,
    registers, flags, stack, host
<1>7. CASE ProcessOutIdle
  BY <1>7
  DEF ProcessOutIdle, OutEvent, ExpectedPacket, Masked, vars, driver,
    registers, flags, stack, host
<1>8. CASE ProcessOutTooLong
  BY <1>8
  DEF ProcessOutTooLong, OutEvent, ExpectedPacket, Disarm, Finish, Masked,
    vars, driver, registers, flags, stack, host
<1>9. CASE ProcessOutStored
  BY <1>9
  DEF ProcessOutStored, OutEvent, ExpectedPacket, Fits, Disarm, Finish, Toggle,
    Masked, vars, driver, registers, flags, stack, host
<1>10. CASE CriticalEnter
  BY <1>10, MaskedCallFacts
  DEF CriticalEnter, Pending, vars, driver, registers, flags, stack, host
<1>11. CASE SubmitIn
  BY <1>11, SmallerFacts
  DEF SubmitIn, Accepts, LoadNextIn, Masked, vars, driver, registers, flags,
    stack, host
<1>12. CASE SubmitOut
  BY <1>12
  DEF SubmitOut, Accepts, Masked, vars, driver, registers, flags, stack, host
<1>13. CASE SubmitBusy
  BY <1>13
  DEF SubmitBusy, Masked, vars, driver, registers, flags, stack, host
<1>14. CASE Stall
  BY <1>14
  DEF Stall, ClearTransfer, Finish, Masked, vars, driver, registers, flags,
    stack, host
<1>15. CASE ClearStall
  <2> SUFFICES ASSUME NEW q \in Pipe, Live(q)'
               PROVE  (IF IsIn(q) THEN InSync(q) ELSE OutSync(q))'
    BY DEF SyncInv
  <2>0. /\ tog'[q] \in BOOLEAN /\ hTog'[q] \in BOOLEAN /\ taken'[q] \in BOOLEAN
        /\ tog[q] \in BOOLEAN /\ hTog[q] \in BOOLEAN /\ taken[q] \in BOOLEAN
    BY NextRegisterType, NextHostType, NextGhostType
  <2>1. /\ call.op = "clear"
        /\ UNCHANGED <<active, event, busReset, hReq, hUse, hTog>>
    BY <1>15 DEF ClearStall, driver, flags, host
  <2>2. q # call.pipe
    BY <2>1
  <2>3. /\ tog'[q] = tog[q] /\ taken'[q] = taken[q] /\ failed'[q] = failed[q]
        /\ halted'[q] = halted[q]
    BY <1>15, <2>2 DEF ClearStall
  <2> QED
    BY <2>1, <2>3
<1>16. CASE OpenBusy
  BY <1>16
  DEF OpenBusy, Masked, vars, driver, registers, flags, stack, host
<1>17. CASE OpenEndpoint
  <2> SUFFICES ASSUME NEW q \in Pipe, Live(q)'
               PROVE  (IF IsIn(q) THEN InSync(q) ELSE OutSync(q))'
    BY DEF SyncInv
  <2>0. /\ tog'[q] \in BOOLEAN /\ hTog'[q] \in BOOLEAN /\ taken'[q] \in BOOLEAN
        /\ tog[q] \in BOOLEAN /\ hTog[q] \in BOOLEAN /\ taken[q] \in BOOLEAN
    BY NextRegisterType, NextHostType, NextGhostType
  <2>1. /\ call.op = "open"
        /\ UNCHANGED <<event, busReset, hReq, hUse, hTog>>
    BY <1>17 DEF OpenEndpoint, flags, host
  <2>2. q # call.pipe
    BY <2>1
  <2>3. /\ tog'[q] = tog[q] /\ taken'[q] = taken[q] /\ failed'[q] = failed[q]
        /\ halted'[q] = halted[q] /\ active'[q] = active[q]
    BY <1>17, <2>2 DEF OpenEndpoint, Disarm, Finish
  <2> QED
    BY <2>1, <2>3
<1>18. CASE SetAddress
  BY <1>18, PipeCallFacts
  DEF SetAddress, Pending, vars, driver, registers, flags, stack, host
<1>19. CASE SetConnected
  BY <1>19
  DEF SetConnected, Pending, All, vars, driver, registers, flags, stack, host
<1>20. CASE TakeAddress
  BY <1>20, AddressCallFacts
  DEF TakeAddress, Takes, Answered, AtRest, Pending, vars, driver, registers,
    flags, stack, host
<1>21. CASE TakeClear
  BY <1>21, PipeCallFacts
  DEF TakeClear, Takes, Answered, AtRest, Start, Pending, vars, driver,
    registers, flags, stack, host
<1>22. CASE TakeConfig
  BY <1>22
  DEF TakeConfig, Takes, Answered, AtRest, Pending, vars, driver, registers,
    flags, stack, host
<1>23. CASE TakeRead
  BY <1>23
  DEF TakeRead, Takes, Answered, AtRest, Pending, vars, driver, registers,
    flags, stack, host
<1>24. CASE TakeBad
  BY <1>24
  DEF TakeBad, Takes, Answered, AtRest, Pending, vars, driver, registers,
    flags, stack, host
<1>25. CASE OpenNext
  BY <1>25, PipeCallFacts
  DEF OpenNext, Calls, Start, Pending, vars, driver, registers, flags, stack,
    host
<1>26. CASE SendStatus
  BY <1>26, PipeCallFacts
  DEF SendStatus, Calls, Start, Pending, vars, driver, registers, flags, stack,
    host
<1>27. CASE SendData
  BY <1>27, PipeCallFacts
  DEF SendData, Calls, Start, Pending, vars, driver, registers, flags, stack,
    host
<1>28. CASE ReceiveStatus
  BY <1>28, PipeCallFacts
  DEF ReceiveStatus, Calls, Start, Pending, vars, driver, registers, flags,
    stack, host
<1>29. CASE StallControl
  BY <1>29, PipeCallFacts
  DEF StallControl, Calls, Start, Pending, vars, driver, registers, flags,
    stack, host
<1>30. CASE StackReset
  BY <1>30
  DEF StackReset, Answered, Pending, AtRest, vars, driver, registers, flags,
    stack, host
<1>31. CASE ClassSubmit
  BY <1>31, PipeCallFacts
  DEF ClassSubmit, Calls, Start, Pending, vars, driver, registers, flags,
    stack, host
<1>32. CASE ClassStall
  BY <1>32, PipeCallFacts
  DEF ClassStall, Calls, Start, Pending, vars, driver, registers, flags, stack,
    host
<1>33. ASSUME NEW p \in Pipe, NEW acked \in BOOLEAN, HostInRepeated(p, acked) PROVE SyncInv'
  BY <1>33, InPacketFacts
  DEF HostInRepeated, Reads, WireReady, Reachable, Talks, vars, driver,
    registers, flags, stack, host
<1>34. ASSUME NEW p \in Pipe, NEW acked \in BOOLEAN, HostInData(p, acked) PROVE SyncInv'
  BY <1>34, InPacketFacts
  DEF HostInData, Reads, WireReady, Reachable, Talks, vars, driver, registers,
    flags, stack, host
<1>35. ASSUME NEW p \in Pipe, NEW acked \in BOOLEAN, HostInStatus(p, acked) PROVE SyncInv'
  <2> SUFFICES ASSUME NEW q \in Pipe, Live(q)'
               PROVE  (IF IsIn(q) THEN InSync(q) ELSE OutSync(q))'
    BY DEF SyncInv
  <2>0. /\ tog'[q] \in BOOLEAN /\ hTog'[q] \in BOOLEAN /\ taken'[q] \in BOOLEAN
        /\ tog[q] \in BOOLEAN /\ hTog[q] \in BOOLEAN /\ taken[q] \in BOOLEAN
    BY NextRegisterType, NextHostType, NextGhostType
  <2>1. /\ event = NoEvent /\ p = In0 /\ hReq # NoRequest /\ hReq' = NoRequest
        /\ event' = NoEvent \/ event' = InPacket(In0)
        /\ hostUp /\ ~busReset
        /\ UNCHANGED <<tog, halted, failed, active, busReset>>
    BY <1>35 DEF HostInStatus, Reads, WireReady, Reachable, Talks, Completes, driver, registers,
             stack
  <2>2. q \in DataPipes /\ ~On0("IN", q)' /\ ~On0("OUT", q)' /\ ~halted[q]
    BY <2>1, InPacketFacts
  <2>3. taken'[q] = taken[q]
    <3>1. q # In0 /\ taken' = [taken EXCEPT ![p] = TRUE]
      BY <1>35, <2>2 DEF HostInStatus
    <3> QED
      BY <2>1, <3>1
  <2>4. CASE hUse[q] = "on"
    <3>1. hTog'[q] = hTog[q]
      <4>1. q # In0 /\ q \notin Fresh(hReq)
        BY <2>2, <2>4 DEF Fresh
      <4>2. hTog'[q] = [hTog EXCEPT ![p] = ~hTog[p]][q]
        BY <1>35, <4>1 DEF HostInStatus, Completes, On
      <4> QED
        BY <2>1, <4>1, <4>2
    <3> QED
      BY <2>1, <2>2, <2>3, <2>4, <3>1
  <2>5. CASE hUse[q] # "on"
    <3>1. hUse'[q] = "on"
      BY <2>2
    <3>2. (hReq.kind = "config" /\ hUse[q] = "off") \/ (hReq.kind = "clear" /\ q = hReq.pipe)
      BY <1>35, <2>2, <2>5, <3>1 DEF HostInStatus, Completes
    <3>3. ~hTog'[q]
      <4>1. q \in Fresh(hReq)
        BY <2>2, <3>2 DEF Fresh
      <4> QED
        BY <1>35, <4>1 DEF HostInStatus, Completes, On
    <3>4. ~tog[q] /\ ~taken[q]
      BY <2>1, <2>2, <2>5
    <3>5. taken'[q] <=> hTog'[q] # tog'[q]
      BY <2>0, <2>1, <2>3, <3>3, <3>4
    <3> QED
      BY <2>2, <2>3, <3>4, <3>5
  <2> QED
    BY <2>4, <2>5
<1>36. ASSUME NEW p \in Pipe, NEW len \in 0..MaxPacket, HostOutLost(p, len) PROVE SyncInv'
  <2> SUFFICES ASSUME NEW q \in Pipe, Live(q)'
               PROVE  (IF IsIn(q) THEN InSync(q) ELSE OutSync(q))'
    BY DEF SyncInv
  <2>0. /\ tog'[q] \in BOOLEAN /\ hTog'[q] \in BOOLEAN /\ taken'[q] \in BOOLEAN
        /\ tog[q] \in BOOLEAN /\ hTog[q] \in BOOLEAN /\ taken[q] \in BOOLEAN
    BY NextRegisterType, NextHostType, NextGhostType
  <2>1. Written(p, len, FALSE)
    BY <1>36, WritesFacts DEF HostOutLost, UsbInv
  <2>2. /\ event = NoEvent /\ Talks(p) /\ ~IsIn(p) /\ resp[p] = "ACK"
        /\ UNCHANGED <<tog, halted, failed, active, busReset, hUse>>
        /\ hReq' = hReq \/ hReq' = NoRequest
    BY <1>36 DEF HostOutLost, Writes, WireReady, driver, registers, stack
  <2>3. Live(q)
    BY <2>2
  <2>4. CASE q = p
    <3>1. active[p] /\ (taken[p] <=> hTog[p] # tog[p])
      BY <2>2, <2>3, <2>4
    <3>2. taken'[q] = taken[q] /\ hTog'[q] = hTog[q]
      BY <1>36, <2>4 DEF HostOutLost
    <3>3. OutSync(q)'
      BY <2>0, <2>1, <2>2, <2>4, <3>1, <3>2 DEF Written
    <3> QED
      BY <2>2, <2>4, <3>3
  <2>5. CASE q # p
    <3>1. taken'[q] = taken[q] /\ hTog'[q] = hTog[q]
      BY <1>36, <2>5 DEF HostOutLost
    <3> QED
      BY <2>1, <2>2, <2>3, <2>5, <3>1 DEF Written
  <2> QED
    BY <2>4, <2>5
<1>37. ASSUME NEW p \in Pipe, NEW len \in 0..MaxPacket, HostOutAcked(p, len) PROVE SyncInv'
  <2> SUFFICES ASSUME NEW q \in Pipe, Live(q)'
               PROVE  (IF IsIn(q) THEN InSync(q) ELSE OutSync(q))'
    BY DEF SyncInv
  <2>0. /\ tog'[q] \in BOOLEAN /\ hTog'[q] \in BOOLEAN /\ taken'[q] \in BOOLEAN
        /\ tog[q] \in BOOLEAN /\ hTog[q] \in BOOLEAN /\ taken[q] \in BOOLEAN
    BY NextRegisterType, NextHostType, NextGhostType
  <2>1. Written(p, len, TRUE)
    BY <1>37, WritesFacts DEF HostOutAcked, UsbInv
  <2>2. /\ event = NoEvent /\ Talks(p) /\ ~IsIn(p) /\ resp[p] = "ACK"
        /\ UNCHANGED <<tog, halted, failed, active, busReset, hUse>>
        /\ hReq' = hReq \/ hReq' = NoRequest
    BY <1>37 DEF HostOutAcked, Writes, WireReady, driver, registers, stack
  <2>3. Live(q)
    BY <2>2
  <2>4. CASE q = p
    <3>1. active[p] /\ (taken[p] <=> hTog[p] # tog[p])
      BY <2>2, <2>3, <2>4
    <3>2. ~taken'[q] /\ hTog'[q] = ~hTog[q]
      BY <1>37, <2>4 DEF HostOutAcked
    <3>3. OutSync(q)'
      BY <2>0, <2>1, <2>2, <2>4, <3>1, <3>2 DEF Written
    <3> QED
      BY <2>2, <2>4, <3>3
  <2>5. CASE q # p
    <3>1. taken'[q] = taken[q] /\ hTog'[q] = hTog[q]
      BY <1>37, <2>5 DEF HostOutAcked
    <3> QED
      BY <2>1, <2>2, <2>3, <2>5, <3>1 DEF Written
  <2> QED
    BY <2>4, <2>5
<1>38. ASSUME NEW r \in Request, HostSetup(r) PROVE SyncInv'
  <2> SUFFICES ASSUME NEW q \in Pipe, Live(q)'
               PROVE  (IF IsIn(q) THEN InSync(q) ELSE OutSync(q))'
    BY DEF SyncInv
  <2>0. /\ tog'[q] \in BOOLEAN /\ hTog'[q] \in BOOLEAN /\ taken'[q] \in BOOLEAN
        /\ tog[q] \in BOOLEAN /\ hTog[q] \in BOOLEAN /\ taken[q] \in BOOLEAN
    BY NextRegisterType, NextHostType, NextGhostType
  <2>1. /\ event = NoEvent /\ event'.token = "SETUP"
        /\ UNCHANGED <<tog, taken, halted, failed, active, busReset>>
    BY <1>38, SetupPacketFacts DEF HostSetup, WireReady, driver, registers, stack
  <2>2. q \in DataPipes
    BY <2>1
  <2>3. hUse[q] = "on" /\ hTog'[q] = hTog[q]
    BY <1>38, <2>2 DEF HostSetup, On
  <2> QED
    BY <2>1, <2>2, <2>3
<1>39. CASE HostReset
  BY <1>39
  DEF HostReset, All, vars, driver, registers, flags, stack, host
<1>40. CASE UNCHANGED vars
  BY <1>40 DEF vars, driver, registers, flags, stack, host
<1> HIDE DEF SyncInv
<1> QED
  BY <1>1, <1>2, <1>3, <1>4, <1>5, <1>6, <1>7, <1>8, <1>9, <1>10, <1>11, <1>12,
    <1>13, <1>14, <1>15, <1>16, <1>17, <1>18, <1>19, <1>20, <1>21, <1>22,
    <1>23, <1>24, <1>25, <1>26, <1>27, <1>28, <1>29, <1>30, <1>31, <1>32,
    <1>33, <1>34, <1>35, <1>36, <1>37, <1>38, <1>39, <1>40
  DEF Next, Interrupt, ProcessIn, ProcessOut, Task, Submit, EndpointOpen,
    TakeSetup, ControlStep, ClassCall, Host, HostIn, HostOut


----------------------------------------------------------------------------
(* The theorems *)

LEMMA InitInv == Init => UsbInv
<1> SUFFICES ASSUME Init PROVE UsbInv
  OBVIOUS
<1> USE PipeFacts, SizeFacts, RequestFacts, PacketFacts, CallFacts DEF Init, All
<1>1. TypeOK
  <2>1. DriverType /\ GhostType
    BY DEF DriverType, GhostType
  <2>2. RegisterType
    BY DEF RegisterType
  <2>3. FlagType
    BY DEF FlagType
  <2>4. StackType
    BY DEF StackType
  <2>5. HostType
    BY DEF HostType
  <2> QED
    BY <2>1, <2>2, <2>3, <2>4, <2>5 DEF TypeOK
<1>2. /\ hReq = NoRequest /\ event = NoEvent /\ call = NoCall /\ setup = NoRequest
      /\ Unused /\ \A p \in Pipe : ~Live(p)
  BY DEF Unused, Live, Talks
<1>3. EventInv /\ HostInv
  BY <1>2 DEF EventInv, HostInv
<1>4. CallInv /\ RespInv
  BY <1>2 DEF CallInv, RespInv
<1>5. RequestInv /\ StatusInv /\ AddressInv /\ LastInInv
  BY <1>2 DEF RequestInv, StatusInv, AddressInv, LastInInv, On0
<1>6. UnusedInv
  BY <1>2 DEF UnusedInv, On0
<1>7. SyncInv
  BY <1>2 DEF SyncInv
<1> QED
  BY <1>1, <1>3, <1>4, <1>5, <1>6, <1>7 DEF UsbInv

LEMMA NextInv == UsbInv /\ [Next]_vars => UsbInv'
<1> SUFFICES ASSUME UsbInv, [Next]_vars PROVE UsbInv'
  OBVIOUS
<1>1. TypeOK
  BY DEF UsbInv
<1>2. DriverType' /\ RegisterType' /\ FlagType'
  BY <1>1, NextDriverType, NextRegisterType, NextFlagType
<1>3. StackType' /\ HostType' /\ GhostType'
  BY <1>1, NextStackType, NextHostType, NextGhostType
<1>4. EventInv' /\ HostInv' /\ CallInv' /\ RespInv' /\ RequestInv'
  BY NextEventInv, NextHostInv, NextCallInv, NextRespInv, NextRequestInv
<1>5. StatusInv' /\ AddressInv' /\ LastInInv' /\ UnusedInv' /\ SyncInv'
  BY NextStatusInv, NextAddressInv, NextLastInInv, NextUnusedInv, NextSyncInv
<1> QED
  BY <1>2, <1>3, <1>4, <1>5 DEF UsbInv, TypeOK

LEMMA Invariant == Spec => []UsbInv
  BY InitInv, NextInv, PTL DEF Spec

\* The driver, the controller, the core and the host keep to their types: no
\* transfer counts below zero or beyond what was asked for.
THEOREM Typing == Spec => []TypeOK
<1>1. UsbInv => TypeOK
  BY DEF UsbInv
<1> QED
  BY <1>1, Invariant, PTL

\* usb_process_in_packet and usb_load_next_in_packet: no unit of an IN transfer
\* is lost or delivered twice, whatever handshakes are lost.
THEOREM InDelivery == Spec => []InPacketsOnce
<1>1. UsbInv => InPacketsOnce
  BY DEF UsbInv, SyncInv, InSync, InPacketsOnce, On0
<1> QED
  BY <1>1, Invariant, PTL

\* usb_process_out_packet: the same for OUT transfers.
THEOREM OutDelivery == Spec => []OutPacketsOnce
<1>1. UsbInv => OutPacketsOnce
  BY DEF UsbInv, SyncInv, OutSync, OutPacketsOnce, On0
<1> QED
  BY <1>1, Invariant, PTL

\* The response register of a pipe in use agrees with its transfer.
THEOREM Offered == Spec => []OfferedIffActive
<1>1. UsbInv => OfferedIffActive
  <2> SUFFICES ASSUME UsbInv, NEW p \in Pipe, Live(p)
               PROVE  active[p] <=> resp[p] = "ACK"
    BY DEF OfferedIffActive
  <2>1. RespInv /\ TypeOK
    BY DEF UsbInv
  <2>2. ~(p = Out0 /\ (busReset \/ event.token = "SETUP" \/ hReq = NoRequest))
    BY PipeFacts DEF Live, Talks
  <2> QED
    BY <2>1, <2>2 DEF RespInv, TypeOK, DriverType
<1> QED
  BY <1>1, Invariant, PTL

\* chip_usb_device_set_address: the new address takes effect with the status
\* packet, also if a reset or another request comes between.
THEOREM Addressing == Spec => []AddressAgreed
<1>1. UsbInv => AddressAgreed
  BY DEF UsbInv, AddressInv, AddressAgreed
<1> QED
  BY <1>1, Invariant, PTL

\* chip_usb_device_endpoint_stall: a halted pipe has no transfer, and an interrupt
\* pending when it was halted does not arm it again.
THEOREM Halting == Spec => []HaltedTakesNothing
<1>1. UsbInv => HaltedTakesNothing
  BY PipeFacts DEF UsbInv, RespInv, HaltedTakesNothing
<1> QED
  BY <1>1, Invariant, PTL

----------------------------------------------------------------------------
(* What InTransfersDrain owes to the driver *)

\* The packet in the buffer is the next one of its transfer.
QueueInv ==
  \A p \in InPipes : active[p] /\ open[p] => queued[p] = Smaller(left[p], MaxPacket)

LEMMA NextQueueInv ==
  ASSUME TypeOK, EventInv, QueueInv, [Next]_vars
  PROVE  QueueInv'
<1> SUFFICES ASSUME NEW p \in InPipes, (active[p] /\ open[p])'
             PROVE  queued'[p] = Smaller(left'[p], MaxPacket)
  BY DEF QueueInv, InPipes, Pipe
<1>1. p \in Pipe /\ IsIn(p) /\ DriverType /\ Typed
  BY TypedFacts DEF InPipes, TypeOK
<1> USE DEF DriverType
<1>2. CASE active[p] /\ open[p] /\ left'[p] = left[p] /\ queued'[p] = queued[p]
  BY <1>2 DEF QueueInv
<1>3. CASE UNCHANGED driver
  BY <1>2, <1>3 DEF driver
<1>4. CASE ProcessBusReset
  BY <1>1, <1>4 DEF ProcessBusReset, ResetEndpoints, All
<1>5. CASE ProcessSetup
  BY <1>1, <1>2, <1>5 DEF ProcessSetup, On
<1>6. CASE ProcessInMore
  <2>1. event.pipe \in Pipe /\ UNCHANGED <<open, active>>
    BY <1>1, <1>6 DEF ProcessInMore, Typed, TypedEvent
  <2>2. CASE p = event.pipe
    BY <1>1, <1>6, <2>1, <2>2 DEF ProcessInMore, LoadNextIn, PacketSize
  <2>3. CASE p # event.pipe
    BY <1>1, <1>2, <1>6, <2>1, <2>3 DEF ProcessInMore, LoadNextIn
  <2> QED BY <2>2, <2>3
<1>7. CASE ProcessInLast \/ ProcessOutTooLong
  <2>1. event.pipe \in Pipe /\ open' = open /\ Finish(event.pipe)
    BY <1>1, <1>7 DEF ProcessInLast, ProcessOutTooLong, Disarm, Typed, TypedEvent
  <2> QED BY <1>1, <1>2, <2>1 DEF Finish
<1>8. CASE ProcessOutStored
  <2>1. event.pipe \in Pipe /\ open' = open
    BY <1>1, <1>8 DEF ProcessOutStored, Typed, TypedEvent
  <2>2. CASE Finish(event.pipe)
    BY <1>1, <1>2, <2>1, <2>2 DEF Finish
  <2>3. CASE /\ left' = [left EXCEPT ![event.pipe] = @ - event.len]
             /\ UNCHANGED <<active, queued>> /\ event.pipe # p
    BY <1>1, <1>2, <2>1, <2>3
  <2>4. event.pipe # p
    BY <1>1, <1>8 DEF ProcessOutStored, OutEvent, EventInv
  <2> QED BY <1>8, <2>2, <2>3, <2>4 DEF ProcessOutStored, Disarm
<1>9. CASE SubmitIn
  <2>1. call.pipe \in Pipe /\ open' = open
    BY <1>1, <1>9 DEF SubmitIn, Typed, TypedCall
  <2>2. CASE p = call.pipe
    BY <1>1, <1>9, <2>1, <2>2 DEF SubmitIn, LoadNextIn, PacketSize
  <2>3. CASE p # call.pipe
    BY <1>1, <1>2, <1>9, <2>1, <2>3 DEF SubmitIn, LoadNextIn
  <2> QED BY <2>2, <2>3
<1>10. CASE SubmitOut
  <2>1. call.pipe \in Pipe /\ call.pipe # p
    BY <1>1, <1>10 DEF SubmitOut, Typed, TypedCall
  <2> QED BY <1>1, <1>2, <1>10, <2>1 DEF SubmitOut
<1>11. CASE Stall
  <2>1. call.pipe \in Pipe /\ open' = open /\ Finish(call.pipe)
    BY <1>1, <1>11 DEF Stall, ClearTransfer, Typed, TypedCall
  <2> QED BY <1>1, <1>2, <2>1 DEF Finish
<1>12. CASE OpenEndpoint
  <2>1. /\ call.pipe \in Pipe /\ Finish(call.pipe)
        /\ open' = [open EXCEPT ![call.pipe] = TRUE]
    BY <1>1, <1>12 DEF OpenEndpoint, Disarm, Typed, TypedCall
  <2> QED BY <1>1, <1>2, <2>1 DEF Finish
<1>13. CASE SetAddress
  BY <1>2, <1>13 DEF SetAddress
<1>14. CASE ProcessInIdle \/ ProcessOutIgnored \/ ProcessOutIdle \/ SetConnected
  BY <1>3, <1>14 DEF ProcessInIdle, ProcessOutIgnored, ProcessOutIdle, SetConnected
<1>15. CASE CriticalEnter \/ SubmitBusy \/ ClearStall \/ OpenBusy \/ StackReset
  BY <1>3, <1>15 DEF CriticalEnter, SubmitBusy, ClearStall, OpenBusy, StackReset
<1>16. CASE TakeSetup \/ ControlStep \/ ClassCall
  BY <1>3, <1>16 DEF TakeSetup, TakeAddress, TakeClear, TakeConfig, TakeRead, TakeBad, Takes,
                     ControlStep, OpenNext, SendStatus, SendData, ReceiveStatus,
                     StallControl, ClassCall, ClassSubmit, ClassStall, Calls
<1>17. CASE Host
  <2>1. UNCHANGED driver
    BY <1>17 DEF Host, HostIn, HostInRepeated, HostInData, HostInStatus, Reads, HostOut,
                 HostOutLost, HostOutAcked, Writes, HostSetup, HostReset
  <2> QED BY <1>3, <2>1
<1>18. CASE UNCHANGED vars
  BY <1>3, <1>18 DEF vars
<1> QED
  BY <1>4, <1>5, <1>6, <1>7, <1>8, <1>9, <1>10, <1>11, <1>12, <1>13, <1>14, <1>15,
     <1>16, <1>17, <1>18
     DEF Next, Interrupt, Task, ProcessIn, ProcessOut, Submit, EndpointOpen

\* The host has taken a packet of an IN transfer.
Confirmed == ProcessIn /\ active[event.pipe] /\ open[event.pipe]

\* The transfer goes on by a whole packet, or it ends with its last unit.
Advances(p) ==
  IF left[p] > MaxPacket THEN active'[p] /\ left'[p] = left[p] - MaxPacket
                         ELSE ~active'[p]

LEMMA ConfirmedAdvances ==
  ASSUME TypeOK, EventInv, QueueInv, Confirmed
  PROVE  Advances(event.pipe)
<1> DEFINE p == event.pipe
<1>1. /\ p \in Pipe /\ DriverType /\ event.token = "IN" /\ IsIn(p)
  BY TypedFacts DEF TypeOK, Typed, TypedEvent, EventInv, Confirmed, ProcessIn, ProcessInIdle,
                    ProcessInMore, ProcessInLast, InEvent
<1>2. active[p] /\ queued[p] = Smaller(left[p], MaxPacket)
  BY <1>1 DEF Confirmed, QueueInv, InPipes
<1>3. left[p] \in Nat /\ MaxPacket \in Nat
  BY <1>1, SizeFacts DEF DriverType
<1>4. MoreToSend(UnsentAfter(p)) <=> left[p] > MaxPacket
  <2> HIDE DEF p
  <2> QED BY <1>2, <1>3 DEF MoreToSend, UnsentAfter, Smaller
<1>5. CASE ProcessInMore
  <2>1. MoreToSend(UnsentAfter(p)) /\ active' = active
        /\ left' = [left EXCEPT ![p] = UnsentAfter(p)]
    BY <1>5 DEF ProcessInMore, LoadNextIn
  <2>2. left[p] > MaxPacket
    BY <1>4, <2>1
  <2>3. left'[p] = left[p] - queued[p]
    BY <1>1, <2>1 DEF DriverType, UnsentAfter
  <2>4. queued[p] = MaxPacket
    BY <1>2, <1>3, <2>2 DEF Smaller
  <2> HIDE DEF p
  <2>5. Advances(p)
    BY <1>2, <2>1, <2>2, <2>3, <2>4 DEF Advances
  <2> QED BY <2>5 DEF p
<1>6. CASE ProcessInLast
  <2>1. ~MoreToSend(UnsentAfter(p)) /\ ~active'[p]
    BY <1>1, <1>6 DEF ProcessInLast, Disarm, Finish, DriverType
  <2>2. ~(left[p] > MaxPacket)
    BY <1>4, <2>1
  <2> HIDE DEF p
  <2>3. Advances(p)
    BY <2>1, <2>2 DEF Advances
  <2> QED BY <2>3 DEF p
<1> QED BY <1>2, <1>5, <1>6 DEF Confirmed, ProcessIn, ProcessInIdle

\* usb_process_in_packet: each packet the host takes carries the transfer a whole
\* packet further, and the transfer ends exactly with the packet that holds the
\* rest of it: not before, and without an empty packet behind it.
THEOREM InProgress ==
  Spec => [][Confirmed => Advances(event.pipe)]_vars
<1>1. Init => QueueInv
  BY DEF Init, QueueInv, All, InPipes
<1>2. TypeOK /\ EventInv /\ QueueInv /\ [Next]_vars => QueueInv'
  BY NextQueueInv
<1>3. UsbInv => TypeOK /\ EventInv
  BY DEF UsbInv
<1>4. TypeOK /\ EventInv /\ QueueInv /\ [Next]_vars =>
        [Confirmed => Advances(event.pipe)]_vars
  BY ConfirmedAdvances
<1> QED
  BY <1>1, <1>2, <1>3, <1>4, Invariant, PTL DEF Spec
----------------------------------------------------------------------------
(* What becomes of the STALL answer of a halted pipe *)

\* The handler of a packet that was flagged before the pipe was halted.
LatePacket(p) ==
  /\ ProcessInIdle \/ ProcessOutIdle
  /\ event.pipe = p /\ resp'[p] = "NAK"

StallLost(p) == halted'[p] /\ resp[p] = "STALL" /\ resp'[p] # "STALL"

\* usb_process_in, usb_process_out: while a pipe stays halted, its STALL answer is
\* lost only to the handler of a packet flagged before, which puts NAK in its
\* place.  No call of the task and no other packet takes it away.
THEOREM StallIsKept ==
  Spec => [][\A p \in DataPipes : StallLost(p) => LatePacket(p)]_vars
<1>1. UsbInv /\ [Next]_vars =>
        [\A p \in DataPipes : StallLost(p) => LatePacket(p)]_vars
  <2> SUFFICES ASSUME UsbInv, Next, NEW p \in DataPipes, StallLost(p)
               PROVE  LatePacket(p)
    OBVIOUS
  <2>1. /\ p \in Pipe /\ p \notin Control /\ DriverType /\ RegisterType /\ Typed
        /\ halted \in [Pipe -> BOOLEAN] /\ p \notin {In0, Out0}
    BY PipeFacts, TypedFacts DEF UsbInv, TypeOK, StackType
  <2>2. ~active[p] /\ halted[p]
    BY <2>1 DEF UsbInv, RespInv, StallLost
  <2>3. resp'[p] # resp[p] /\ halted'[p]
    BY DEF StallLost
  <2>4. ~UNCHANGED resp
    BY <2>3
  <2>5. CASE ProcessBusReset
    BY <2>1, <2>3, <2>5 DEF ProcessBusReset, All
  <2>6. CASE ProcessSetup
    BY <2>1, <2>3, <2>6 DEF ProcessSetup, On, RegisterType
  <2>7. CASE ProcessInIdle \/ ProcessOutIdle
    BY <2>1, <2>3, <2>7 DEF ProcessInIdle, ProcessOutIdle, LatePacket, RegisterType
  <2>8. CASE ProcessInMore \/ ProcessInLast \/ ProcessOutTooLong \/ ProcessOutStored
    <3>1. event.pipe # p
      BY <2>2, <2>8 DEF ProcessInMore, ProcessInLast, ProcessOutTooLong, ProcessOutStored
    <3> QED BY <2>1, <2>3, <2>8, <3>1
        DEF ProcessInMore, ProcessInLast, ProcessOutTooLong, ProcessOutStored, LoadNextIn,
            Disarm, RegisterType
  <2>9. CASE SubmitIn \/ SubmitOut
    <3>1. call.pipe # p
      BY <2>2, <2>9 DEF SubmitIn, SubmitOut, Accepts, UsbInv, CallInv
    <3> QED BY <2>1, <2>3, <2>9, <3>1 DEF SubmitIn, SubmitOut, LoadNextIn, RegisterType
  <2>10. CASE Stall
    BY <2>1, <2>3, <2>10 DEF Stall, RegisterType, StallLost
  <2>11. CASE ClearStall \/ OpenEndpoint
    BY <2>1, <2>3, <2>11 DEF ClearStall, OpenEndpoint, Disarm, RegisterType
  <2>12. CASE SetAddress \/ SetConnected \/ ProcessOutIgnored
    BY <2>4, <2>12 DEF SetAddress, SetConnected, ProcessOutIgnored, registers
  <2>13. CASE CriticalEnter \/ SubmitBusy \/ OpenBusy \/ StackReset
    BY <2>4, <2>13 DEF CriticalEnter, SubmitBusy, OpenBusy, StackReset, registers
  <2>14. CASE TakeSetup \/ ControlStep \/ ClassCall
    BY <2>4, <2>14 DEF TakeSetup, TakeAddress, TakeClear, TakeConfig, TakeRead, TakeBad,
                       Takes, ControlStep, OpenNext, SendStatus, SendData, ReceiveStatus,
                       StallControl, ClassCall, ClassSubmit, ClassStall, Calls, registers
  <2>15. CASE Host
    BY <2>4, <2>15 DEF Host, HostIn, HostInRepeated, HostInData, HostInStatus, Reads, HostOut,
                       HostOutLost, HostOutAcked, Writes, HostSetup, HostReset, registers
  <2> QED
    BY <2>5, <2>6, <2>7, <2>8, <2>9, <2>10, <2>11, <2>12, <2>13, <2>14, <2>15
       DEF Next, Interrupt, Task, ProcessIn, ProcessOut, Submit, EndpointOpen
<1> QED BY <1>1, Invariant, PTL DEF Spec
=============================================================================
