------------------------------ MODULE SpiFlash ------------------------------
(***************************************************************************)
(* The SPI NOR flash driver (components/spi_flash/src/spi_flash.c), one    *)
(* SPI transaction (select, transfers, deselect) a step, over a chip that  *)
(* is external: it ignores everything but READ STATUS while it is busy,    *)
(* needs WRITE ENABLE before each program or erase, wraps a page program   *)
(* at the end of the page, and may take longer than any timeout.  A        *)
(* transfer may time out halfway.  A busy chip drives no data: the JEDEC   *)
(* ID of spi_flash_init is then all ones, and refused.  The timer runs     *)
(* (keyboard_board_init starts it first).                                  *)
(***************************************************************************)
EXTENDS NorCalls

CONSTANTS
  PageSize,  \* config.page_size
  Polls      \* polls of READ STATUS that fit in a timeout

ASSUME FlashAssumption == PageSize \in Nat \ {0} /\ Polls \in Nat

VARIABLES
  mem,     \* the chip: the content, as it is when it has finished its work
  busy,    \* the cells it is at work on
  wel,     \* its write enable latch
  pc,      \* where the driver is
  call,    \* the arguments of the call
  next,    \* spi_flash_program: address
  polls,   \* wait_ready: polls left before the timeout
  result,  \* what the last call returned ("wrong": CHIP_OK, but the data of a
           \* read are not the content)
  base     \* history: the content before the write in progress, if there is one

chip == <<mem, busy, wel>>
driver == <<pc, call, next, polls, result>>
vars == <<chip, driver, base>>

Waiting == {"wait", "poll"}
Writing == {"enable", "command", "poll"}
Working == {"checks"} \cup Waiting \cup Writing

TypeOK ==
  /\ mem \in [Address -> Cell]
  /\ busy \in SUBSET Address
  /\ wel \in BOOLEAN
  /\ pc \in {"off", "idle"} \cup Working
  /\ call \in Call \cup {NoCall}
  /\ next \in 0..Capacity
  /\ polls \in 0..Polls
  /\ result \in {"ok", "error", "wrong"}
  /\ base \in [Address -> Cell]

Init ==
  /\ mem \in [Address -> Value \cup {Erased}]
  /\ busy = {} /\ wel = FALSE
  /\ pc = "off" /\ call = NoCall /\ next = 0 /\ polls = 0 /\ result = "ok"
  /\ base = mem

-----------------------------------------------------------------------------
(* The chip *)

\* The cell that the k-th byte of a page program at address a goes to.
PageEnd(a) == a - (a % PageSize) + PageSize
Wrapped(a, k) == IF a + k < PageEnd(a) THEN a + k ELSE a + k - PageSize

\* A program or erase arrives: cells S take their contents from new.
Executes(S, new) ==
  IF wel /\ busy = {}
  THEN /\ mem' = [a \in Address |-> IF a \in S THEN new[a] ELSE mem[a]]
       /\ busy' = S
       /\ wel' = FALSE
  ELSE UNCHANGED chip

ChipDone ==
  /\ busy # {}
  /\ busy' = {}
  /\ UNCHANGED <<mem, wel, driver, base>>

-----------------------------------------------------------------------------
(* The driver *)

\* Not initialized.
Off ==
  /\ pc' = "off" /\ call' = NoCall /\ next' = 0 /\ polls' = 0 /\ result' = "ok"
  /\ base' = mem'

SpiFlashInit ==
  /\ pc = "off" /\ busy = {}
  /\ pc' = "idle" /\ result' = "ok"
  /\ UNCHANGED <<chip, call, next, polls, base>>

SpiFlashDeinit ==
  /\ pc = "idle"
  /\ UNCHANGED chip
  /\ Off

Begin ==
  /\ pc = "idle"
  /\ call' \in Call
  /\ pc' = "checks" /\ result' = "ok"
  /\ UNCHANGED <<chip, next, polls, base>>

Return(r) ==
  /\ pc' = "idle" /\ result' = r
  /\ call' = NoCall /\ next' = 0 /\ polls' = 0
  /\ base' = mem'

\* flash_range_valid, and the checks of an erase address.
RangeValid(c) ==
  CASE c.op \in {"read", "program"} ->
         c.address <= Capacity /\ c.size <= Capacity - c.address
    [] c.op = "erase" -> c.address < Capacity /\ c.address % SectorSize = 0
    [] OTHER -> TRUE

NoBytes == call.op \in {"read", "program"} /\ call.size = 0

Refused ==
  /\ pc = "checks" /\ ~RangeValid(call)
  /\ UNCHANGED chip
  /\ Return("error")

NothingToDo ==
  /\ pc = "checks" /\ RangeValid(call) /\ NoBytes
  /\ UNCHANGED chip
  /\ Return("ok")

\* spi_flash_read does not look at BUSY.
ReadData ==
  /\ pc = "checks" /\ RangeValid(call) /\ ~NoBytes /\ call.op = "read"
  /\ UNCHANGED chip
  /\ Return(IF busy = {} THEN "ok" ELSE "wrong")

StartsWait(phase) == pc' = phase /\ polls' = Polls

WriteCall ==
  /\ pc = "checks" /\ RangeValid(call) /\ ~NoBytes /\ call.op # "read"
  /\ StartsWait("wait")
  /\ next' = call.address
  /\ UNCHANGED <<chip, call, result, base>>

\* spi_flash_wait_ready: BUSY is read, and the time is looked at.
NeverTimedOut == FALSE    \* mutant: no timeout
TimedOut == polls = 0

StillBusy ==
  /\ pc \in Waiting /\ busy # {} /\ ~TimedOut
  /\ polls' = IF polls = 0 THEN 0 ELSE polls - 1
  /\ UNCHANGED <<chip, pc, call, next, result, base>>

WaitTimesOut ==
  /\ pc \in Waiting /\ busy # {} /\ TimedOut
  /\ UNCHANGED chip
  /\ Return("error")

WaitReady ==
  /\ pc = "wait" /\ busy = {} /\ call.op = "wait"
  /\ UNCHANGED chip
  /\ Return("ok")

ReadyToWrite ==
  /\ pc = "wait" /\ busy = {} /\ call.op # "wait"
  /\ pc' = "enable"
  /\ UNCHANGED <<chip, call, next, polls, result, base>>

WriteEnable ==
  /\ pc = "enable"
  /\ wel' = (wel \/ busy = {})
  /\ pc' = "command"
  /\ UNCHANGED <<mem, busy, call, next, polls, result, base>>

\* The loop of spi_flash_program: what is left, and how much of it goes out next.
Left == call.address + call.size - next
WholePages == IF Left < PageSize THEN Left ELSE PageSize   \* mutant: address % page_size
PageRemaining == PageSize - (next % PageSize)
Chunk == IF Left < PageRemaining THEN Left ELSE PageRemaining

\* The first k bytes of the chunk reach the chip before CS goes up.
Programs(k) ==
  Executes({Wrapped(next, i) : i \in 0..(k - 1)},
           [a \in Address |-> Programmed(mem[a], call.value)])

Sector == {a \in Address : a >= call.address /\ a < call.address + SectorSize}

Erases ==
  Executes(IF call.op = "chip" THEN Address ELSE Sector, [a \in Address |-> Erased])

Command ==
  /\ pc = "command"
  /\ IF call.op = "program" THEN Programs(Chunk) ELSE Erases
  /\ StartsWait("poll")
  /\ UNCHANGED <<call, next, result, base>>

\* The chunk is written: the next one, or the call returns.
NextChunk ==
  /\ pc = "poll" /\ busy = {}
  /\ call.op = "program" /\ Chunk < Left
  /\ next' = next + Chunk
  /\ pc' = "enable"
  /\ UNCHANGED <<chip, call, polls, result, base>>

Written ==
  /\ pc = "poll" /\ busy = {}
  /\ call.op = "program" => Chunk = Left
  /\ UNCHANGED chip
  /\ Return("ok")

-----------------------------------------------------------------------------
(* A transfer times out, with all, a part or nothing of it done. *)

TransferFails ==
  /\ \/ pc = "checks" /\ RangeValid(call) /\ ~NoBytes /\ call.op = "read"
     \/ pc \in Waiting
  /\ UNCHANGED chip
  /\ Return("error")

EnableFails ==
  /\ pc = "enable"
  /\ wel' \in {wel, wel \/ busy = {}}
  /\ UNCHANGED <<mem, busy>>
  /\ Return("error")

CommandFails ==
  /\ pc = "command"
  /\ \/ UNCHANGED chip
     \/ call.op = "program" /\ \E k \in 1..Chunk : Programs(k)
     \/ call.op # "program" /\ Erases
  /\ Return("error")

-----------------------------------------------------------------------------
\* The processor is reset, the chip is not.
Reset == pc # "off" /\ UNCHANGED chip /\ Off

PowerLoss ==
  /\ mem' \in [Address -> Cell]
  /\ \A a \in Address \ busy : mem'[a] = mem[a]
  /\ busy' = {} /\ wel' = FALSE
  /\ Off

Step ==
  \/ Refused \/ NothingToDo \/ ReadData \/ WriteCall
  \/ StillBusy \/ WaitTimesOut \/ WaitReady \/ ReadyToWrite
  \/ WriteEnable \/ Command \/ NextChunk \/ Written

Fault == TransferFails \/ EnableFails \/ CommandFails

Next == SpiFlashInit \/ SpiFlashDeinit \/ Begin \/ Step \/ Fault \/ ChipDone \/ Reset \/ PowerLoss

\* The processor executes the call; the chip may never finish, and no transfer
\* has to fail.
Spec == Init /\ [][Next]_vars /\ WF_vars(Step)

-----------------------------------------------------------------------------
(* Properties *)

\* The driver keeps the promises of NorFlash: CHIP_OK means that the whole range
\* was written and nothing else, although the chip wraps at pages, ignores
\* commands it is not ready for and may outlast a timeout; and a read is wrong
\* only while the chip is still at work for a call that failed.
Flash == INSTANCE NorFlash WITH
  cells <- base,
  unsure <- IF pc \in Writing THEN {} ELSE busy,
  status <- IF pc \in Working THEN "busy" ELSE IF pc = "off" THEN "off" ELSE result
ImplementsFlash == Flash!Spec

\* Every call returns, even if the chip stays busy for ever.
CallsReturn == pc \in Working ~> pc \notin Working
=============================================================================
