-------------------------- MODULE SpiFlash_proofs ---------------------------
(***************************************************************************)
(* Proofs about SpiFlash, for every capacity, page size, sector size and   *)
(* timeout: the driver implements NorFlash.  The invariant says what the   *)
(* chip holds in the middle of a write.                                    *)
(***************************************************************************)
EXTENDS SpiFlash, Integers, TLAPS

\* An offset in a page is smaller than the page.
LEMMA PageOffset ==
  ASSUME NEW a \in Nat
  PROVE  a % PageSize \in 0..(PageSize - 1)
BY FlashAssumption

\* The fields of a call.
LEMMA CallFields ==
  ASSUME NEW c \in Call
  PROVE  /\ c.op \in {"read", "program", "erase", "chip", "wait"}
         /\ c.address \in 0..Capacity /\ c.size \in 0..Capacity
         /\ c.value \in Value \cup {Erased}
         /\ c.op = "program" => c.value \in Value
BY CallsAssumption DEF Call

\* Programming a cell yields a cell.
LEMMA ProgrammedCell ==
  ASSUME NEW old \in Cell, NEW new \in Value
  PROVE  Programmed(old, new) \in Cell
BY DEF Programmed, Cell

\* The chip's content keeps its type when it is at work.
LEMMA ExecutesType ==
  ASSUME mem \in [Address -> Cell], busy \in SUBSET Address, wel \in BOOLEAN,
         NEW S \in SUBSET Address, NEW new \in [Address -> Cell], Executes(S, new)
  PROVE  mem' \in [Address -> Cell] /\ busy' \in SUBSET Address /\ wel' \in BOOLEAN
BY DEF Executes, chip

-----------------------------------------------------------------------------
(* The invariant *)

\* A call that waits or writes has been accepted, and has something to write
\* unless it only waits.
CallInv ==
  /\ pc \in Working => call \in Call
  /\ pc \in {"wait", "enable", "command", "poll"} =>
       RangeValid(call) /\ ~NoBytes /\ call.op # "read"
  /\ pc \in Writing => call.op # "wait"
  /\ pc = "wait" => next = call.address
  /\ pc \in Writing /\ call.op = "program" =>
       next >= call.address /\ next < call.address + call.size

\* The chip is ready for the next command.
ReadyInv ==
  /\ pc \in {"enable", "command"} => busy = {}
  /\ pc = "command" => wel

\* The cells the call has written.
Done ==
  IF call.op = "program"
  THEN {a \in Address : /\ a >= call.address
                        /\ a < next + (IF pc = "poll" THEN Chunk ELSE 0)}
  ELSE IF pc = "poll" THEN Flash!Target(call) ELSE {}

ContentInv ==
  IF pc \in Writing
  THEN mem = [a \in Address |->
                IF a \in Done THEN Flash!After(call, base[a]) ELSE base[a]]
  ELSE mem = base

BusyInv == pc = "poll" => busy \subseteq Flash!Target(call)

FlashInv == TypeOK /\ CallInv /\ ReadyInv /\ ContentInv /\ BusyInv

-----------------------------------------------------------------------------
(* Lemmas about the loop of spi_flash_program *)

\* The driver accepts what NorFlash accepts.
LEMMA SameCalls ==
  ASSUME NEW c \in Call
  PROVE  RangeValid(c) <=> Flash!Accepted(c)
<1>1. c.op \in {"read", "program", "erase", "chip", "wait"}
      /\ c.address \in 0..Capacity /\ c.size \in 0..Capacity
  BY CallFields
<1>2. CASE c.op \in {"read", "program"}
  BY <1>1, <1>2, CallsAssumption DEF RangeValid, Flash!Accepted
<1>3. CASE c.op = "erase"
  BY <1>1, <1>3 DEF RangeValid, Flash!Accepted
<1>4. CASE c.op \in {"chip", "wait"}
  BY <1>1, <1>4 DEF RangeValid, Flash!Accepted
<1> QED BY <1>1, <1>2, <1>3, <1>4

\* A chunk has at least one byte, ends where the data or the page ends, and lies
\* in the range of the call.
LEMMA ChunkFits ==
  ASSUME TypeOK, CallInv, pc \in Writing, call.op = "program"
  PROVE  /\ Chunk \in Nat /\ Chunk > 0 /\ Chunk <= Left /\ Left \in Nat
         /\ Chunk <= PageEnd(next) - next
         /\ next \in Address /\ next + Chunk <= call.address + call.size
         /\ call.address + call.size <= Capacity /\ next + Chunk <= Capacity
         /\ call.address \in Nat /\ call.value \in Value
<1>1. call \in Call /\ next \in 0..Capacity /\ Capacity \in Nat
  BY CallsAssumption DEF TypeOK, CallInv, Writing, Working
<1>2. /\ call.address \in 0..Capacity /\ call.size \in 0..Capacity /\ call.value \in Value
      /\ next >= call.address /\ next < call.address + call.size
  BY <1>1, CallFields DEF CallInv
<1>3. RangeValid(call)
  BY DEF CallInv, Writing
<1>4. call.address + call.size <= Capacity
  BY <1>1, <1>2, <1>3 DEF RangeValid
<1>5. next % PageSize \in 0..(PageSize - 1) /\ PageSize \in Nat
  BY <1>1, PageOffset, FlashAssumption
<1>6. Left \in Nat /\ Left > 0
  BY <1>1, <1>2 DEF Left
<1>7. PageRemaining \in Nat /\ PageRemaining > 0 /\ PageRemaining = PageEnd(next) - next
  BY <1>1, <1>5 DEF PageRemaining, PageEnd
<1>8. Chunk \in Nat /\ Chunk > 0 /\ Chunk <= Left /\ Chunk <= PageRemaining
  BY <1>6, <1>7 DEF Chunk
<1>9. next + Chunk <= call.address + call.size
  BY <1>1, <1>2, <1>8 DEF Left
<1>10. next + Chunk <= Capacity
  BY <1>1, <1>2, <1>4, <1>8, <1>9
<1> QED BY <1>1, <1>2, <1>4, <1>6, <1>7, <1>8, <1>9, <1>10 DEF Address

\* No byte of a chunk is wrapped to the beginning of the page.
LEMMA NoWrap ==
  ASSUME TypeOK, CallInv, pc \in Writing, call.op = "program", NEW k \in 0..Chunk
  PROVE  {Wrapped(next, i) : i \in 0..(k - 1)} = {a \in Address : a >= next /\ a < next + k}
<1>1. /\ Chunk \in Nat /\ Chunk <= PageEnd(next) - next /\ next \in Address
      /\ next + Chunk <= Capacity /\ Capacity \in Nat
  BY ChunkFits, CallsAssumption
<1>2. PageEnd(next) \in Int
  BY <1>1, PageOffset, FlashAssumption DEF PageEnd, Address
<1>3. \A i \in 0..(k - 1) : Wrapped(next, i) = next + i
  BY <1>1, <1>2 DEF Wrapped, Address
<1>4. {Wrapped(next, i) : i \in 0..(k - 1)} = {next + i : i \in 0..(k - 1)}
  BY <1>3
<1>5. ASSUME NEW a \in Address, a >= next, a < next + k
      PROVE  \E i \in 0..(k - 1) : a = next + i
  <2>1. a - next \in 0..(k - 1) /\ a = next + (a - next)
    BY <1>1, <1>5 DEF Address
  <2> QED BY <2>1
<1>6. \A i \in 0..(k - 1) : next + i \in Address /\ next + i >= next /\ next + i < next + k
  BY <1>1 DEF Address
<1> QED BY <1>4, <1>5, <1>6

\* What a program command does: the first k bytes of the chunk are added to what
\* is done.
LEMMA ProgramsCells ==
  ASSUME FlashInv, pc = "command", call.op = "program", NEW k \in 0..Chunk, Programs(k)
  PROVE  /\ mem' = [a \in Address |->
                      IF a >= call.address /\ a < next + k
                      THEN Programmed(base[a], call.value) ELSE base[a]]
         /\ busy' = {a \in Address : a >= next /\ a < next + k}
         /\ wel' = FALSE
<1>1. TypeOK /\ CallInv /\ busy = {} /\ wel /\ pc \in Writing
  BY DEF FlashInv, ReadyInv, Writing
<1>2. {Wrapped(next, i) : i \in 0..(k - 1)} = {a \in Address : a >= next /\ a < next + k}
  BY <1>1, NoWrap
<1>3. /\ mem' = [a \in Address |-> IF a >= next /\ a < next + k
                                   THEN Programmed(mem[a], call.value) ELSE mem[a]]
      /\ busy' = {a \in Address : a >= next /\ a < next + k}
      /\ wel' = FALSE
  BY <1>1, <1>2 DEF Programs, Executes
<1>4. \A a \in Address : mem[a] = IF a >= call.address /\ a < next
                                  THEN Programmed(base[a], call.value) ELSE base[a]
  <2>1. Done = {a \in Address : a >= call.address /\ a < next}
    BY <1>1, ChunkFits DEF Done, Address
  <2> QED BY <1>1, <2>1 DEF FlashInv, ContentInv, Flash!After, Flash!Programmed, Programmed
<1>5. next \in Nat /\ call.address \in Nat /\ next >= call.address /\ k \in Nat
  BY <1>1, ChunkFits DEF CallInv, Address
<1>6. ASSUME NEW a \in Address
      PROVE  (IF a >= next /\ a < next + k THEN Programmed(mem[a], call.value) ELSE mem[a])
             = IF a >= call.address /\ a < next + k
               THEN Programmed(base[a], call.value) ELSE base[a]
  <2>1. a \in Nat
    BY CallsAssumption DEF Address
  <2>2. CASE a >= next /\ a < next + k
    BY <1>4, <1>5, <2>1, <2>2
  <2>3. CASE a < next
    BY <1>4, <1>5, <2>1, <2>3
  <2>4. CASE a >= next + k
    BY <1>4, <1>5, <2>1, <2>4
  <2> QED BY <1>5, <2>1, <2>2, <2>3, <2>4
<1> QED BY <1>3, <1>6

\* What an erase command does.
LEMMA ErasesCells ==
  ASSUME FlashInv, pc = "command", call.op # "program", Erases
  PROVE  /\ mem' = [a \in Address |-> IF a \in Flash!Target(call) THEN Erased ELSE base[a]]
         /\ busy' = Flash!Target(call)
         /\ wel' = FALSE
<1>1. TypeOK /\ CallInv /\ busy = {} /\ wel /\ call \in Call
  BY DEF FlashInv, ReadyInv, CallInv, Working, Writing
<1>2. call.op \in {"erase", "chip"}
  BY <1>1, CallFields DEF CallInv, Writing
<1>3. (IF call.op = "chip" THEN Address ELSE Sector) = Flash!Target(call)
  BY <1>2 DEF Sector, Flash!Target, Flash!Address, Address
<1>4. mem = base
  BY <1>1, <1>2 DEF FlashInv, ContentInv, Done, Writing, TypeOK
<1> QED BY <1>1, <1>3, <1>4 DEF Erases, Executes

-----------------------------------------------------------------------------
(* Types *)

\* The driver and the chip stay well typed for all sizes and timeouts.
LEMMA TypeStep == TypeOK /\ CallInv /\ [Next]_vars => TypeOK'
<1> SUFFICES ASSUME TypeOK, CallInv, [Next]_vars PROVE TypeOK'
  OBVIOUS
<1> USE DEF TypeOK
<1>n. Capacity \in Nat /\ 0 \in 0..Capacity /\ Polls \in Nat /\ 0 \in 0..Polls
  BY CallsAssumption, FlashAssumption
<1>e. Erased \in Cell /\ NoCall \in Call \cup {NoCall}
  BY DEF Cell
<1>1. CASE SpiFlashInit \/ Begin \/ UNCHANGED vars
  BY <1>1 DEF SpiFlashInit, Begin, vars, chip, driver, Working
<1>2. CASE Refused \/ NothingToDo \/ ReadData \/ WaitTimesOut \/ WaitReady \/ Written
           \/ TransferFails \/ Reset \/ SpiFlashDeinit
  BY <1>2, <1>n DEF Refused, NothingToDo, ReadData, WaitTimesOut, WaitReady, Written,
     TransferFails, Reset, SpiFlashDeinit, Return, Off, chip
<1>3. CASE WriteCall
  <2>1. call.address \in 0..Capacity
    BY <1>3, CallFields DEF WriteCall, CallInv, Working
  <2> QED BY <1>3, <1>n, <2>1 DEF WriteCall, StartsWait, chip, Working, Waiting
<1>4. CASE StillBusy
  BY <1>4, <1>n DEF StillBusy, chip
<1>5. CASE ReadyToWrite \/ WriteEnable
  BY <1>5 DEF ReadyToWrite, WriteEnable, chip, Working, Writing
<1>6. CASE NextChunk
  <2>1. next' \in 0..Capacity
    BY <1>6, ChunkFits, <1>n, CallsAssumption DEF NextChunk, Writing, Address
  <2> QED BY <1>6, <2>1 DEF NextChunk, chip, Working, Writing
<1>p. ASSUME pc = "command", call.op = "program", NEW k \in 0..Chunk, Programs(k)
      PROVE  mem' \in [Address -> Cell] /\ busy' \in SUBSET Address /\ wel' \in BOOLEAN
  <2>1. pc \in Writing
    BY <1>p DEF Writing
  <2>2. {Wrapped(next, i) : i \in 0..(k - 1)} \in SUBSET Address
    BY <2>1, <1>p, NoWrap
  <2>3. call.value \in Value
    BY <2>1, <1>p, ChunkFits
  <2>4. [a \in Address |-> Programmed(mem[a], call.value)] \in [Address -> Cell]
    BY <2>3, ProgrammedCell
  <2> QED BY <2>2, <2>4, <1>p, ExecutesType DEF Programs
<1>q. ASSUME Erases
      PROVE  mem' \in [Address -> Cell] /\ busy' \in SUBSET Address /\ wel' \in BOOLEAN
  <2>1. (IF call.op = "chip" THEN Address ELSE Sector) \in SUBSET Address
    BY DEF Sector
  <2>2. [a \in Address |-> Erased] \in [Address -> Cell]
    BY <1>e
  <2> QED BY <2>1, <2>2, <1>q, ExecutesType DEF Erases
<1>7. CASE Command
  <2>1. mem' \in [Address -> Cell] /\ busy' \in SUBSET Address /\ wel' \in BOOLEAN
    <3>1. CASE call.op = "program"
      <4>1. Chunk \in 0..Chunk
        BY <1>7, <3>1, ChunkFits DEF Command, Writing
      <4> QED BY <1>7, <3>1, <4>1, <1>p DEF Command
    <3>2. CASE call.op # "program"
      BY <1>7, <3>2, <1>q DEF Command
    <3> QED BY <3>1, <3>2
  <2> QED BY <1>7, <1>n, <2>1 DEF Command, StartsWait, Working, Writing
<1>8. CASE EnableFails
  BY <1>8, <1>n DEF EnableFails, Return
<1>9. CASE CommandFails
  <2>1. mem' \in [Address -> Cell] /\ busy' \in SUBSET Address /\ wel' \in BOOLEAN
    <3>1. CASE UNCHANGED chip
      BY <3>1 DEF chip
    <3>2. CASE call.op = "program" /\ \E k \in 1..Chunk : Programs(k)
      <4>1. PICK k \in 1..Chunk : Programs(k)
        BY <3>2
      <4>2. k \in 0..Chunk
        BY <4>1, <3>2, <1>9, ChunkFits DEF CommandFails, Writing
      <4> QED BY <1>9, <3>2, <4>1, <4>2, <1>p DEF CommandFails
    <3>3. CASE Erases
      BY <3>3, <1>q
    <3> QED BY <1>9, <3>1, <3>2, <3>3 DEF CommandFails
  <2> QED BY <1>9, <1>n, <2>1 DEF CommandFails, Return
<1>10. CASE ChipDone
  BY <1>10 DEF ChipDone, driver
<1>11. CASE PowerLoss
  BY <1>11, <1>n DEF PowerLoss, Off
<1> QED BY <1>1, <1>2, <1>3, <1>4, <1>5, <1>6, <1>7, <1>8, <1>9, <1>10, <1>11
        DEF Next, Step, Fault

-----------------------------------------------------------------------------
(* The invariant is preserved *)

\* A call that ends leaves no write in progress.
LEMMA ReturnsInv ==
  ASSUME TypeOK', pc' \in {"off", "idle"}, base' = mem'
  PROVE  FlashInv'
BY DEF FlashInv, CallInv, ReadyInv, ContentInv, BusyInv, Working, Waiting, Writing

\* Every step keeps the invariant.
LEMMA InvStep == FlashInv /\ [Next]_vars => FlashInv'
<1> SUFFICES ASSUME FlashInv, [Next]_vars PROVE FlashInv'
  OBVIOUS
<1>t. TypeOK /\ CallInv /\ TypeOK'
  BY TypeStep DEF FlashInv
<1>i. ReadyInv /\ ContentInv /\ BusyInv
  BY DEF FlashInv
<1>1. CASE UNCHANGED vars
  BY <1>1 DEF FlashInv, TypeOK, CallInv, ReadyInv, ContentInv, BusyInv, Done, Chunk, Left,
     PageRemaining, RangeValid, NoBytes, vars, chip, driver
<1>2. CASE SpiFlashInit
  BY <1>2, <1>t, <1>i, ReturnsInv DEF SpiFlashInit, chip, ContentInv, Writing
<1>3. CASE Begin
  <2>1. CallInv'
    BY <1>3 DEF Begin, CallInv, Writing
  <2>2. ReadyInv' /\ ContentInv' /\ BusyInv'
    BY <1>3, <1>i DEF Begin, ReadyInv, ContentInv, BusyInv, chip, Writing
  <2> QED BY <1>t, <2>1, <2>2 DEF FlashInv
<1>4. CASE Refused \/ NothingToDo \/ ReadData \/ WaitTimesOut \/ WaitReady \/ Written
           \/ TransferFails \/ EnableFails \/ CommandFails
  BY <1>4, <1>t, ReturnsInv DEF Refused, NothingToDo, ReadData, WaitTimesOut, WaitReady,
     Written, TransferFails, EnableFails, CommandFails, Return
<1>5. CASE WriteCall
  <2>1. CallInv'
    BY <1>5, <1>t DEF WriteCall, CallInv, StartsWait, Working, Writing, RangeValid, NoBytes
  <2>2. ReadyInv' /\ ContentInv' /\ BusyInv'
    BY <1>5, <1>i DEF WriteCall, StartsWait, ReadyInv, ContentInv, BusyInv, chip, Writing
  <2> QED BY <1>t, <2>1, <2>2 DEF FlashInv
<1>6. CASE StillBusy
  <2>1. CallInv'
    BY <1>6, <1>t DEF StillBusy, CallInv, RangeValid, NoBytes
  <2>2. ReadyInv' /\ ContentInv' /\ BusyInv'
    BY <1>6, <1>i DEF StillBusy, ReadyInv, ContentInv, BusyInv, chip, Done, Chunk, Left,
       PageRemaining
  <2> QED BY <1>t, <2>1, <2>2 DEF FlashInv
<1>7. CASE ReadyToWrite
  <2>1. /\ call \in Call /\ RangeValid(call) /\ ~NoBytes /\ call.op \notin {"read", "wait"}
        /\ next = call.address
    BY <1>7, <1>t DEF ReadyToWrite, CallInv, Working, Waiting
  <2>2. call.op = "program" => call.size > 0 /\ call.size \in Nat /\ call.address \in Nat
    BY <2>1, CallFields, CallsAssumption DEF NoBytes
  <2>3. CallInv'
    BY <1>7, <2>1, <2>2
       DEF ReadyToWrite, CallInv, RangeValid, NoBytes, Working, Waiting, Writing
  <2>4. ReadyInv' /\ BusyInv' /\ mem' = base' /\ mem' \in [Address -> Cell]
    BY <1>7, <1>i, <1>t DEF ReadyToWrite, ReadyInv, ContentInv, BusyInv, Writing, chip, TypeOK
  <2>5. Done' = {}
    <3>1. \A a \in Address : ~(a >= call.address /\ a < call.address + 0)
                              \/ call.op # "program"
      BY <2>2, CallsAssumption DEF Address
    <3> QED BY <1>7, <2>1, <3>1 DEF ReadyToWrite, Done
  <2>6. ContentInv'
    BY <2>4, <2>5 DEF ContentInv
  <2> QED BY <1>t, <2>3, <2>4, <2>6 DEF FlashInv
<1>8. CASE WriteEnable
  <2>1. CallInv'
    BY <1>8, <1>t DEF WriteEnable, CallInv, RangeValid, NoBytes, Working, Writing
  <2>2. Done' = Done
    BY <1>8 DEF WriteEnable, Done
  <2>3. ReadyInv' /\ ContentInv' /\ BusyInv'
    BY <1>8, <1>i, <2>2 DEF WriteEnable, ReadyInv, ContentInv, BusyInv, Writing
  <2> QED BY <1>t, <2>1, <2>3 DEF FlashInv
<1>9. CASE Command
  <2>1. pc = "command" /\ pc' = "poll" /\ UNCHANGED <<call, next, base>>
    BY <1>9 DEF Command, StartsWait
  <2>2. CallInv' /\ ReadyInv'
    BY <2>1, <1>t DEF CallInv, ReadyInv, RangeValid, NoBytes, Working, Writing
  <2>3. CASE call.op = "program"
    <3>1. /\ Chunk \in Nat /\ Chunk \in 0..Chunk /\ next \in Address
          /\ next + Chunk <= call.address + call.size /\ next >= call.address
          /\ call.address \in Nat
      BY <2>1, <2>3, <1>t, ChunkFits DEF Writing, CallInv
    <3>2. /\ mem' = [a \in Address |->
                       IF a >= call.address /\ a < next + Chunk
                       THEN Programmed(base[a], call.value) ELSE base[a]]
          /\ busy' = {a \in Address : a >= next /\ a < next + Chunk}
      BY <1>9, <2>3, <3>1, ProgramsCells DEF Command
    <3>3. Chunk' = Chunk
      BY <2>1 DEF Chunk, Left, PageRemaining
    <3>4. Done' = {a \in Address : a >= call.address /\ a < next + Chunk}
      BY <2>1, <2>3, <3>3 DEF Done
    <3>5. ContentInv'
      BY <2>1, <2>3, <3>2, <3>4
         DEF ContentInv, Writing, Flash!After, Flash!Programmed, Programmed
    <3>6. BusyInv'
      <4>1. \A a \in Address : a >= next /\ a < next + Chunk =>
              a >= call.address /\ a < call.address + call.size
        <5>1. call.size \in Nat
          BY <2>1, <1>t, CallFields, CallsAssumption DEF CallInv, Working, Writing
        <5> QED BY <3>1, <5>1, CallsAssumption DEF Address
      <4> QED BY <2>1, <2>3, <3>2, <4>1 DEF BusyInv, Flash!Target, Flash!Address, Address
    <3> QED BY <1>t, <2>2, <3>5, <3>6 DEF FlashInv
  <2>4. CASE call.op # "program"
    <3>1. /\ mem' = [a \in Address |-> IF a \in Flash!Target(call) THEN Erased ELSE base[a]]
          /\ busy' = Flash!Target(call)
      BY <1>9, <2>4, ErasesCells DEF Command
    <3>2. Done' = Flash!Target(call)
      BY <2>1, <2>4 DEF Done
    <3>3. ContentInv' /\ BusyInv'
      BY <2>1, <2>4, <3>1, <3>2 DEF ContentInv, BusyInv, Writing, Flash!After
    <3> QED BY <1>t, <2>2, <3>3 DEF FlashInv
  <2> QED BY <2>3, <2>4
<1>10. CASE NextChunk
  <2>1. /\ pc = "poll" /\ pc' = "enable" /\ busy = {} /\ call.op = "program"
        /\ next' = next + Chunk /\ Chunk < Left /\ UNCHANGED <<chip, call, base>>
    BY <1>10 DEF NextChunk
  <2>2. /\ Chunk \in Nat /\ next \in Nat /\ call.address \in Nat
        /\ next >= call.address /\ call.size \in Nat
    BY <2>1, <1>t, ChunkFits, CallFields, CallsAssumption
       DEF Writing, Working, CallInv, Address
  <2>3. next' >= call.address /\ next' < call.address + call.size
    BY <2>1, <2>2 DEF Left
  <2>4. CallInv'
    BY <2>1, <2>3, <1>t DEF CallInv, RangeValid, NoBytes, Working, Writing
  <2>5. Done' = Done
    BY <2>1, <2>2, CallsAssumption DEF Done, Address
  <2>6. ReadyInv' /\ ContentInv' /\ BusyInv'
    BY <2>1, <2>5, <1>i DEF ReadyInv, ContentInv, BusyInv, Writing, chip
  <2> QED BY <1>t, <2>4, <2>6 DEF FlashInv
<1>11. CASE ChipDone
  <2>1. UNCHANGED <<mem, wel, pc, call, next, base>> /\ busy' = {}
    BY <1>11 DEF ChipDone, driver
  <2>2. Done' = Done
    BY <2>1 DEF Done, Chunk, Left, PageRemaining
  <2>3. CallInv' /\ ReadyInv' /\ ContentInv' /\ BusyInv'
    BY <2>1, <2>2, <1>i, <1>t
       DEF CallInv, ReadyInv, ContentInv, BusyInv, RangeValid, NoBytes
  <2> QED BY <1>t, <2>3 DEF FlashInv
<1>12. CASE SpiFlashDeinit \/ Reset \/ PowerLoss
  BY <1>12, <1>t, ReturnsInv DEF SpiFlashDeinit, Reset, PowerLoss, Off
<1> QED BY <1>1, <1>2, <1>3, <1>4, <1>5, <1>6, <1>7, <1>8, <1>9, <1>10, <1>11, <1>12
        DEF Next, Step, Fault

\* Before the first call the chip holds what it holds.
LEMMA InvInit == Init => FlashInv
<1> SUFFICES ASSUME Init PROVE FlashInv
  OBVIOUS
<1>1. TypeOK
  <2>1. mem \in [Address -> Cell] /\ base = mem
    BY DEF Init, Cell
  <2>2. 0 \in 0..Capacity /\ 0 \in 0..Polls
    BY CallsAssumption, FlashAssumption
  <2> QED BY <2>1, <2>2 DEF Init, TypeOK
<1> QED BY <1>1 DEF Init, FlashInv, CallInv, ReadyInv, ContentInv, BusyInv, Working,
        Waiting, Writing

\* The invariant holds in every behaviour.
LEMMA InvHolds == Spec => []FlashInv
<1>1. Init => FlashInv
  BY InvInit
<1>2. FlashInv /\ [Next]_vars => FlashInv'
  BY InvStep
<1> QED BY <1>1, <1>2, PTL DEF Spec

\* The driver and the chip are well typed, for all sizes and timeouts.
THEOREM TypeCorrect == Spec => []TypeOK
<1>1. FlashInv => TypeOK
  BY DEF FlashInv
<1> QED BY <1>1, InvHolds, PTL

-----------------------------------------------------------------------------
(* The driver implements NorFlash *)

\* What the refinement mapping makes of the state.
Unsure == IF pc \in Writing THEN {} ELSE busy
Status == IF pc \in Working THEN "busy" ELSE IF pc = "off" THEN "off" ELSE result

\* A content that a part of the call leaves.
Part(new) ==
  \A a \in Address :
    new[a] = base[a] \/ (a \in Flash!Target(call) /\ new[a] = Flash!After(call, base[a]))

\* At any time, a part of the call is done.
LEMMA PartDone ==
  ASSUME FlashInv, pc \in Writing
  PROVE  /\ mem \in [Address -> Cell]
         /\ Part(mem)
         /\ busy \subseteq Flash!Target(call)
<1>1. TypeOK /\ CallInv /\ ReadyInv /\ ContentInv /\ BusyInv
  BY DEF FlashInv
<1>2. mem \in [Address -> Cell]
  BY <1>1 DEF TypeOK
<1>3. busy \subseteq Flash!Target(call)
  BY <1>1 DEF ReadyInv, BusyInv, Writing
<1>4. Done \subseteq Flash!Target(call)
  <2>1. CASE call.op = "program"
    <3>1. /\ Chunk \in Nat /\ next \in Nat /\ next + Chunk <= call.address + call.size
          /\ call.address \in Nat /\ call.size \in Nat
      BY <1>1, <2>1, ChunkFits, CallFields, CallsAssumption
         DEF Address, CallInv, Working, Writing
    <3>2. \A a \in Address : a < next + (IF pc = "poll" THEN Chunk ELSE 0) =>
                              a < call.address + call.size
      BY <3>1, CallsAssumption DEF Address
    <3> QED BY <2>1, <3>2 DEF Done, Flash!Target, Flash!Address, Address
  <2>2. CASE call.op # "program"
    BY <2>2 DEF Done
  <2> QED BY <2>1, <2>2
<1>5. \A a \in Address : mem[a] = IF a \in Done THEN Flash!After(call, base[a]) ELSE base[a]
  BY <1>1 DEF ContentInv
<1> QED BY <1>2, <1>3, <1>4, <1>5 DEF Part

\* A call that is given up fails in the sense of NorFlash, whatever part of it
\* is done.
LEMMA CommandPart ==
  ASSUME FlashInv, CommandFails
  PROVE  /\ mem' \in [Address -> Cell]
         /\ Part(mem')
         /\ busy' \subseteq Flash!Target(call)
<1>1. TypeOK /\ CallInv /\ pc = "command" /\ TypeOK'
  <2>1. [Next]_vars
    BY DEF Next, Fault
  <2> QED BY <2>1, TypeStep DEF FlashInv, CommandFails
<1>2. mem' \in [Address -> Cell]
  BY <1>1 DEF TypeOK
<1>3. CASE UNCHANGED chip
  BY <1>1, <1>3, PartDone DEF Writing, chip
<1>4. CASE call.op = "program" /\ \E k \in 1..Chunk : Programs(k)
  <2>1. PICK k \in 1..Chunk : Programs(k)
    BY <1>4
  <2>2. /\ Chunk \in Nat /\ next \in Nat /\ next + Chunk <= call.address + call.size
        /\ next >= call.address /\ call.address \in Nat /\ call.size \in Nat
    BY <1>1, <1>4, ChunkFits, CallFields, CallsAssumption
       DEF Address, CallInv, Working, Writing
  <2>3. k \in 0..Chunk
    BY <2>1, <2>2
  <2>4. /\ mem' = [a \in Address |->
                     IF a >= call.address /\ a < next + k
                     THEN Programmed(base[a], call.value) ELSE base[a]]
        /\ busy' = {a \in Address : a >= next /\ a < next + k}
    BY <1>1, <1>4, <2>1, <2>3, ProgramsCells
  <2>5. \A a \in Address : a < next + k => a < call.address + call.size
    BY <2>1, <2>2, CallsAssumption DEF Address
  <2>6. \A a \in Address : a >= next => a >= call.address
    BY <2>2, CallsAssumption DEF Address
  <2>7. \A a \in Address : a >= call.address /\ a < next + k => a \in Flash!Target(call)
    BY <1>4, <2>5 DEF Flash!Target, Flash!Address, Address
  <2> QED BY <1>2, <1>4, <2>4, <2>6, <2>7 DEF Part, Flash!After, Flash!Programmed, Programmed
<1>5. CASE call.op # "program" /\ Erases
  BY <1>1, <1>2, <1>5, ErasesCells DEF Part, Flash!After
<1> QED BY <1>3, <1>4, <1>5 DEF CommandFails

\* A step that keeps its place among the commands is not visible.
LEMMA Hidden ==
  ASSUME pc \in Writing, pc' \in Writing, UNCHANGED <<call, base>>
  PROVE  UNCHANGED <<base, Unsure, call, Status>>
BY DEF Unsure, Status, Writing, Working

\* A call that is given up, as NorFlash sees it.
LEMMA GivenUp ==
  ASSUME FlashInv, pc \in Working, Flash!Accepted(call), pc' = "idle", result' = "error",
         call' = NoCall, base' = mem',
         mem' \in [Address -> Cell],
         Part(mem'),
         busy' \subseteq Unsure \cup Flash!Target(call)
  PROVE  Flash!Fails
BY DEF Part, Flash!Fails, Flash!Returns, Flash!Partly, Unsure, Working, Writing, Waiting,
   Flash!NoCall, NoCall, Flash!Address, Address, Flash!Cell, Cell

\* Every step of driver or chip is a step of NorFlash, or is not visible.
LEMMA FlashStep ==
  ASSUME FlashInv, FlashInv', [Next]_vars
  PROVE  [Flash!Next]_<<base, Unsure, call, Status>>
<1>t. TypeOK /\ CallInv /\ ReadyInv /\ ContentInv /\ BusyInv
  BY DEF FlashInv
<1>a. pc \in {"wait", "enable", "command", "poll"} => Flash!Accepted(call)
  BY <1>t, SameCalls DEF CallInv, Working, Waiting, Writing
<1>c. pc = "checks" => call \in Call /\ (RangeValid(call) <=> Flash!Accepted(call))
  BY <1>t, SameCalls DEF CallInv, Working
<1>1. CASE UNCHANGED vars
  BY <1>1 DEF vars, chip, driver, Unsure, Status
<1>2. CASE SpiFlashInit
  <2>1. Flash!Starts
    BY <1>2 DEF SpiFlashInit, Flash!Starts, chip, Working, Waiting, Writing
  <2> QED BY <2>1 DEF Flash!Next
<1>3. CASE Begin
  <2>1. Flash!Calls
    BY <1>3, <1>t DEF Begin, Flash!Calls, Flash!Call, Call, chip, Working, Waiting, Writing,
       TypeOK
  <2> QED BY <2>1 DEF Flash!Next
<1>4. CASE Refused
  <2>1. Flash!Refuses
    BY <1>4, <1>c, <1>t DEF Refused, Return, Flash!Refuses, Flash!Returns, Flash!NoCall, NoCall,
       chip, Working, Waiting, Writing, ContentInv
  <2> QED BY <2>1 DEF Flash!Next
<1>5. CASE NothingToDo
  <2>1. Flash!ReturnsAtOnce
    BY <1>5, <1>c, <1>t DEF NothingToDo, NoBytes, Return, Flash!ReturnsAtOnce, Flash!Returns,
       Flash!NoCall, NoCall, chip, Working, Waiting, Writing, ContentInv
  <2> QED BY <2>1 DEF Flash!Next
<1>6. CASE ReadData
  <2>1. Flash!ReturnsRead
    BY <1>6, <1>c, <1>t DEF ReadData, Return, Flash!ReturnsRead, Flash!Returns,
       Flash!NoCall, NoCall, chip, Working, Waiting, Writing, ContentInv
  <2> QED BY <2>1 DEF Flash!Next
<1>7. CASE WriteCall \/ ReadyToWrite
  BY <1>7 DEF WriteCall, ReadyToWrite, StartsWait, chip, Unsure, Status, Working, Waiting,
     Writing
<1>8. CASE StillBusy
  BY <1>8 DEF StillBusy, chip, Unsure, Status
<1>9. CASE WriteEnable \/ Command \/ NextChunk
  <2>1. pc \in Writing /\ pc' \in Writing /\ UNCHANGED <<call, base>>
    BY <1>9 DEF WriteEnable, Command, NextChunk, StartsWait, Writing
  <2> QED BY <2>1, Hidden
<1>10. CASE WaitTimesOut \/ TransferFails \/ EnableFails
  <2>1. /\ pc \in Working /\ Flash!Accepted(call)
    BY <1>10, <1>a, <1>c DEF WaitTimesOut, TransferFails, EnableFails, Waiting, Working, Writing
  <2>2. /\ pc' = "idle" /\ result' = "error" /\ call' = NoCall /\ base' = mem'
        /\ UNCHANGED <<mem, busy>>
    BY <1>10 DEF WaitTimesOut, TransferFails, EnableFails, Return, chip
  <2>3. CASE pc \in Writing
    <3>1. /\ mem' \in [Address -> Cell] /\ busy' \subseteq Unsure \cup Flash!Target(call)
          /\ Part(mem')
      BY <2>2, <2>3, PartDone
    <3> QED BY <2>1, <2>2, <3>1, GivenUp DEF Part, Flash!Next
  <2>4. CASE pc \notin Writing
    <3>1. mem' \in [Address -> Cell] /\ mem' = base /\ busy' = Unsure
      BY <1>t, <2>2, <2>4 DEF TypeOK, ContentInv, Unsure
    <3> QED BY <2>1, <2>2, <3>1, GivenUp DEF Part, Flash!Next
  <2> QED BY <2>3, <2>4
<1>11. CASE CommandFails
  <2>1. /\ pc \in Working /\ Flash!Accepted(call) /\ pc' = "idle" /\ result' = "error"
        /\ call' = NoCall /\ base' = mem'
    BY <1>11, <1>a DEF CommandFails, Return, Working, Writing
  <2> QED BY <1>11, <2>1, CommandPart, GivenUp DEF Flash!Next
<1>12. CASE WaitReady
  <2>1. Flash!Target(call) = {}
    BY <1>12 DEF WaitReady, Flash!Target
  <2>2. mem \in [Address -> Cell] /\ mem = base
    BY <1>12, <1>t DEF WaitReady, TypeOK, ContentInv, Writing
  <2>3. Flash!ReturnsDone
    BY <1>12, <1>a, <2>1, <2>2 DEF WaitReady, Return, Flash!ReturnsDone, Flash!Returns,
       Flash!NoCall, NoCall, chip, Working, Waiting, Writing, Flash!Address, Address
  <2> QED BY <2>3 DEF Flash!Next
<1>13. CASE Written
  <2>1. Done = Flash!Target(call)
    <3>1. CASE call.op = "program"
      <4>1. /\ Chunk \in Nat /\ next \in Nat /\ call.address \in Nat /\ call.size \in Nat
            /\ Chunk = Left
        BY <1>13, <1>t, <3>1, ChunkFits, CallFields, CallsAssumption
           DEF Written, Address, CallInv, Working, Writing
      <4>2. next + Chunk = call.address + call.size
        BY <4>1 DEF Left
      <4> QED BY <1>13, <3>1, <4>2 DEF Written, Done, Flash!Target, Flash!Address, Address
    <3>2. CASE call.op # "program"
      BY <1>13, <3>2 DEF Written, Done
    <3> QED BY <3>1, <3>2
  <2>2. mem = [a \in Address |-> IF a \in Flash!Target(call)
                                 THEN Flash!After(call, base[a]) ELSE base[a]]
    BY <1>13, <1>t, <2>1 DEF Written, ContentInv, Writing
  <2>3. call.op # "read" /\ Flash!Accepted(call)
    BY <1>13, <1>a, <1>t DEF Written, CallInv
  <2>4. Flash!ReturnsDone
    BY <1>13, <2>2, <2>3 DEF Written, Return, Flash!ReturnsDone, Flash!Returns,
       Flash!NoCall, NoCall, chip, Working, Waiting, Writing, Flash!Address, Address
  <2> QED BY <2>4 DEF Flash!Next
<1>14. CASE ChipDone
  <2>1. Flash!Settles
    BY <1>14 DEF ChipDone, Flash!Settles, driver
  <2> QED BY <2>1 DEF Flash!Next
<1>15. CASE SpiFlashDeinit \/ Reset
  <2>1. /\ pc # "off" /\ pc' = "off" /\ call' = NoCall /\ base' = mem /\ busy' = busy
        /\ mem \in [Address -> Cell]
    BY <1>15, <1>t DEF SpiFlashDeinit, Reset, Off, chip, TypeOK
  <2>2. CASE pc \in Writing
    <3>1. Flash!Accepted(call)
      BY <1>a, <2>2 DEF Writing
    <3>2. Flash!Partly
      BY <2>1, <2>2, PartDone DEF Part, Flash!Partly, Flash!Address, Address, Flash!Cell, Cell,
         Writing
    <3>3. Flash!Reset
      BY <2>1, <2>2, <3>1, <3>2 DEF Flash!Reset, Flash!NoCall, NoCall, Working, Waiting, Writing
    <3> QED BY <3>3 DEF Flash!Next
  <2>3. CASE pc \notin Writing
    <3>1. base' = base
      BY <1>t, <2>1, <2>3 DEF ContentInv
    <3>2. Flash!Partly
      BY <2>1, <2>3, <3>1 DEF Flash!Partly, Flash!Address, Address, Flash!Cell, Cell, Writing
    <3>3. Flash!Reset
      BY <2>1, <2>3, <3>1, <3>2, <1>t
         DEF Flash!Reset, Flash!NoCall, NoCall, Working, Waiting, Writing, TypeOK
    <3> QED BY <3>3 DEF Flash!Next
  <2> QED BY <2>2, <2>3
<1>16. CASE PowerLoss
  <2>1. /\ pc' = "off" /\ call' = NoCall /\ base' = mem' /\ busy' = {}
        /\ mem' \in [Address -> Cell] /\ \A a \in Address \ busy : mem'[a] = mem[a]
    BY <1>16 DEF PowerLoss, Off
  <2>2. \A a \in Address :
          \/ a \in Unsure
          \/ mem'[a] = base[a]
          \/ pc \in Writing /\ a \in Flash!Target(call)
    <3>1. CASE pc \in Writing
      BY <2>1, <3>1, PartDone DEF Part
    <3>2. CASE pc \notin Writing
      BY <1>t, <2>1, <3>2 DEF ContentInv, Unsure
    <3> QED BY <3>1, <3>2
  <2>3. pc \in Writing => Flash!Accepted(call) /\ pc \in Working
    BY <1>a DEF Writing, Working
  <2>4. Flash!PowerLoss
    BY <2>1, <2>2, <2>3 DEF Flash!PowerLoss, Flash!NoCall, NoCall, Unsure, Working, Waiting,
       Writing, Flash!Address, Address, Flash!Cell, Cell
  <2> QED BY <2>4 DEF Flash!Next
<1> QED BY <1>1, <1>2, <1>3, <1>4, <1>5, <1>6, <1>7, <1>8, <1>9, <1>10, <1>11, <1>12,
        <1>13, <1>14, <1>15, <1>16 DEF Next, Step, Fault

\* The driver keeps the promises of NorFlash, for every chip and timeout.
THEOREM FlashRefinement == Spec => ImplementsFlash
<1>1. Init => Flash!Init
  BY DEF Init, Flash!Init, Flash!Address, Address, Flash!NoCall, NoCall, Working, Waiting,
     Writing
<1>2. FlashInv /\ FlashInv' /\ [Next]_vars => [Flash!Next]_<<base, Unsure, call, Status>>
  BY FlashStep
<1> QED BY <1>1, <1>2, InvHolds, PTL DEF Spec, ImplementsFlash, Flash!Spec, Unsure, Status
-----------------------------------------------------------------------------
(***************************************************************************)
(* A call comes to an end: what CallsReturn owes to the driver and not to  *)
(* fairness.                                                               *)
(***************************************************************************)

\* A turn of the loop of spi_flash_program, or an erase: the two commands, and
\* the polls up to the timeout.
TurnSteps == Polls + 3

AllTurns == IF call.op = "program" THEN call.size ELSE 1
TurnsLeft == IF call.op = "program" THEN Left ELSE 1

UnderWay == pc \in Working

\* A bound on the steps that are left of a call.
CallSteps ==
  CASE pc = "checks" -> AllTurns * TurnSteps + Polls + 2
    [] pc = "wait" -> AllTurns * TurnSteps + polls + 1
    [] pc = "enable" -> TurnsLeft * TurnSteps
    [] pc = "command" -> TurnsLeft * TurnSteps - 1
    [] pc = "poll" -> (TurnsLeft - 1) * TurnSteps + polls + 1
    [] OTHER -> 0

LEMMA Turn == TurnSteps \in Nat /\ TurnSteps = Polls + 3 /\ Polls \in Nat /\ TurnSteps >= 3
BY FlashAssumption DEF TurnSteps

LEMMA FewerTurns ==
  ASSUME NEW m \in Nat, NEW n \in Nat, m < n, NEW p \in Nat
  PROVE  m * p \in Nat /\ n * p \in Nat /\ m * p + p <= n * p
<1>1. m * p \in Nat /\ n * p \in Nat /\ (n - m - 1) * p \in Nat
  OBVIOUS
<1>2. n * p = m * p + p + (n - m - 1) * p
  OBVIOUS
<1> QED BY <1>1, <1>2

\* There is a turn left while the call works, and never more than it has bytes.
LEMMA TurnsCount ==
  ASSUME TypeOK, CallInv
  PROVE  /\ pc \in Working => AllTurns \in 0..Capacity
         /\ pc = "wait" => AllTurns >= 1 /\ TurnsLeft = AllTurns
         /\ pc \in Writing => TurnsLeft \in 1..Capacity
<1>1. Capacity \in Nat /\ Capacity >= 1
  BY CallsAssumption
<1>2. ASSUME pc \in Working PROVE AllTurns \in 0..Capacity
  <2>1. call.size \in 0..Capacity
    BY <1>2, CallFields DEF CallInv
  <2> QED BY <1>1, <2>1 DEF AllTurns
<1>3. ASSUME pc = "wait" PROVE AllTurns >= 1 /\ TurnsLeft = AllTurns
  <2>1. /\ call.size \in 0..Capacity /\ call.address \in 0..Capacity
        /\ ~NoBytes /\ next = call.address
    BY <1>3, CallFields DEF CallInv, Working, Waiting
  <2> QED BY <1>1, <2>1 DEF AllTurns, TurnsLeft, Left, NoBytes
<1>4. ASSUME pc \in Writing PROVE TurnsLeft \in 1..Capacity
  <2>1. CASE call.op = "program"
    <3>1. /\ Chunk \in Nat /\ Chunk > 0 /\ Chunk <= Left /\ Left \in Nat
          /\ call.address + call.size <= Capacity /\ call.address \in Nat
      BY <1>4, <2>1, ChunkFits
    <3>2. next >= call.address /\ next \in Nat /\ call.size \in Nat
      <4>1. call \in Call /\ next \in 0..Capacity
        BY <1>4 DEF CallInv, TypeOK, Working
      <4> QED BY <1>1, <1>4, <2>1, <4>1, CallFields DEF CallInv
    <3> HIDE DEF Chunk
    <3> QED BY <1>1, <2>1, <3>1, <3>2 DEF TurnsLeft, Left
  <2>2. CASE call.op # "program"
    BY <1>1, <2>2 DEF TurnsLeft
  <2> QED BY <2>1, <2>2
<1> QED BY <1>2, <1>3, <1>4

LEMMA StepsBounded ==
  ASSUME TypeOK, CallInv
  PROVE  /\ CallSteps \in 0..((Capacity + 1) * TurnSteps)
         /\ pc \in Working => CallSteps >= 1
<1>1. Capacity \in Nat /\ polls \in 0..Polls
  BY CallsAssumption DEF TypeOK
<1> DEFINE p == TurnSteps
<1>2. p \in Nat /\ p = Polls + 3 /\ Polls \in Nat
  BY Turn
<1>3. ASSUME NEW n \in 0..Capacity
      PROVE  n * p \in Nat /\ n * p + p <= (Capacity + 1) * p /\ (n >= 1 => n * p >= p)
  <2>1. n \in Nat /\ Capacity + 1 \in Nat /\ n < Capacity + 1
    BY <1>1
  <2>2. n * p \in Nat /\ (Capacity + 1) * p \in Nat /\ n * p + p <= (Capacity + 1) * p
    BY <1>2, <2>1, FewerTurns
  <2>3. ASSUME n >= 1 PROVE n * p >= p
    <3>1. n - 1 \in Nat /\ n - 1 < n
      BY <2>1, <2>3
    <3>2. (n - 1) * p \in Nat /\ (n - 1) * p + p <= n * p
      BY <1>2, <2>1, <3>1, FewerTurns
    <3> HIDE DEF p
    <3> QED BY <1>2, <2>2, <3>2
  <2> QED BY <2>2, <2>3
<1>4. (Capacity + 1) * p \in Nat
  BY <1>1, <1>2
<1> HIDE DEF p
<1>5. CASE pc \in {"checks", "wait"}
  <2>1. AllTurns * p \in Nat /\ AllTurns * p + p <= (Capacity + 1) * p
    BY <1>3, <1>5, TurnsCount DEF Working, Waiting
  <2>2. CallSteps = AllTurns * p + Polls + 2 \/ CallSteps = AllTurns * p + polls + 1
    BY <1>5 DEF CallSteps, p
  <2> QED BY <1>1, <1>2, <1>4, <2>1, <2>2 DEF p
<1>6. CASE pc \in Writing
  <2>1. TurnsLeft \in 1..Capacity /\ TurnsLeft - 1 \in 0..Capacity /\ TurnsLeft \in 0..Capacity
    BY <1>1, <1>6, TurnsCount
  <2>2. /\ TurnsLeft * p \in Nat /\ TurnsLeft * p + p <= (Capacity + 1) * p
        /\ TurnsLeft * p >= p
    BY <1>3, <2>1
  <2>3. (TurnsLeft - 1) * p \in Nat /\ (TurnsLeft - 1) * p + p <= (Capacity + 1) * p
    BY <1>3, <2>1
  <2>4. \/ CallSteps = TurnsLeft * p \/ CallSteps = TurnsLeft * p - 1
        \/ CallSteps = (TurnsLeft - 1) * p + polls + 1
    BY <1>6 DEF CallSteps, Writing, p
  <2> QED BY <1>1, <1>2, <1>4, <2>2, <2>3, <2>4 DEF p
<1>7. CASE pc \notin Working
  <2>1. CallSteps = 0
    BY <1>7 DEF CallSteps, Working, Waiting, Writing
  <2> QED BY <1>4, <1>7, <2>1 DEF p
<1> QED BY <1>5, <1>6, <1>7 DEF Working, Waiting, Writing

\* Each step of the driver in a call is a step forward.
LEMMA CallForward ==
  ASSUME FlashInv, FlashInv', Step \/ Fault
  PROVE  CallSteps' < CallSteps
<1>1. TypeOK /\ CallInv /\ TypeOK' /\ CallInv'
  BY DEF FlashInv
<1> DEFINE p == TurnSteps
<1>2. p \in Nat /\ p = Polls + 3 /\ Polls \in Nat /\ p' = p
  BY Turn DEF TurnSteps
<1>3. polls \in 0..Polls /\ polls' \in 0..Polls
  BY <1>1 DEF TypeOK
<1>4. \A n \in Nat : n * p \in Nat
  BY <1>2
<1>5. CASE pc' = "idle"
  <2>1. CallSteps' = 0
    BY <1>5 DEF CallSteps
  <2>2. pc \in Working
    BY DEF Step, Fault, Refused, NothingToDo, ReadData, WriteCall, StillBusy, WaitTimesOut,
       WaitReady, ReadyToWrite, WriteEnable, Command, NextChunk, Written, TransferFails,
       EnableFails, CommandFails, Working, Waiting, Writing
  <2>3. CallSteps \in Int /\ CallSteps >= 1
    BY <1>1, <2>2, StepsBounded
  <2> QED BY <2>1, <2>3
<1>6. CASE WriteCall
  <2>1. AllTurns \in Nat
    BY <1>1, <1>6, TurnsCount, CallsAssumption DEF WriteCall, Working
  <2>2. CallSteps = AllTurns * p + Polls + 2
    BY <1>6 DEF WriteCall, CallSteps
  <2>3. CallSteps' = AllTurns * p + Polls + 1
    BY <1>6 DEF WriteCall, StartsWait, CallSteps, AllTurns, TurnSteps
  <2>4. AllTurns * p \in Nat
    BY <1>4, <2>1
  <2> HIDE DEF p
  <2> QED BY <1>2, <2>2, <2>3, <2>4
<1>7. CASE StillBusy
  <2>1. polls' = polls - 1 /\ polls >= 1 /\ pc' = pc /\ call' = call /\ next' = next
    BY <1>3, <1>7 DEF StillBusy, TimedOut
  <2>2. CASE pc = "wait"
    <3>1. AllTurns * p \in Nat
      BY <1>1, <1>4, <2>2, TurnsCount, CallsAssumption DEF Working, Waiting
    <3>2. CallSteps = AllTurns * p + polls + 1 /\ CallSteps' = AllTurns * p + polls' + 1
      BY <2>1, <2>2 DEF CallSteps, AllTurns, TurnSteps
    <3> HIDE DEF p
    <3> QED BY <1>3, <2>1, <3>1, <3>2
  <2>3. CASE pc = "poll"
    <3>1. (TurnsLeft - 1) * p \in Nat
      BY <1>1, <1>4, <2>3, TurnsCount, CallsAssumption DEF Writing
    <3>2. /\ CallSteps = (TurnsLeft - 1) * p + polls + 1
          /\ CallSteps' = (TurnsLeft - 1) * p + polls' + 1
      BY <2>1, <2>3 DEF CallSteps, TurnsLeft, Left, TurnSteps
    <3> HIDE DEF p
    <3> QED BY <1>3, <2>1, <3>1, <3>2
  <2> QED BY <1>7, <2>2, <2>3 DEF StillBusy, Waiting
<1>8. CASE ReadyToWrite
  <2>1. TurnsLeft = AllTurns /\ AllTurns * p \in Nat
    BY <1>1, <1>4, <1>8, TurnsCount, CallsAssumption DEF ReadyToWrite, Working, Waiting
  <2>2. CallSteps = AllTurns * p + polls + 1
    BY <1>8 DEF ReadyToWrite, CallSteps
  <2>3. CallSteps' = TurnsLeft * p
    BY <1>8 DEF ReadyToWrite, CallSteps, TurnsLeft, Left, TurnSteps
  <2> HIDE DEF p
  <2> QED BY <1>3, <2>1, <2>2, <2>3
<1>9. CASE WriteEnable
  <2>1. TurnsLeft * p \in Nat
    BY <1>1, <1>4, <1>9, TurnsCount, CallsAssumption DEF WriteEnable, Writing
  <2>2. CallSteps = TurnsLeft * p /\ CallSteps' = TurnsLeft * p - 1
    BY <1>9 DEF WriteEnable, CallSteps, TurnsLeft, Left, TurnSteps
  <2> HIDE DEF p
  <2> QED BY <2>1, <2>2
<1>10. CASE Command
  <2>1. TurnsLeft - 1 \in Nat /\ TurnsLeft \in Nat /\ TurnsLeft - 1 < TurnsLeft
    BY <1>1, <1>10, TurnsCount, CallsAssumption DEF Command, Writing
  <2>2. (TurnsLeft - 1) * p + p <= TurnsLeft * p /\ (TurnsLeft - 1) * p \in Nat
        /\ TurnsLeft * p \in Nat
    BY <1>2, <2>1, FewerTurns
  <2>3. CallSteps = TurnsLeft * p - 1 /\ CallSteps' = (TurnsLeft - 1) * p + Polls + 1
    BY <1>10 DEF Command, StartsWait, CallSteps, TurnsLeft, Left, TurnSteps
  <2> HIDE DEF p
  <2> QED BY <1>2, <2>2, <2>3
<1>11. CASE NextChunk
  <2>1. /\ TurnsLeft \in Nat /\ TurnsLeft >= 1 /\ TurnsLeft = Left
        /\ Chunk \in Nat /\ Chunk >= 1 /\ Chunk < Left
    BY <1>1, <1>11, TurnsCount, ChunkFits, CallsAssumption DEF NextChunk, Writing, TurnsLeft
  <2>2. call \in Call /\ next \in Nat
    BY <1>1, <1>11, CallsAssumption DEF NextChunk, CallInv, TypeOK, Working, Writing
  <2>3. TurnsLeft' = TurnsLeft - Chunk
    <3>1. TurnsLeft' = call.address + call.size - (next + Chunk)
      BY <1>11 DEF NextChunk, TurnsLeft, Left
    <3>2. call.address \in Nat /\ call.size \in Nat
      BY <2>2, CallFields, CallsAssumption
    <3> HIDE DEF Chunk
    <3> QED BY <2>1, <2>2, <3>1, <3>2 DEF Left
  <2>4. PICK m \in Nat : m = TurnsLeft - 1
    BY <2>1
  <2>5. TurnsLeft' \in Nat /\ TurnsLeft' <= m
    <3> HIDE DEF Chunk, Left, TurnsLeft
    <3> QED BY <2>1, <2>3, <2>4
  <2>6. TurnsLeft' * p <= m * p /\ TurnsLeft' * p \in Nat /\ m * p \in Nat
    <3>1. CASE TurnsLeft' = m
      BY <1>4, <2>4, <3>1, <1>2
    <3>2. CASE TurnsLeft' < m
      <4>1. TurnsLeft' * p \in Nat /\ m * p \in Nat /\ TurnsLeft' * p + p <= m * p
        BY <1>2, <2>5, <3>2, FewerTurns
      <4> HIDE DEF p
      <4> QED BY <1>2, <4>1
    <3> QED BY <2>5, <3>1, <3>2
  <2>7. CallSteps = m * p + polls + 1
    BY <1>11, <2>4 DEF NextChunk, CallSteps
  <2>8. CallSteps' = TurnsLeft' * p
    BY <1>11, <1>2 DEF NextChunk, CallSteps
  <2> HIDE DEF p, TurnsLeft
  <2> QED BY <1>3, <2>6, <2>7, <2>8
<1> QED
  BY <1>5, <1>6, <1>7, <1>8, <1>9, <1>10, <1>11
     DEF Step, Fault, Refused, NothingToDo, ReadData, WaitTimesOut, WaitReady, Written,
         TransferFails, EnableFails, CommandFails, Return

\* spi_flash_wait_ready, spi_flash_program: a call never takes more than a bounded
\* number of SPI transactions, though the chip may stay busy for ever; while it
\* is under way, nothing but the chip itself leaves the driver where it is.
THEOREM CallProgress ==
  Spec => /\ [](CallSteps \in 0..((Capacity + 1) * TurnSteps))
          /\ [][UnderWay => CallSteps' < CallSteps \/ ChipDone]_vars
<1>1. FlashInv => CallSteps \in 0..((Capacity + 1) * TurnSteps)
  BY StepsBounded DEF FlashInv
<1>2. FlashInv /\ FlashInv' /\ [Next]_vars =>
        [UnderWay => CallSteps' < CallSteps \/ ChipDone]_vars
  <2> SUFFICES ASSUME FlashInv, FlashInv', Next, pc \in Working, ~ChipDone
               PROVE  CallSteps' < CallSteps
    BY DEF UnderWay
  <2>1. CASE Step \/ Fault
    BY <2>1, CallForward
  <2>2. CASE Reset \/ PowerLoss
    <3>1. CallSteps' = 0
      BY <2>2 DEF Reset, PowerLoss, Off, CallSteps
    <3>2. CallSteps \in Int /\ CallSteps >= 1
      BY StepsBounded DEF FlashInv
    <3> QED BY <3>1, <3>2
  <2>3. ~(SpiFlashInit \/ SpiFlashDeinit \/ Begin)
    BY DEF SpiFlashInit, SpiFlashDeinit, Begin, Working, Waiting, Writing
  <2> QED BY <2>1, <2>2, <2>3 DEF Next
<1> QED BY <1>1, <1>2, InvHolds, PTL DEF Spec
=============================================================================
