------------------------------ MODULE NorFlash ------------------------------
(***************************************************************************)
(* What the SPI NOR flash driver promises to the staging area and to the   *)
(* update volume: a call that returns CHIP_OK has done all of its work and *)
(* nothing else; a call that fails has done a part of it, and perhaps the  *)
(* chip is still at work, in the range of the call.  Until it is done, a   *)
(* read may return anything.  SpiFlash implements it.                      *)
(***************************************************************************)
EXTENDS NorCalls

VARIABLES
  cells,   \* the content, as it is when the chip has finished its work
  unsure,  \* where the chip may still be at work
  call,    \* the call in progress, or NoCall
  status   \* "off", "busy", or what the last call returned: "ok", "error", or
           \* "wrong" for CHIP_OK with data that are not the content

\* The calls the driver accepts, and what they write.
Accepted(c) ==
  \/ c.op \in {"read", "program"} /\ c.address + c.size <= Capacity
  \/ c.op = "erase" /\ c.address < Capacity /\ c.address % SectorSize = 0
  \/ c.op \in {"chip", "wait"}

Target(c) ==
  {a \in Address :
     \/ c.op = "program" /\ a >= c.address /\ a < c.address + c.size
     \/ c.op = "erase" /\ a >= c.address /\ a < c.address + SectorSize
     \/ c.op = "chip"}

After(c, old) == IF c.op = "program" THEN Programmed(old, c.value) ELSE Erased

Init ==
  /\ cells \in [Address -> Value \cup {Erased}]
  /\ unsure = {}
  /\ call = NoCall
  /\ status = "off"

\* spi_flash_init succeeds only when the chip has finished its work.
Starts ==
  /\ status = "off" /\ unsure = {}
  /\ status' = "ok"
  /\ UNCHANGED <<cells, unsure, call>>

Calls ==
  /\ status \notin {"off", "busy"}
  /\ call' \in Call
  /\ status' = "busy"
  /\ UNCHANGED <<cells, unsure>>

Returns(result) == status = "busy" /\ status' = result /\ call' = NoCall

Refuses == Returns("error") /\ ~Accepted(call) /\ UNCHANGED <<cells, unsure>>

ReturnsRead ==
  /\ call.op = "read" /\ Accepted(call)
  /\ \/ unsure = {} /\ Returns("ok")
     \/ unsure # {} /\ Returns("wrong")
  /\ UNCHANGED <<cells, unsure>>

\* No bytes: the chip is not looked at.
ReturnsAtOnce ==
  /\ call.op \in {"read", "program"} /\ call.size = 0 /\ Accepted(call)
  /\ Returns("ok")
  /\ UNCHANGED <<cells, unsure>>

ReturnsDone ==
  /\ call.op # "read" /\ Accepted(call)
  /\ Returns("ok")
  /\ cells' = [a \in Address |->
                 IF a \in Target(call) THEN After(call, cells[a]) ELSE cells[a]]
  /\ unsure' = {}

\* A part is done: the call fails, or the processor is reset.
Partly ==
  /\ cells' \in [Address -> Cell]
  /\ \A a \in Address :
       \/ cells'[a] = cells[a]
       \/ a \in Target(call) /\ cells'[a] = After(call, cells[a])
  /\ unsure' \subseteq unsure \cup Target(call)

Fails == Accepted(call) /\ Returns("error") /\ Partly

Reset ==
  /\ status # "off"
  /\ status' = "off" /\ call' = NoCall
  /\ \/ status # "busy" /\ UNCHANGED <<cells, unsure>>
     \/ status = "busy" /\ Accepted(call) /\ Partly
     \/ status = "busy" /\ ~Accepted(call) /\ UNCHANGED <<cells, unsure>>

Settles == unsure' = {} /\ UNCHANGED <<cells, call, status>>

\* Power fails: cells the chip was at work on have any content.
PowerLoss ==
  /\ status' = "off" /\ call' = NoCall /\ unsure' = {}
  /\ cells' \in [Address -> Cell]
  /\ \A a \in Address :
       \/ a \in unsure
       \/ cells'[a] = cells[a]
       \/ status = "busy" /\ Accepted(call) /\ a \in Target(call)

Next ==
  \/ Starts \/ Calls \/ Refuses \/ ReturnsRead \/ ReturnsAtOnce \/ ReturnsDone
  \/ Fails \/ Reset \/ Settles \/ PowerLoss

Spec == Init /\ [][Next]_<<cells, unsure, call, status>>
=============================================================================
