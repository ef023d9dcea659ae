------------------------------ MODULE NorCalls ------------------------------
(***************************************************************************)
(* The calls of the SPI NOR flash driver (components/spi_flash) and what   *)
(* they are about: addresses, cells, programming.                          *)
(***************************************************************************)
EXTENDS Naturals

CONSTANTS
  Capacity,    \* config.capacity_bytes
  SectorSize,  \* config.sector_size
  Value,       \* contents that are programmed
  Erased,      \* an erased cell
  Junk         \* a cell programmed twice, or cut short by a power loss

ASSUME CallsAssumption ==
  /\ Capacity \in Nat \ {0}
  /\ SectorSize \in Nat \ {0}
  /\ Capacity % SectorSize = 0
  /\ Erased \notin Value /\ Junk \notin Value /\ Erased # Junk

Address == 0..(Capacity - 1)
Cell == Value \cup {Erased, Junk}

\* Programming changes bits only from 1 to 0.
Programmed(old, new) == IF old \in {Erased, new} THEN new ELSE Junk

Call == [op : {"read"}, address : 0..Capacity, size : 0..Capacity, value : {Erased}]
   \cup [op : {"program"}, address : 0..Capacity, size : 0..Capacity, value : Value]
   \cup [op : {"erase"}, address : 0..Capacity, size : {0}, value : {Erased}]
   \cup [op : {"chip", "wait"}, address : {0}, size : {0}, value : {Erased}]
NoCall == [op |-> "none", address |-> 0, size |-> 0, value |-> Erased]
=============================================================================
