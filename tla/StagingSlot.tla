---------------------------- MODULE StagingSlot ----------------------------
(***************************************************************************)
(* What the WebUSB staging area promises to its users: it holds no package,*)
(* one complete package that passed validation, or something that the      *)
(* bootloader will reject.  A package appears only in an empty slot, all   *)
(* at once, and it never turns into another package.                       *)
(*                                                                         *)
(* OtaWebusb implements this specification (metadata sector, image sectors *)
(* and the receive session of ota_webusb.c); OtaInstall lets the host act  *)
(* on the slot only through it.                                            *)
(***************************************************************************)
CONSTANTS
  Image,    \* the valid packages: header and payload, with matching CRCs
  None,     \* no committed metadata
  Corrupt   \* metadata or package that validation rejects

VARIABLE slot

TypeOK == slot \in Image \cup {None, Corrupt}

Init == slot = None

\* A validated package becomes visible in one step, in an empty slot.
Publish == slot = None /\ slot' \in Image

\* The metadata sector has been erased.
Discard == slot' = None

\* An erase or a program of the metadata sector was cut short.
Damage == slot' = Corrupt

Next == Publish \/ Discard \/ Damage

Spec == Init /\ [][Next]_slot
=============================================================================
