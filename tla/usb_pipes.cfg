CONSTANTS
  DataPipes <- Pipes
  MaxPacket = 1
  MaxTransfer = 2
  Addresses = {1}
SPECIFICATION Spec
INVARIANTS
  InPacketsOnce
  OutPacketsOnce
  OfferedIffActive
  AddressAgreed
  HaltedTakesNothing
PROPERTIES
  InTransfersDrain
