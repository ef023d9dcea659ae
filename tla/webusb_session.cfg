SPECIFICATION Spec
CONSTANTS
  a = a
  b = b
  Image = {a, b}
  Size <- MCSize
  Capacity = 4
  EraseSize = 2
  HeaderSize = 2
  MaxPayload = 2
  Erased = Erased
  Junk = Junk
  None = None
  Corrupt = Corrupt
  Faults = {"clear", "erase", "program", "commit", "read"}
INVARIANTS
  TypeOK
  CommittedIsInstallable
  ReceivingHidesSlot
  SentIsStored
  RebootHasPackage
PROPERTIES
  ImplementsSlot
