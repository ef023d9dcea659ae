SPECIFICATION LinkSpec
CONSTANTS
  a = a
  b = b
  Image = {a, b}
  Size <- SmallSize
  Capacity = 2
  EraseSize = 1
  HeaderSize = 1
  MaxPayload = 1
  Erased = Erased
  Junk = Junk
  None = None
  Corrupt = Corrupt
  Faults = {"program"}
  RequestSize = 2
  ConfigSize = 1
  FifoSize = 3
INVARIANTS
  SuccessIsCommitted
  CommittedIsInstallable
PROPERTIES
  UploadEnds
