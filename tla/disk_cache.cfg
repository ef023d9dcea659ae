SPECIFICATION Spec
CONSTANTS
  BlockCount = 3
  BlockSize = 2
  Value = {x, y}
  Torn = Torn
  x = x
  y = y
  Faults = {"flush", "command", "wait"}
SYMMETRY Symmetry
INVARIANTS
  TypeOK
PROPERTIES
  ImplementsDevice
  SyncIsDurable
