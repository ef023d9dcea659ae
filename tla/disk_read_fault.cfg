SPECIFICATION Spec
CONSTANTS
  BlockCount = 2
  BlockSize = 2
  Value = {x, y}
  Torn = Torn
  x = x
  y = y
  Faults = {"read"}
INVARIANTS
  CacheHoldsBlock
