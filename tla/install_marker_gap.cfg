CONSTANTS
  v1 = v1
  v2 = v2
  Image <- MCImage
  BlockCount <- MCBlockCount
  MaxBlocks = 3
  None = None
  Corrupt = Corrupt
  Erased = Erased
  Torn = Torn
  Faults = {"spi"}
  MaxLosses = 2

SPECIFICATION Spec

INVARIANT
  JumpOnlyToComplete
