SPECIFICATION Spec
CONSTANTS
  Capacity = 4
  SectorSize = 2
  PageSize = 2
  Polls = 1
  v1 = v1
  v2 = v2
  Value = {v1, v2}
  Erased = Erased
  Junk = Junk
PROPERTIES
  ImplementsFlash
  CallsReturn
