CONSTANTS
  v1 = v1
  v2 = v2
  Image <- MCImage
  BlockCount <- MCBlockCount
  MaxBlocks = 3
  None = None
  Corrupt = Corrupt
  Erased = Erased
  Torn = Torn
  Faults = {"app", "marker", "spi"}
  MaxLosses = 2

SPECIFICATION Spec

INVARIANTS
  TypeOK
  TornNeverStarts
  WindowHasPackage
  MarkerKeepsRecovery

PROPERTIES
  PackageKeptUntilInstalled
  MarkerClearedWhenVerified
  UpdateLands
  AlwaysReachesHost
  InstallsEnd
