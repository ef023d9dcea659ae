CONSTANTS
  KeyCount = 3
  Modifiers = {"alt"}
  Usages = {"a", "b"}
  Binding <- Bindings
  Slots = 1
  DebounceScans = 2
  ScanInterval = 1
SPECIFICATION Spec
INVARIANTS
  ScansForceChange
  ReportShowsKeys
  HostUpToDate
PROPERTIES
  ChangeNeedsScans
  HostFollows
