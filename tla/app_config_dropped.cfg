SPECIFICATION Spec
CONSTANTS
  v = v
  shown = shown
  hidden = hidden
  Image = {v}
  Config = {shown, hidden}
  Visible = {shown}
  Default = shown
  None = None
  Broken = Broken
  ConfigDelay = 1
  RebootDelay = 1
  IdleTimeout = 2
  MaxWrites = 2
  DiskFails = FALSE
INVARIANTS
  ResetKeepsConfig
