SPECIFICATION FairSpec
CONSTANTS
  vx = vx
  vy = vy
  label = label
  button = button
  None = None
  Vars = {vx, vy}
  Widgets = {label, button}
  Reads <- MCReadsX
  Branching = {}
  Volatile = {}
  Polled = {}
  Added = {}
  MaxWrites = 2
  MaxQueue = 2
PROPERTIES
  TriggeredShown
CHECK_DEADLOCK FALSE
