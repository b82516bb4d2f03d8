SPECIFICATION FairSpec
CONSTANTS
  vx = vx
  vy = vy
  label = label
  button = button
  None = None
  Vars = {vx, vy}
  Widgets = {label, button}
  Reads <- MCReadsXY
  Branching = {}
  Volatile = {label}
  Polled = {label}
  Added = {button}
  MaxWrites = 2
  MaxQueue = 1
INVARIANTS
  TypeOK
  FreshUnlessRaced
PROPERTIES
  VolatileShown
CHECK_DEADLOCK FALSE
