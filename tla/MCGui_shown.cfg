SPECIFICATION FairSpec
CONSTANTS
  Popups = {"p", "a"}
  Autoclose = {"a"}
  MaxActs = 5
  Ports = {"A", "B", "C"}
  Output = "A"
  Targets = {"A", "B"}
  MaxMoves = 5
  Wins = {"t", "u", "v", "w"}
  Hidden = {"w"}
  Ticks = 2
  MaxPresses = 4
INVARIANTS
  TypeOK
PROPERTIES
  HeldOpen
  BarSettles
  Placed
  SwitcherTakes
CHECK_DEADLOCK FALSE
