SPECIFICATION Spec
CONSTANTS
  Slots <- MCSlots
  Nil = Nil
  Ids <- MCIds
  PinId = PinId
  Names <- MCNames
  NoName = NoName
  Pagers <- MCPagers
  Wins <- MCWins
  Who <- MCSway
  InitNames <- MCOne
  InitAt <- MCAtNone
  Number <- MCNumber
  PagerConf <- MCTwoPins
  Disown = FALSE
  MaxSteps = 4
  MaxAsked = 0
INVARIANTS
  FocusAlwaysShown
CHECK_DEADLOCK FALSE
