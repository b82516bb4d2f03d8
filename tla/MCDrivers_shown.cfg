SPECIFICATION FairSpec
CONSTANTS
  Slots <- MCSlots
  Nil = Nil
  Ids <- MCIds
  PinId = PinId
  Names <- MCNames
  NoName = NoName
  Pagers <- MCPagers
  Wins <- MCWins
  Who <- MCWho
  InitNames <- MCTwo
  InitAt <- MCAtOne
  Number <- MCNumber
  PagerConf <- MCPins
  Disown = FALSE
  MaxSteps = 3
  MaxAsked = 2
INVARIANTS
  TypeOK
  References
  Mirrors
  PinsShown
  PagerShowsFocus
  TaskbarShowsState
PROPERTIES
  Follows
CHECK_DEADLOCK FALSE
