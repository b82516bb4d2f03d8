SPECIFICATION FairSpec
CONSTANTS
  Globals <- MCGlobals
  Macros <- MCMacros
  Flags <- MCFlags
  Terms <- MCTerms
  Functions <- MCFunctions
  Native <- MCNative
  Programs <- MCPrograms
  World <- MCWorld
  Deterministic = {"max"}
  Others <- MCOthers
INVARIANTS
  TypeOK
  ResultAsMeant
  StackKept
  ValidIsStable
PROPERTIES
  Ends
CHECK_DEADLOCK FALSE
