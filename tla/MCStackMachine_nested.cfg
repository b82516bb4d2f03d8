SPECIFICATION Spec
CONSTANTS
  Globals <- MCGlobals
  Macros <- MCMacros
  Flags <- MCFlags
  Terms <- MCTerms
  Functions <- MCFunctions
  Native <- MCNative
  Programs <- MCNested
  World <- MCWorld
  Deterministic = {"max"}
  Others <- MCOthers
INVARIANTS
  AlwaysAsMeant
CHECK_DEADLOCK FALSE
