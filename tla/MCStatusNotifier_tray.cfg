SPECIFICATION FairSpec
CONSTANTS
  Apps = {"app"}
  Props <- MCProps
  Values <- MCValues
  Changing = {"Status"}
  InitProps <- MCInitProps
  Flip <- MCFlip
  Layouts <- MCLayouts
  MaxChanges = 2
INVARIANTS
  TypeOK
  TrayShowsItems
  RepliesBeforeFree
  MenuShowsLayout
PROPERTIES
  Settles
CHECK_DEADLOCK FALSE
