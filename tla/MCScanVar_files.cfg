SPECIFICATION Spec
CONSTANTS
  Aggregators = {"First", "Last", "Sum"}
  Values = {2, 3}
  Files = 2
  MaxMatches = 2
  MaxScans = 3
INVARIANTS
  TypeOK
  AggregatedIfHeard
  KeepsPrevious
CHECK_DEADLOCK FALSE
