CONSTANTS
  Text = Text
  Times <- MCTimes
  Days <- MCDays
  Wrap = 4
SPECIFICATION MCSpec
INVARIANTS
  TypeOK
  NeverBehind
  CapIsKept
  
  AggregatesAreTheHistory
PROPERTIES
  ClaimIsAtomic
  OrderIsKept
CHECK_DEADLOCK FALSE
