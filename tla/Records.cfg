CONSTANTS
  Nodes = {n1}
  Times = {1, 2, 3, 4, 5}
  Day <- MCDay
  Publishing = TRUE
  Cost = 2
  MaxSeq = 4
  Turns <- MCTurns
SPECIFICATION MCSpec
INVARIANTS
  TypeOK
  LostIsMarked
  InOnePlace
  HeldIsCounted
  ValuesInOrder
  ReleasedStays
  NoDayIsBridged
  StoredIsTrue
  HeartbeatIsComing
CHECK_DEADLOCK FALSE
