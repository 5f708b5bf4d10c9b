CONSTANTS
  Nodes = {n1}
  Times = {3, 4, 5, 6}
  Day <- MCDay
  Publishing = FALSE
  Cost = 2
  MaxSeq = 4
  Turns <- MCTurns
SPECIFICATION MCOrderedSpec
INVARIANTS
  NoValueBridgesAGap
CHECK_DEADLOCK FALSE
