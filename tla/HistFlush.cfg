CONSTANTS
  r1 = r1
  r2 = r2
  e1 = e1
  e2 = e2
  Records = {r1, r2}
  Days <- MCDays
  DayOf <- MCDayOf
  Refused = {2}
  Flushers = {f1}
  Settlers = {s1}
  Editors = {e1, e2}
  EditDay <- MCEditDay
  MaxHops = 1
SPECIFICATION MCSpec
INVARIANTS
  FlushIsSound
PROPERTIES
  EditSeesItsValues
CHECK_DEADLOCK FALSE
