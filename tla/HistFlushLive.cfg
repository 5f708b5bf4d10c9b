CONSTANTS
  r1 = r1
  r2 = r2
  e1 = e1
  e2 = e2
  Records = {r1}
  Days <- MCOneDay
  DayOf <- MCDayOf
  Refused = {}
  Flushers = {f1}
  Settlers = {}
  Editors = {e1}
  EditDay <- MCEditDay
  MaxHops = 1
SPECIFICATION MCFairSpec
PROPERTIES
  FlushIsLive
CHECK_DEADLOCK FALSE
