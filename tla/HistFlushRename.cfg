CONSTANTS
  r1 = r1
  r2 = r2
  e1 = e1
  e2 = e2
  Records = {r1}
  Days <- MCDays
  DayOf <- MCDayOf
  Refused = {}
  Flushers = {}
  Settlers = {}
  Editors = {}
  EditDay <- MCEditDay
  MaxHops = 1
SPECIFICATION MCAnySpec
PROPERTIES
  NoRenameOutsideTheLock
CHECK_DEADLOCK FALSE
