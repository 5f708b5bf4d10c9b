CONSTANTS
  r1 = r1
  r2 = r2
  s1 = s1
  Records = {r1, r2, s1}
  MaxDay = 4
  MaxCrashes = 1
  MaxFailures = 1
  DayOf <- MCDayOf
SPECIFICATION MCSpec
INVARIANTS
  FilesAreFound
  
SYMMETRY MCLate
CHECK_DEADLOCK FALSE
