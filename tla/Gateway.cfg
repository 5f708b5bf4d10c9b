SPECIFICATION Spec
INVARIANTS
  ClientsAreKept
  
  
  CachesAnswer
  PageIsAnswered
  CallsKeepTheirUser
PROPERTIES
  LastWord
CHECK_DEADLOCK FALSE
