SPECIFICATION Spec
PROPERTIES
  
  MembersAreCollected
CHECK_DEADLOCK FALSE
