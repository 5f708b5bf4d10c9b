SPECIFICATION Spec
INVARIANTS
  HostingIsSound
  SubscribersAreTold
  
  WritesAreAnswered
  ServedIsTheSource

  
CHECK_DEADLOCK FALSE
