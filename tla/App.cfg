SPECIFICATION Spec
INVARIANTS
  SocketIsSound
  InstancesAreRouted
  SubscriptionsAreKept
  
CHECK_DEADLOCK FALSE
