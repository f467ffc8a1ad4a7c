CONSTANTS
  r1 = r1
  r2 = r2
  Address <- Relays
  LocalChoices <- LocalSets
  FriendChoices <- FriendSets
  Friend = {f1}
  BackoffTicks = 1
  MaxListeners = 4
  HalfTunnelTicks = 2
  MaxConfigs = 3
  MaxConnects = 1
  MaxFaults = 1
SPECIFICATION FairSpec
INVARIANTS
  PoolServes
  AccessAgrees
PROPERTIES
  ListensAgain
CHECK_DEADLOCK FALSE
