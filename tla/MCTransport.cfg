CONSTANTS
  TicksToRekey = 1
  NonceMod = 2
  MaxRekeys = 1
  KeepaliveTicks = 5
  MaxSends <- SendsOfA
  MaxCrashes = 1
SPECIFICATION Spec
INVARIANTS
  ClosesForAReason
  RekeyIsUnderWay
PROPERTIES
  ImplementsFifo
CHECK_DEADLOCK FALSE
