CONSTANTS
  f1 = f1
  Server = {1, 2, 3}
  Node = {n1}
  Mutation <- MCMutation
  BaseMaxEdgeAge = 16
  EdgeAgeFactor = 3
  MaxRate = 1
  TicksToLive = 2
  Home <- MCHome
  Fragile <- MCFragile
  QueueLen = 1
  MaxTicks <- MCTicks
  MaxSessions = 2
  MaxUpdates = 1
  MaxBreaks = 1
SPECIFICATION WarmSpec
INVARIANTS
  AppliedInOrder
  AppliedIsFresh
  GraphIsCurrent
  NoHalfOpen
CHECK_DEADLOCK FALSE
