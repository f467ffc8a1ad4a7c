CONSTANTS
  f1 = f1
  f2 = f2
  k1 = k1
  k2 = k2
  Friend = {f1, f2}
  Key = {k1, k2}
  Request = {r1}
  Me = me
  Value <- MCValue
  InitFriends <- MCFriends
  InitServers <- MCServers
  BaseMaxEdgeAge = 2
  EdgeAgeFactor = 1
  MaxRate = 1
  MaxOpenRequests = 1
  KeepaliveTicks = 1
  BackoffTicks = 1
  MaxChanges = 1
  MaxConfigs = 1
  MaxFaults = 1
SPECIFICATION FairSpec
INVARIANT OpenRequestsAreCounted
PROPERTY ServerLearns
