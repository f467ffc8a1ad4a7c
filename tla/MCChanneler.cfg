CONSTANTS
  a1 = a1
  a2 = a2
  Addr = {a1, a2}
  None = None
  RelayLists <- OneOrBoth
  Reachable = {a1}
  BackoffTicks = 1
  Friends = {f1}
  ConnId = {c1, c2, c3}
  PoolId = {p1, p2}
  ChannelLen = 1
  MaxUpdates = 2
  MaxDisables = 1
  MaxBreaks = 1
SPECIFICATION FairSpec
INVARIANT ViewsAgree
PROPERTY EnabledComesOnline
CHECK_DEADLOCK FALSE
