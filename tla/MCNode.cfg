CONSTANTS
  f1 = f1
  p1 = p1
  p2 = p2
  Friend = {f1}
  App = {p1, p2}
  Cap = {1, 2}
  IndexServer = {k1}
  InitFriends <- MCFriends
  Permissions <- MCPermissions
  Kinds = {"add", "remove", "enable", "disable", "rate", "routes", "server", "transaction", "close"}
  QueueLen = 1
  MaxRequests <- MCRequests
  MaxEvents = 1
  Changes <- MCChanges
  MaxCrashes = 1
SPECIFICATION Spec
INVARIANTS
  ToldIsOnDisk
  AppsAgree
  IndexIsTold
CHECK_DEADLOCK FALSE
