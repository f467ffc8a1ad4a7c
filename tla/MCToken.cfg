CONSTANTS
  Uid = {u1}
  Lock = {l1}
  MaxDebt = 2
  Ops <- Payment
  MaxBatch = 2
  InitialBalance = 2
  Budgets <- AllBudgets
SPECIFICATION FairSpec
INVARIANTS
  OneToken
  ResetIsAccepted
  PeerKnowsRelays
PROPERTIES
  ImplementsCreditLine
  WantsAreServed
  Quiescence
CHECK_DEADLOCK FALSE
