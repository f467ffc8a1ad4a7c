CONSTANTS
  Uid = {u1, u2}
  Lock = {l1}
  MaxDebt = 2
  Pay = {0, 1, 2}
  Fees = {0, 1}
  Ops <- MCOps
  MaxBatch = 1
  InitialBalances <- MCBalances
SPECIFICATION Spec
INVARIANTS
  TypeOK
  Mirrored
  QueuedIsAccepted
  PendingDebtIsSum
  ExposureInRange
PROPERTY TrustRespected
SYMMETRY Symmetry
