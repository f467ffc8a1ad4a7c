CONSTANTS
  N = 3
  Uid = {u1, u2}
  Enough <- AllOfThem
  MaxBatch = 2
  MaxDrops = 1
  MaxCloses = 2
  MaxBreaks = 1
  MaxEvents = 3
  MaxInvoices = 1
SPECIFICATION FairSpec
INVARIANTS
  OnlyAmountsPanic
  RelaysAreCovered
  RelaysAreRepaid
  OnlyCommittedIsPaid
PROPERTY FrozenIsReleased
CHECK_DEADLOCK FALSE
