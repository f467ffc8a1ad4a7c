CONSTANTS
  N = 3
  Uid = {u1, u2}
  Enough <- AllOfThem
  MaxBatch = 2
  MaxDrops = 0
  MaxCloses = 1
  MaxBreaks = 0
  MaxEvents = 1
  MaxInvoices = 1
SPECIFICATION Spec
INVARIANT ClosingIsHandled
CHECK_DEADLOCK FALSE
