CONSTANTS
  PaymentId = {p1, p2}
  Uid = {u1, u2}
  Friend = {f1, f2}
  NoPayment = NoPayment
  MaxQueue = 1
  MaxCommands = 7
  MaxDrops = 1
  MaxLacks = 1
  MaxBreaks = 1
SPECIFICATION FairSpec
INVARIANTS
  CountsMatch
  AnswersFindTransaction
  ClosingIsTruthful
PROPERTIES
  NothingIsForgotten
  ClosedPaymentEnds
CHECK_DEADLOCK FALSE
