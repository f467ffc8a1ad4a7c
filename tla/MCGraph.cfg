CONSTANTS
  Node = {1, 2, 3, 4, 5}
  Report <- MCReport
  Asked <- MCAsked
  Excludable <- MCExcludable
  BaseMaxEdgeAge = 1
  EdgeAgeFactor = 0
  MaxRate = 1
SPECIFICATION Spec
INVARIANTS
  RoutesAreShortest
