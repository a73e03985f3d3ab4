SPECIFICATION Spec
CONSTANTS
  a = a
  b = b
  p1 = p1
  p2 = p2
  p3 = p3
  p4 = p4
  Oracle = {p1, p2, p3}
  Faulty = {}
  MayRestart = {}
  FailingDB = {}
  F = 0
  Leader <- LeaderOfThree
  Value = {a, b}
  None = None
  RMax = 1
  MaxEpoch = 3
  MaxSeqNr = 1
SYMMETRY ValueSymmetry
CHECK_DEADLOCK FALSE
INVARIANTS Agreement
