SPECIFICATION Spec
CONSTANTS
  a = a
  b = b
  p1 = p1
  p2 = p2
  p3 = p3
  p4 = p4
  Oracle = {p1, p2, p3}
  Faulty = {}
  MayRestart = {p3}
  FailingDB = {p1}
  F = 0
  Leader <- LeaderOfThree
  Value = {a}
  None = None
  RMax = 1
  MaxEpoch = 2
  MaxSeqNr = 1
CHECK_DEADLOCK FALSE
INVARIANTS CommitLocked
