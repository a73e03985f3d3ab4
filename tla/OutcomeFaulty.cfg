SPECIFICATION Spec
CONSTANTS
  a = a
  b = b
  p1 = p1
  p2 = p2
  p3 = p3
  p4 = p4
  Oracle = {p1, p2, p3, p4}
  Faulty = {p4}
  MayRestart = {}
  FailingDB = {}
  F = 1
  Leader <- LeaderOfFour
  Value = {a, b}
  None = None
  RMax = 1
  MaxEpoch = 2
  MaxSeqNr = 2
SYMMETRY ValueSymmetry
CHECK_DEADLOCK FALSE
INVARIANTS TypeOK PrepareUnique CommitLocked Agreement NoGap RoundFollowsCommitted RoundsOfEpoch LeaderProofValid
