SPECIFICATION FairSpec
CONSTANTS
  p1 = p1
  p2 = p2
  p3 = p3
  p4 = p4
  Oracle = {p1, p2, p3, p4}
  Faulty = {p4}
  MayRestart = {p1, p2}
  FailingDB = {p2}
  FaultyWish = {3}
  Progressing = {p1}
  F = 1
  MaxEpoch = 2
CHECK_DEADLOCK FALSE
INVARIANTS NoEpochJumped EpochSupported WishesDurable
PROPERTIES NeverBack FailedLeadersLeft
