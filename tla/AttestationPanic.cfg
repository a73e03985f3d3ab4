SPECIFICATION Spec
CONSTANTS
  p1 = p1
  p2 = p2
  p3 = p3
  p4 = p4
  Oracle = {p1, p2}
  Faulty = {}
  Remote = {p2}
  MayFail = {}
  F = 0
  ExpiryRounds = 1
  LookaheadRounds = 1
  MaxSeqNr = 3
CHECK_DEADLOCK FALSE
INVARIANTS NoPanic
