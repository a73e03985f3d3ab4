SPECIFICATION FairSpec
CONSTANTS
  p1 = p1
  p2 = p2
  p3 = p3
  p4 = p4
  Oracle = {p1, p2, p3}
  Faulty = {p3}
  Remote = {p2}
  MayFail = {p1}
  F = 1
  ExpiryRounds = 0
  LookaheadRounds = 1
  MaxSeqNr = 2
CHECK_DEADLOCK FALSE
INVARIANTS AttestedOnce LookaheadHolds
PROPERTIES SignedRoundsEnd
