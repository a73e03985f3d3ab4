SPECIFICATION Spec
CONSTANTS
  p1 = p1
  p2 = p2
  p3 = p3
  Oracle = {p1, p2, p3}
  Leads = {1, 3}
  ObservationQuorum = 2
  DBFails = FALSE
  PoolSize = 3
  RMax = 2
  MaxEpoch = 3
  MaxSeqNr = 1
SYMMETRY ObserverSymmetry
CHECK_DEADLOCK FALSE
INVARIANTS TypeOK OncePerRound OnlyLeaderSends ProposalHasQuorum GraceAgrees
