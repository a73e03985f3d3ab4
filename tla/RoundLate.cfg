SPECIFICATION Spec
CONSTANTS
  p1 = p1
  p2 = p2
  p3 = p3
  Oracle = {p1, p2}
  Leads = {1}
  ObservationQuorum = 1
  DBFails = FALSE
  PoolSize = 3
  RMax = 1
  MaxEpoch = 1
  MaxSeqNr = 1
SYMMETRY ObserverSymmetry
CHECK_DEADLOCK FALSE
INVARIANTS NoPanic
