SPECIFICATION FairSpec
CONSTANTS
  Account = {a1}
  ContractOwner = a1
  NoAccount = nobody
  Payloads <- Mixed
  Period = 1
  Expiration = 1
  EmergencyPeriod = 1
  Base = 6
  PassThreshold = 3
  ProposalThreshold = 0
  EmergencyNumerator = 2
  EmergencyDenominator = 3
  MaxPropositions = 2
  IncentiveCap = 4
  IncentiveStep = 2
  SeasonPeriod = 2
  MaxBips = 2
  MaxRoots = 1
  MaxSeason = 3
  MaxTime = 4
  MaxFrames = 2
INVARIANTS ExecutedOnce
PROPERTIES PauseStopsSeasonClock TermsEnd IncentivePaid
CHECK_DEADLOCK FALSE
