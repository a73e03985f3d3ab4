SPECIFICATION Spec
CONSTANTS
  Account = {a1, a2}
  ContractOwner = owner
  NoAccount = nobody
  Payloads <- OnlyCut
  Period = 2
  Expiration = 0
  EmergencyPeriod = 1
  Base = 6
  PassThreshold = 3
  ProposalThreshold = 3
  EmergencyNumerator = 2
  EmergencyDenominator = 3
  MaxPropositions = 2
  IncentiveCap = 4
  IncentiveStep = 2
  SeasonPeriod = 1
  MaxBips = 3
  MaxRoots = 2
  MaxSeason = 4
  MaxTime = 2
  MaxFrames = 0
SYMMETRY Accounts
INVARIANTS TypeOK TallyExact VotersLocked ExecutedHadMajority ActiveListExact ProposerCommitted
PROPERTIES ImplementsLifecycle
CHECK_DEADLOCK FALSE
