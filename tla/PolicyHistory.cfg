CONSTANTS
  zero = zero
  guard = guard
  pool_ = pool_
  vc = vc
  amara = amara
  atlas = atlas
  watcherA = watcherA
  watcherB = watcherB
  ravi = ravi
  dest = dest
  NoPolicy = NoPolicy
  Address <- MCAddress
  ZeroAddress = zero
  Guard = guard
  OWNER = amara
  Pool = pool_
  Verdicts = vc
  Deployer = amara
  Callers <- OwnerAndWatchers
  WatcherKeys <- TwoWatchers
  Disputants <- Nobody
  VerdictInputs <- Nobody
  VERDICT_FRESHNESS_SEC = 1
  MaxVerdicts = 0
  FirstAgentKey = atlas
  Amount = {}
  Payees <- Recipient
  AgentKeys <- Nobody
  Watchers <- Nobody
  Funders <- Nobody
  StrikeCounts = {}
  DAY_SEC = 4
  MINUTE_SEC = 2
  HOLD_EXTEND_SEC = 1
  Opening <- EmptyOpening
  StartTime = 2
  MaxTime = 3
  MaxHolds = 0
  MaxAttempts = 0
  VerdictContracts <- VerdictOnly
  Claimants <- OwnerOnly
  Claims = {}
  Deposits = {}
  Hooks <- Nobody
  MaxShares = 3
  Policies <- TwoFirstVersions
  MaxVersion = 1
  Destinations <- Nobody
  Reporters <- Nobody
  Admins <- Nobody
  MAX_STRIKES = 3
  FirstPolicy <- MCFirstPolicy
  FirstWatcher = watcherA
  PoolWiring <- Wired
  JuniorLP = ravi
  SeniorLP = ravi
  JUNIOR_DEPOSIT = 1
  SENIOR_DEPOSIT = 2
SPECIFICATION Spec
PROPERTIES
  HistoryIsAppendOnly
