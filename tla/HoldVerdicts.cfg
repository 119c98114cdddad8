CONSTANTS
  zero = zero
  guard = guard
  pool_ = pool_
  vc = vc
  amara = amara
  atlas = atlas
  watcherA = watcherA
  watcherB = watcherB
  ravi = ravi
  dest = dest
  NoPolicy = NoPolicy
  Address <- MCAddress
  ZeroAddress = zero
  Guard = guard
  OWNER = amara
  Pool = pool_
  Verdicts = vc
  Deployer = amara
  Callers <- OwnerAgentWatcher
  WatcherKeys <- OneWatcher
  Disputants <- Nobody
  VerdictInputs <- BreachInputs
  VERDICT_FRESHNESS_SEC = 1
  MaxVerdicts = 1
  FirstAgentKey = atlas
  Amount = {1}
  Payees <- Recipient
  AgentKeys <- Nobody
  Watchers <- Nobody
  Funders <- Nobody
  StrikeCounts = {}
  DAY_SEC = 4
  MINUTE_SEC = 2
  HOLD_EXTEND_SEC = 1
  Opening <- MCOpening
  StartTime = 2
  MaxTime = 4
  MaxHolds = 1
  MaxAttempts = 0
  VerdictContracts <- VerdictOnly
  Claimants <- OwnerOnly
  Claims = {}
  Deposits = {}
  Hooks <- Nobody
  MaxShares = 4
  Policies <- TwoVersions
  MaxVersion = 2
  Destinations <- Recipient
  Reporters <- VerdictOnly
  Admins <- OwnerOnly
  MAX_STRIKES = 2
  FirstPolicy <- MCFirstPolicy
  FirstWatcher = watcherA
  PoolWiring <- Wired
  JuniorLP = ravi
  SeniorLP = ravi
  JUNIOR_DEPOSIT = 1
  SENIOR_DEPOSIT = 2
SPECIFICATION Spec
INVARIANTS
  AccountLockedIsPendingSum
PROPERTIES
  AccountKeepsCustody
  RevokedPolicyStopsSpending
  StruckGetNoRoutinePayment
