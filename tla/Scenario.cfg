CONSTANTS
  zero = zero
  guard = guard
  pool_ = pool_
  vc = vc
  amara = amara
  atlas = atlas
  watcherA = watcherA
  watcherB = watcherB
  ravi = ravi
  senior = senior
  alice = alice
  bob = bob
  fresh = fresh
  attacker = attacker
  alike = alike
  NoPolicy = NoPolicy
  NoDigest = NoDigest
  NoInstruction = NoInstruction
  Never = Never
  NoReceipt = NoReceipt
  NoResult = NoResult
  Address <- MCAddress
  ZeroAddress = zero
  Guard = guard
  OWNER = amara
  Pool = pool_
  Verdicts = vc
  Deployer = amara
  Callers <- MCCallers
  WatcherKeys = {watcherA, watcherB}
  Disputants = {attacker}
  VerdictInputs = {}
  VERDICT_FRESHNESS_SEC = 600
  MaxVerdicts = 2
  FirstAgentKey = atlas
  Amount = {}
  Payees = {alice, bob, fresh, attacker, alike}
  AgentKeys = {}
  Watchers = {}
  Funders = {}
  StrikeCounts = {}
  DAY_SEC = 86400
  MINUTE_SEC = 60
  HOLD_EXTEND_SEC = 3600
  Opening <- Broke
  StartTime = 167000
  MaxTime = 175000
  MaxHolds = 3
  MaxAttempts = 1
  VerdictContracts = {vc}
  Claimants = {amara}
  Claims = {}
  Deposits = {}
  Hooks = {}
  MaxShares = 30000
  Policies <- OnePolicy
  MaxVersion = 1
  Destinations = {}
  Reporters = {}
  Admins = {}
  MAX_STRIKES = 255
  FirstPolicy <- DemoPolicy
  FirstWatcher = watcherA
  PoolWiring = {}
  JuniorLP = ravi
  SeniorLP = senior
  JUNIOR_DEPOSIT = 20000
  SENIOR_DEPOSIT = 25000
  NativeOpenings <- MCNative
  ALICE = alice
  BOB = bob
  FRESH_WALLET = fresh
  ATTACKER = attacker
  LOOKALIKE = alike
  Agent = atlas
  Watcher = watcherA
  OtherWatcher = watcherB
  OtherGuard = OtherGuard
  GasNeeded <- MCGasNeeded
  Reserve <- MCReserve
  Delays = {4000}
  MaxRuns = 2
  MaxOutside = 1
CHECK_DEADLOCK FALSE
SPECIFICATION ScenarioSpec
INVARIANTS
  PaidLossWasReal
  RecordedStackIsWired
  IndexAgrees
PROPERTIES
  ResultIsTrue
