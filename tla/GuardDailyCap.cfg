CONSTANTS
  zero = zero
  guard = guard
  owner = owner
  agent = agent
  vc = vc
  known = known
  fresh = fresh
  NoPolicy = NoPolicy
  Address <- MCAddress
  ZeroAddress = zero
  Guard = guard
  OWNER = owner
  FirstAgentKey = agent
  Callers <- MCCallers
  Amount = {1, 2}
  Payees <- MCPayees
  AgentKeys <- MCOwnerKeys
  Watchers <- MCWatchers
  Funders = {}
  Policies <- OnePolicy
  StrikeCounts = {0}
  Opening <- RichOpening
  DAY_SEC = 4
  MINUTE_SEC = 2
  HOLD_EXTEND_SEC = 1
  StartTime = 2
  MaxTime = 6
  MaxHolds = 2
  MaxAttempts = 0
SPECIFICATION OutflowSpec
INVARIANTS
  DailyLimitIsHard
