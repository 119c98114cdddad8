CONSTANTS
  zero = zero
  guard = guard
  owner = owner
  agent = agent
  vc = vc
  known = known
  fresh = fresh
  NoPolicy = NoPolicy
  Address <- MCAddress
  ZeroAddress = zero
  Guard = guard
  OWNER = owner
  FirstAgentKey = agent
  Callers <- MCCallers
  Amount = {1, 2}
  Payees <- KnownPayee
  AgentKeys <- MCOwnerKeys
  Watchers <- MCWatchers
  Funders = {known}
  Policies <- TwoPolicies
  StrikeCounts = {0, 1, 3}
  Opening <- MCOpening
  DAY_SEC = 4
  MINUTE_SEC = 2
  HOLD_EXTEND_SEC = 1
  StartTime = 2
  MaxTime = 7
  MaxHolds = 1
  MaxAttempts = 1
SPECIFICATION LiveSpec
PROPERTIES
  PendingIsSettled
