CONSTANTS
  us = us
  rival = rival
  noone = noone
  noresolver = noresolver
  foreign = foreign
  ga = ga
  gb = gb
  ravi = ravi
  kay = kay
  lagos = lagos
  nairobi = nairobi
  alice = alice
  bob = bob
  Us = us
  Rival = rival
  NoOne = noone
  Proxy = proxy_
  NoResolver = noresolver
  Foreign = foreign
  Label = "repayd"
  Labels = {"repayd", "atlasrepayd"}
  Price = 1
  Funds = {0, 1, 2}
  Resumes <- MCResumes
  FirstNames <- MCFirstNames
  MaxRuns = 3
  PricingEvents <- MCEvents
  MaxEvents = 3
  NoDigest = NoDigest
  Texts = {"pay"}
  Origins = {"owner-console", "job"}
  CommitTimes = {1, 2}
  TeeAttached = TRUE
  MaxCommits = 3
  MaxInFlight = 2
  MaxStops = 2
  ZeroAddress = noone
  Agents = {ga, gb}
  OwnerOf <- MCOwnerOf
  Policies = {}
  NoPolicy = NoPolicy
  MaxVersion = 3
  Orders <- MCOrders
  Signer = kay
  BridgeOn = TRUE
  Platforms = {lagos, nairobi}
  NoAccount = NoAccount
  StartOfDay = 100
  Day = 10
  MaxOrders = 2
  NoInstruction = NoInstruction
  Never = Never
  DaySec = 86400
  HourSec = 3600
  MinuteSec = 60
  EnginePolicies <- MCEnginePolicies
  Transfers <- MCTransfers
  KnownFacts <- MCKnownFacts
  MaxClaims = 1
  Ops = ops
  Amara = kay
  NoWallet = noone
  VerdictLogs <- MCVerdictLogs
  MaxVerdictLogs = 2
  MaxSweeps = 2
  MaxRestarts = 1
CHECK_DEADLOCK FALSE
SPECIFICATION ServicesSpec
INVARIANTS
  RegisteredNameIsBound
  OwnerTextStaysOwners
  BooksMatchStore
  OnlyUnprovenClaimsAreRefused
  MirrorIsFaithful
PROPERTIES
  InfractionNeverPaysLess
