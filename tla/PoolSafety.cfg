CONSTANTS
  zero = zero
  pool = pool
  admin = admin
  vc = vc
  ravi = ravi
  senior = senior
  Address <- MCAddress
  ZeroAddress = zero
  Pool = pool
  PoolAdmin = admin
  PoolCallers <- MCPoolCallers
  VerdictContracts <- MCVerdictContracts
  Claimants <- MCClaimants
  Claims = {1, 2, 3}
  Deposits = {1, 2, 3}
  Hooks <- MCHooks
  PoolOpening <- MCPoolOpening
  MaxShares = 6
SPECIFICATION Spec
INVARIANTS
  TypeOK
  Solvent
  SharesAreHeld
PROPERTIES
  JuniorFirst
  TradersPayTheRounding
