CONSTANTS
  r1 = r1
  r2 = r2
  Run <- MCRun
  Server = {s1, s2}
  NoServer = NoServer
  NoRun = NoRun
  Closed = Closed
  TxHash = {t1}
  LinePhase = {2}
  MaxLines <- Lines
  MaxUnread = 1
  MaxFailures = 1
  ByHand <- HandStarted
SPECIFICATION Spec
CHECK_DEADLOCK FALSE
INVARIANTS
  RestartAlwaysPossible
  CompletedWasVerified
  AtMostOneSigner
  IdleMeansQuiet
  StreamIsCurrent
PROPERTIES
  EndedRunsNeverChange
  BusyEnds
  OrphansStop
