CONSTANTS
  Transports = {t1, t2}
  NoTransport = none
  Timeouts = {0, 1}
  MaxEndpoints = 1
  MaxFired = 2
SPECIFICATION FairSpec
INVARIANTS
  ConnectedMeansEstablished
  NoOrphan
  NeverStranded
  AssertsHold
PROPERTIES
  StoppedStaysSilent
  Reattempt
CHECK_DEADLOCK FALSE
