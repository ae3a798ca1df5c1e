SPECIFICATION FairSpec
CONSTANTS
  Identified = TRUE
  Sockets = {s1, s2, s3, s4, s5}
  None = None
  MaxFailures = 2
  MaxCrashes = 1
INVARIANTS TypeOK ReasonIsTruthful ServingTokenIsCurrent DisconnectIsFinal
PROPERTIES Reconnects DisconnectSettles
CHECK_DEADLOCK FALSE
