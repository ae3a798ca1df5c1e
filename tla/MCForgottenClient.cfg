SPECIFICATION FairSpec
CONSTANTS
  Identified = FALSE
  Ids = {i1, i2, i3}
  None = None
  MaxFailures = 0
  MaxCrashes = 0
PROPERTY GoneIsReplaced
CHECK_DEADLOCK FALSE
