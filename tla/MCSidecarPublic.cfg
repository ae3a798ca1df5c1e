SPECIFICATION FairSpec
CONSTANTS
  Identified = TRUE
  Ids = {i1, i2, i3, i4, i5}
  None = None
  MaxFailures = 1
  MaxCrashes = 1
INVARIANTS TypeOK DisconnectIsSaid
PROPERTIES LiveRowIsKept StaleRowsGo StartsInTheEnd
CHECK_DEADLOCK FALSE
