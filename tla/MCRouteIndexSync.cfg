SPECIFICATION FairSpec
CONSTANTS
  Publics = {p1}
  Tunnels = {t1}
  Runs = {a, b}
  AlarmRun = AlarmRun
  MaxFailures = 1
INVARIANTS QuietRouteIsIndexed
PROPERTIES AlarmRepairsIndex EmptyRouteIsPruned
