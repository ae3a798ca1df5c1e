SPECIFICATION FairSpec
CONSTANTS
  Publics = {p1}
  Tunnels = {}
  Runs = {a, b}
  AlarmRun = AlarmRun
  MaxFailures = 0
PROPERTIES
  LiveRouteIsIndexed
