SPECIFICATION Spec
CONSTANTS
  Requests = {r1}
  Tunnels = {t1, t2}
  Publics = {}
  NoSub = NoSub
  MaxSockets = 1
PROPERTIES
  OwnOutcome
