SPECIFICATION Spec
CONSTANTS
  Conns = {c1, c2, c3}
  NoConn = NoConn
  Envs = {e1}
  NoEnv = NoEnv
  OAuthStates = {}
  CryptoYields = FALSE
SYMMETRY ConnSymmetry
INVARIANTS NoLeakedTunnelRow PublicRowHasAlarm DeparturesAudited ParkedIsAudited
PROPERTIES EnvironmentIsHeld
