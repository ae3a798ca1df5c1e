SPECIFICATION Spec
CONSTANTS
  Conns = {c1, c2}
  NoConn = NoConn
  Envs = {}
  NoEnv = NoEnv
  OAuthStates = {}
  CryptoYields = FALSE
SYMMETRY ConnSymmetry
INVARIANTS
  OpenSocketHasRow
