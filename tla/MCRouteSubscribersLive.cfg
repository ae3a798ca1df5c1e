SPECIFICATION FairSpec
CONSTANTS
  Conns = {c1, c2}
  NoConn = NoConn
  Envs = {e1}
  NoEnv = NoEnv
  OAuthStates = {o1}
  CryptoYields = TRUE
INVARIANTS OneRowPerEnvironment BindingsHaveSubscriber
PROPERTIES AttachedTunnelIsKept StaleTunnelIsSwept
