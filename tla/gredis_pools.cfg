CONSTANTS
  Threads = {t1, t2}
  Hosts = {"h1", "h2"}
  Groups = {"g1", "g2", "g3"}
  GroupConfig <- SharedGroupConfig
  NoConfig <- MCNoConfig
  NewConfigs <- SharedNewConfigs
  MaxRedis = 3
  MaxPools = 3
SPECIFICATION Spec
INVARIANTS TypeOK PoolsOpen
SYMMETRY ThreadSymmetry
