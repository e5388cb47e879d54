CONSTANTS
  Threads = {t1, t2}
  Hosts = {"h1"}
  Groups = {"g1"}
  GroupConfig <- RaceGroupConfig
  NoConfig <- MCNoConfig
  NewConfigs = {}
  MaxRedis = 3
  MaxPools = 3
SPECIFICATION Spec
INVARIANT InstanceUsable
