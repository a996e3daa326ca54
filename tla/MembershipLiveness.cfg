CONSTANTS
  Workers = {w1}
  Registries = {r1}
  w1 = w1
  r1 = r1
  Background = {"watcher", "monitor"}
  Faults = {"crash", "signal", "redis", "scan", "failover"}
SPECIFICATION FairSpec
INVARIANT TypeOK
PROPERTIES
  Converges
  DeadLeavesRing
  KeyIsRestored
  StaysForgotten
CHECK_DEADLOCK FALSE
