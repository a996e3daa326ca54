CONSTANTS
  w1 = w1
  w2 = w2
  r1 = r1
  t1 = t1
  t2 = t2
  t3 = t3
  Workers = {w1, w2}
  Registries = {r1}
  Background = {"watcher"}
  Faults = {"crash"}
  Tasks = {t1, t3}
  RoutingKey <- MCRoutingKey
  MaxBatch = 2
  MaxFailovers = 0
  Keys <- MCKeys
  VirtualNodes <- MCVirtualNodes
  VNodeHash <- MCVNodeHash
  KeyHash <- MCKeyHash
SPECIFICATION ClusterSpec
PROPERTY Delivers
CHECK_DEADLOCK FALSE
