CONSTANTS
  w1 = w1
  w2 = w2
  r1 = r1
  t1 = t1
  t2 = t2
  t3 = t3
  Workers = {w1, w2}
  Registries = {r1}
  Background = {"monitor"}
  Faults = {}
  Tasks = {t1, t2}
  RoutingKey <- MCRoutingKey
  MaxBatch = 1
  MaxFailovers = 0
  Keys <- MCKeys
  VirtualNodes <- MCVirtualNodes
  VNodeHash <- MCVNodeHash
  KeyHash <- MCKeyHash
SPECIFICATION ClusterSpec
INVARIANT NoContention
CHECK_DEADLOCK FALSE
