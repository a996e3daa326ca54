CONSTANTS
  Workers <- MCWorkers
  Keys <- MCKeys
  VirtualNodes <- MCVirtualNodes
  VNodeHash <- MCVNodeHash
  KeyHash <- MCKeyHash
  None <- MCNone
SPECIFICATION Spec
INVARIANTS
  TypeOK
  HistoryIndependent
  LookupIsPlacement
PROPERTY MovesOnlyWithMembers
