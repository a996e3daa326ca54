CONSTANTS
  Processes = {p1, p2}
  p1 = p1
  p2 = p2
  Batches <- MCBatches
  MaxRows = 4
  Absent = Absent
  Torn = Torn
  Score <- MCScore
SPECIFICATION Spec
INVARIANTS
  TypeOK
  QueriesAreRight
  OpenSeesStored
  NeverOutOfBounds
  NoDuplicates
  SoleWriterKeepsAll
CHECK_DEADLOCK FALSE
