CONSTANTS
  Processes = {p1, p2}
  p1 = p1
  p2 = p2
  Batches <- MCBatches
  MaxRows = 4
  Absent = Absent
  Torn = Torn
  Score <- MCScore
SPECIFICATION Spec
INVARIANT NothingStoredIsLost
CHECK_DEADLOCK FALSE
