SPECIFICATION Spec
CONSTANTS
  j1 = j1
  j2 = j2
  w1 = w1
  w2 = w2
  x1 = x1
  NoJob = NoJob
  Job = {j1, j2}
  Worker = {w1}
  Watcher = {}
  Capacity = 1
INVARIANTS CapacityRespected
CHECK_DEADLOCK FALSE
