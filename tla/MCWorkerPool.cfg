SPECIFICATION Spec
CONSTANTS
  j1 = j1
  j2 = j2
  w1 = w1
  w2 = w2
  x1 = x1
  NoJob = NoJob
  Job = {j1, j2}
  Worker = {w1, w2}
  Watcher = {x1}
  Capacity = 1
SYMMETRY MCSymmetry
INVARIANTS TypeOK NoJobStranded
CHECK_DEADLOCK FALSE
