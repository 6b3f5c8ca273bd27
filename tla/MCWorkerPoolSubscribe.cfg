SPECIFICATION Spec
CONSTANTS
  j1 = j1
  j2 = j2
  w1 = w1
  w2 = w2
  x1 = x1
  NoJob = NoJob
  Job = {j1}
  Worker = {w1}
  Watcher = {x1}
  Capacity = 0
INVARIANTS SubscribersSeeTheEnd
CHECK_DEADLOCK FALSE
