CONSTANTS
  Workers = {w1, w2}
  Clients = {c1}
  Ready = Ready
  None = None
  MaxTasks = 3
  MaxStarts = 2
SPECIFICATION Spec
INVARIANTS RunsOnceAndInOrder CountersExact
PROPERTIES SequenceFinishes
CHECK_DEADLOCK FALSE
