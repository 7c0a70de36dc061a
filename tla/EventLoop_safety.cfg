CONSTANTS
  l1 = l1  l2 = l2  c1 = c1  k1 = k1  k2 = k2  n1 = n1
  Loops = {l1, l2}
  Clients = {c1}
  Tasks = {k1, k2}
  Nodes = {n1}
  Callers = {c1}
  Stoppers = {c1}
  Retirers = {}
  Overlap = FALSE
  TickEffects = FALSE
  MaxQueue = 1
  None = None
  Dead = Dead
  Unborn = Unborn
SPECIFICATION Spec
SYMMETRY LoopSymmetry
INVARIANTS TypeOK NoLostWakeup NodesAtHome
PROPERTIES LoopsImplementExecutor
CHECK_DEADLOCK FALSE
