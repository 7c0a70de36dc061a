CONSTANTS
  l1 = l1  c1 = c1  c2 = c2  k1 = k1  k2 = k2  n1 = n1
  Loops = {l1}
  Clients = {c1, c2}
  Tasks = {k1, k2}
  Nodes = {n1}
  Callers = {c1, c2, l1}
  Stoppers = {c1}
  Retirers = {c1}
  Overlap = FALSE
  TickEffects = FALSE
  MaxQueue = 1
  None = None
  Dead = Dead
  Unborn = Unborn
SPECIFICATION LiveSpec
PROPERTIES LoopGetsDone
CHECK_DEADLOCK FALSE
