CONSTANTS
  w1 = w1  w2 = w2  c1 = c1  c2 = c2
  j1 = j1  m1 = m1  m2 = m2
  s1 = s1  s2 = s2  n1 = n1  n2 = n2
  Workers = {w1, w2}
  Clients = {c1, c2}
  ShutdownClients = {c1}
  Jobs = {}
  Msgs = {m1}
  Strands = {s1, s2}
  Nodes = {n1}
  BatchSize = 1
  MoveAfterDelete = FALSE
  NoStrand = NoStrand
  NoMsg = NoMsg
  Elsewhere = Elsewhere
  Dead = Dead
SPECIFICATION Spec
INVARIANT NoNodeSurvivesShutdown
CHECK_DEADLOCK FALSE
