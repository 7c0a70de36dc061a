SPECIFICATION Spec
CONSTANTS
  Worker = Worker
  NoMsg = NoMsg
  Clients = {c1, c2}
  Flushers = {c1, c2}
  Starters = {c1, c2}
  Stoppers = {c1, c2}
  Sinks = {s1, s2}
  InitialSinks <- OneSink
  Levels = {0, 1}
  Capacity = 2
  MaxLogs = 3
  MaxSinks = 2
CHECK_DEADLOCK FALSE
SYMMETRY LoggerSymmetry
INVARIANTS TypeOK CountersServeFlush DeliveryFaithful StopDrains
