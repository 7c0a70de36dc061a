SPECIFICATION LiveSpec
CONSTANTS
  Worker = Worker
  NoMsg = NoMsg
  Clients = {c1, c2}
  Flushers = {}
  Starters = {c1}
  Stoppers = {c1}
  Sinks = {s1}
  InitialSinks <- NoSinks
  Levels = {0}
  Capacity = 2
  MaxLogs = 3
  MaxSinks = 1
CHECK_DEADLOCK FALSE
PROPERTIES LoggerGetsDone
