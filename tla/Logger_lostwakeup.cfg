SPECIFICATION LiveSpec
CONSTANTS
  Worker = Worker
  NoMsg = NoMsg
  Clients = {c1, c2}
  Flushers = {c2}
  Starters = {c1}
  Stoppers = {}
  Sinks = {s1}
  InitialSinks <- OneSink
  Levels = {0}
  Capacity = 2
  MaxLogs = 2
  MaxSinks = 1
CHECK_DEADLOCK FALSE
PROPERTIES AcceptedIsDelivered
