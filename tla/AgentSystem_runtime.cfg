\* Two entries; a crash or the end of a worker thread, and a restart of the server.
CONSTANTS
  d1 = d1
  c1 = c1
  t1 = t1
  Device = {d1}
  Command = {c1}
  MaxEntry = 2
  Thread = {t1}
  DeletableDevice = {}
  DeletableCommand = {}
  MaxRestart = 1
  MaxCrash = 1
  None = None
  NoThread = NoThread
SPECIFICATION AgentFairSpec
INVARIANTS
  AgentTypeOK
  WorkerOwnsTask
  NoLostWakeUp
  RunsOnlyStarted
PROPERTIES
  AgentHonoursServer
  LivingWorkersSettle
  TaskIsReleased
\* The bounds end the runs.
CHECK_DEADLOCK FALSE
