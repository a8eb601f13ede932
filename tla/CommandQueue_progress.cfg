\* One entry, two requests at a time, a restart: the status of the device.
CONSTANTS
  d1 = d1
  d2 = d2
  c1 = c1
  c2 = c2
  t1 = t1
  t2 = t2
  Device = {d1}
  Command = {c1}
  MaxEntry = 1
  Thread = {t1, t2}
  DeletableDevice = {}
  DeletableCommand = {}
  MaxRestart = 1
  None = None
SPECIFICATION ServerFairSpec
PROPERTIES
  FairAgentsSettle
  PollingAgentComesBack
  StaleGoesOffline
\* The bounds end the runs.
CHECK_DEADLOCK FALSE
