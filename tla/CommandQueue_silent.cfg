\* A device that registers and is never heard of again.
CONSTANTS
  d1 = d1
  d2 = d2
  c1 = c1
  c2 = c2
  t1 = t1
  t2 = t2
  Device = {d1}
  Command = {c1}
  MaxEntry = 0
  Thread = {t1}
  DeletableDevice = {}
  DeletableCommand = {}
  MaxRestart = 0
  None = None
SPECIFICATION ServerFairSpec
PROPERTIES
  SilentGoesOffline
\* The bounds end the runs.
CHECK_DEADLOCK FALSE
