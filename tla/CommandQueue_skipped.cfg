\* Two entries of which one has its command deleted.
CONSTANTS
  d1 = d1
  d2 = d2
  c1 = c1
  c2 = c2
  t1 = t1
  t2 = t2
  Device = {d1}
  Command = {c1, c2}
  MaxEntry = 2
  Thread = {t1}
  DeletableDevice = {}
  DeletableCommand = {c2}
  MaxRestart = 0
  None = None
SPECIFICATION FairSpec
PROPERTIES
  DeletedCommandIsSkipped
\* The bounds end the runs.
CHECK_DEADLOCK FALSE
