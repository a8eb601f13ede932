\* Two entries, two requests at a time, deletions and a restart of the server.
CONSTANTS
  d1 = d1
  d2 = d2
  c1 = c1
  c2 = c2
  t1 = t1
  t2 = t2
  Device = {d1}
  Command = {c1, c2}
  MaxEntry = 2
  Thread = {t1, t2}
  DeletableDevice = {d1}
  DeletableCommand = {c2}
  MaxRestart = 1
  None = None
SPECIFICATION Spec
SYMMETRY ThreadSymmetry
INVARIANTS
  TypeOK
  CancelledNeverOffered
  DispatchInOrder
  IInv
PROPERTIES
  ImplementsCommandLog
\* The bounds end the runs.
CHECK_DEADLOCK FALSE
