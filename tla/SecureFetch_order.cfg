\* One logout and no fault.
CONSTANTS
  c1 = c1
  c2 = c2
  c3 = c3
  Caller = {c1, c2, c3}
  MaxSession = 3
  MaxLogout = 1
  MaxFault = 0
  MaxRestart = 0
  None = None
SPECIFICATION FairSpec
PROPERTIES
  ProcessedInSendOrder
\* The calls of the page end.
CHECK_DEADLOCK FALSE
