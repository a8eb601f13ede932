\* The two threads of an agent; the bounds on sessions never stop a call.
CONSTANTS
  a = a
  b = b
  Caller = {a, b}
  MaxCall = 2
  MaxSession = 5
  MaxFault = 1
  MaxRestart = 1
  RetryDiscards = FALSE
  Diagnostic = {}
  None = None
SPECIFICATION FairSpec
PROPERTIES
  ImplementsChannel
  EveryCallReturns
\* The bounds end the runs.
CHECK_DEADLOCK FALSE
