\* Two threads of the backend, one of which may also serve the diagnostic endpoint.
CONSTANTS
  a = a
  b = b
  Caller = {a, b}
  MaxCall = 2
  MaxSession = 4
  MaxFault = 1
  MaxRestart = 1
  RetryDiscards = TRUE
  Diagnostic = {a}
  None = None
SPECIFICATION Spec
INVARIANTS
  TypeOK
  DispatchedOnce
  NoSeqReuse
  StoredInStep
  FailuresBounded
\* The bounds end the runs.
CHECK_DEADLOCK FALSE
