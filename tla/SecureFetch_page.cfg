\* No call makes two handshakes: MaxSession never stops one.
CONSTANTS
  c1 = c1
  c2 = c2
  c3 = c3
  Caller = {c1, c2, c3}
  MaxSession = 3
  MaxLogout = 1
  MaxFault = 1
  MaxRestart = 1
  None = None
SPECIFICATION FairSpec
INVARIANTS
  TypeOK
  NoSeqReuse
  HandshakesBounded
  CallsTakeTurns
  FailuresBounded
PROPERTIES
  EveryCallSettles
\* The calls of the page end.
CHECK_DEADLOCK FALSE
