\* Two requests at a time of one address, limits of one and two, windows of one and two seconds.
CONSTANTS
  t1 = t1
  t2 = t2
  here = here
  bob = bob
  good = good
  better = better
  weak = weak
  lower = lower
  Thread = {t1, t2}
  Ip = {here}
  Email = {bob}
  Password = {good, better, weak}
  Strong = {good, better}
  Lower <- LowerOf
  Limit <- LimitOf
  Window <- WindowOf
  Lifetime = 1
  Tick = 2
  MaxClock = 3
  MaxRequest = 3
  MaxFault = 1
  None = None
SPECIFICATION Spec
SYMMETRY Symmetry
INVARIANTS
  TypeOK
  AdmittedInWindow
  SuccessMeansLogin
PROPERTIES
  RefusalJustified
  RetryAfterHonest
\* The clock and the requests end.
CHECK_DEADLOCK FALSE
