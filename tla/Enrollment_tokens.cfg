\* Two keys for one device name, two registrations at a time, time past the expiry.
CONSTANTS
  k1 = k1
  k2 = k2
  t1 = t1
  t2 = t2
  Key = {k1, k2}
  Thread = {t1, t2}
  Lifetime = 2
  MaxClock = 6
  MaxFault = 1
  MaxRestart = 1
  NoRow = NoRow
  NoKey = NoKey
  NoThread = NoThread
  Byte = {0, 1}
  ToBytes <- Bits
  Xor <- XorBits
  Hkdf <- Material
  KeyId <- KeyIdOf
  UINT16_MAX = 3
  UINT64_MAX = 7
  U96_MAX = 7
  ClientToServer <- ToServer
  ServerToClient <- ToClient
  Unset = Unset
SPECIFICATION FairSpec
INVARIANTS
  TypeOK
  TokenUsedOnce
PROPERTIES
  KeyNeedsToken
  RegisteredComesBack
\* The clock and the faults end, and the agents are registered or refused.
CHECK_DEADLOCK FALSE
