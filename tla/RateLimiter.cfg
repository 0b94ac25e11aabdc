SPECIFICATION FairSpec
CONSTANTS
  k1 = k1
  k2 = k2
  m1 = m1
  m2 = m2
  m3 = m3
  c1 = c1
  c2 = c2
  c3 = c3
  c4 = c4
  Models = {m1, m2, m3}
  Keys = {k1, k2}
  KeyOf <- MCKeyOf
  HintOf <- MCHintOf
  Calls = {c1, c2, c3, c4}
  ModelOf <- MCModelOf
  DefaultRpm = 1
  Minute = 3
  MaxArrival = 1
  Lateness = 3
  MaxClock = 40
INVARIANTS
  TypeOK
  OneLimiter
  WindowBound
PROPERTIES
  SleepsUntilItFits
  EveryCallGranted
