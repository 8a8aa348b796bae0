SPECIFICATION Spec
CONSTANTS
  s1 = s1
  s2 = s2
  s3 = s3
  s4 = s4
  u1 = u1
  u2 = u2
  Sig = {s1, s2, s3, s4}
  Weight <- SomeWeights
  Session <- SomeSessions
  MaxSignals = 3
  Direct = 160
  Confirm = 100
  Hybrid = TRUE
CHECK_DEADLOCK FALSE
PROPERTIES
  ClearsOnlyProcessed
