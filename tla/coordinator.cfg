SPECIFICATION FairSpec
CONSTANTS
  Group = {g1}
  Reply = {p1, p2, p3}
  Request = {r1, r2}
  HasCooldown = TRUE
  MaxClears = 1
  NoGroup = NoGroup
  NoLock = NoLock
INVARIANTS
  TypeOK
  MutexUnlessStrayed
  LockedHasSender
  NoLostWakeup
PROPERTIES
  SendsStartClear
  ImplementsGate
  WaiterServed
