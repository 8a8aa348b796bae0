SPECIFICATION Spec
CONSTANTS
  Group = {g1}
  Reply = {p1, p2, p3}
  Request = {r1}
  HasCooldown = TRUE
  MaxClears = 0
  NoGroup = NoGroup
  NoLock = NoLock
  User = {u1, u2}
  MaxDaily = 2
  MaxPerUser = 1
  AfterAll = TRUE
  MaxDays = 1
  NoUser = NoUser
INVARIANTS
  OvershootBounded
  GuardSurvives
  CooldownEndsBurst
PROPERTIES
  ImplementsGate
  SignalDefers
