SPECIFICATION Spec
CONSTANTS
  Group = {g1}
  Reply = {p1, p2}
  Request = {r1, r2}
  HasCooldown = TRUE
  MaxClears = 0
  NoGroup = NoGroup
  NoLock = NoLock
INVARIANTS
  OneProactiveReplyPerGroup
