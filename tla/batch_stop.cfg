SPECIFICATION Spec
CONSTANTS
  s1 = s1
  s2 = s2
  m1 = m1
  m2 = m2
  m3 = m3
  t1 = t1
  t2 = t2
  Session = {s1}
  Msg = {m1, m2, m3}
  SessionOf <- OneSession
  TextOf <- RepeatedText
  Handler = {h1, h2}
  Cleaner = Cleaner
  Stopper = Stopper
  Commands = {}
  AutoSaver = AutoSaver
  Threshold = 2
  MaxSessions = 1
  CacheSize = 3
  CacheTrim = 1
  Saving = FALSE
  NoSession = NoSession
SYMMETRY Symmetry
CHECK_DEADLOCK FALSE
PROPERTIES
  StopProcessesRemaining
