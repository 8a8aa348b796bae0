SPECIFICATION FairSpec
CONSTANTS
  s1 = s1
  s2 = s2
  m1 = m1
  m2 = m2
  m3 = m3
  t1 = t1
  t2 = t2
  Session = {s1, s2}
  Msg = {m1, m2, m3}
  SessionOf <- Sessions
  TextOf <- RepeatedText
  Handler = {h1, h2}
  Cleaner = Cleaner
  Stopper = Stopper
  Commands = {}
  AutoSaver = AutoSaver
  Threshold = 3
  MaxSessions = 1
  CacheSize = 1
  CacheTrim = 1
  Saving = FALSE
  NoSession = NoSession
CHECK_DEADLOCK FALSE
INVARIANTS
  LossOnlyByOverlap
  ProcessedOnce
PROPERTIES
  QueuesDrain
