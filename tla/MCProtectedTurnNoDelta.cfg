SPECIFICATION RivalSpec
CONSTANTS
  t1 = t1
  t2 = t2
  p1 = p1
  p2 = p2
  s1 = s1
  s2 = s2
  u1 = u1
  u2 = u2
  b1 = b1
  b2 = b2
  bad = bad
  None = None
  CompletedAt = 0
  ReleaseTimes = {0, 1}
  Turns = {t1, t2}
  Processors = {p1, p2}
  Syncs = {s1, s2}
  Units = {u1, u2}
  Structured = {t2}
  Bytes = {b1, b2, bad}
  Retainable = {b1, b2}
CHECK_DEADLOCK FALSE
INVARIANTS
  NoDeltaSurvivesRestart
