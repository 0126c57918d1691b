SPECIFICATION MCSpec
CONSTANTS
  Turns = {1}
  RehearsalTurn = 1
  Handlers = {h1, h2}
  h1 = h1
  h2 = h2
  RaceTurns = {1}
  MaxRaised = 1
  None = None
  CorrectiveTurns = {t1, t2}
  Callers = {h1, h2}
  t1 = t1
  t2 = t2
  MaxDenied = 1
  MaxReports = 3
  NoTurn = NoTurn
CHECK_DEADLOCK FALSE
INVARIANTS
  ModesDoNotCoexist
