CONSTANTS
  c1 = c1
  c2 = c2
  free = free
  NumSessions = 2
  Callers <- MCCallers
  Sessions <- MCSessions
  MaxCalls = 1
  MaxAttempts = 1
  NoLock = free
SPECIFICATION Spec
INVARIANTS
  TypeOK
  AnswersMatch
  OneSession
PROPERTY EveryCallReturns
CHECK_DEADLOCK FALSE
