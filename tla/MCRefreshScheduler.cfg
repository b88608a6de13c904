CONSTANTS
  codex = codex
  glm = glm
  c1 = c1
  c2 = c2
  c3 = c3
  Connections = {codex}
  Callers = {c1, c2, c3}
  Cooldown = 2
  MaxBackoff = 3
  MaxClock = 3
  MaxFailures = 3

SPECIFICATION FairSpec

INVARIANTS
  TypeOK
  OneRunPerConnection
  AdmittedStillEligible
  FailuresNeverHastenRetry
PROPERTIES
  EveryCallReturns
  ImplementsConnectionRuns
