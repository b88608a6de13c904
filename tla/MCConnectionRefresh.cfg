CONSTANTS
  codex = codex
  schedule = schedule
  manual = manual
  Connections = {codex}
  Requesters = {manual}
  Schedule = schedule
  Pass <- CodexPass
  Requests <- CodexRequests
  LookedUp = {codex}
  Wait <- OneUnit
  MaxClock = 1
  MaxFailures = 1
  MaxAttempts = 2
  MaxRestarts = 1

SPECIFICATION CSpec

INVARIANTS
  TypeOK
  StoreTellsTheAttempt
PROPERTIES
  ReadingsOutliveFailures
  ViewConverges
