CONSTANTS
  DayLength = 2
  Zones = {0, 1}
  Totals = {1, 2, 3}
  MaxClock = 4
  MaxSamples = 3
  MaxStepsBack = 1

SPECIFICATION Spec

INVARIANTS
  TypeOK
  ClosedDaysAreSettled
PROPERTY
  EstimateNeverShrinks
