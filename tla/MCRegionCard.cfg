CONSTANTS
  f1 = f1
  f2 = f2
  Refreshes <- MCRefreshes
  Pass = pass
  Regions <- MCRegions
  Stored = "china"
  MaxWrites = 2
  MaxRestarts = 1

SPECIFICATION Spec

PROPERTY
  CardAnswersTheRegion
