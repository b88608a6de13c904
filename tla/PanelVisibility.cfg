CONSTANTS
  MaxGeneration = 4
  MaxHeaderGeneration = 5

SPECIFICATION Spec

INVARIANT
  HeaderAgrees
PROPERTY
  HideCompletes
