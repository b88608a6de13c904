CONSTANTS
  panel = panel
  settings = settings
  menu = menu
  t1 = t1
  t2 = t2
  Windows <- MCWindows
  Tray = menu
  Tasks <- MCTasks
  Patches <- MCPatches
  Values <- MCValues
  Default <- MCDefault
  MaxOps = 3
  MaxRestarts = 1

SPECIFICATION Spec
SYMMETRY MCSymmetry

INVARIANTS
  MemoryIsStored
  LoneWriteHeals
  TrayAgrees
CHECK_DEADLOCK FALSE
