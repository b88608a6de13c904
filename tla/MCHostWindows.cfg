CONSTANTS
  None = None
  Displays <- MCDisplays
  RingOf <- MCRingOf
  PanelHeights <- MCPanelHeights
  RailHeights <- MCRailHeights
  CardHeights <- MCCardHeights
  DropPoints <- MCDropPoints
  TrayAnchors <- MCTrayAnchors
  MaxInputs = 3

SPECIFICATION WindowsSpec

INVARIANTS
  CardFollowsRail
  ClampCovers
  WindowsSettle

CHECK_DEADLOCK FALSE
