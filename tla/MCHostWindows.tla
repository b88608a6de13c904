---------------------------- MODULE MCHostWindows -----------------------------
(* A main display and a smaller one to its right and lower, two rings, and *)
(* drops that straddle, hang over and leave the displays.                  *)
EXTENDS HostWindows

Main == [bounds |-> Rect(0, 0, 1440, 900), work |-> Rect(0, 25, 1440, 875)]
Side == [bounds |-> Rect(1440, 200, 800, 600), work |-> Rect(1440, 200, 800, 600)]

MCDisplays == <<Main, Side>>
MCRingOf == [codex |-> 0, glm |-> 1]
MCPanelHeights == {300, 560}
MCRailHeights == {150, 230}
MCCardHeights == [codex |-> {400}, glm |-> {320, 400}]
MCDropPoints == {[x |-> 1420, y |-> 300], [x |-> 100, y |-> 840]}
MCTrayAnchors == {[x |-> 1300, y |-> 0]}
===============================================================================
