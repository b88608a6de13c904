------------------------------ MODULE MCPanelFeed -----------------------------
(* A page with one stream, or the app's panel with the host's events.      *)
EXTENDS PanelFeed

MCStreams == {"panel"}
MCClicks == {"click"}
===============================================================================
