------------------------- MODULE MCConnectionRefresh --------------------------
(* A small instance of ConnectionRefresh for TLC: passes over one          *)
(* connection and manual refreshes of it.                                  *)
EXTENDS ConnectionRefresh

CONSTANTS codex, schedule, manual

(* The cooldown is one unit; the backoff never exceeds it here.            *)
OneUnit(n) == 1

CodexPass == <<codex>>
CodexRequests == {<<codex>>}
===============================================================================
