---------------------------- MODULE MCCodexSession ----------------------------
(* Two callers of one supervisor and two children.                             *)
EXTENDS CodexSession

CONSTANTS c1, c2, free, NumSessions
MCCallers == {c1, c2}
MCSessions == 1..NumSessions
===============================================================================
