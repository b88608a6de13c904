-------------------------- MODULE MCRefreshScheduler --------------------------
(* Small instances of RefreshScheduler for TLC.                            *)
EXTENDS RefreshScheduler

CONSTANTS codex, glm, c1, c2, c3
===============================================================================
