------------------------------ MODULE MCCodexSlot -----------------------------
(* A small instance of CodexSlot for TLC.                                  *)
EXTENDS CodexSlot

CONSTANTS usual, custom, schedule, manual, notification, nobody
===============================================================================
