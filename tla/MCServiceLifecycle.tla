-------------------------- MODULE MCServiceLifecycle --------------------------
(* Two service processes, two launches of the host and two concurrent tasks.    *)
EXTENDS ServiceLifecycle

CONSTANTS setup, poller, NumProcs
MCProcs == 1..NumProcs
MCTasks == {setup, poller}
===============================================================================
