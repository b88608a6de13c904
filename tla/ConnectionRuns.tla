---------------------------- MODULE ConnectionRuns ----------------------------
(***************************************************************************)
(* What the refresh scheduler promises, without callers, slots or gates:   *)
(* each connection is either idle or has one run in flight; a run that was *)
(* not forced starts only when the connection's wait has passed since the  *)
(* previous attempt; the wait grows with consecutive failures, and one     *)
(* success ends the streak.  RefreshScheduler is shown to implement it.    *)
(***************************************************************************)
EXTENDS Integers

CONSTANTS
  Connections,   \* connection keys ("codex:account", "glm:quota", ...)
  Wait(_)        \* the promised wait after an attempt, by consecutive failures

VARIABLES
  now,           \* the wall clock
  active,        \* the connections with a run in flight
  attempted,     \* the connections with a recorded attempt
  last,          \* when the recorded attempt started
  failures       \* consecutive failures since the last success

vars == <<now, active, attempted, last, failures>>

Init ==
  /\ now = 0
  /\ active = {}
  /\ attempted = {}
  /\ last = [k \in Connections |-> 0]
  /\ failures = [k \in Connections |-> 0]

Eligible(k) == k \in attempted => now >= last[k] + Wait(failures[k])

(* The clock only moves forward.                                           *)
Advance ==
  /\ now' > now
  /\ UNCHANGED <<active, attempted, last, failures>>

Start(k, forced) ==
  /\ k \notin active
  /\ forced \/ Eligible(k)
  /\ active' = active \union {k}
  /\ attempted' = attempted \union {k}
  /\ last' = [last EXCEPT ![k] = now]
  /\ UNCHANGED <<now, failures>>

(* A run that ends is recorded even when the clocks were cleared under it. *)
End(k, succeeded) ==
  /\ k \in active
  /\ active' = active \ {k}
  /\ attempted' = attempted \union {k}
  /\ failures' = [failures EXCEPT ![k] = IF succeeded THEN 0 ELSE @ + 1]
  /\ UNCHANGED <<now, last>>

(* A caller that goes away takes its run with it and leaves no verdict.    *)
Abandon(k) ==
  /\ k \in active
  /\ active' = active \ {k}
  /\ UNCHANGED <<now, attempted, last, failures>>

ForgetFailures(k) ==
  /\ failures' = [failures EXCEPT ![k] = 0]
  /\ UNCHANGED <<now, active, attempted, last>>

ForgetAll ==
  /\ attempted' = {}
  /\ last' = [k \in Connections |-> 0]
  /\ failures' = [k \in Connections |-> 0]
  /\ UNCHANGED <<now, active>>

Next ==
  \/ Advance
  \/ ForgetAll
  \/ \E k \in Connections :
       \/ \E forced \in BOOLEAN : Start(k, forced)
       \/ \E succeeded \in BOOLEAN : End(k, succeeded)
       \/ Abandon(k)
       \/ ForgetFailures(k)

Spec == Init /\ [][Next]_vars
===============================================================================
