--------------------------- MODULE RefreshScheduler ---------------------------
(***************************************************************************)
(* Connection-level refresh scheduling: RefreshScheduler::refresh of       *)
(* crates/usage-core/src/scheduler.rs, one action per stretch of code      *)
(* between two awaits that another task can observe.                       *)
(*                                                                         *)
(* A caller is a task awaiting `refresh(key, force, task)`: the service's  *)
(* schedule loop (not forced), a manual refresh handler or the Codex       *)
(* rate-limit notification (forced).  A slot is the tokio mutex of one     *)
(* connection; tokio grants it first come, first served, so it is the      *)
(* sequence of its holder followed by its waiters.                         *)
(***************************************************************************)
EXTENDS Integers, Sequences

CONSTANTS
  Connections,   \* connection keys
  Callers,       \* tasks that may be inside refresh() at one time
  Cooldown,      \* RefreshPolicy::cooldown, in clock units
  MaxBackoff,    \* RefreshPolicy::max_backoff, in clock units
  MaxClock,      \* bound: the clock stops here
  MaxFailures    \* bound: a run does not fail more often than this in a row

ASSUME ConstantsAssumption ==
  /\ Cooldown \in Nat
  /\ MaxBackoff \in Nat
  /\ MaxClock \in Nat
  /\ MaxFailures \in Nat

VARIABLES
  now,        \* the scheduler's wall clock
  attempted,  \* the keys of the `state` map
  last,       \* ConnectionState::last_attempt_at_ms (0 without an entry)
  failures,   \* ConnectionState::consecutive_failures (0 without an entry)
  slot,       \* the `in_flight` map: holder and waiters of each key's mutex
  pc,         \* where each caller is inside refresh()
  job,        \* the (key, force) arguments of each caller
  outcome     \* what refresh() is about to return to each caller

vars == <<now, attempted, last, failures, slot, pc, job, outcome>>
attemptState == <<attempted, last, failures>>

Jobs == [key : Connections, force : BOOLEAN]
NoJob == [key |-> "none", force |-> FALSE]
Results == {"success", "failure"}
Outcomes == Results \union {"cooldown", "none"}
Phases == {"idle", "entered", "joining", "queued", "admitted", "running", "returned"}

(* The phases in which the caller holds its connection's gate.             *)
Holding == {"admitted", "running"}

KeyOf(c) == job[c].key

-------------------------------------------------------------------------------
(* The clock rules: backoff() and wait_required().                         *)

Least(a, b) == IF a <= b THEN a ELSE b
Greatest(a, b) == IF a <= b THEN b ELSE a

(* Exponential growth in whole units, its exponent capped at 10.           *)
Backoff(n) ==
  IF n = 0 THEN 0 ELSE Least(2 ^ Least(n - 1, 10), MaxBackoff)

RequiredWaitIgnoringCooldown(n) == IF n > 0 THEN Backoff(n) ELSE Cooldown

RequiredWait(n) ==
  IF n > 0 THEN Greatest(Backoff(n), Cooldown) ELSE Cooldown

Eligible(k) == k \in attempted => now >= last[k] + RequiredWait(failures[k])

MayProceed(c) == job[c].force \/ Eligible(KeyOf(c))

-------------------------------------------------------------------------------
(* The gate of a connection.                                               *)

InSlot(c) == \E i \in 1..Len(slot[KeyOf(c)]) : slot[KeyOf(c)][i] = c

HoldsGateIfWaiting(c) == InSlot(c)

HoldsGate(c) == slot[KeyOf(c)] # <<>> /\ Head(slot[KeyOf(c)]) = c

Without(s, i) == SubSeq(s, 1, i - 1) \o SubSeq(s, i + 1, Len(s))

(* The caller's future stops waiting for, or drops, the gate.              *)
LeaveSlot(c) ==
  IF InSlot(c)
  THEN \E i \in 1..Len(slot[KeyOf(c)]) :
         /\ slot[KeyOf(c)][i] = c
         /\ slot' = [slot EXCEPT ![KeyOf(c)] = Without(@, i)]
  ELSE UNCHANGED slot

ReleaseGate(c) == slot' = [slot EXCEPT ![KeyOf(c)] = Tail(@)]

ReturnTo(c, o) ==
  /\ pc' = [pc EXCEPT ![c] = "returned"]
  /\ outcome' = [outcome EXCEPT ![c] = o]

-------------------------------------------------------------------------------
Init ==
  /\ now = 0
  /\ attempted = {}
  /\ last = [k \in Connections |-> 0]
  /\ failures = [k \in Connections |-> 0]
  /\ slot = [k \in Connections |-> <<>>]
  /\ pc = [c \in Callers |-> "idle"]
  /\ job = [c \in Callers |-> NoJob]
  /\ outcome = [c \in Callers |-> "none"]

(* A task calls refresh(key, force, task).                                 *)
Call(c, k, force) ==
  /\ pc[c] = "idle"
  /\ pc' = [pc EXCEPT ![c] = "entered"]
  /\ job' = [job EXCEPT ![c] = [key |-> k, force |-> force]]
  /\ UNCHANGED <<now, attemptState, slot, outcome>>

(* The fast path: the cooldown is checked before the slot is touched.      *)
FastPath(c) ==
  /\ pc[c] = "entered"
  /\ \/ /\ MayProceed(c)
        /\ pc' = [pc EXCEPT ![c] = "joining"]
        /\ UNCHANGED outcome
     \/ /\ ~MayProceed(c)
        /\ ReturnTo(c, "cooldown")
  /\ UNCHANGED <<now, attemptState, slot, job>>

(* The caller finds or creates the slot and starts waiting for its mutex.  *)
JoinSlot(c) ==
  /\ pc[c] = "joining"
  /\ slot' = [slot EXCEPT ![KeyOf(c)] = Append(@, c)]
  /\ pc' = [pc EXCEPT ![c] = "queued"]
  /\ UNCHANGED <<now, attemptState, job, outcome>>

RecheckOnlyOnFastPath(c) ==
  /\ pc[c] = "queued"
  /\ HoldsGate(c)
  /\ pc' = [pc EXCEPT ![c] = "admitted"]
  /\ UNCHANGED <<now, attemptState, slot, job, outcome>>

RecheckKeepingGate(c) ==
  /\ pc[c] = "queued"
  /\ HoldsGate(c)
  /\ \/ /\ MayProceed(c)
        /\ pc' = [pc EXCEPT ![c] = "admitted"]
        /\ UNCHANGED <<slot, outcome>>
     \/ /\ ~MayProceed(c)
        /\ ReturnTo(c, "cooldown")
        /\ UNCHANGED slot
  /\ UNCHANGED <<now, attemptState, job>>

(* With the gate held the cooldown is checked again: the run this caller   *)
(* waited for may have just started the cooldown window.                   *)
Recheck(c) ==
  /\ pc[c] = "queued"
  /\ HoldsGate(c)
  /\ \/ /\ MayProceed(c)
        /\ pc' = [pc EXCEPT ![c] = "admitted"]
        /\ UNCHANGED <<slot, outcome>>
     \/ /\ ~MayProceed(c)
        /\ ReleaseGate(c)
        /\ ReturnTo(c, "cooldown")
  /\ UNCHANGED <<now, attemptState, job>>

(* The attempt is stamped and the task starts under its timeout.           *)
BeginRun(c) ==
  /\ pc[c] = "admitted"
  /\ attempted' = attempted \union {KeyOf(c)}
  /\ last' = [last EXCEPT ![KeyOf(c)] = now]
  /\ pc' = [pc EXCEPT ![c] = "running"]
  /\ UNCHANGED <<now, failures, slot, job, outcome>>

CountByDecrement(n, result) == IF result = "success" THEN n - 1 ELSE n + 1

CountAfter(n, result) == IF result = "success" THEN 0 ELSE n + 1

(* The task finished, or its timeout elapsed (a failure like any other):   *)
(* the counter is written, the gate drops and the outcome is returned.     *)
FinishRun(c, result) ==
  LET k == KeyOf(c) IN
  /\ pc[c] = "running"
  /\ result = "failure" => failures[k] < MaxFailures
  /\ attempted' = attempted \union {k}
  /\ failures' = [failures EXCEPT ![k] = CountAfter(@, result)]
  /\ ReleaseGate(c)
  /\ ReturnTo(c, result)
  /\ UNCHANGED <<now, last, job>>

(* The caller has its outcome and may call again.                          *)
Return(c) ==
  /\ pc[c] = "returned"
  /\ pc' = [pc EXCEPT ![c] = "idle"]
  /\ job' = [job EXCEPT ![c] = NoJob]
  /\ outcome' = [outcome EXCEPT ![c] = "none"]
  /\ UNCHANGED <<now, attemptState, slot>>

(* The caller's future is dropped at an await (the HTTP client of a manual *)
(* refresh went away): its place in the slot, its gate and its run go with *)
(* it, and nothing it did is undone.                                       *)
Cancel(c) ==
  /\ pc[c] \in {"entered", "joining", "queued", "admitted", "running"}
  /\ LeaveSlot(c)
  /\ pc' = [pc EXCEPT ![c] = "idle"]
  /\ job' = [job EXCEPT ![c] = NoJob]
  /\ UNCHANGED <<now, attemptState, outcome>>

(* reset_failures: only a connection the map knows has a counter.          *)
ResetFailures(k) ==
  /\ k \in attempted
  /\ failures' = [failures EXCEPT ![k] = 0]
  /\ UNCHANGED <<now, attempted, last, slot, pc, job, outcome>>

(* on_date_change: the whole state map is cleared, running or not.         *)
OnDateChange ==
  /\ attempted' = {}
  /\ last' = [k \in Connections |-> 0]
  /\ failures' = [k \in Connections |-> 0]
  /\ UNCHANGED <<now, slot, pc, job, outcome>>

Tick ==
  /\ now < MaxClock
  /\ now' = now + 1
  /\ UNCHANGED <<attemptState, slot, pc, job, outcome>>

(* One step of a caller that is inside refresh(), whichever comes next.    *)
Proceed(c) ==
  \/ FastPath(c)
  \/ JoinSlot(c)
  \/ Recheck(c)
  \/ BeginRun(c)
  \/ \E result \in Results : FinishRun(c, result)

Next ==
  \/ \E c \in Callers :
       \/ \E k \in Connections, force \in BOOLEAN : Call(c, k, force)
       \/ Proceed(c)
       \/ Return(c)
       \/ Cancel(c)
  \/ \E k \in Connections : ResetFailures(k)
  \/ OnDateChange
  \/ Tick

(* The runtime polls every ready task, and the timeout ends every run.     *)
Fairness == \A c \in Callers : WF_vars(Proceed(c) \/ Return(c))

Spec == Init /\ [][Next]_vars

FairSpec == Spec /\ Fairness

-------------------------------------------------------------------------------
(* Properties.                                                             *)

(* Every variable keeps its type.                                          *)
TypeOK ==
  /\ now \in Nat
  /\ attempted \in SUBSET Connections
  /\ last \in [Connections -> Nat]
  /\ failures \in [Connections -> Nat]
  /\ slot \in [Connections -> Seq(Callers)]
  /\ pc \in [Callers -> Phases]
  /\ job \in [Callers -> Jobs \union {NoJob}]
  /\ \A c \in Callers : pc[c] # "idle" => job[c] \in Jobs
  /\ outcome \in [Callers -> Outcomes]

(* One in-flight refresh per connection: whatever the mix of forced,       *)
(* scheduled, waiting and cancelled callers, no two of them run their task *)
(* for the same connection at the same time.                               *)
OneRunPerConnection ==
  \A c, d \in Callers :
    /\ pc[c] = "running" /\ pc[d] = "running"
    /\ KeyOf(c) = KeyOf(d)
    => c = d

(* The check made under the gate is not stale when it is used: a caller    *)
(* that is about to start a run without force is still eligible, whatever  *)
(* other callers, resets and date changes did since it checked.            *)
AdmittedStillEligible ==
  \A c \in Callers : pc[c] = "admitted" => MayProceed(c)

(* Backoff never makes a failing connection retry sooner than a healthy    *)
(* one: the first backoffs are shorter than the cooldown, and the longer   *)
(* of the two counts.                                                      *)
FailuresNeverHastenRetry ==
  \A k \in attempted : now < last[k] + Cooldown => ~Eligible(k)

(* Every call returns: neither a queue of forced callers nor a caller that *)
(* went away while it held the gate keeps another one waiting for ever.    *)
EveryCallReturns ==
  \A c \in Callers : pc[c] # "idle" ~> pc[c] = "idle"

Runs == INSTANCE ConnectionRuns
  WITH active <- {KeyOf(c) : c \in {d \in Callers : pc[d] = "running"}},
       Wait <- RequiredWait

(* The scheduler implements ConnectionRuns: one run at a time, started     *)
(* only when the promised wait has passed or when forced, each verdict     *)
(* counted once.                                                           *)
ImplementsConnectionRuns == Runs!Spec
===============================================================================
