-------------------------- MODULE ConnectionRefresh ---------------------------
(***************************************************************************)
(* One refresh from request to screen: the service's schedule loop and its *)
(* forced requests (manual refresh, Codex notification) run connections    *)
(* through the scheduler, persist what came back in the Store and          *)
(* broadcast the stored states (run_connection_forced, refresh_all,        *)
(* refresh_provider, refresh_codex and publish of crates/usage-service).   *)
(*                                                                         *)
(* The scheduler appears as ConnectionRuns, which RefreshScheduler is      *)
(* proved to implement.  Its gate is released when refresh() returns, so   *)
(* everything from there on is ordered by nothing but the Store's mutex.   *)
(* A connection whose collector has to be looked up first (Codex) may miss *)
(* it: then nothing runs, and the miss itself is saved as a failure.  Which*)
(* look-ups miss is CodexSlot's matter; here any of them may.              *)
(***************************************************************************)
EXTENDS ConnectionRuns, Sequences

CONSTANTS
  Requesters,    \* the tasks that make forced requests
  Schedule,      \* the task that is the schedule loop
  Pass,          \* the connections of one schedule pass, in its order
  Requests,      \* the connections of each manual refresh, in their order
  LookedUp,      \* the connections whose collector is looked up before a run
  MaxClock,      \* bound: the clock stops here
  MaxFailures,   \* bound: a connection does not fail more often in a row
  MaxAttempts,   \* bound: no request is made, and no look-up misses, after so many
  MaxRestarts    \* bound: how often the service is killed and started again

Callers == Requesters \union {Schedule}

ASSUME PassAssumption ==
  /\ Schedule \notin Requesters
  /\ Pass \in Seq(Connections) /\ Pass # <<>>
  /\ Requests \subseteq Seq(Connections) \ {<<>>}
  /\ LookedUp \subseteq Connections
  /\ MaxClock \in Nat /\ MaxFailures \in Nat /\ MaxAttempts \in Nat /\ MaxRestarts \in Nat

VARIABLES
  stage,       \* where each caller is
  plan,        \* the connections it still has to deal with, its current first
  run,         \* the number of the run it started last
  counted,     \* the failure count it read before saving
  read,        \* the states it has read and not yet sent
  store,       \* the persisted row of each connection
  view,        \* the states last broadcast to the listeners
  history,     \* every attempt's connection and how it ended
  restarts

callerVars == <<stage, plan, run, counted, read>>
allVars == <<vars, callerVars, store, view, history, restarts>>

Stages == {"starting", "waiting", "looking", "asking", "running", "succeeded",
           "failed", "saving", "publishing", "sending"}

(* snapshot: the run whose reading is cached; verdict: the attempt whose   *)
(* outcome was saved last; failed: whether an error is recorded.           *)
EmptyRow == [snapshot |-> 0, verdict |-> 0, failed |-> FALSE, consecutive |-> 0]
NoView == [k \in Connections |-> EmptyRow]

CurrentOf(c) == Head(plan[c])
Goto(c, s) == stage' = [stage EXCEPT ![c] = s]

(* The schedule begins once the service has started; nobody else is there. *)
StageAtStart == [c \in Callers |-> IF c = Schedule THEN "starting" ELSE "waiting"]

(* Where a caller begins with the next connection it has to deal with.     *)
StageFor(asked) ==
  IF asked = <<>> THEN "publishing"
  ELSE IF Head(asked) \in LookedUp THEN "looking" ELSE "asking"

CInit ==
  /\ Init
  /\ stage = StageAtStart
  /\ plan = [c \in Callers |-> <<>>]
  /\ run = [c \in Callers |-> 0]
  /\ counted = [c \in Callers |-> 0]
  /\ read = [c \in Callers |-> NoView]
  /\ store = NoView
  /\ view = NoView
  /\ history = <<>>
  /\ restarts = 0

-------------------------------------------------------------------------------
(* The row save_failure writes: the cached reading stays.                  *)
RowDroppingSnapshot(row, r, n) ==
  [snapshot |-> 0, verdict |-> r, failed |-> TRUE, consecutive |-> n]

RowAfterFailure(row, r, n) ==
  [row EXCEPT !.verdict = r, !.failed = TRUE, !.consecutive = n]

(* A look-up that found no CLI is an attempt without a run, saved as the   *)
(* first failure of its connection; a write that fails is ignored.         *)
Missed(k) ==
  /\ Len(history) < MaxAttempts
  /\ history' = Append(history, [key |-> k, result |-> "miss"])
  /\ store' \in {store, [store EXCEPT ![k] = RowAfterFailure(@, Len(history) + 1, 1)]}

EndOfConnectionAskingOn(c) ==
  /\ plan' = [plan EXCEPT ![c] = Tail(@)]
  /\ run' = [run EXCEPT ![c] = 0] /\ counted' = [counted EXCEPT ![c] = 0]
  /\ Goto(c, "asking")

EndOfConnectionPublishingOnRequest(c) ==
  /\ plan' = [plan EXCEPT ![c] = Tail(@)]
  /\ run' = [run EXCEPT ![c] = 0] /\ counted' = [counted EXCEPT ![c] = 0]
  /\ Goto(c, IF Tail(plan[c]) = <<>> /\ c = Schedule THEN "waiting" ELSE StageFor(Tail(plan[c])))

(* A caller done with one connection goes on with the next; after the last *)
(* one it publishes.                                                       *)
EndOfConnection(c) ==
  /\ plan' = [plan EXCEPT ![c] = Tail(@)]
  /\ run' = [run EXCEPT ![c] = 0] /\ counted' = [counted EXCEPT ![c] = 0]
  /\ Goto(c, StageFor(Tail(plan[c])))

-------------------------------------------------------------------------------
(* Asking for a run: the collector first, then the scheduler.              *)

Ask(c, asked, first) ==
  /\ stage[c] = "waiting"
  /\ plan' = [plan EXCEPT ![c] = asked]
  /\ Goto(c, first)
  /\ UNCHANGED <<vars, run, counted, read, store, view, history, restarts>>

(* start_service looks for the CLI once, before the schedule and the first *)
(* request.                                                                *)
StartUp ==
  /\ stage[Schedule] = "starting"
  /\ \/ UNCHANGED <<store, history>>
     \/ \E k \in LookedUp : Missed(k)
  /\ Goto(Schedule, "waiting")
  /\ UNCHANGED <<vars, plan, run, counted, read, view, restarts>>

(* refresh_all, once a minute.                                             *)
StartPass == Ask(Schedule, Pass, StageFor(Pass))

(* Requests are served once the service has started.                       *)
MayAsk == stage[Schedule] # "starting" /\ Len(history) < MaxAttempts

(* refresh_provider: a manual refresh.                                     *)
Request(c, asked) == MayAsk /\ Ask(c, asked, StageFor(asked))

(* The rate-limit notification brings the collector that sent it along.    *)
Notified(c, k) == MayAsk /\ Ask(c, <<k>>, "asking")

(* codex_collector returns a collector ...                                 *)
Found(c) ==
  /\ stage[c] = "looking"
  /\ Goto(c, "asking")
  /\ UNCHANGED <<vars, plan, run, counted, read, store, view, history, restarts>>

(* ... or has looked in vain: nothing is run for this connection, and the  *)
(* caller goes on ...                                                      *)
FindsNothing(c) ==
  /\ stage[c] = "looking"
  /\ Missed(CurrentOf(c))
  /\ EndOfConnection(c)
  /\ UNCHANGED <<vars, read, view, restarts>>

(* ... or an earlier look-up had, and only a manual refresh looks again.   *)
NothingToUse(c) ==
  /\ stage[c] = "looking" /\ c = Schedule
  /\ EndOfConnection(c)
  /\ UNCHANGED <<vars, read, store, view, history, restarts>>

(* refresh() starts the run; only refresh_all's calls are not forced.      *)
RunStarts(c) ==
  /\ stage[c] = "asking"
  /\ Start(CurrentOf(c), c # Schedule)
  /\ history' = Append(history, [key |-> CurrentOf(c), result |-> "none"])
  /\ run' = [run EXCEPT ![c] = Len(history) + 1]
  /\ Goto(c, "running")
  /\ UNCHANGED <<plan, counted, read, store, view, restarts>>

(* The run succeeds, fails or times out, and refresh() returns.            *)
RunEnds(c, succeeded) ==
  /\ stage[c] = "running"
  /\ succeeded \/ failures[CurrentOf(c)] < MaxFailures
  /\ End(CurrentOf(c), succeeded)
  /\ history' = [history EXCEPT ![run[c]].result = IF succeeded THEN "success" ELSE "failure"]
  /\ Goto(c, IF succeeded THEN "succeeded" ELSE "failed")
  /\ UNCHANGED <<plan, run, counted, read, store, view, restarts>>

-------------------------------------------------------------------------------
(* What becomes of the outcome, with the gate already released.            *)

RowKeepingError(row, r) == [row EXCEPT !.snapshot = r, !.verdict = r]

(* The row save_success writes: the reading, and the failure cleared.      *)
RowAfterSuccess(row, r) ==
  [snapshot |-> r, verdict |-> r, failed |-> FALSE, consecutive |-> 0]

(* A cooldown is not an attempt: nothing is written.                       *)
CoolDown(c) ==
  /\ stage[c] = "asking" /\ c = Schedule
  /\ ~Eligible(CurrentOf(c))
  /\ EndOfConnection(c)
  /\ UNCHANGED <<vars, read, store, view, history, restarts>>

SaveSuccess(c) ==
  /\ stage[c] = "succeeded"
  /\ store' = [store EXCEPT ![CurrentOf(c)] = RowAfterSuccess(@, run[c])]
  /\ EndOfConnection(c)
  /\ UNCHANGED <<vars, read, view, history, restarts>>

(* consecutive_failures(key) is awaited before the row is written.         *)
ReadFailures(c) ==
  /\ stage[c] = "failed"
  /\ counted' = [counted EXCEPT ![c] = failures[CurrentOf(c)]]
  /\ Goto(c, "saving")
  /\ UNCHANGED <<vars, plan, run, read, store, view, history, restarts>>

SaveFailure(c) ==
  /\ stage[c] = "saving"
  /\ store' = [store EXCEPT ![CurrentOf(c)] = RowAfterFailure(@, run[c], counted[c])]
  /\ EndOfConnection(c)
  /\ UNCHANGED <<vars, read, view, history, restarts>>

(* A failed write is ignored.                                              *)
SaveNothing(c) ==
  /\ stage[c] \in {"succeeded", "saving"}
  /\ EndOfConnection(c)
  /\ UNCHANGED <<vars, read, store, view, history, restarts>>

(* publish: the states are read under the store's mutex ...                *)
PublishRead(c) ==
  /\ stage[c] = "publishing"
  /\ read' = [read EXCEPT ![c] = store]
  /\ Goto(c, "sending")
  /\ UNCHANGED <<vars, plan, run, counted, store, view, history, restarts>>

(* ... which may fail: then nothing is sent ...                            *)
PublishNothing(c) ==
  /\ stage[c] = "publishing"
  /\ Goto(c, "waiting")
  /\ UNCHANGED <<vars, plan, run, counted, read, store, view, history, restarts>>

(* ... and sent after it was released.                                     *)
PublishSend(c) ==
  /\ stage[c] = "sending"
  /\ view' = read[c]
  /\ read' = [read EXCEPT ![c] = NoView]
  /\ Goto(c, "waiting")
  /\ UNCHANGED <<vars, plan, run, counted, store, history, restarts>>

-------------------------------------------------------------------------------
(* The HTTP client of a manual refresh goes away: its handler is dropped   *)
(* at whatever await it had reached, with what it still had to do.         *)
Disconnect(c) ==
  /\ \/ stage[c] \in {"looking", "asking", "failed"} /\ UNCHANGED vars
     \/ stage[c] = "running" /\ Abandon(CurrentOf(c))
  /\ plan' = [plan EXCEPT ![c] = <<>>]
  /\ run' = [run EXCEPT ![c] = 0]
  /\ Goto(c, "waiting")
  /\ UNCHANGED <<counted, read, store, view, history, restarts>>

(* The service is killed and started again: the store survives, the        *)
(* scheduler's clocks, the callers and the listeners' stream do not.       *)
Restart ==
  /\ restarts < MaxRestarts
  /\ restarts' = restarts + 1
  /\ active' = {} /\ attempted' = {}
  /\ last' = [k \in Connections |-> 0]
  /\ failures' = [k \in Connections |-> 0]
  /\ stage' = StageAtStart
  /\ plan' = [c \in Callers |-> <<>>]
  /\ run' = [c \in Callers |-> 0]
  /\ counted' = [c \in Callers |-> 0]
  /\ read' = [c \in Callers |-> NoView]
  /\ view' = NoView
  /\ UNCHANGED <<now, store, history>>

Tick ==
  /\ now < MaxClock
  /\ now' = now + 1
  /\ Advance
  /\ UNCHANGED <<callerVars, store, view, history, restarts>>

CallerStep(c) ==
  \/ Found(c)
  \/ FindsNothing(c)
  \/ NothingToUse(c)
  \/ RunStarts(c)
  \/ \E succeeded \in BOOLEAN : RunEnds(c, succeeded)
  \/ CoolDown(c)
  \/ SaveSuccess(c)
  \/ ReadFailures(c)
  \/ SaveFailure(c)
  \/ SaveNothing(c)
  \/ PublishRead(c)
  \/ PublishNothing(c)
  \/ PublishSend(c)

CNext ==
  \/ StartUp
  \/ StartPass
  \/ \E c \in Requesters :
       \/ \E asked \in Requests : Request(c, asked)
       \/ \E k \in LookedUp : Notified(c, k)
       \/ Disconnect(c)
  \/ \E c \in Callers : CallerStep(c)
  \/ Tick
  \/ Restart

(* The schedule loop starts a pass every minute for as long as the service *)
(* lives, and tasks are polled; nobody has to ask for a manual refresh.    *)
(* The gate of a connection is granted in the order of arrival, so a       *)
(* caller is not overtaken for ever (EveryCallReturns of the scheduler).   *)
(* The database does not refuse every single read of the schedule's.       *)
CFairness ==
  /\ WF_allVars(StartUp) /\ WF_allVars(StartPass)
  /\ \A c \in Callers : SF_allVars(CallerStep(c))
  /\ SF_allVars(PublishRead(Schedule))

CSpec == CInit /\ [][CNext]_allVars /\ CFairness

-------------------------------------------------------------------------------
(* Properties.                                                             *)

RowOK(row) ==
  /\ row.snapshot \in 0..Len(history) /\ row.verdict \in 0..Len(history)
  /\ row.failed \in BOOLEAN /\ row.consecutive \in Nat

(* Every variable keeps its type.                                          *)
TypeOK ==
  /\ now \in Nat /\ active \subseteq Connections /\ attempted \subseteq Connections
  /\ last \in [Connections -> Nat] /\ failures \in [Connections -> Nat]
  /\ stage \in [Callers -> Stages]
  /\ plan \in [Callers -> Seq(Connections)]
  /\ \A c \in Callers :
       (plan[c] = <<>>) <=> (stage[c] \in {"starting", "waiting", "publishing", "sending"})
  /\ run \in [Callers -> 0..Len(history)]
  /\ counted \in [Callers -> Nat]
  /\ history \in Seq([key : Connections, result : {"none", "success", "failure", "miss"}])
  /\ \A k \in Connections : RowOK(store[k]) /\ RowOK(view[k])
  /\ \A c \in Callers, k \in Connections : RowOK(read[c][k])

(* The cached reading is always that of a run which succeeded, and a       *)
(* recorded verdict always that of an attempt of the same connection which *)
(* ended that way, by a run or for want of a CLI to run: a cancelled run,  *)
(* a restart or a caller overtaken by another leaves no invented row.      *)
StoreTellsTheAttempt ==
  \A k \in Connections :
    LET row == store[k] IN
    /\ row.snapshot # 0 => history[row.snapshot] = [key |-> k, result |-> "success"]
    /\ row.verdict # 0 =>
         /\ history[row.verdict].key = k
         /\ history[row.verdict].result \in IF row.failed THEN {"failure", "miss"} ELSE {"success"}

(* A failed refresh never overwrites the last successful snapshot, and a   *)
(* recorded failure goes away only together with a new reading, whatever   *)
(* restarts and overtaking callers come between.                           *)
ReadingsOutliveFailures ==
  [][\A k \in Connections :
       /\ store'[k].failed => store'[k].snapshot = store[k].snapshot
       /\ store[k].failed /\ ~store'[k].failed =>
            store'[k].snapshot # store[k].snapshot]_allVars

(* Once no new run is stored, every listener ends up with exactly what is  *)
(* stored: a publisher that read the states before somebody else's save    *)
(* and sent them after it is always followed by another one.               *)
ViewConverges == <>[](view = store)

(* What is stored of a connection never goes back to an older attempt: the *)
(* verdict a card shows stays that of the newest attempt saved.            *)
VerdictsNeverGoBack ==
  [][\A k \in Connections : store'[k].verdict >= store[k].verdict]_allVars
===============================================================================
