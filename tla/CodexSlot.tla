------------------------------- MODULE CodexSlot ------------------------------
(***************************************************************************)
(* The Codex collector of the CLI path in effect: CodexSlot::resolve and   *)
(* shutdown-on-replace (crates/usage-service/src/lib.rs), the callers that *)
(* collect with what it gives them (codex_collector, refresh_codex,        *)
(* wire_codex_rate_limits of api.rs), and the app-server session each      *)
(* collector's supervisor opens and reopens (adapters/codex/json_rpc.rs).  *)
(*                                                                         *)
(* A collector is numbered as it is built.  Its session is a child process *)
(* that its supervisor starts on demand, whether or not the slot still     *)
(* owns the collector.                                                     *)
(***************************************************************************)
EXTENDS Integers, Sequences

CONSTANTS
  Paths,          \* values of the stored CLI path
  Requesters,     \* manual refreshes, dropped when their client goes away
  Schedule,       \* the schedule loop
  Notifier,       \* the task a rate-limit notification spawns
  Nobody,
  MaxChanges,     \* bound: how often the stored path changes
  MaxCollectors   \* bound: how many collectors are built

Resolvers == Requesters \union {Schedule}
Callers == Resolvers \union {Notifier}

ASSUME CallersAssumption ==
  /\ Nobody \notin Callers
  /\ Schedule \notin Requesters /\ Notifier \notin Resolvers
  /\ Paths \intersect {"never", "none"} = {}
  /\ MaxChanges \in Nat /\ MaxCollectors \in Nat

VARIABLES
  setting,     \* the stored CLI path
  changes,
  lock,        \* who holds the slot's mutex
  resolved,    \* CodexSlotState::resolved
  current,     \* CodexSlotState::collector (0 for none)
  program,     \* the path each collector was built for
  wired,       \* the collectors whose notification is wired
  sessions,    \* the collectors with a live child process
  gate,        \* whose run of codex:account is in flight
  failing,     \* whether the stored verdict of codex:account is a failure
  call         \* each caller: where it is, the path it read before it asked
               \* for the slot, the collector it works with (0 for none)

settingVars == <<setting, changes>>
slotVars == <<lock, resolved, current, program, wired>>
vars == <<settingVars, slotVars, sessions, gate, failing, call>>

Stages == {"idle", "asked", "closing", "looking", "fresh", "missing", "ready",
           "running", "succeeded", "failed"}
Idle == [at |-> "idle", path |-> "none", codex |-> 0]

At(c, s) == call[c].at = s
Goto(c, s) == call' = [call EXCEPT ![c].at = s]
GotoWith(c, s, n) == call' = [call EXCEPT ![c].at = s, ![c].codex = n]
Return(c) == call' = [call EXCEPT ![c] = Idle]

Init ==
  /\ setting \in Paths /\ changes = 0
  /\ lock = Nobody /\ resolved = "never" /\ current = 0
  /\ program = <<>> /\ wired = {}
  /\ sessions = {} /\ gate = Nobody /\ failing = FALSE
  /\ call = [c \in Callers |-> Idle]

(* update_settings stores another path.                                    *)
ChangePath(p) ==
  /\ p # setting /\ changes < MaxChanges
  /\ setting' = p /\ changes' = changes + 1
  /\ UNCHANGED <<slotVars, sessions, gate, failing, call>>

-------------------------------------------------------------------------------
(* CodexSlot::resolve.                                                     *)

(* codex_collector reads the stored path before it asks for the slot.      *)
ReadPath(c) ==
  /\ At(c, "idle")
  /\ call' = [call EXCEPT ![c] = [at |-> "asked", path |-> setting, codex |-> 0]]
  /\ UNCHANGED <<settingVars, slotVars, sessions, gate, failing>>

LookAgainOnlyOnce(c) ==
  \/ resolved = "never"
  \/ c # Schedule /\ current = 0

(* Forced, as every resolver but the schedule is, only counts while there  *)
(* is nothing to use.                                                      *)
LookAgain(c) ==
  \/ resolved = "never"
  \/ resolved # call[c].path
  \/ c # Schedule /\ current = 0

Reuse(c) ==
  /\ At(c, "asked") /\ lock = Nobody
  /\ ~LookAgain(c)
  /\ IF current = 0 THEN Return(c) ELSE GotoWith(c, "ready", current)
  /\ UNCHANGED <<settingVars, slotVars, sessions, gate, failing>>

TakeOldLeavingIt(c) ==
  /\ At(c, "asked") /\ lock = Nobody
  /\ LookAgain(c)
  /\ lock' = c
  /\ GotoWith(c, "closing", current)
  /\ UNCHANGED <<settingVars, resolved, current, program, wired, sessions, gate, failing>>

(* The old collector is taken out of the slot ...                          *)
TakeOld(c) ==
  /\ At(c, "asked") /\ lock = Nobody
  /\ LookAgain(c)
  /\ lock' = c
  /\ GotoWith(c, "closing", current)
  /\ current' = 0
  /\ UNCHANGED <<settingVars, resolved, program, wired, sessions, gate, failing>>

CloseOldForgettingPath(c) ==
  /\ At(c, "closing")
  /\ sessions' = sessions \ {call[c].codex}
  /\ GotoWith(c, "looking", 0)
  /\ resolved' = "none"
  /\ UNCHANGED <<settingVars, lock, current, program, wired, gate, failing>>

(* ... its session is closed, and the path counts as resolved before the   *)
(* look-up has an answer.                                                  *)
CloseOld(c) ==
  /\ At(c, "closing")
  /\ sessions' = sessions \ {call[c].codex}
  /\ GotoWith(c, "looking", 0)
  /\ resolved' = call[c].path
  /\ UNCHANGED <<settingVars, lock, current, program, wired, gate, failing>>

Discovered(c) ==
  /\ At(c, "looking") /\ Len(program) < MaxCollectors
  /\ program' = Append(program, call[c].path)
  /\ current' = Len(program) + 1
  /\ lock' = Nobody
  /\ GotoWith(c, "fresh", Len(program) + 1)
  /\ UNCHANGED <<settingVars, resolved, wired, sessions, gate, failing>>

NotDiscovered(c) ==
  /\ At(c, "looking")
  /\ lock' = Nobody
  /\ Goto(c, "missing")
  /\ UNCHANGED <<settingVars, resolved, current, program, wired, sessions, gate, failing>>

WireFirst(c) ==
  /\ At(c, "fresh")
  /\ wired' = IF wired = {} THEN {call[c].codex} ELSE wired
  /\ Goto(c, "ready")
  /\ UNCHANGED <<settingVars, lock, resolved, current, program, sessions, gate, failing>>

(* wire_codex_rate_limits, on every collector the slot builds.             *)
Wire(c) ==
  /\ At(c, "fresh")
  /\ wired' = wired \union {call[c].codex}
  /\ Goto(c, "ready")
  /\ UNCHANGED <<settingVars, lock, resolved, current, program, sessions, gate, failing>>

(* A miss is recorded where it was discovered.                             *)
SaveMiss(c) ==
  /\ At(c, "missing")
  /\ failing' = TRUE
  /\ Return(c)
  /\ UNCHANGED <<settingVars, slotVars, sessions, gate>>

-------------------------------------------------------------------------------
(* Collecting.                                                             *)

(* A session's notification spawns a refresh with the collector it came    *)
(* from.                                                                   *)
Notify(n) ==
  /\ n \in sessions \intersect wired
  /\ At(Notifier, "idle")
  /\ GotoWith(Notifier, "ready", n)
  /\ UNCHANGED <<settingVars, slotVars, sessions, gate, failing>>

(* The schedule does not force its runs: one in its cooldown is passed     *)
(* over.                                                                   *)
CoolDown ==
  /\ At(Schedule, "ready")
  /\ Return(Schedule)
  /\ UNCHANGED <<settingVars, slotVars, sessions, gate, failing>>

RunStarts(c) ==
  /\ At(c, "ready") /\ gate = Nobody
  /\ gate' = c
  /\ Goto(c, "running")
  /\ UNCHANGED <<settingVars, slotVars, sessions, failing>>

(* Every request of the run goes through the supervisor's connect(), which *)
(* starts a child when there is no live one.                               *)
Connect(c) ==
  /\ At(c, "running") /\ call[c].codex \notin sessions
  /\ sessions' = sessions \union {call[c].codex}
  /\ UNCHANGED <<settingVars, slotVars, gate, failing, call>>

RunEnds(c, succeeded) ==
  /\ At(c, "running")
  /\ succeeded => call[c].codex \in sessions
  /\ gate' = Nobody
  /\ Goto(c, IF succeeded THEN "succeeded" ELSE "failed")
  /\ UNCHANGED <<settingVars, slotVars, sessions, failing>>

(* run_connection_forced writes the outcome.                               *)
SaveOutcome(c) ==
  /\ At(c, "succeeded") \/ At(c, "failed")
  /\ failing' = At(c, "failed")
  /\ Return(c)
  /\ UNCHANGED <<settingVars, slotVars, sessions, gate>>

(* A child process ends on its own.                                        *)
Exit(n) ==
  /\ n \in sessions
  /\ sessions' = sessions \ {n}
  /\ UNCHANGED <<settingVars, slotVars, gate, failing, call>>

(* Closing a session only waits for a run that is talking to it.           *)
Cancellable(c) ==
  \/ call[c].at \in {"asked", "looking", "ready", "running", "failed"}
  \/ At(c, "closing")
     /\ \E d \in Callers : At(d, "running") /\ call[d].codex = call[c].codex
Release(owner, c) == IF owner = c THEN Nobody ELSE owner

CancelHoldingLock(c) ==
  /\ Cancellable(c)
  /\ gate' = Release(gate, c)
  /\ Return(c)
  /\ UNCHANGED <<settingVars, slotVars, sessions, failing>>

(* The client of a manual refresh goes away at an await: locks are         *)
(* released, and nothing that was done is undone.                          *)
Cancel(c) ==
  /\ Cancellable(c)
  /\ lock' = Release(lock, c)
  /\ gate' = Release(gate, c)
  /\ Return(c)
  /\ UNCHANGED <<settingVars, resolved, current, program, wired, sessions, failing>>

-------------------------------------------------------------------------------
Resolving(c) == CloseOld(c) \/ Discovered(c) \/ NotDiscovered(c)

CallerStep(c) ==
  \/ Reuse(c) \/ TakeOld(c) \/ Resolving(c)
  \/ Wire(c) \/ SaveMiss(c)
  \/ RunStarts(c) \/ Connect(c) \/ SaveOutcome(c)
  \/ \E succeeded \in BOOLEAN : RunEnds(c, succeeded)

Next ==
  \/ \E p \in Paths : ChangePath(p)
  \/ \E c \in Resolvers : ReadPath(c)
  \/ \E c \in Requesters : Cancel(c)
  \/ \E c \in Callers : CallerStep(c)
  \/ \E n \in 1..MaxCollectors : Notify(n) \/ Exit(n)
  \/ CoolDown

(* The schedule resolves once a minute, and tokio's mutexes are granted in *)
(* order, so it gets the ones it waits for however often others take them. *)
(* A holder does not keep a lock: the look-up is bounded, and the run's    *)
(* timeout ends it however often it reconnects.                            *)
Fairness ==
  /\ WF_vars(ReadPath(Schedule))
  /\ SF_vars(CallerStep(Schedule))
  /\ WF_vars(\E c \in Resolvers : Resolving(c))
  /\ WF_vars(\E c \in Callers : RunEnds(c, FALSE))

Spec == Init /\ [][Next]_vars /\ Fairness

-------------------------------------------------------------------------------
(* Properties.                                                             *)

(* Every variable keeps its type.                                          *)
TypeOK ==
  /\ setting \in Paths /\ changes \in 0..MaxChanges
  /\ lock \in Resolvers \union {Nobody} /\ gate \in Callers \union {Nobody}
  /\ resolved \in Paths \union {"never"}
  /\ program \in Seq(Paths) /\ current \in 0..Len(program)
  /\ wired \subseteq 1..Len(program) /\ sessions \subseteq 1..Len(program)
  /\ failing \in BOOLEAN
  /\ call \in [Callers -> [at : Stages, path : Paths \union {"none"}, codex : 0..Len(program)]]

(* The slot never hands out the program of another path: its collector     *)
(* belongs to the path it says it has resolved, and whoever asked holds a  *)
(* collector built for the path it asked with, cancelled look-ups and      *)
(* changed settings included.                                              *)
SlotAnswersItsPath ==
  /\ current # 0 => program[current] = resolved
  /\ \A c \in Resolvers : call[c].at \in {"fresh", "ready", "running"} =>
       program[call[c].codex] = call[c].path

(* No collector is left to the schedule alone: whichever is in the slot    *)
(* has its notification wired, or is about to be wired by its finder.      *)
EveryCollectorNotifies ==
  current # 0 =>
    current \in wired \/ \E c \in Resolvers : At(c, "fresh") /\ call[c].codex = current

(* A path saved while the service runs takes effect without a restart: the *)
(* slot ends up resolved for it, whoever was resolving an older one.       *)
SlotFollowsSetting == <>[](resolved = setting)

Settled == \A c \in Callers : At(c, "idle")

(* A replaced collector leaves no child process behind.                    *)
NoStraySession == Settled => sessions \subseteq {current}

(* Without a collector the card says so.                                   *)
MissIsOnTheCard == Settled /\ resolved = setting /\ current = 0 => failing
===============================================================================
