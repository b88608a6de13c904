# TLA+ models of agents-usage

agents-usage is a macOS menu-bar panel that shows quotas, balances and spend of
Codex, DeepSeek and GLM. A local service (Rust) collects and stores readings and
serves them over loopback HTTP; a Tauri host (Rust) finds or starts that service
and owns the windows; the windows are TypeScript. This directory models the parts
of it in which several tasks, processes or windows meet, and the conversions from a
provider's answer to a reading; it checks the models with TLC and proves theorems about
them with TLAPS. Paths below are relative to the
repository; `scheduler.rs` is `crates/usage-core/src/scheduler.rs`, `api.rs` and
"service lib.rs" are in `crates/usage-service/src`, "host lib.rs" is
`src-tauri/src/lib.rs`.

## The system

| component | state | operations | hard because | correct when |
|---|---|---|---|---|
| Refresh scheduler (`scheduler.rs`) | per connection: a mutex, last attempt, consecutive failures | `refresh`, `consecutive_failures`, `reset_failures`, `on_date_change` | callers wait, time out and are dropped between awaits | one run per connection; no run before its wait unless forced; every call returns |
| Connection refresh (service `lib.rs`, `api.rs`) | outcomes on their way to the store | `refresh_all` every 60 s, `refresh_provider`, `refresh_codex`, `publish` | the scheduler's gate is released before the outcome is saved; handlers are dropped with their connection; a look-up may find nothing to run | the stored row is an attempt that was made; listeners see what is stored |
| Store (`storage/mod.rs`) | SQLite: snapshots, connection health, balance samples, daily summaries, settings | `save_success`, `save_failure`, `provider_states`, `compact_day`, ... | crashes between transactions | failures never cost a reading; a settled day stays settled |
| Codex slot (service `lib.rs`, `api.rs`) | path resolved, its collector | `resolve`, `codex_collector`, `wire_codex_rate_limits` | the path is read before the mutex; look-ups are cancelled half way; retired collectors are still held | the collector is that of the path in effect; no process is left behind |
| Codex session (`adapters/codex/json_rpc.rs`) | pending requests, closed flag, handlers, current client, failures | `request`, `handle_message`, `handle_close`, `connect`, `invalidate`, `on_notification` | answers race time-outs and close | each request is answered once; notifications survive reconnects |
| Daily estimate (`estimate.rs`) | samples and summaries through `BalanceStore` | `record`, `settle`, `current` | several store calls per sample, clock and time zone | spend is the sum of decreases of one local day, each day settled once |
| Data directory (`storage/data_dir.rs`) | `flock`, discovery file | `try_acquire`, `write_discovery`, `read_discovery`, `release` | two processes, crashes, recycled pids | one owner; a host talks to a live service |
| Host's connection (host `lib.rs`) | endpoint, child process | `connect_to_service`, `service_get`, `service_mutation`, `spawn_event_forwarder`, `release_owned_service` | commands heal concurrently | one owned service, released at exit |
| Settings (`api.rs`, host `lib.rs`, `settings-store.ts`) | service memory and store, one copy per window | `update_settings`, `write_settings`, `adopt`, `recollect_now` | partial application, saves that fail or are skipped, answers race broadcasts and runs | all copies end up equal to the stored settings, and the cards answer them |
| Panel visibility (host `lib.rs`, `panel/main.tsx`) | intended visibility, generation, header generation, window, animation | `show_panel`, `hide_panel`, `toggle_panel`, header hides, pointer poll | delayed tasks act on what they read under a lock before | the panel ends up as last asked |
| Front-end data flow (`usage-client.ts`, `desktop-client.ts`, `PanelApp.tsx`) | snapshot shown, recovery timer, stream, token of the web page | `load`, 5 s poll, events, `createRecovery`, `refresh` | answers and events arrive in any order; streams break, lag and are reopened; the service is replaced | what is stored is shown in the end; a refresh is judged by a reading that knows of it |
| Minimal rail and card (`PanelApp.tsx`, `MinimalDetailWindow.tsx`, host `lib.rs`) | the rail's selection, the host's, the document's; a generation; two frames | `panel_set_minimal_detail`, `panel_detail_layout`, `panel_set_minimal_layout`, `panel_set_height`, drags, dismissals | three documents, the main thread, a poll and delayed tasks; frames over several displays | the card shown is the one the rail has selected, beside it; windows stay on the displays |
| Adapters and CLI discovery (`adapters/`, `transport.rs`, `contracts.rs`) | none, or one request's | `refresh`, normalization, look-up of the executable | answers omit, misspell or contradict; midnights are skipped or come twice | a reading has what the answer states, for the day it is about, and no number besides |
| Credentials (`credentials.rs`, `api.rs`) | the keychain's items | `put_credential`, `delete_credential`, resolution before a run | the keychain may be locked; a key is tried before it is stored | only a key its provider has accepted is stored |
| Panel animation and toasts (`panel/*.ts`) | timers of one component each | | | presentation; only the warning of a broken stream is modelled |

The schedule, the manual refresh handlers and the Codex notification are tasks of
one tokio runtime. They meet in the scheduler (per connection), in the Codex slot
and in the store's mutex. The service's broadcasts reach a browser as events; the host polls
the service and forwards snapshots to its windows.

`PROJECT.json` lists every component with its status, the hazards with their
lines, and the lines each definition stands for.

## The modules

### The service

**ConnectionRuns** is what the scheduler promises, without tasks: a connection is idle or has
one run; a run that is not forced starts only after the wait that its failures
call for; a run that ends is counted once; a run whose caller goes away is not
counted.

**RefreshScheduler** is `RefreshScheduler::refresh` as code: `pc[c]` says between which
two awaits the caller is, `slot[k]` is the tokio mutex of connection `k` (its
holder followed by the waiters, as tokio grants it in order), `attempted`, `last` and
`failures` are the `state` map. `FastPath`, `JoinSlot`, `Recheck`, `BeginRun`, `FinishRun` follow the
function from top to bottom; a time-out is a failure like any other, as in the code.
`Cancel` drops the caller's future at an await. The state of a connection is
protected by one short mutex never held over an await, so it needs no action of its own.
Each module that theorems are proved of has them in a module of its own (**RefreshSchedulerProofs** and so on, see "What is proved"); those of the
panel's window and of its page are in **PanelProofs**, those of the service, its host and the card beside the rail in **HostProofs**.

**ConnectionRefresh** puts tasks on top of ConnectionRuns (which RefreshScheduler implements, so
its slots need not be repeated): `Schedule` makes passes over `Pass`, `Requesters`
ask for forced refreshes. `store[k]` is what `save_success` and `save_failure` leave of a connection:
the run whose reading is cached, the attempt whose verdict was saved last, whether an error is recorded. An attempt is
a number in `history`, so that properties can say which is newer: a run, or a look-up that found no CLI. A connection of
`LookedUp` (Codex) is looked up before it is run, by the schedule and by a manual refresh; `FindsNothing` is the branch of `codex_collector` that
saves the miss as a failure and runs nothing, `StartUp` the same look-up once before the schedule begins. The notification
(`Notified`) brings its collector along. `PublishRead` and
`PublishSend` are separate because `publish` sends after it released the store; `PublishNothing` is its read failing. `Restart` kills the
service between any two actions.

**CodexSlot** is `CodexSlot::resolve` with its callers. `lock` is the slot's mutex, `resolved`
and `current` its content; collectors are numbered as they are built, and `program[n]` is the path number `n`
was built for. `sessions` are the collectors whose supervisor has a live child; `Connect` starts one for any
collector a run holds, in the slot or not, as `connect()` does. The scheduler appears as the gate of
`codex:account`. A caller can be cancelled where it really awaits: closing a session only waits
for a run that talks to it.

**CodexSession** is that supervisor. `ses[n]` is a child with its reader, writer and waiter tasks
and its client's pending requests and close handlers; `cal[c]` is a caller of `request` with its attempts and backoff;
`current` and `lock` are the supervisor's `state`. A request carries who asked for what, so an answer
in the wrong hands shows. A line the child was sent stays answerable: `HandleMessage` may answer it late, out of order and any
number of times, before and after its slot is gone. `Cancel` drops a caller at any await; one in `connect()` leaves
a child without a client, which is then `lost` (see "Findings").

**ServiceLifecycle** is the data directory, the service process from start to exit, and the host's
`connect_to_service`, reconnects and `release_owned_service`. Processes are numbered as they start;
the lock is the `flock`, and the discovery file is written in its two steps, `TruncateDiscovery` and
`WriteDiscovery`, so a host may read half of it, or fail to (`DiscoveryUnreadable`). A command remembers whom it asked, since another may
have replaced the connection by the time the answer comes. A service that shuts down releases the lock first and has the store open
until `main` returns (`HasDatabase`). The watchdog exits whenever `kill(parent, 0)` is not 0, so it exits under launchd too (`ParentAlive`). Both
sides crash and quit between any two actions, and a child nobody waits for stays
a zombie that `kill(pid, 0)` still finds. Pids are not used again.

**DailyEstimate** is `DailySpendEstimator::record` for one balance, over the observations and summaries of the
store. `Settle` and `StoreSample` are its two writes, `phase` is how far it came, and `Fail` and `Restart` end it between
them. A local day is what the configured zone cuts out of the clock; `Restart` may bring another zone, `SetBack` moves the clock.
`Summarize` is `summarize_day`. Balances do not share state, and the recorder's mutex lets one `record` run at a time.

### From an answer to a reading

**Answers** has what the collectors share: a value of a JSON answer (a number, a text that spells one, another text,
null, absent, something else), the transport's classification of responses, metrics with `normalize` and `validate`, and the
keychain. **LocalDays** turns wall-clock times into instants across a change of the zone's offset. **GlmReadings**, **DeepSeekReadings** and
**CodexReadings** are the collectors, as operators: which checks they make in which order, what kind of failure each one ends in, and which
metrics they build. **Readings** follows one connection: keys are pasted, validated, stored and deleted, the
keychain is locked and unlocked, time passes between a request and its run, and the provider answers anything of `AnswersOf`.
Its property says again, from the answer alone, which numbers it states (`Stated`). How single values are read it shares with the collectors (what
counts as a number, DeepSeek's totals, tokens, requests and currencies, GLM's windows, Codex's buckets): an error in those would be in
both. What it checks independently is which of them become metrics, with which checks, units and labels of absence.

### The host and the windows

**SettingsSync** is one settings object and its copies: `update_settings`, which assigns field by field before it saves, a save that
fails (`RefusePatch`) or is skipped because the store's lock is poisoned (`SkipSave`), the host's
`write_settings` with shape, tray and broadcast, and each window's store. Four fields
stand for all (two the tray marks, one that decides what is collected, one, the time zone, that `OnLoad` replaces when it reads UTC). The service restarts at any
moment: a command that waits for it fails, or asks again of the next service.

**RegionCard** follows one of those fields to the card: a change of the GLM region makes the host post a refresh, a run reads the region as it starts,
and its outcome is saved after the gate is free (`RunStarts`, `RunEnds`, `Save`). The write's answer, the post, the run and the save can each be lost or
fail (`PostFails`, `SaveIsLost`), as can the service; the schedule's pass comes around.

**PanelVisibility** is `show_panel` (`BringToFront` and `Reveal`), `hide_panel` (`Hide`), the delayed hides of window and
header as two steps each (`WakeHide`/`HideWindow`, `WakeHeader`/`HideHeader`), the pointer poll (`Sample`, `Entered`, `Left`) and
the webview (`DeliverVisibility`, `DeliverHeader`, `EnterPainted`). `toggle_panel` is one of show and hide. Events
are delivered in order and are lost before the webview subscribes.

**WindowFrames** is the arithmetic of the host's frames: heights that keep the top edge, widths that keep the right one, the rail's
anchor, the card beside the rail, the full panel under the tray icon, and the clamp that brings a dropped window back.
**HostWindows** is who calls it when: commands are handled in order by the main thread (`mainQueue`), while the pointer
poll, the boundary poll, a settings write and the card's delayed hides run on other threads; the rail's and the
card's documents hear the host over channels of their own. A drag owns the main thread from press to release and is one step. Where the pointer
is is left out: the poll may find it outside whenever the card is up, once the rail has heard of the last dismissal. The card's document may skip to any later selection, as its
re-reads do; settings writes come one at a time (their overlaps are SettingsSync's).

**PanelFeed** is what the overview shows. A snapshot is the number of attempts it knows of. A read is one step up to its
answer, which then travels by itself and may arrive at any time, or never; equal answers to the same reader count as one. Streams
break, wait for their recovery and are reopened; a slow one loses its oldest events. The host's events arrive like answers to
a poll. A manual refresh runs from the click to its verdict, over a service that may die and be replaced by one with another token.
One platform stands for all; the same page is either the app's panel or the web page (`inApp`). That `publish`
sends an older reading than the store's is ConnectionRefresh's matter.

PanelFeed's specification is `FeedSpec`, HostWindows' is `WindowsSpec`, Readings' is `ReadingSpec`, and ConnectionRefresh's is `CSpec`, so that each can stand in one module with another's.

The `MC...` modules give TLC small instances; PanelVisibility and DailyEstimate have only numeric constants and need none.
Operators whose name says what is wrong with them (`RecheckKeepingGate`, `TakeOldLeavingIt`, ...) stand before the
definition they are a faulty variant of; each breaks a property of the run that it is listed under in
`PROJECT.json` and appears in no specification.

## The runs

| run | bounds | shows |
|---|---|---|
| scheduler | 3 callers, 1 connection, cooldown 2, maximal backoff 3, clock to 3, 3 failures | one run per connection, no stale admission, failures never hasten a retry, every call returns, ConnectionRuns is implemented |
| refresh | schedule and one requester, 1 connection, which is looked up, 2 attempts, 1 restart | the store tells what was attempted, readings outlive failures, what is broadcast converges to what is stored |
| codex_slot | 2 paths, 1 change, 2 collectors; schedule, one manual refresh, the notification | a collector belongs to its path, is wired, and the slot follows the setting |
| session | 2 callers with 1 request and 1 attempt each, 2 children | nobody gets another request's answer; at most one child lives beside those lost in a dropped handshake; every request comes back |
| lifecycle | 2 processes, 2 launches of the host, 2 tasks | the service that serves can be found and others are on their way out, the host spares services it does not own, an owned service stops, every command returns |
| settings | 2 windows and the tray, 2 overlapping commands, 3 reads and writes, 3 patches, 1 restart, symmetry of windows and of tasks | what the service holds is stored unless a refused, failed or unsaved write reached it, a lone write heals every copy, the tray agrees |
| region | 2 refreshes and the pass, 2 regions, 2 changes, 1 restart | the card comes to answer the region for good |
| panel | 4 shows or hides, 5 header generations | header and host agree, the last hide completes |
| estimate | days of 2 units, 2 zones, 3 balances, clock to 4, 3 samples, clock set back once | closed days are settled by all their samples, an estimate never shrinks |
| readings | 5 connections, 4 zones with a steady, a skipped and two repeated midnights or hours, 1 pasted key, 1 run, answers that differ from a plain one in one place, or two | a reading states its answer, a day is today's, a stored key was accepted |
| windows | 2 displays side by side, 2 rings, 2 rail and 2 panel heights, a card that may change its height and one that keeps it, 2 drops, 3 inputs | the card follows the rail, a panel off the displays is brought back for good, frames settle |
| feed | 1 stream, 1 click, 1 event kept for a slow stream, 2 attempts, 1 restart | the page converges to the store, an acknowledged refresh is judged rightly |

A manual refresh of Codex publishes twice in a row, which the models do once. Deadlock is checked except where the
system may stop: in session, lifecycle, settings, readings and windows the bounds on calls, processes, writes, runs and
inputs end every behaviour, and the code waits for its users.

The bounds are enough for the cases that matter. Three callers are a holder,
a waiter and one that arrives meanwhile; connections do not share state in the scheduler, so one suffices;
cooldown 2 and maximal backoff 3 put the backoff below, at and above the cooldown
within three failures. One change of path has a resolver of the old path before, during and after
it; two collectors are the replaced one and its successor, and so are two children of a session.
The code makes two attempts of a request; the run gives each caller one, so that liveness can be checked with two children. A second attempt
takes the same path from `connect` on, after a backoff that `connect` also sleeps when a handshake fails; types, AnswersMatch and OneSession are proved for any
number of attempts, and with `NumSessions = 1` and `MaxAttempts = 2` the same configuration passes too. Two service
processes are the user's and the host's, or a host's and its successor's. Four shows and hides let two delayed hides be in flight around a
show. Three samples put one behind, between or after two others, or one on each of three days. Two overlapping commands are
a write and a read, or two writes, around a third one that finds what they left. Two attempts are two runs, two misses, or one of each, in the hands of
two callers or on either side of a restart. Two refreshes and the pass put a run of the old region, one of the new and a save that is still due side by side. Three inputs of the windows are enough to point, leave and
point again, to drag between two mode switches, or to dismiss while a size is on its way; the two displays differ in height, so that
frames straddle, hang over and leave them. Two attempts and a restart put an old answer behind a newer one, on either side of a
service's death. Clocks, runs, attempts, writes, failures, restarts, changes, collectors, generations and inputs are capped in guards
(`MaxClock`, `MaxRuns`, `MaxFailures`, `MaxRestarts`, `MaxChanges`, `MaxCollectors`, `MaxGeneration`,
`MaxHeaderGeneration`, `MaxSamples`, `MaxStepsBack`, `MaxCalls`, `MaxAttempts`, `MaxHosts`, `MaxOps`, `MaxPuts`, `MaxInputs`, `MaxWrites`, `MaxAttempts`).

## Fairness

- RefreshScheduler: weak fairness of each caller's steps. Tokio polls every woken task; its mutex is
  first come first served, which the model has as state, so weak fairness is enough; the policy's time-out ends every run.
- ConnectionRefresh: the service finishes its start (`StartUp`) and the schedule starts a pass every minute; the database does not refuse
  every read of the schedule's (strong fairness of its `PublishRead`); strong fairness of each caller's steps,
  since the gate is abstracted to "no run is active" and the queue behind it is EveryCallReturns of the scheduler. No manual request has to be made, no tick to happen.
- CodexSlot: the schedule's caller is granted the mutexes it waits for (strong fairness); whoever holds the slot finishes its look-up,
  and whoever runs ends, successfully or by time-out. Manual refreshes and notifications owe nothing.
- CodexSession: each caller's steps (time-outs included), and strong fairness of the two steps that take the supervisor's lock, which tokio
  grants in order. The child owes nothing: it may never answer.
- ServiceLifecycle: the steps of processes and tasks (`GoesOn`), whose polls and time-outs are the code's. Nobody has to start, quit or crash, and no read of the
  discovery file has to fail.
- RegionCard: what is on its way goes on, the pass comes around; strong fairness of the pass's run and save, since its cooldown ends, the gate is
  first come first served, and not every save of the schedule's is lost. Manual refreshes need not be made, nor arrive.
- PanelVisibility: sleeping tasks wake, the poll loops, the webview handles events. Nobody has to show or hide.
- PanelFeed: the 5 s poll is made, and the answer of a running service arrives. Streams, events and refreshes owe nothing.
- DailyEstimate, SettingsSync, Readings and HostWindows state no liveness and assume no fairness; SettingsSync
  and HostWindows say instead what holds whenever nothing is under way.

## Findings

`PROJECT.json` "findings" lists where the code does not do what a comment, doc or assertion says, and quotes it. Several
have a property in a module that is not in the run's configuration because the code violates it; put there, TLC shows how: `VerdictsNeverGoBack`
(ConnectionRefresh), `NoStraySession` and `MissIsOnTheCard` (CodexSlot), `ShownStaysOnScreen` and `ShownIsPainted` (PanelVisibility),
`ReusesOnlyLive` and `OneHasTheDatabase` (ServiceLifecycle), `NoLateSaves` (RegionCard), `SelectedIsShown`, `RailKeepsItsWidth` and `AnchoredWhereAimed` (HostWindows), `WarnedWhileBroken` and
`ReplayMeansAcknowledged` (PanelFeed). `OneSession` excepts the children lost in a dropped handshake, which the code's comment does not: without its last disjunct
TLC shows one.

## What is proved

The theorems hold for every value of the constants that the modules' assumptions allow. These are types and
bounds, four facts of notation, and three about the outside world. Notation: 0 is no process, no session and nobody; `None` is no snapshot and
no verdict (`ReadersAssumption`); a click is not named "load" or "page"; the settings start with the theme and shape the host starts with
(`DefaultAssumption`, from the code's defaults). The world: there is a display, and frames are whole points (`DisplaysAssumption`; displays may even
overlap); what JSON calls an array is a sequence, and an estimate, which comes from the
store, is a number or absent (`AnswersAssumption`); where a connection asks for the range of a day, the clock is not set back across that
day's midnights and every gap has an end the probe reaches (`ZonesAssumption`). Without the last one DayIsToday is false: a day the clock comes
back to is not one range of instants. Each module has an inductive invariant, tried with TLC on a small instance before it was proved, a lemma for the first state,
a lemma for the steps (one part per action) and the theorems that follow from it.

| module | theorem | property of the run |
|---|---|---|
| RefreshSchedulerProofs | TypeCorrect, MutualExclusion, NoHastyRetry, AdmissionHolds | TypeOK, OneRunPerConnection, FailuresNeverHastenRetry, AdmittedStillEligible |
| | Implementation | ImplementsConnectionRuns (`Spec => Runs!Spec`) |
| ConnectionRefreshProofs | TypeCorrect, StoreIsTrue, ReadingsSurvive | TypeOK, StoreTellsTheAttempt, ReadingsOutliveFailures |
| CollectorProofs | TypeCorrect, SlotAnswers, SlotNotifies (of CodexSlot) | TypeOK, SlotAnswersItsPath, EveryCollectorNotifies |
| | KeysWereAccepted, ReadingsAreOfToday, ReadingsTellTheAnswer (of Readings) | KeyWasAccepted, DayIsToday, ReadingTellsTheAnswer |
| CodexSessionProofs | TypeCorrect, AnswersReachTheirRequest, OneLiveSession | TypeOK, AnswersMatch, OneSession |
| PanelProofs | TypeCorrect, HeadersAgree (of PanelVisibility) | (its types), HeaderAgrees |
| | VerdictsAreOfTheClick (of PanelFeed) | VerdictIsOfTheClick |
| HostProofs | TypeCorrect, OwnersAreDiscoverable, HostsSpareOthers (of ServiceLifecycle) | TypeOK, OwnerIsDiscoverable, HostSparesOthers |
| | CardsFollow, ClampsCover (of HostWindows) | CardFollowsRail, ClampCovers |
| SettingsSyncProofs | MemoryStored, LoneWritesHeal, TrayAlwaysAgrees | MemoryIsStored, LoneWriteHeals, TrayAgrees |
| DailyEstimateProofs | TypeCorrect, EstimateGrows, ClosedDaysSettled | TypeOK, EstimateNeverShrinks, ClosedDaysAreSettled |
| | SamplesInOrder | (a day's samples lie in the order of their instants) |

The arguments, one invariant at a time:

- **Scheduler.** OneRunPerConnection is not inductive, since a step from "queued" to "running" knows nothing of
  the other callers. `Inv` adds that whoever is admitted or running is the head of
  its connection's slot (`HoldersAtHead`); there is one head, hence one runner. AdmittedStillEligible needs that
  the clock does not go back, that only the holder stamps its connection, and that resets and date changes shorten waits.
  The refinement maps steps outside the run to stuttering, and the start, end and cancellation of a run to Start, End and Abandon; that a
  runner is alone is what makes `active` change by exactly its key.
- **Refresh.** No lock orders the savers. What makes the rows true is that a caller carries its own run
  (`CarriesItsRun`), that no run belongs to two callers (`RunsAreOwn`), and that a run which is not saved is not yet a cached reading
  (`UnsavedIsNotCached`), so that its end changes nobody's row. A miss is an attempt that nobody carries: it gets its number and its row in one step
  (`MissIsAnAttempt`). ReadingsOutliveFailures needs `UnsavedIsNotCached`: a new success is a new number.
- **Codex slot.** Who replaces the collector holds the mutex over a slot it has emptied (`ReplacerHoldsEmptySlot`) and looks for the path the slot says
  it has resolved (`LooksForResolved`); a cancelled look-up therefore leaves an empty slot and never a wrong one.
- **Codex session.** An id is handed out once per session and names one request among the slots and lines that are outstanding
  (`IdsNameRequests`); mail only reaches a caller that waits (`MailOnlyForWaiting`). The lock is held exactly as long as a
  handshake (`LockIsHandshake`), with nothing published (`HandshakeOverNothing`), which makes OneSession inductive: a caller that drops a handshake gives up the
  lock and marks the child in the same step. Lines are never taken back, so an id that is answered twice still names the request it was handed to.
- **Header.** The property speaks of an empty channel. What every step keeps is that the last word about the header in the channel is the
  host's opinion, or there is none and the webview has that opinion (`HeaderWillAgree`), and that nothing hides the header before the webview listens
  (`NothingBeforeListening`).
- **Verdict of a refresh.** An answer to a click is only on its way once the click was acknowledged or given up, knows of the attempt made for it and of nothing that
  is not stored (`AnswersKnowTheAttempt`, `AttemptsAreStored`).
- **Service and host.** The discovery file proves nothing by itself, since it outlives its writer. Whoever has the database open and is not shutting down holds the lock
  (`OnlyTheHolder`), and only it writes the file (`FileIsItsOwn`); the children a host has recorded were spawned by this host and by no earlier one
  (`ChildrenAreOwn`).
- **Rail and card.** That host and rail agree is said of the end of everything. Meanwhile the last selection the main thread has yet to handle is
  the rail's; if there is none, the host has it already, or has dismissed it in a way the rail has yet to hear of (`HostFollowsRail`). A show that crosses
  a dismissal leaves a card for no selection: the hide of the host's latest generation is then still due or already posted (`OrphanWillLeave`).
  Where the windows stand plays no part.
- **Panel on the displays.** Every place the panel is given is made of whole numbers, and so is what is on its way to the main thread (`FramesInv`). The
  rest is arithmetic about one frame: a sum of areas is at least each of them, the shortest way is some display's way, the nearest place on a display with room
  holds all of the panel, and a panel that lies on one display is covered. So the second look of the poll finds nothing to do.
- **Settings.** MemoryIsStored is inductive once its types are: memory moves only with the disk or together with `unsaved`, and after a restart it is
  what was loaded. The other two properties speak of the end of the commands. `LoneWriteDelivers` and `HostFollows` say where the newest settings
  are meanwhile: in memory and in the answer the write carries, or in an event.
- **Daily estimate.** Until the clock is set back nothing is observed before the newest sample (`TimeGoesOn`), and by the
  time an observation of another day is stored the newest sample's day has been settled (`LeftDayIsSettled`). What a summary adds up to plays no part
  there. It does in EstimateGrows: a spend is the last of a day's running totals, and a sample put between two others splits their decrease in two, which together
  are no less (`SpendGrows`). That a sample is put where its instant belongs (`SamplesInOrder`) does not depend on the clock.
- **Readings.** A key is written in the step that has just validated it. For a day, the earliest instant at or after midnight is the first of
  the day, and the day's instants are those from it to the next day's. For the numbers, an outcome without a failure has passed every check; so each collector is
  compared, part by part, with what the answer states of that part, and a currency without costs adds up zeros, in whatever order they are added.

Model-checked only, and why:

- liveness (`EveryCallReturns`, `ViewConverges`, `SlotFollowsSetting`, `HideCompletes`, `OwnedServiceStops`, `EveryCommandReturns`,
  `FeedConverges`, `CardAnswersTheRegion`): TLAPS proves none under fairness, so RegionCard has no theorem;
- `WindowsSettle` of HostWindows: a panel that no display shows keeps the width it had, and a card on a display without room beside the rail
  cannot be clear of it, so that what is checked of two displays need not hold of others.

What recursive definitions compute is proved where a property needs it (running totals of a day, sums of costs, areas of displays), by least
counterexample: the set of numbers or of cardinalities at which a claim fails has a least member (`LeastNatural`).

## Not modelled

- Wall clocks that step back, except in DailyEstimate, whose ClosedDaysAreSettled speaks only of behaviours in which they do not; there, the `partial` flag, rejected currencies and amounts, and
  `settle`, `settle_latest` and `compact_day`, which the service never calls.
- The store's schema, migration and compaction; the detail of a connection, diagnostics, redaction and logging.
- `RunningService::shutdown`'s closing of the Codex slot; the list of notification handlers of a session.
- Pids that are used again: a discovery file or a watchdog that meets another process under an old number.
- A manual GLM refresh uses the time zone the service started with, the schedule the one set since (`api.rs:828`); `DayIsToday` is about
  the zone a run is given and does not tell them apart.
- The connection view of the panel, which counts as open details, and dismissals of the card that are lost on their way (`PanelApp.tsx:188-191` and `555`).
- The tray's menu and shortcuts, the placement of the settings window and the section handed to it; scale factors of displays; the mouse button,
  which postpones a pointer sample; the pointer forwarded to the webviews, and the caret.
- Labels, peak windows, the morph of the quota and the timers of toasts and header in the webview: presentation, or
  one timer without a second actor.

## Plan

The clock of the scheduler could step back, at the price of `AdmittedStillEligible`.
