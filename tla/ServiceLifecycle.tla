---------------------------- MODULE ServiceLifecycle ----------------------------
(* The desktop host and the usage service across starts, crashes, quits and     *)
(* recoveries: the data directory's lock and discovery file                     *)
(* (crates/usage-core/src/storage/data_dir.rs), the start and stop of a service *)
(* process (crates/usage-service/src/main.rs, lib.rs) and the host's connection *)
(* to it (src-tauri/src/lib.rs).                                                *)
(*                                                                              *)
(* A service process is its own instance id, pid and origin.  One host runs at  *)
(* a time (the single-instance plugin); its commands run concurrently.  A host  *)
(* never waits for a child it spawned, so a child that ends before its host     *)
(* stays a zombie, which kill(pid, 0) still finds.                              *)
EXTENDS Integers, FiniteSets

CONSTANTS Procs,      \* 1..n: service processes that may ever be started
          MaxHosts,   \* launches of the desktop host
          Tasks,      \* concurrent tasks of a host that talk to the service
          Startup     \* the one of them that runs the host's setup

ASSUME LifecycleAssumption ==
    /\ IsFiniteSet(Procs) /\ Procs \subseteq Nat \ {0}
    /\ MaxHosts \in Nat
    /\ Startup \in Tasks

VARIABLES svc,    \* each service process
          lock,   \* holder of the advisory lock on service.json, 0 if none
          file,   \* instance service.json names, 0 while absent or empty
          host,   \* number of the present host; 0 before the first
          up,     \* is it running?
          conn,   \* the host's ServiceConnection
          task    \* what each task of the host is doing, with the child it has
                  \* spawned and the service it asks

vars == <<svc, lock, file, host, up, conn, task>>

Launchd == MaxHosts + 1   \* who adopts the children of a dead host
Hosts   == 1..MaxHosts
NoConn  == [inst |-> 0, owned |-> FALSE, child |-> 0]
Idle    == [pc |-> "idle", child |-> 0, asked |-> 0]

Init == /\ svc = [p \in Procs |-> [st |-> "none", parent |-> 0, watch |-> 0]]
        /\ lock = 0 /\ file = 0 /\ host = 0 /\ up = FALSE
        /\ conn = NoConn
        /\ task = [t \in Tasks |-> Idle]

Running == {"start", "open", "writing", "published", "serve", "stopping"}
Holding == {"open", "writing", "published", "serve"}
HasDatabase == Holding \cup {"stopping"}
Ended   == {"zombie", "gone"}

HostAlive(h) == up /\ h = host

\* process_is_alive: kill(pid, 0) succeeds on a zombie too.
ProcessIsAlive(p) == p # 0 /\ svc[p].st \in Running \cup {"zombie"}

\* The process p ends, for whatever reason: a child whose host lives stays a
\* zombie, since the host never waits for it, and the kernel drops its lock.
EndIn(f, p) == [f EXCEPT ![p].st = IF HostAlive(svc[p].parent) THEN "zombie" ELSE "gone"]
Kills(P) == /\ svc' = [p \in Procs |-> IF p \in P THEN EndIn(svc, p)[p] ELSE svc[p]]
            /\ lock' = IF lock \in P THEN 0 ELSE lock
RunningOnly(P) == {p \in P \cap Procs : svc[p].st \in Running}

------------------------------------------------------------------------------
(* A service process: main and start_service.                                   *)

Unstarted(p) == svc[p].st = "none" /\ \A q \in Procs : q < p => svc[q].st # "none"

UserStarts(p) ==
    /\ Unstarted(p)
    /\ svc' = [svc EXCEPT ![p].st = "start"]
    /\ UNCHANGED <<lock, file, host, up, conn, task>>

Step(p, from, to) == svc[p].st = from /\ svc' = [svc EXCEPT ![p].st = to]

\* Faulty variants of try_acquire: the lock's refusal is not looked at; the file
\* is opened with truncation.
OpensRegardless(p) ==
    /\ Step(p, "start", "open")
    /\ lock' = p
    /\ UNCHANGED <<file, host, up, conn, task>>

AcquireTruncates(p) ==
    /\ svc[p].st = "start"
    /\ file' = 0
    /\ IF lock = 0 THEN Step(p, "start", "open") /\ lock' = p ELSE Kills({p})
    /\ UNCHANGED <<host, up, conn, task>>

\* The lock decides who opens the database; a second process reports the owner
\* and exits.
TryAcquire(p) ==
    /\ svc[p].st = "start"
    /\ IF lock = 0 THEN Step(p, "start", "open") /\ lock' = p ELSE Kills({p})
    /\ UNCHANGED <<file, host, up, conn, task>>

\* Opening the store, building the collectors or binding the listener fails.
StartFails(p) ==
    /\ svc[p].st = "open"
    /\ Kills({p})
    /\ UNCHANGED <<file, host, up, conn, task>>

\* write_discovery: set_len(0), then the contents of this instance.
TruncateDiscovery(p) ==
    /\ Step(p, "open", "writing")
    /\ file' = 0
    /\ UNCHANGED <<lock, host, up, conn, task>>

WriteDiscovery(p) ==
    /\ Step(p, "writing", "published")
    /\ file' = p
    /\ UNCHANGED <<lock, host, up, conn, task>>

\* Faulty variant: the watchdog of a host's service is not started.
ServesUnwatched(p) ==
    /\ Step(p, "published", "serve")
    /\ UNCHANGED <<lock, file, host, up, conn, task>>

\* spawn_parent_watchdog records whoever is the parent by now; the listener,
\* bound before the file was written, starts to be served.
BeginServing(p) ==
    /\ svc[p].st = "published"
    /\ svc' = [svc EXCEPT ![p].st = "serve",
                          ![p].watch = IF @ = 0 /\ svc[p].parent # 0
                                         THEN IF HostAlive(svc[p].parent)
                                                THEN svc[p].parent ELSE Launchd
                                         ELSE @]
    /\ UNCHANGED <<lock, file, host, up, conn, task>>

\* kill(parent, 0) succeeds: the parent is a host that runs.  It is refused for
\* launchd, which no ordinary user may signal.
ParentAlive(w) == w \in Hosts /\ HostAlive(w)

\* The watchdog's poll does not reach its parent: process::exit.
WatchdogExits(p) ==
    /\ svc[p].st \in {"serve", "stopping"}
    /\ svc[p].watch # 0
    /\ ~ParentAlive(svc[p].watch)
    /\ Kills({p})
    /\ UNCHANGED <<file, host, up, conn, task>>

\* Faulty variant: the lock stays with the process until it exits.
ShutdownKeepsLock(p) ==
    /\ Step(p, "serve", "stopping")
    /\ UNCHANGED <<lock, file, host, up, conn, task>>

\* ctrl_c: RunningService::shutdown releases the lock, then main returns.
CtrlC(p) ==
    /\ Step(p, "serve", "stopping")
    /\ lock' = IF lock = p THEN 0 ELSE lock
    /\ UNCHANGED <<file, host, up, conn, task>>

MainReturns(p) ==
    /\ svc[p].st = "stopping"
    /\ Kills({p})
    /\ UNCHANGED <<file, host, up, conn, task>>

ServiceCrashes(p) ==
    /\ svc[p].st \in Running
    /\ Kills({p})
    /\ UNCHANGED <<file, host, up, conn, task>>

------------------------------------------------------------------------------
(* The host: connect_to_service, from setup and from reconnect_service.         *)

HostLaunches ==
    /\ ~up
    /\ host < MaxHosts
    /\ up' = TRUE
    /\ host' = host + 1
    /\ conn' = NoConn
    /\ task' = [t \in Tasks |-> IF t = Startup THEN [Idle EXCEPT !.pc = "lookup"] ELSE Idle]
    /\ UNCHANGED <<svc, lock, file>>

\* The host's process ends; launchd reaps the children it leaves.
HostEnds(killed) ==
    /\ up' = FALSE
    /\ svc' = [p \in Procs |->
                 IF svc[p].parent = host /\ (p \in killed \/ svc[p].st = "zombie")
                   THEN [svc[p] EXCEPT !.st = "gone"]
                   ELSE IF p \in killed THEN [svc[p] EXCEPT !.st = "gone"]
                   ELSE svc[p]]
    /\ lock' = IF lock \in killed THEN 0 ELSE lock
    /\ conn' = NoConn
    /\ task' = [t \in Tasks |-> Idle]
    /\ UNCHANGED <<file, host>>

At(t, pc) == up /\ task[t].pc = pc
\* A request goes to the service that is recorded when it is sent.
Move(t, pc, child) ==
    task' = [task EXCEPT ![t] = [pc |-> pc, child |-> child,
                                 asked |-> IF pc \in {"ask", "retry"} THEN conn.inst ELSE 0]]

\* A connection is found: a first one ends the setup, a new one replaces the
\* old and the command is going to be tried once more.
Adopt(t, c) ==
    /\ conn' = c
    /\ Move(t, IF conn.inst = 0 THEN "idle" ELSE "again", 0)
    /\ UNCHANGED <<svc, lock, file, host, up>>

\* connect_to_service fails: setup takes the host down with it, a command
\* returns the error.
ConnectFails(t, killed) ==
    IF conn.inst = 0
      THEN HostEnds(killed)
      ELSE /\ Kills(killed)
           /\ Move(t, "idle", 0)
           /\ UNCHANGED <<file, host, up, conn>>

ReuseService(t) ==
    /\ At(t, "lookup")
    /\ ProcessIsAlive(file)
    /\ Adopt(t, [inst |-> file, owned |-> svc[file].parent # 0, child |-> 0])

SpawnService(t) ==
    /\ At(t, "lookup")
    /\ ~ProcessIsAlive(file)
    /\ \E p \in Procs :
          /\ Unstarted(p)
          /\ svc' = [svc EXCEPT ![p].st = "start", ![p].parent = host]
          /\ Move(t, "poll", p)
    /\ UNCHANGED <<lock, file, host, up, conn>>

SpawnFails(t) ==
    /\ At(t, "lookup")
    /\ ~ProcessIsAlive(file)
    /\ ConnectFails(t, {})

\* A poll takes whichever live service the file names for the spawned one.
PollFinds(t) ==
    /\ At(t, "poll")
    /\ ProcessIsAlive(file)
    /\ Adopt(t, [inst |-> file, owned |-> TRUE, child |-> task[t].child])

\* The discovery file cannot be read or parsed: the error is returned from the
\* first look and from a poll alike, and a child spawned before it is left alone.
DiscoveryUnreadable(t) ==
    /\ At(t, "lookup") \/ At(t, "poll")
    /\ ConnectFails(t, {})

\* Faulty variant: the polls are not counted.
PollsOn(t) == FALSE

\* A hundred polls without a discovery entry: the child is killed.
PollGivesUp(t) ==
    /\ At(t, "poll")
    /\ ConnectFails(t, RunningOnly({task[t].child}))

------------------------------------------------------------------------------
(* The host's commands: service_get, service_mutation and their one recovery.   *)

Command(t) ==
    /\ At(t, "idle")
    /\ conn.inst # 0
    /\ Move(t, "ask", 0)
    /\ UNCHANGED <<svc, lock, file, host, up, conn>>

\* The second attempt reads the connection anew: another task may have replaced
\* it since this one's recovery.
AsksAgain(t) ==
    /\ At(t, "again")
    /\ Move(t, "retry", 0)
    /\ UNCHANGED <<svc, lock, file, host, up, conn>>

\* The service that was asked answers.
Answered(t) ==
    /\ At(t, "ask") \/ At(t, "retry")
    /\ svc[task[t].asked].st \in {"serve", "stopping"}
    /\ Move(t, "idle", 0)
    /\ UNCHANGED <<svc, lock, file, host, up, conn>>

\* The request fails, or another service on its port refuses the token: the
\* connection is stale and looked up again, once.
Stale(t) ==
    /\ At(t, "ask")
    /\ svc[task[t].asked].st \in Ended
    /\ Move(t, "lookup", 0)
    /\ UNCHANGED <<svc, lock, file, host, up, conn>>

RetryFails(t) ==
    /\ At(t, "retry")
    /\ svc[task[t].asked].st \in Ended
    /\ Move(t, "idle", 0)
    /\ UNCHANGED <<svc, lock, file, host, up, conn>>

\* Faulty variant: whatever service the connection names is killed.
KillConnected == IF conn.owned THEN RunningOnly({conn.inst}) ELSE {}

\* release_owned_service: only a child of the present connection is killed.
ReleaseOwned == IF conn.owned THEN RunningOnly({conn.child}) ELSE {}

\* Quit, and the restart of an update, release the service first.
HostQuits == up /\ conn.inst # 0 /\ HostEnds(ReleaseOwned)

HostCrashes == up /\ HostEnds({})

------------------------------------------------------------------------------
ServiceStep(p) == \/ TryAcquire(p) \/ TruncateDiscovery(p) \/ WriteDiscovery(p)
                  \/ BeginServing(p) \/ WatchdogExits(p) \/ MainReturns(p)

GoesOn(t) == \/ ReuseService(t) \/ SpawnService(t) \/ SpawnFails(t)
             \/ PollFinds(t) \/ PollGivesUp(t)
             \/ AsksAgain(t) \/ Answered(t) \/ Stale(t) \/ RetryFails(t)

TaskStep(t) == GoesOn(t) \/ DiscoveryUnreadable(t)

Next == \/ \E p \in Procs : \/ UserStarts(p) \/ StartFails(p) \/ CtrlC(p)
                            \/ ServiceCrashes(p) \/ ServiceStep(p)
        \/ HostLaunches \/ HostQuits \/ HostCrashes
        \/ \E t \in Tasks : Command(t) \/ TaskStep(t)

\* A process that is alive runs, and its watchdog's and poll loop's sleeps end;
\* nobody has to start, quit or command anything, and no read has to fail.
Fairness == /\ \A p \in Procs : WF_vars(ServiceStep(p))
            /\ \A t \in Tasks : WF_vars(GoesOn(t))

Spec == Init /\ [][Next]_vars /\ Fairness

------------------------------------------------------------------------------
(* Properties.                                                                  *)

\* Type invariant: a host that is down has no connection and no task, a child is
\* recorded only in an owned connection, and the lock is held by a live process
\* that has not begun to shut down.
TypeOK ==
    /\ svc \in [Procs -> [st : Running \cup Ended \cup {"none"},
                          parent : Hosts \cup {0}, watch : 0..Launchd]]
    /\ lock \in Procs \cup {0}
    /\ file \in Procs \cup {0}
    /\ host \in 0..MaxHosts
    /\ conn \in [inst : Procs \cup {0}, owned : BOOLEAN, child : Procs \cup {0}]
    /\ task \in [Tasks -> [pc : {"idle", "lookup", "poll", "ask", "again", "retry"},
                           child : Procs \cup {0}, asked : Procs \cup {0}]]
    /\ conn.child # 0 => conn.owned
    /\ lock # 0 => svc[lock].st \in Holding
    /\ ~up => conn = NoConn /\ task = [t \in Tasks |-> Idle]

\* The service that serves is the one the discovery file leads to, and whoever
\* else still has the database open is on its way out: between publishing and
\* shutting down the file names this process, and any other one that has opened
\* the store has already been told to stop, although any number of services are
\* started, raced and crashed by hosts and users.
OwnerIsDiscoverable ==
    \A p \in Procs : svc[p].st \in {"published", "serve"} =>
        /\ file = p
        /\ \A q \in Procs \ {p} : svc[q].st \in HasDatabase => svc[q].st = "stopping"

\* What the lock is for: one process at a time has the database open.  A service
\* that shuts down gives up the lock with its store still open.
OneHasTheDatabase ==
    \A p, q \in Procs : svc[p].st \in HasDatabase /\ svc[q].st \in HasDatabase => p = q

\* A host that ends, or gives up on a child, ends no service but its own
\* children: "A service the user started independently is left running".
HostSparesOthers ==
    [][(up /\ up' # up) \/ (\E t \in Tasks : PollGivesUp(t)) =>
         \A p \in Procs : svc[p].parent # host => svc'[p] = svc[p]]_vars

\* Once the host that started a service is gone, so is the service: whatever the
\* host could release when it quit, whether it quit at all, and also when it was
\* gone before the service looked for its parent.
OwnedServiceStops ==
    \A p \in Procs :
        svc[p].parent \in Hosts /\ ~HostAlive(svc[p].parent)
            ~> svc[p].st \in Ended

\* A command always comes back, through at most one recovery, however services
\* come and go while it runs.
EveryCommandReturns == \A t \in Tasks : task[t].pc # "idle" ~> task[t].pc = "idle"

\* What connect_to_service promises: "A discovery entry is only reused when its
\* recorded process is still alive" (src-tauri/src/lib.rs:219), so that a service
\* that dies under a live host heals on the next command.
ReusesOnlyLive ==
    [][\A t \in Tasks : ReuseService(t) => svc[file].st \in Running]_vars
================================================================================
