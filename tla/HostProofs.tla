------------------------------ MODULE HostProofs ------------------------------
(***************************************************************************)
(* What TLAPS proves of the host: of the service it connects to, module    *)
(* ServiceLifecycle, for any number of processes, hosts and tasks, and of  *)
(* the rail and its card, module HostWindows, for any displays, rings,     *)
(* frames and number of inputs.                                            *)
(*                                                                         *)
(* The service that serves is the one service.json leads to, and a host    *)
(* ends no service but its own children.  The discovery file alone        *)
(* shows nothing: it survives the death of who wrote it.  What every step  *)
(* keeps is that only the holder of the lock has the database open, and    *)
(* that only it writes the file; and that whatever child the host has      *)
(* recorded was spawned by this host and by no earlier one.                *)
(*                                                                         *)
(* The card shows what the rail has selected, or is about to go.  The last *)
(* selection the main thread has yet to hear is the rail's; if there is    *)
(* none, the host has the rail's already, or has dismissed it and the rail *)
(* has yet to hear of that; and a card that is up or coming up for no      *)
(* selection has a hide behind it.                                         *)
(*                                                                         *)
(* The panel comes back onto the displays.  Every frame is made of whole   *)
(* numbers, and so is what is on its way to the main thread; the nearest   *)
(* place on a display with room for the panel holds all of it, and         *)
(* displays together show no less of a frame than the one that holds it.   *)
(***************************************************************************)
EXTENDS ServiceLifecycle, HostWindows, SequenceTheorems, WellFoundedInduction, TLAPS

-------------------------------------------------------------------------------
(* The service and its host.                                               *)

States    == Running \cup Ended \cup {"none"}
Processes == [st : States, parent : Hosts \cup {0}, watch : 0..Launchd]

SvcTypes == svc \in [Procs -> Processes]
RestTypes ==
    /\ lock \in Procs \cup {0} /\ file \in Procs \cup {0}
    /\ host \in 0..MaxHosts /\ up \in BOOLEAN
ConnTypes == /\ conn \in [inst : Procs \cup {0}, owned : BOOLEAN, child : Procs \cup {0}]
             /\ conn.child # 0 => conn.owned
Pcs == {"idle", "lookup", "poll", "ask", "again", "retry"}
TaskRecords == [pc : Pcs, child : Procs \cup {0}, asked : Procs \cup {0}]
TaskTypes == task \in [Tasks -> TaskRecords]
DownIsBare == ~up => conn = NoConn /\ task = [t \in Tasks |-> Idle]

\* The lock and the database: who holds the one has the other open.
LockIsHeld == lock # 0 => svc[lock].st \in Holding
OnlyTheHolder == \A p \in Procs : svc[p].st \in Holding => lock = p

\* The file and the lock: what a process wrote stays while it is published.
FileIsItsOwn == \A p \in Procs : svc[p].st \in {"published", "serve"} => file = p

\* The children a host has recorded are its own.
ChildrenAreOwn ==
    /\ conn.child # 0 => svc[conn.child].parent = host
    /\ \A t \in Tasks : task[t].child # 0 => svc[task[t].child].parent = host

Locked == LockIsHeld /\ OnlyTheHolder /\ FileIsItsOwn
Inv == /\ SvcTypes /\ RestTypes /\ ConnTypes /\ TaskTypes /\ DownIsBare
       /\ Locked /\ ChildrenAreOwn

------------------------------------------------------------------------------
(* What a step does to the processes.                                           *)

\* Zero, which stands for no process and no host, is neither.
LEMMA ZeroIsNobody == 0 \notin Procs /\ 0 \notin Hosts /\ Launchd \in Nat /\ Hosts \subseteq 0..Launchd
  BY LifecycleAssumption DEF Hosts, Launchd

\* A process that moves on changes nothing but its state.
LEMMA MovesOn ==
    ASSUME SvcTypes, NEW p \in Procs, NEW s \in States, svc' = [svc EXCEPT ![p].st = s]
    PROVE  /\ SvcTypes'
           /\ svc'[p].st = s
           /\ \A q \in Procs : svc'[q].parent = svc[q].parent
           /\ \A q \in Procs \ {p} : svc'[q] = svc[q]
  <1> DEFINE r == [svc[p] EXCEPT !.st = s]
  <1>1. svc[p] \in Processes
    BY DEF SvcTypes
  <1>2. r \in Processes /\ r.st = s /\ r.parent = svc[p].parent
    BY <1>1 DEF Processes
  <1>3. svc' = [svc EXCEPT ![p] = r]
    OBVIOUS
  <1> HIDE DEF r
  <1> QED  BY <1>2, <1>3 DEF SvcTypes

\* A set of processes ends; of the others at most the zombies are reaped.
Dies(P) ==
    /\ SvcTypes'
    /\ \A p \in Procs : svc'[p].parent = svc[p].parent
    /\ \A p \in P : svc'[p].st \in Ended
    /\ \A p \in Procs \ P : svc'[p].st = svc[p].st \/ (svc[p].st \in Ended /\ svc'[p].st \in Ended)
    /\ lock' = IF lock \in P THEN 0 ELSE lock

\* A killed process is a zombie or gone, and nobody else notices.
LEMMA KillsOnly ==
    ASSUME SvcTypes, NEW P \in SUBSET Procs, Kills(P)
    PROVE  Dies(P) /\ \A p \in Procs \ P : svc'[p] = svc[p]
  <1> DEFINE e(p) == EndIn(svc, p)[p]
  <1>1. ASSUME NEW p \in Procs
        PROVE  e(p) \in Processes /\ e(p).parent = svc[p].parent /\ e(p).st \in Ended
    <2> DEFINE z == IF HostAlive(svc[p].parent) THEN "zombie" ELSE "gone"
               r == [svc[p] EXCEPT !.st = z]
    <2>1. z \in Ended
      BY DEF Ended
    <2> HIDE DEF z
    <2>2. svc[p] \in Processes
      BY DEF SvcTypes
    <2>3. r \in Processes /\ r.parent = svc[p].parent /\ r.st \in Ended
      BY <2>1, <2>2 DEF Processes, States
    <2>4. e(p) = r
      BY DEF EndIn, SvcTypes, z
    <2> HIDE DEF r
    <2> QED  BY <2>3, <2>4
  <1> HIDE DEF e
  <1>2. svc' = [p \in Procs |-> IF p \in P THEN e(p) ELSE svc[p]]
        /\ lock' = IF lock \in P THEN 0 ELSE lock
    BY DEF Kills, e
  <1> QED  BY <1>1, <1>2 DEF Dies, SvcTypes

\* So it is with those a host takes along; the children it leaves are reaped.
LEMMA HostEndsOnly ==
    ASSUME SvcTypes, NEW P \in SUBSET Procs, HostEnds(P)
    PROVE  /\ Dies(P)
           /\ \A p \in Procs \ P : svc[p].parent # host => svc'[p] = svc[p]
  <1> DEFINE g(p) == [svc[p] EXCEPT !.st = "gone"]
  <1>1. ASSUME NEW p \in Procs
        PROVE  /\ svc[p] \in Processes /\ g(p) \in Processes
               /\ g(p).parent = svc[p].parent /\ g(p).st = "gone"
    <2>1. svc[p] \in Processes
      BY DEF SvcTypes
    <2> QED  BY <2>1 DEF Processes, States, Ended
  <1> HIDE DEF g
  <1>2. /\ svc' = [p \in Procs |->
                     IF svc[p].parent = host /\ (p \in P \/ svc[p].st = "zombie")
                       THEN g(p) ELSE IF p \in P THEN g(p) ELSE svc[p]]
        /\ lock' = IF lock \in P THEN 0 ELSE lock
    BY DEF HostEnds, g
  <1> QED  BY <1>1, <1>2 DEF Dies, SvcTypes, Ended

\* Deaths leave the lock to its holder, or free.
LEMMA DeathsKeepTheLock ==
    ASSUME Inv, NEW P \in SUBSET Procs, Dies(P), UNCHANGED file
    PROVE  Locked' /\ lock' \in Procs \cup {0}
  <1>1. LockIsHeld' /\ lock' \in Procs \cup {0}
    BY ZeroIsNobody DEF Inv, Locked, LockIsHeld, Dies, RestTypes, Holding, Ended
  <1>2. OnlyTheHolder'
    BY DEF Inv, Locked, OnlyTheHolder, Dies, Holding, Ended
  <1>3. FileIsItsOwn'
    BY DEF Inv, Locked, FileIsItsOwn, Dies, Ended
  <1> QED  BY <1>1, <1>2, <1>3 DEF Locked

\* Parents are for life.
LEMMA ChildrenStayOwn ==
    ASSUME Inv, \A p \in Procs : svc'[p].parent = svc[p].parent,
           UNCHANGED <<host, conn, task>>
    PROVE  ChildrenAreOwn'
  BY ZeroIsNobody DEF Inv, ChildrenAreOwn, ConnTypes, TaskTypes, TaskRecords

\* A host that ends leaves everything in order.
LEMMA HostEndsSafely ==
    ASSUME Inv, NEW P \in SUBSET Procs, HostEnds(P)
    PROVE  Inv'
  <1>1. Dies(P)
    BY HostEndsOnly DEF Inv
  <1>2. UNCHANGED <<file, host>> /\ up' = FALSE /\ conn' = NoConn
        /\ task' = [t \in Tasks |-> Idle]
    BY DEF HostEnds
  <1>3. Locked' /\ lock' \in Procs \cup {0}
    BY <1>1, <1>2, DeathsKeepTheLock
  <1>4. SvcTypes' /\ RestTypes' /\ DownIsBare'
    BY <1>1, <1>2, <1>3 DEF Dies, Inv, RestTypes, DownIsBare
  <1>5. ConnTypes' /\ TaskTypes' /\ ChildrenAreOwn'
    BY <1>2 DEF ConnTypes, TaskTypes, TaskRecords, Pcs, ChildrenAreOwn, NoConn, Idle
  <1> QED  BY <1>3, <1>4, <1>5 DEF Inv

\* A death the host does not cause, or causes and survives.
LEMMA DeathsAreSafe ==
    ASSUME Inv, NEW P \in SUBSET Procs, Kills(P), UNCHANGED <<file, host, up, conn, task>>
    PROVE  Inv'
  <1>1. Dies(P)
    BY KillsOnly DEF Inv
  <1>2. Locked' /\ lock' \in Procs \cup {0}
    BY <1>1, DeathsKeepTheLock
  <1>3. SvcTypes' /\ RestTypes' /\ ChildrenAreOwn'
    BY <1>1, <1>2, ChildrenStayOwn DEF Dies, Inv, RestTypes
  <1>4. ConnTypes' /\ TaskTypes' /\ DownIsBare'
    BY DEF Inv, ConnTypes, TaskTypes, DownIsBare
  <1> QED  BY <1>2, <1>3, <1>4 DEF Inv

------------------------------------------------------------------------------
(* The steps of the processes.                                                  *)

\* What a step of one process leaves to the others, given the lock's new holder
\* and the file's new contents.
LEMMA MoveIsSafe ==
    ASSUME Inv, NEW p \in Procs, NEW s \in States, svc' = [svc EXCEPT ![p].st = s],
           UNCHANGED <<host, up, conn, task>>,
           lock' \in Procs \cup {0}, file' \in Procs \cup {0}, Locked'
    PROVE  Inv'
  <1>1. SvcTypes' /\ \A q \in Procs : svc'[q].parent = svc[q].parent
    BY MovesOn DEF Inv
  <1>2. ChildrenAreOwn'
    BY <1>1, ChildrenStayOwn
  <1>3. RestTypes' /\ ConnTypes' /\ TaskTypes' /\ DownIsBare'
    BY DEF Inv, RestTypes, ConnTypes, TaskTypes, DownIsBare
  <1> QED  BY <1>1, <1>2, <1>3 DEF Inv

\* Nothing but the host's connection and tasks moves.
LEMMA HostMovesSafely ==
    ASSUME Inv, UNCHANGED <<svc, lock, file, host, up>>,
           ConnTypes', TaskTypes', DownIsBare', ChildrenAreOwn'
    PROVE  Inv'
  BY DEF Inv, SvcTypes, RestTypes, Locked, LockIsHeld, OnlyTheHolder, FileIsItsOwn

\* A service process takes a step.
LEMMA ServicesKeepInv ==
    ASSUME Inv, NEW p \in Procs,
           \/ UserStarts(p) \/ StartFails(p) \/ CtrlC(p)
           \/ ServiceCrashes(p) \/ ServiceStep(p)
    PROVE  Inv'
  <1>t. /\ SvcTypes /\ Locked /\ lock \in Procs \cup {0} /\ file \in Procs \cup {0}
        /\ p # 0
    BY ZeroIsNobody DEF Inv, RestTypes
  <1>s. {"start", "open", "writing", "published", "serve", "stopping"} \subseteq States
    BY DEF States, Running
  <1>1. CASE UserStarts(p)
    <2>1. svc' = [svc EXCEPT ![p].st = "start"] /\ svc[p].st = "none"
          /\ UNCHANGED <<lock, file>>
      BY <1>1 DEF UserStarts, Unstarted
    <2>2. svc'[p].st = "start" /\ \A q \in Procs \ {p} : svc'[q] = svc[q]
      BY <1>s, <1>t, <2>1, MovesOn
    <2>3. Locked'
      BY <1>t, <2>1, <2>2 DEF Locked, LockIsHeld, OnlyTheHolder, FileIsItsOwn, Holding
    <2> QED  BY <1>1, <1>s, <1>t, <2>1, <2>3, MoveIsSafe DEF UserStarts
  <1>2. CASE StartFails(p) \/ ServiceCrashes(p) \/ WatchdogExits(p) \/ MainReturns(p)
    BY <1>2, DeathsAreSafe DEF StartFails, ServiceCrashes, WatchdogExits, MainReturns
  <1>3. CASE CtrlC(p)
    <2>1. svc' = [svc EXCEPT ![p].st = "stopping"] /\ svc[p].st = "serve"
          /\ lock' = (IF lock = p THEN 0 ELSE lock) /\ UNCHANGED file
      BY <1>3 DEF CtrlC, Step
    <2>2. svc'[p].st = "stopping" /\ \A q \in Procs \ {p} : svc'[q] = svc[q]
      BY <1>s, <1>t, <2>1, MovesOn
    <2>3. Locked'
      BY <1>t, <2>1, <2>2 DEF Locked, LockIsHeld, OnlyTheHolder, FileIsItsOwn, Holding
    <2>4. lock' \in Procs \cup {0}
      BY <1>t, <2>1
    <2> QED  BY <1>3, <1>s, <1>t, <2>1, <2>3, <2>4, MoveIsSafe DEF CtrlC
  <1>4. CASE TryAcquire(p)
    <2>1. CASE lock = 0
      <3>1. svc' = [svc EXCEPT ![p].st = "open"] /\ lock' = p /\ UNCHANGED file
        BY <1>4, <2>1 DEF TryAcquire, Step
      <3>2. svc'[p].st = "open" /\ \A q \in Procs \ {p} : svc'[q] = svc[q]
        BY <1>s, <1>t, <3>1, MovesOn
      <3>3. Locked'
        BY <1>t, <2>1, <3>1, <3>2, ZeroIsNobody
           DEF Locked, LockIsHeld, OnlyTheHolder, FileIsItsOwn, Holding
      <3> QED  BY <1>4, <1>s, <1>t, <3>1, <3>3, MoveIsSafe DEF TryAcquire
    <2>2. CASE lock # 0
      BY <1>4, <2>2, DeathsAreSafe DEF TryAcquire
    <2> QED  BY <2>1, <2>2
  <1>5. CASE TruncateDiscovery(p)
    <2>1. svc' = [svc EXCEPT ![p].st = "writing"] /\ svc[p].st = "open"
          /\ file' = 0 /\ UNCHANGED lock
      BY <1>5 DEF TruncateDiscovery, Step
    <2>2. svc'[p].st = "writing" /\ \A q \in Procs \ {p} : svc'[q] = svc[q]
      BY <1>s, <1>t, <2>1, MovesOn
    <2>3. lock = p
      BY <1>t, <2>1 DEF Locked, OnlyTheHolder, Holding
    <2>4. Locked'
      BY <1>t, <2>1, <2>2, <2>3 DEF Locked, LockIsHeld, OnlyTheHolder, FileIsItsOwn, Holding
    <2> QED  BY <1>5, <1>s, <1>t, <2>1, <2>4, MoveIsSafe DEF TruncateDiscovery
  <1>6. CASE WriteDiscovery(p)
    <2>1. svc' = [svc EXCEPT ![p].st = "published"] /\ svc[p].st = "writing"
          /\ file' = p /\ UNCHANGED lock
      BY <1>6 DEF WriteDiscovery, Step
    <2>2. svc'[p].st = "published" /\ \A q \in Procs \ {p} : svc'[q] = svc[q]
      BY <1>s, <1>t, <2>1, MovesOn
    <2>3. lock = p
      BY <1>t, <2>1 DEF Locked, OnlyTheHolder, Holding
    <2>4. Locked'
      BY <1>t, <2>1, <2>2, <2>3 DEF Locked, LockIsHeld, OnlyTheHolder, FileIsItsOwn, Holding
    <2> QED  BY <1>6, <1>s, <1>t, <2>1, <2>4, MoveIsSafe DEF WriteDiscovery
  <1>7. CASE BeginServing(p)
    <2> DEFINE w == IF svc[p].watch = 0 /\ svc[p].parent # 0
                      THEN IF HostAlive(svc[p].parent) THEN svc[p].parent ELSE Launchd
                      ELSE svc[p].watch
               r == [svc[p] EXCEPT !.st = "serve", !.watch = w]
    <2>1. svc[p] \in Processes
      BY <1>t DEF SvcTypes
    <2>2. w \in 0..Launchd
      <3>1. Launchd \in 0..Launchd /\ Hosts \subseteq 0..Launchd
        BY ZeroIsNobody
      <3>2. svc[p].parent \in Hosts \cup {0} /\ svc[p].watch \in 0..Launchd
        BY <2>1 DEF Processes
      <3>3. CASE svc[p].watch = 0 /\ svc[p].parent # 0
        BY <3>1, <3>2, <3>3
      <3>4. CASE ~(svc[p].watch = 0 /\ svc[p].parent # 0)
        BY <3>2, <3>4
      <3> QED  BY <3>3, <3>4
    <2>3. svc' = [svc EXCEPT ![p] = r] /\ svc[p].st = "published" /\ UNCHANGED <<lock, file>>
      BY <1>7, <1>t DEF BeginServing, SvcTypes
    <2> HIDE DEF w
    <2>4. r \in Processes /\ r.st = "serve" /\ r.parent = svc[p].parent
      BY <1>s, <2>1, <2>2 DEF Processes
    <2> HIDE DEF r
    <2>5. /\ SvcTypes' /\ svc'[p].st = "serve" /\ \A q \in Procs \ {p} : svc'[q] = svc[q]
          /\ \A q \in Procs : svc'[q].parent = svc[q].parent
      BY <1>t, <2>3, <2>4 DEF SvcTypes
    <2>6. Locked'
      BY <1>t, <2>3, <2>5 DEF Locked, LockIsHeld, OnlyTheHolder, FileIsItsOwn, Holding
    <2>7. UNCHANGED <<lock, file, host, up, conn, task>>
      BY <1>7 DEF BeginServing
    <2>8. ChildrenAreOwn'
      BY <2>5, <2>7, ChildrenStayOwn
    <2> QED  BY <2>5, <2>6, <2>7, <2>8 DEF Inv, RestTypes, ConnTypes, TaskTypes, DownIsBare
  <1> QED  BY <1>1, <1>2, <1>3, <1>4, <1>5, <1>6, <1>7 DEF ServiceStep

------------------------------------------------------------------------------
(* The steps of the host.                                                       *)

\* A task that moves on to another pc, with a child of this host or none.
LEMMA TaskMoves ==
    ASSUME ConnTypes, TaskTypes, NEW t \in Tasks, NEW pc \in Pcs,
           NEW c \in Procs \cup {0}, Move(t, pc, c)
    PROVE  /\ TaskTypes'
           /\ task'[t].child = c
           /\ \A s \in Tasks \ {t} : task'[s] = task[s]
  <1> DEFINE a == IF pc \in {"ask", "retry"} THEN conn.inst ELSE 0
             r == [pc |-> pc, child |-> c, asked |-> a]
  <1>0. a \in Procs \cup {0}
    BY DEF ConnTypes
  <1>1. r \in TaskRecords /\ r.child = c
    BY <1>0 DEF TaskRecords
  <1>2. task' = [task EXCEPT ![t] = r]
    BY DEF Move
  <1> HIDE DEF r
  <1>3. task \in [Tasks -> TaskRecords]
    BY DEF TaskTypes
  <1>4. task' \in [Tasks -> TaskRecords] /\ task'[t] = r /\ \A s \in Tasks \ {t} : task'[s] = task[s]
    BY <1>1, <1>2, <1>3
  <1> QED  BY <1>1, <1>4 DEF TaskTypes

\* A task of a host that is up moves on, with no child.
LEMMA TaskMovesOn ==
    ASSUME Inv, NEW t \in Tasks, NEW pc \in Pcs,
           up, Move(t, pc, 0), UNCHANGED <<svc, lock, file, host, up, conn>>
    PROVE  Inv'
  <1>1. /\ TaskTypes' /\ task'[t].child = 0
        /\ \A s \in Tasks \ {t} : task'[s] = task[s]
    BY TaskMoves DEF Inv
  <1>2. ChildrenAreOwn' /\ ConnTypes' /\ DownIsBare'
    BY <1>1 DEF Inv, ChildrenAreOwn, ConnTypes, DownIsBare
  <1> QED  BY <1>1, <1>2, HostMovesSafely

\* A connection is adopted: one that records no child, or one of this host's.
LEMMA AdoptIsSafe ==
    ASSUME Inv, NEW t \in Tasks, up,
           NEW i \in Procs, NEW o \in BOOLEAN, NEW c \in Procs \cup {0},
           c # 0 => o /\ svc[c].parent = host,
           Adopt(t, [inst |-> i, owned |-> o, child |-> c])
    PROVE  Inv'
  <1>1. \E pc \in Pcs : Move(t, pc, 0)
    BY DEF Adopt, Pcs
  <1>2. /\ TaskTypes' /\ task'[t].child = 0
        /\ \A s \in Tasks \ {t} : task'[s] = task[s]
    BY <1>1, TaskMoves DEF Inv
  <1>3. UNCHANGED <<svc, lock, file, host, up>>
        /\ conn' = [inst |-> i, owned |-> o, child |-> c]
    BY DEF Adopt
  <1>4. ConnTypes' /\ DownIsBare'
    BY <1>3 DEF ConnTypes, DownIsBare
  <1>5. ChildrenAreOwn'
    BY <1>2, <1>3 DEF Inv, ChildrenAreOwn
  <1> QED  BY <1>2, <1>3, <1>4, <1>5, HostMovesSafely

\* A connection that is not found ends the host or the command.
LEMMA ConnectFailsSafely ==
    ASSUME Inv, NEW t \in Tasks, up, NEW P \in SUBSET Procs, ConnectFails(t, P)
    PROVE  Inv'
  <1>1. CASE conn.inst = 0
    BY <1>1, HostEndsSafely DEF ConnectFails
  <1>2. CASE conn.inst # 0
    <2>1. Kills(P) /\ Move(t, "idle", 0) /\ UNCHANGED <<file, host, up, conn>>
      BY <1>2 DEF ConnectFails
    <2>2. Dies(P)
      BY <2>1, KillsOnly DEF Inv
    <2>3. Locked' /\ lock' \in Procs \cup {0}
      BY <2>1, <2>2, DeathsKeepTheLock
    <2>4. /\ TaskTypes' /\ task'[t].child = 0
          /\ \A s \in Tasks \ {t} : task'[s] = task[s]
      BY <2>1, TaskMoves DEF Inv, Pcs
    <2>5. ChildrenAreOwn'
      <3>1. conn'.child # 0 => svc'[conn'.child].parent = host'
        BY <2>1, <2>2 DEF Inv, ChildrenAreOwn, ConnTypes, Dies
      <3>2. ASSUME NEW s \in Tasks, task'[s].child # 0
            PROVE  svc'[task'[s].child].parent = host'
        <4>1. task'[s] = task[s] /\ task[s].child \in Procs
          BY <2>4, <3>2 DEF Inv, TaskTypes, TaskRecords
        <4> QED  BY <2>1, <2>2, <3>2, <4>1 DEF Inv, ChildrenAreOwn, Dies
      <3> QED  BY <3>1, <3>2 DEF ChildrenAreOwn
    <2>6. SvcTypes' /\ RestTypes' /\ ConnTypes' /\ DownIsBare'
      BY <2>1, <2>2, <2>3 DEF Dies, Inv, RestTypes, ConnTypes, DownIsBare
    <2> QED  BY <2>3, <2>4, <2>5, <2>6 DEF Inv
  <1> QED  BY <1>1, <1>2

\* The children a host kills are processes, and its own.
LEMMA KillsOwnChildren ==
    ASSUME Inv
    PROVE  /\ ReleaseOwned \in SUBSET {p \in Procs : svc[p].parent = host}
           /\ \A t \in Tasks : RunningOnly({task[t].child}) \in
                                 SUBSET {p \in Procs : svc[p].parent = host}
  BY ZeroIsNobody DEF Inv, ReleaseOwned, RunningOnly, ChildrenAreOwn

\* A host is launched: it knows no service and no child yet.
LEMMA LaunchIsSafe == ASSUME Inv, HostLaunches PROVE Inv'
  <1> DEFINE at == [Idle EXCEPT !.pc = "lookup"]
  <1>1. at \in TaskRecords /\ at.child = 0 /\ Idle \in TaskRecords /\ Idle.child = 0
    BY DEF TaskRecords, Pcs, Idle
  <1>2. /\ up' = TRUE /\ host' = host + 1 /\ host < MaxHosts /\ conn' = NoConn
        /\ task' = [t \in Tasks |-> IF t = Startup THEN at ELSE Idle]
        /\ UNCHANGED <<svc, lock, file>>
    BY DEF HostLaunches
  <1> HIDE DEF at
  <1>3. task' \in [Tasks -> TaskRecords] /\ \A t \in Tasks : task'[t].child = 0
    BY <1>1, <1>2
  <1>4. TaskTypes' /\ ConnTypes' /\ ChildrenAreOwn' /\ DownIsBare'
    BY <1>2, <1>3 DEF TaskTypes, ConnTypes, NoConn, ChildrenAreOwn, DownIsBare
  <1>5. RestTypes'
    BY <1>2, LifecycleAssumption DEF Inv, RestTypes
  <1>6. SvcTypes' /\ Locked'
    BY <1>2 DEF Inv, SvcTypes, Locked, LockIsHeld, OnlyTheHolder, FileIsItsOwn
  <1> QED  BY <1>4, <1>5, <1>6 DEF Inv

\* A spawned child is this host's.
LEMMA SpawnIsSafe == ASSUME Inv, NEW t \in Tasks, SpawnService(t) PROVE Inv'
  <1>1. PICK p \in Procs :
          /\ Unstarted(p)
          /\ svc' = [svc EXCEPT ![p].st = "start", ![p].parent = host]
          /\ Move(t, "poll", p)
    BY DEF SpawnService
  <1>2. up /\ UNCHANGED <<lock, file, host, up, conn>>
    BY DEF SpawnService, At
  <1> DEFINE r == [svc[p] EXCEPT !.st = "start", !.parent = host]
  <1>3. svc[p] \in Processes /\ host \in Hosts \cup {0} /\ "start" \in States
    BY LifecycleAssumption DEF Inv, SvcTypes, RestTypes, Hosts, States, Running
  <1>4. r \in Processes /\ r.st = "start" /\ r.parent = host
    BY <1>3 DEF Processes
  <1>5. svc' = [svc EXCEPT ![p] = r]
    BY <1>1 DEF Inv, SvcTypes
  <1> HIDE DEF r
  <1>6. /\ SvcTypes' /\ svc'[p].st = "start" /\ svc'[p].parent = host
        /\ \A q \in Procs \ {p} : svc'[q] = svc[q]
    BY <1>4, <1>5 DEF Inv, SvcTypes
  <1>7. Locked'
    BY <1>1, <1>2, <1>6
       DEF Inv, RestTypes, Unstarted, Locked, LockIsHeld, OnlyTheHolder, FileIsItsOwn, Holding
  <1>8. /\ TaskTypes' /\ task'[t].child = p
        /\ \A s \in Tasks \ {t} : task'[s] = task[s]
    BY <1>1, TaskMoves DEF Inv, Pcs
  <1>9. ChildrenAreOwn'
    <2>1. \A q \in Procs : svc[q].parent = host => svc'[q].parent = host
      BY <1>6
    <2>2. conn'.child # 0 => svc'[conn'.child].parent = host'
      BY <1>2, <2>1 DEF Inv, ChildrenAreOwn, ConnTypes
    <2>3. ASSUME NEW s \in Tasks, task'[s].child # 0
          PROVE  svc'[task'[s].child].parent = host'
      <3>1. CASE s = t
        BY <1>2, <1>6, <1>8, <3>1
      <3>2. CASE s # t
        <4>1. task'[s] = task[s] /\ task[s].child \in Procs
          BY <1>8, <2>3, <3>2 DEF Inv, TaskTypes, TaskRecords
        <4> QED  BY <1>2, <2>1, <2>3, <4>1 DEF Inv, ChildrenAreOwn
      <3> QED  BY <3>1, <3>2
    <2> QED  BY <2>2, <2>3 DEF ChildrenAreOwn
  <1>10. RestTypes' /\ ConnTypes' /\ DownIsBare'
    BY <1>2 DEF Inv, RestTypes, ConnTypes, DownIsBare
  <1> QED  BY <1>6, <1>7, <1>8, <1>9, <1>10 DEF Inv

\* Every state has the invariant: the first ...
LEMMA InvInit == Init => Inv
  <1> SUFFICES ASSUME Init PROVE Inv
    OBVIOUS
  <1>1. SvcTypes
    <2>1. [st |-> "none", parent |-> 0, watch |-> 0] \in Processes
      BY ZeroIsNobody DEF Processes, States
    <2> QED  BY <2>1 DEF Init, SvcTypes
  <1>2. RestTypes /\ ConnTypes /\ DownIsBare
    <2>1. RestTypes
      <3>1. up \in BOOLEAN /\ lock \in Procs \cup {0} /\ file \in Procs \cup {0}
        BY DEF Init
      <3>2. host = 0 /\ MaxHosts \in Nat
        BY LifecycleAssumption DEF Init
      <3>3. host \in 0..MaxHosts
        BY <3>2
      <3> QED  BY <3>1, <3>3 DEF RestTypes
    <2>2. ConnTypes
      BY DEF Init, ConnTypes, NoConn
    <2>3. DownIsBare
      BY DEF Init, DownIsBare
    <2> QED  BY <2>1, <2>2, <2>3
  <1>3. TaskTypes /\ ChildrenAreOwn
    BY DEF Init, TaskTypes, TaskRecords, Pcs, Idle, ChildrenAreOwn, NoConn
  <1>4. Locked
    BY DEF Init, Locked, LockIsHeld, OnlyTheHolder, FileIsItsOwn, Holding
  <1> QED  BY <1>1, <1>2, <1>3, <1>4 DEF Inv

\* ... and those a task's step leads to.
LEMMA TasksKeepInv == ASSUME Inv, NEW t \in Tasks, Command(t) \/ TaskStep(t) PROVE Inv'
  <1>1. CASE Command(t) \/ AsksAgain(t) \/ Answered(t) \/ Stale(t) \/ RetryFails(t)
    BY <1>1, TaskMovesOn DEF Command, AsksAgain, Answered, Stale, RetryFails, At, Pcs
  <1>2. CASE ReuseService(t)
    <2>1. up /\ file \in Procs
      BY <1>2 DEF ReuseService, At, ProcessIsAlive, Inv, RestTypes
    <2> DEFINE o == svc[file].parent # 0
    <2>2. o \in BOOLEAN /\ Adopt(t, [inst |-> file, owned |-> o, child |-> 0])
      BY <1>2 DEF ReuseService
    <2> HIDE DEF o
    <2> QED  BY <2>1, <2>2, AdoptIsSafe
  <1>3. CASE SpawnService(t)
    BY <1>3, SpawnIsSafe
  <1>4. CASE SpawnFails(t) \/ DiscoveryUnreadable(t)
    BY <1>4, ConnectFailsSafely DEF SpawnFails, DiscoveryUnreadable, At
  <1>5. CASE PollFinds(t)
    <2>1. up /\ file \in Procs
      BY <1>5 DEF PollFinds, At, ProcessIsAlive, Inv, RestTypes
    <2>2. task[t].child \in Procs \cup {0}
          /\ (task[t].child # 0 => svc[task[t].child].parent = host)
      BY DEF Inv, TaskTypes, TaskRecords, ChildrenAreOwn
    <2>3. Adopt(t, [inst |-> file, owned |-> TRUE, child |-> task[t].child])
      BY <1>5 DEF PollFinds
    <2> QED  BY <2>1, <2>2, <2>3, AdoptIsSafe
  <1>6. CASE PollGivesUp(t)
    BY <1>6, KillsOwnChildren, ConnectFailsSafely DEF PollGivesUp, At
  <1> QED  BY <1>1, <1>2, <1>3, <1>4, <1>5, <1>6 DEF TaskStep, GoesOn

\* Every step keeps it.
LEMMA InvStep == Inv /\ [Next]_vars => Inv'
  <1> SUFFICES ASSUME Inv, [Next]_vars PROVE Inv'
    OBVIOUS
  <1>1. ASSUME NEW p \in Procs,
               \/ UserStarts(p) \/ StartFails(p) \/ CtrlC(p)
               \/ ServiceCrashes(p) \/ ServiceStep(p)
        PROVE  Inv'
    BY <1>1, ServicesKeepInv
  <1>2. CASE HostLaunches
    BY <1>2, LaunchIsSafe
  <1>3. CASE HostQuits \/ HostCrashes
    BY <1>3, KillsOwnChildren, HostEndsSafely DEF HostQuits, HostCrashes
  <1>4. ASSUME NEW t \in Tasks, Command(t) \/ TaskStep(t) PROVE Inv'
    BY <1>4, TasksKeepInv
  <1>5. CASE UNCHANGED vars
    BY <1>5 DEF vars, Inv, SvcTypes, RestTypes, ConnTypes, TaskTypes, DownIsBare,
                Locked, LockIsHeld, OnlyTheHolder, FileIsItsOwn, ChildrenAreOwn
  <1> QED  BY <1>1, <1>2, <1>3, <1>4, <1>5 DEF Next

------------------------------------------------------------------------------
(* What follows.                                                                *)

\* What every run of hosts and services keeps: the lock's holder alone has the
\* database open and writes the file, and hosts record their own children.
THEOREM InductiveInvariant == Spec => []Inv
  BY InvInit, InvStep, PTL DEF Spec

\* Every variable keeps its type, a host that is down records nothing, and the
\* lock is never left with a dead process.
THEOREM TypeCorrect == Spec => []TypeOK
  <1>1. Inv => TypeOK
    BY DEF Inv, SvcTypes, RestTypes, ConnTypes, TaskTypes, DownIsBare, Locked, LockIsHeld,
           TypeOK, TaskRecords, Pcs, Processes, States
  <1> QED  BY <1>1, InductiveInvariant, PTL

\* However many services are started, raced, killed and crashed, one that has
\* published itself is the one the file names, and whoever else still has the
\* database open is shutting down.
THEOREM OwnersAreDiscoverable == Spec => []OwnerIsDiscoverable
  <1>1. Inv => OwnerIsDiscoverable
    BY DEF Inv, Locked, OnlyTheHolder, FileIsItsOwn, OwnerIsDiscoverable, HasDatabase, Holding
  <1> QED  BY <1>1, InductiveInvariant, PTL

\* A host that ends, by quitting, crashing or failing to connect, or that gives up
\* on a child, leaves every service it did not start as it was.
THEOREM HostsSpareOthers == Spec => HostSparesOthers
  <1> DEFINE Spares == \A p \in Procs : svc[p].parent # host => svc'[p] = svc[p]
             Ends == (up /\ up' # up) \/ \E t \in Tasks : PollGivesUp(t)
  <1>1. ASSUME Inv, NEW P \in SUBSET {p \in Procs : svc[p].parent = host},
               Kills(P) \/ HostEnds(P)
        PROVE  Spares
    <2>1. P \in SUBSET Procs
      OBVIOUS
    <2> QED  BY <1>1, <2>1, KillsOnly, HostEndsOnly DEF Inv
  <1>2. ASSUME Inv, [Next]_vars, Ends PROVE Spares
    <2>1. ASSUME NEW t \in Tasks, PollGivesUp(t) PROVE Spares
      BY <1>1, <1>2, <2>1, KillsOwnChildren DEF PollGivesUp, ConnectFails
    <2>2. ASSUME up, up' # up PROVE Spares
      <3>1. CASE HostQuits
        BY <1>1, <1>2, <3>1, KillsOwnChildren DEF HostQuits
      <3>2. CASE HostCrashes
        BY <1>1, <1>2, <3>2 DEF HostCrashes
      <3>3. ASSUME NEW t \in Tasks, Command(t) \/ TaskStep(t) PROVE Spares
        <4>1. CASE SpawnFails(t) \/ DiscoveryUnreadable(t)
          BY <1>1, <1>2, <4>1 DEF SpawnFails, DiscoveryUnreadable, ConnectFails
        <4>2. CASE PollGivesUp(t)
          BY <2>1, <4>2
        <4>3. CASE UNCHANGED up
          BY <2>2, <4>3
        <4> QED  BY <3>3, <4>1, <4>2, <4>3
                 DEF TaskStep, GoesOn, Command, ReuseService, SpawnService, PollFinds, Adopt,
                     AsksAgain, Answered, Stale, RetryFails
      <3>4. ASSUME NEW p \in Procs,
                   \/ UserStarts(p) \/ StartFails(p) \/ CtrlC(p)
                   \/ ServiceCrashes(p) \/ ServiceStep(p)
            PROVE  UNCHANGED up
        BY <3>4 DEF UserStarts, StartFails, CtrlC, ServiceCrashes, ServiceStep, TryAcquire,
                    TruncateDiscovery, WriteDiscovery, BeginServing, WatchdogExits, MainReturns
      <3>5. CASE HostLaunches
        BY <2>2, <3>5 DEF HostLaunches
      <3>6. CASE UNCHANGED vars
        BY <2>2, <3>6 DEF vars
      <3> QED  BY <1>2, <2>2, <3>1, <3>2, <3>3, <3>4, <3>5, <3>6 DEF Next
    <2> QED  BY <1>2, <2>1, <2>2
  <1>3. Inv /\ [Next]_vars => [Ends => Spares]_vars
    BY <1>2
  <1> QED  BY <1>3, InductiveInvariant, PTL DEF Spec, HostSparesOthers

-------------------------------------------------------------------------------
(* The rail and its card.                                                  *)

Has(q, what) == \E i \in DOMAIN q : q[i].do = what

(* The last selection among the messages, if there is one, is s.           *)
LastWordIs(q, s) ==
  \A i \in DOMAIN q :
    /\ q[i].do = "select"
    /\ \A j \in DOMAIN q : j > i => q[j].do # "select"
    => q[i].ring = s

Heard(words, what) == \E i \in DOMAIN words : words[i] = what
RailWords == {"dismiss", "reopened", "full", "minimal"}

IsSequence(q) == \E S : q \in Seq(S)

(* What the frames and messages hold plays no part.                        *)
WindowsTypes ==
  /\ IsSequence(mainQueue) /\ toRail \in Seq(RailWords)
  /\ \E s, g, h : detail = [selection |-> s, generation |-> g, height |-> h]
  /\ \E m, s : rail = [minimal |-> m, selected |-> s]

(* What the host has selected is what the rail last told it, unless that   *)
(* is on its way or the rail has yet to hear of a dismissal.               *)
HostFollowsRail ==
  /\ LastWordIs(mainQueue, rail.selected)
  /\ ~Has(mainQueue, "select") =>
       \/ detail.selection = rail.selected
       \/ detail.selection = None /\ Heard(toRail, "dismiss")

(* A card that is up, or about to be put up, for no selection has its hide *)
(* before it.                                                              *)
OrphanWillLeave ==
  (cardShown \/ laying # "idle") /\ detail.selection = None =>
    detail.generation \in hides \/ Has(mainQueue, "hide")

WindowsInv == WindowsTypes /\ HostFollowsRail /\ OrphanWillLeave

-------------------------------------------------------------------------------
(* The main thread's messages.                                             *)

Silent(q) == \A i \in DOMAIN q : q[i].do # "select"

(* Messages behind others.                                                 *)
LEMMA Joined ==
  ASSUME NEW q, NEW r, IsSequence(q), IsSequence(r)
  PROVE  /\ IsSequence(q \o r)
         /\ Len(q) \in Nat /\ Len(r) \in Nat
         /\ DOMAIN q = 1..Len(q) /\ DOMAIN r = 1..Len(r)
         /\ DOMAIN (q \o r) = 1..(Len(q) + Len(r))
         /\ \A i \in DOMAIN q : (q \o r)[i] = q[i]
         /\ \A i \in DOMAIN r : (q \o r)[Len(q) + i] = r[i]
  <1>1. PICK S : q \in Seq(S)
    BY DEF IsSequence
  <1>2. PICK T : r \in Seq(T)
    BY DEF IsSequence
  <1>3. q \in Seq(S \union T) /\ r \in Seq(S \union T)
    BY <1>1, <1>2
  <1>4. q \o r \in Seq(S \union T) /\ Len(q \o r) = Len(q) + Len(r)
    BY <1>3
  <1>5. IsSequence(q \o r)
    BY <1>4 DEF IsSequence
  <1> QED  BY <1>3, <1>4, <1>5

(* What the main thread handles leaves the others in order.                *)
LEMMA Handled ==
  ASSUME NEW q, IsSequence(q), q # <<>>
  PROVE  /\ IsSequence(Tail(q)) /\ Head(q) = q[1]
         /\ Len(q) \in Nat \ {0} /\ DOMAIN q = 1..Len(q)
         /\ DOMAIN Tail(q) = 1..(Len(q) - 1)
         /\ \A i \in DOMAIN Tail(q) : Tail(q)[i] = q[i + 1]
  <1>1. PICK S : q \in Seq(S)
    BY DEF IsSequence
  <1>2. IsSequence(Tail(q))
    BY <1>1 DEF IsSequence
  <1> QED  BY <1>1, <1>2

(* Steps that tell the host no selection and take none from it.            *)
NoWordOfTheRail ==
  /\ IsSequence(mainQueue')
  /\ Has(mainQueue, "select") <=> Has(mainQueue', "select")
  /\ \A s : LastWordIs(mainQueue, s) => LastWordIs(mainQueue', s)

KeepsHides == Has(mainQueue, "hide") => Has(mainQueue', "hide")

(* Messages that are no selection leave the rail's word as it is.          *)
LEMMA PostedSilently ==
  ASSUME WindowsTypes, NEW r, IsSequence(r), Silent(r), Post(r)
  PROVE  NoWordOfTheRail /\ KeepsHides
  <1> DEFINE q == mainQueue
             n == Len(q)
  <1>1. mainQueue' = q \o r /\ IsSequence(q)
    BY DEF Post, WindowsTypes
  <1> HIDE DEF q
  <1>2. /\ IsSequence(q \o r)
        /\ Len(q) \in Nat /\ Len(r) \in Nat
        /\ DOMAIN q = 1..Len(q) /\ DOMAIN r = 1..Len(r)
        /\ DOMAIN (q \o r) = 1..(Len(q) + Len(r))
        /\ \A i \in DOMAIN q : (q \o r)[i] = q[i]
        /\ \A i \in DOMAIN r : (q \o r)[Len(q) + i] = r[i]
    BY <1>1, Joined
  <1> DEFINE p == q \o r
  <1> HIDE DEF p
  <1>3. \A i \in DOMAIN p : i \in DOMAIN q \/ (i > Len(q) /\ p[i].do # "select")
    <2> SUFFICES ASSUME NEW i \in DOMAIN p, i \notin DOMAIN q
                 PROVE  i > Len(q) /\ p[i].do # "select"
      OBVIOUS
    <2>1. i - Len(q) \in DOMAIN r /\ i > Len(q) /\ Len(q) + (i - Len(q)) = i
      BY <1>2 DEF p
    <2>2. p[i] = r[i - Len(q)]
      BY <1>2, <2>1 DEF p
    <2> QED  BY <2>1, <2>2 DEF Silent
  <1>4. \A i \in DOMAIN q : i \in DOMAIN p /\ p[i] = q[i]
    BY <1>2 DEF p
  <1>5. ASSUME NEW s, LastWordIs(q, s) PROVE LastWordIs(p, s)
    BY <1>3, <1>4, <1>5 DEF LastWordIs
  <1>6. Has(q, "select") <=> Has(p, "select")
    BY <1>3, <1>4 DEF Has
  <1>7. Has(q, "hide") => Has(p, "hide")
    BY <1>4 DEF Has
  <1>8. mainQueue = q /\ mainQueue' = p
    BY <1>1 DEF p, q
  <1> QED  BY <1>2, <1>5, <1>6, <1>7, <1>8 DEF NoWordOfTheRail, KeepsHides, p

(* Handling something else does, too.                                      *)
LEMMA HandledSilently ==
  ASSUME WindowsTypes, NEW what, Handle(what), what # "select"
  PROVE  NoWordOfTheRail /\ (what # "hide" => KeepsHides)
  <1> DEFINE q == mainQueue
             p == Tail(q)
  <1>1. mainQueue' = p /\ IsSequence(q) /\ q # <<>> /\ Head(q).do = what /\ mainQueue = q
    BY DEF Handle, WindowsTypes
  <1> HIDE DEF q
  <1>2. /\ IsSequence(p) /\ Head(q) = q[1]
        /\ Len(q) \in Nat \ {0} /\ DOMAIN q = 1..Len(q)
        /\ DOMAIN p = 1..(Len(q) - 1)
        /\ \A i \in DOMAIN p : p[i] = q[i + 1]
    BY <1>1, Handled
  <1> HIDE DEF p
  <1>3. \A i \in DOMAIN p : i + 1 \in DOMAIN q /\ p[i] = q[i + 1]
    BY <1>2
  <1>4. \A i \in DOMAIN q : q[i].do # what => i - 1 \in DOMAIN p /\ p[i - 1] = q[i]
    <2> SUFFICES ASSUME NEW i \in DOMAIN q, q[i].do # what
                 PROVE  i - 1 \in DOMAIN p /\ p[i - 1] = q[i]
      OBVIOUS
    <2>1. i # 1
      BY <1>1, <1>2
    <2>2. i - 1 \in DOMAIN p /\ (i - 1) + 1 = i
      BY <1>2, <2>1
    <2> QED  BY <1>3, <2>2
  <1>5. ASSUME NEW s, LastWordIs(q, s) PROVE LastWordIs(p, s)
    <2> SUFFICES ASSUME NEW i \in DOMAIN p, p[i].do = "select",
                        \A j \in DOMAIN p : j > i => p[j].do # "select"
                 PROVE  p[i].ring = s
      BY DEF LastWordIs
    <2>1. \A j \in DOMAIN q : j > i + 1 => q[j].do # "select"
      <3> SUFFICES ASSUME NEW j \in DOMAIN q, j > i + 1, q[j].do = "select" PROVE FALSE
        OBVIOUS
      <3>1. j - 1 \in DOMAIN p /\ p[j - 1] = q[j]
        BY <1>4
      <3>2. i \in Int /\ j \in Int /\ j - 1 > i
        BY <1>2
      <3> QED  BY <3>1, <3>2
    <2> QED  BY <1>3, <1>5, <2>1 DEF LastWordIs
  <1>6. Has(q, "select") <=> Has(p, "select")
    BY <1>3, <1>4 DEF Has
  <1>7. what # "hide" /\ Has(q, "hide") => Has(p, "hide")
    BY <1>4 DEF Has
  <1> QED  BY <1>1, <1>2, <1>5, <1>6, <1>7 DEF NoWordOfTheRail, KeepsHides

(* The rail speaks: its new selection is the last word the host will hear. *)
LEMMA RailSpeaks ==
  ASSUME WindowsTypes, NEW s, NEW r, IsSequence(r), Silent(r),
         Post(<<Select(s)>> \o r)
  PROVE  /\ IsSequence(mainQueue') /\ KeepsHides
         /\ Has(mainQueue', "select")
         /\ LastWordIs(mainQueue', s)
  <1> DEFINE w == <<Select(s)>>
             m == w \o r
             q == mainQueue
             p == q \o m
  <1>1. IsSequence(w) /\ DOMAIN w = {1} /\ Len(w) = 1 /\ w[1] = Select(s)
    <2>1. w \in Seq({Select(s)})
      OBVIOUS
    <2>2. IsSequence(w)
      BY <2>1 DEF IsSequence
    <2>3. Len(w) = 1 /\ w[1] = Select(s)
      OBVIOUS
    <2>4. DOMAIN w = 1..Len(w)
      BY <2>1
    <2> QED  BY <2>2, <2>3, <2>4
  <1>2. mainQueue' = p /\ IsSequence(q)
    BY DEF Post, WindowsTypes
  <1> HIDE DEF w, q
  <1>3. /\ IsSequence(m) /\ Len(r) \in Nat
        /\ DOMAIN r = 1..Len(r) /\ DOMAIN m = 1..(1 + Len(r))
        /\ m[1] = Select(s)
        /\ \A i \in DOMAIN r : m[1 + i] = r[i]
    <2>0. IsSequence(w)
      BY <1>1
    <2>1. /\ IsSequence(w \o r) /\ Len(w) \in Nat /\ Len(r) \in Nat
          /\ DOMAIN w = 1..Len(w) /\ DOMAIN r = 1..Len(r)
          /\ DOMAIN (w \o r) = 1..(Len(w) + Len(r))
          /\ \A i \in DOMAIN w : (w \o r)[i] = w[i]
          /\ \A i \in DOMAIN r : (w \o r)[Len(w) + i] = r[i]
      BY ONLY <2>0, IsSequence(r), Joined
    <2> QED  BY <1>1, <2>1
  <1> HIDE DEF m
  <1>4. \A i \in DOMAIN m : i # 1 => m[i].do # "select"
    <2> SUFFICES ASSUME NEW i \in DOMAIN m, i # 1 PROVE m[i].do # "select"
      OBVIOUS
    <2>1. i - 1 \in DOMAIN r /\ 1 + (i - 1) = i
      BY <1>3
    <2> QED  BY <1>3, <2>1 DEF Silent
  <1>5. /\ IsSequence(p) /\ Len(q) \in Nat /\ Len(m) \in Nat /\ DOMAIN m = 1..Len(m)
        /\ DOMAIN q = 1..Len(q) /\ DOMAIN p = 1..(Len(q) + Len(m))
        /\ \A i \in DOMAIN q : p[i] = q[i]
        /\ \A i \in DOMAIN m : p[Len(q) + i] = m[i]
    BY <1>2, <1>3, Joined
  <1> HIDE DEF p
  <1>6. Len(q) + 1 \in DOMAIN p /\ p[Len(q) + 1] = Select(s)
    BY <1>3, <1>5
  <1>7. \A i \in DOMAIN p : i > Len(q) + 1 => p[i].do # "select"
    <2> SUFFICES ASSUME NEW i \in DOMAIN p, i > Len(q) + 1 PROVE p[i].do # "select"
      OBVIOUS
    <2>1. i - Len(q) \in DOMAIN m /\ i - Len(q) # 1 /\ Len(q) + (i - Len(q)) = i
      BY <1>5
    <2> QED  BY <1>4, <1>5, <2>1
  <1>8. LastWordIs(p, s)
    <2> SUFFICES ASSUME NEW i \in DOMAIN p, p[i].do = "select",
                        \A j \in DOMAIN p : j > i => p[j].do # "select"
                 PROVE  p[i].ring = s
      BY DEF LastWordIs
    <2>1. i \in Int
      BY <1>5
    <2>2. i = Len(q) + 1
      <3>1. ~(i > Len(q) + 1)
        BY <1>7
      <3>2. ~(i < Len(q) + 1)
        BY <1>6 DEF Select
      <3> QED  BY <1>5, <2>1, <3>1, <3>2
    <2> QED  BY <1>6, <2>2 DEF Select
  <1>9. Has(p, "select")
    BY <1>6 DEF Has, Select
  <1>10. Has(q, "hide") => Has(p, "hide")
    BY <1>5 DEF Has
  <1> QED  BY <1>2, <1>5, <1>8, <1>9, <1>10 DEF KeepsHides, q

(* The host takes the rail's word: if it was the last, it is the rail's    *)
(* selection.                                                              *)
LEMMA WordTaken ==
  ASSUME WindowsTypes, Handle("select"), NEW s, LastWordIs(mainQueue, s)
  PROVE  /\ IsSequence(mainQueue') /\ KeepsHides
         /\ LastWordIs(mainQueue', s)
         /\ Has(mainQueue', "select") \/ Head(mainQueue).ring = s
  <1> DEFINE q == mainQueue
             p == Tail(q)
  <1>1. mainQueue' = p /\ IsSequence(q) /\ q # <<>> /\ Head(q).do = "select" /\ LastWordIs(q, s)
    BY DEF Handle, WindowsTypes
  <1>0. q = mainQueue
    OBVIOUS
  <1> HIDE DEF q
  <1>2. /\ IsSequence(p) /\ Head(q) = q[1]
        /\ Len(q) \in Nat \ {0} /\ DOMAIN q = 1..Len(q)
        /\ DOMAIN p = 1..(Len(q) - 1)
        /\ \A i \in DOMAIN p : p[i] = q[i + 1]
    BY <1>1, Handled
  <1> HIDE DEF p
  <1>3. \A i \in DOMAIN q : i # 1 => i - 1 \in DOMAIN p /\ p[i - 1] = q[i]
    <2> SUFFICES ASSUME NEW i \in DOMAIN q, i # 1 PROVE i - 1 \in DOMAIN p /\ p[i - 1] = q[i]
      OBVIOUS
    <2>1. i - 1 \in DOMAIN p /\ (i - 1) + 1 = i
      BY <1>2
    <2> QED  BY <1>2, <2>1
  <1>4. Has(q, "hide") => Has(p, "hide")
    BY <1>1, <1>2, <1>3 DEF Has
  <1>5. LastWordIs(p, s)
    <2> SUFFICES ASSUME NEW i \in DOMAIN p, p[i].do = "select",
                        \A j \in DOMAIN p : j > i => p[j].do # "select"
                 PROVE  p[i].ring = s
      BY DEF LastWordIs
    <2>1. i + 1 \in DOMAIN q /\ p[i] = q[i + 1] /\ i \in Int /\ i > 0
      BY <1>2
    <2>2. \A j \in DOMAIN q : j > i + 1 => q[j].do # "select"
      <3> SUFFICES ASSUME NEW j \in DOMAIN q, j > i + 1, q[j].do = "select" PROVE FALSE
        OBVIOUS
      <3>1. j \in Int /\ j # 1 /\ j - 1 > i
        BY <1>2, <2>1
      <3> QED  BY <1>3, <3>1
    <2> QED  BY <1>1, <2>1, <2>2 DEF LastWordIs
  <1>6. ASSUME ~Has(p, "select") PROVE Head(q).ring = s
    <2>1. 1 \in DOMAIN q /\ q[1].do = "select"
      BY <1>1, <1>2
    <2>2. \A j \in DOMAIN q : j > 1 => q[j].do # "select"
      BY <1>2, <1>3, <1>6 DEF Has
    <2> QED  BY <1>1, <1>2, <2>1, <2>2 DEF LastWordIs
  <1> QED  BY <1>0, <1>1, <1>2, <1>4, <1>5, <1>6 DEF KeepsHides

-------------------------------------------------------------------------------
(* Kinds of steps.                                                         *)

(* The first state has no card, and nobody has selected anything.          *)
LEMMA WindowsInvInit == WindowsInit => WindowsInv
  <1> SUFFICES ASSUME WindowsInit PROVE WindowsInv
    OBVIOUS
  <1>1. mainQueue = <<>> /\ toRail = <<>> /\ DOMAIN mainQueue = {}
    BY DEF WindowsInit
  <1>2. IsSequence(mainQueue)
    <2>1. mainQueue \in Seq({})
      BY <1>1
    <2> QED  BY <2>1 DEF IsSequence
  <1>3. WindowsTypes
    <2>1. toRail \in Seq(RailWords)
      BY <1>1
    <2>2. \E s, g, h : detail = [selection |-> s, generation |-> g, height |-> h]
      BY DEF WindowsInit
    <2>3. \E m, s : rail = [minimal |-> m, selected |-> s]
      BY DEF WindowsInit
    <2> QED  BY <1>2, <2>1, <2>2, <2>3 DEF WindowsTypes
  <1>4. HostFollowsRail /\ OrphanWillLeave
    BY <1>1 DEF WindowsInit, HostFollowsRail, OrphanWillLeave, LastWordIs
  <1> QED  BY <1>3, <1>4 DEF WindowsInv

(* What the rail has yet to hear grows.                                    *)
LEMMA MoreToHear ==
  ASSUME toRail \in Seq(RailWords), NEW w \in RailWords, toRail' = Append(toRail, w)
  PROVE  toRail' \in Seq(RailWords) /\ (Heard(toRail, "dismiss") => Heard(toRail', "dismiss"))
  BY DEF Heard

(* Steps that leave the selections alone and bring no card on its way.     *)
LEMMA CalmStep ==
  ASSUME WindowsInv, NoWordOfTheRail, KeepsHides, WindowsTypes',
         rail'.selected = rail.selected,
         Heard(toRail, "dismiss") => Heard(toRail', "dismiss"),
         detail'.selection = detail.selection, detail'.generation = detail.generation,
         hides \subseteq hides',
         cardShown' \/ laying' # "idle" => cardShown \/ laying # "idle"
  PROVE  WindowsInv'
  <1>1. HostFollowsRail'
    BY DEF WindowsInv, HostFollowsRail, NoWordOfTheRail
  <1>2. OrphanWillLeave'
    BY DEF WindowsInv, OrphanWillLeave, KeepsHides
  <1> QED  BY <1>1, <1>2 DEF WindowsInv

(* The same of steps that touch neither selections nor hides at all.       *)
LEMMA ElsewhereStep ==
  ASSUME WindowsInv, NoWordOfTheRail, KeepsHides, UNCHANGED <<rail, detail, hides>>,
         toRail' = toRail \/ \E w \in RailWords : toRail' = Append(toRail, w),
         cardShown' \/ laying' # "idle" => cardShown \/ laying # "idle"
  PROVE  WindowsInv'
  <1>1. toRail' \in Seq(RailWords) /\ (Heard(toRail, "dismiss") => Heard(toRail', "dismiss"))
    BY MoreToHear DEF WindowsInv, WindowsTypes
  <1>2. WindowsTypes'
    BY <1>1 DEF WindowsInv, WindowsTypes, NoWordOfTheRail
  <1> QED  BY <1>1, <1>2, CalmStep

(* A selection of the host, told to it or emptied by it, has its hide.     *)
LEMMA SelectionSet ==
  ASSUME WindowsTypes, NEW s, SetDetail(s)
  PROVE  /\ \E t, g, h : detail' = [selection |-> t, generation |-> g, height |-> h]
         /\ detail'.selection = s
         /\ s = None => detail'.generation \in hides' \/
                         UNCHANGED <<detail, hides>>
  <1>1. PICK t, g, h : detail = [selection |-> t, generation |-> g, height |-> h]
    BY DEF WindowsTypes
  <1>2. CASE detail.selection = s
    BY <1>1, <1>2 DEF SetDetail
  <1>3. CASE detail.selection # s
    <2>1. /\ detail' = [detail EXCEPT !.selection = s, !.generation = @ + 1]
          /\ hides' = hides \union {n \in {detail'.generation} : s = None}
      BY <1>3 DEF SetDetail
    <2>2. detail' = [selection |-> s, generation |-> g + 1, height |-> h]
      BY <1>1, <2>1
    <2> QED  BY <2>1, <2>2
  <1> QED  BY <1>2, <1>3

(* A dismissal: the rail will hear of it.                                  *)
LEMMA DismissStep ==
  ASSUME WindowsInv, NoWordOfTheRail, KeepsHides, DismissDetail,
         UNCHANGED <<rail, cardShown, laying>>
  PROVE  WindowsInv'
  <1>1. /\ SetDetail(None) /\ toRail \in Seq(RailWords)
        /\ toRail' = toRail \o <<"dismiss", "dismiss">>
    BY DEF DismissDetail, WindowsInv, WindowsTypes
  <1>2. toRail' \in Seq(RailWords) /\ Heard(toRail', "dismiss")
    <2>1. <<"dismiss", "dismiss">> \in Seq(RailWords)
      BY DEF RailWords
    <2>2. toRail' \in Seq(RailWords) /\ Len(toRail') = Len(toRail) + 2
          /\ Len(toRail) \in Nat /\ toRail'[Len(toRail) + 1] = "dismiss"
      BY <1>1, <2>1
    <2>3. Len(toRail) + 1 \in DOMAIN toRail'
      BY <2>2
    <2> QED  BY <2>2, <2>3 DEF Heard
  <1>3. WindowsTypes
    BY DEF WindowsInv
  <1>4. /\ \E t, g, h : detail' = [selection |-> t, generation |-> g, height |-> h]
        /\ detail'.selection = None
        /\ detail'.generation \in hides' \/ UNCHANGED <<detail, hides>>
    BY <1>1, <1>3, SelectionSet
  <1>5. WindowsTypes'
    BY <1>2, <1>3, <1>4 DEF WindowsTypes, NoWordOfTheRail
  <1>6. HostFollowsRail'
    BY <1>2, <1>4 DEF WindowsInv, HostFollowsRail, NoWordOfTheRail
  <1>7. OrphanWillLeave'
    BY <1>4 DEF WindowsInv, OrphanWillLeave, KeepsHides
  <1> QED  BY <1>5, <1>6, <1>7 DEF WindowsInv

(* The rail says what it has selected.                                     *)
LEMMA SpeakStep ==
  ASSUME WindowsInv, NEW s, NEW r, IsSequence(r), Silent(r),
         Post(<<Select(s)>> \o r), toRail' \in Seq(RailWords),
         NEW m, rail' = [minimal |-> m, selected |-> s],
         UNCHANGED <<detail, hides, cardShown, laying>>
  PROVE  WindowsInv'
  <1>1. /\ IsSequence(mainQueue') /\ KeepsHides
        /\ Has(mainQueue', "select")
        /\ LastWordIs(mainQueue', s)
    BY RailSpeaks DEF WindowsInv
  <1>2. WindowsTypes'
    BY <1>1 DEF WindowsInv, WindowsTypes
  <1>3. HostFollowsRail'
    BY <1>1 DEF HostFollowsRail
  <1>4. OrphanWillLeave'
    BY <1>1 DEF WindowsInv, OrphanWillLeave, KeepsHides
  <1> QED  BY <1>2, <1>3, <1>4 DEF WindowsInv

-------------------------------------------------------------------------------
(* Every step keeps the invariant.                                         *)

(* The empty post.                                                         *)
LEMMA NothingPosted ==
  ASSUME WindowsTypes, UNCHANGED mainQueue
  PROVE  NoWordOfTheRail /\ KeepsHides
  BY DEF WindowsTypes, NoWordOfTheRail, KeepsHides

(* One message.                                                            *)
LEMMA OnePosted ==
  ASSUME WindowsTypes, NEW what, what.do # "select", Post(<<what>>)
  PROVE  NoWordOfTheRail /\ KeepsHides
  <1> DEFINE r == <<what>>
  <1>1. r \in Seq({what}) /\ DOMAIN r = {1} /\ r[1] = what
    OBVIOUS
  <1> HIDE DEF r
  <1>2. IsSequence(r) /\ Silent(r)
    BY <1>1 DEF IsSequence, Silent
  <1>3. Post(r)
    BY DEF r
  <1> QED  BY <1>2, <1>3, PostedSilently

(* The main thread.                                                        *)
LEMMA MainThreadStep == ASSUME WindowsInv, MainThread PROVE WindowsInv'
  <1>0. WindowsTypes
    BY DEF WindowsInv
  <1>a. ASSUME NEW what, Handle(what), what \notin {"select", "hide"}
        PROVE  NoWordOfTheRail /\ KeepsHides /\ laying = "idle"
    BY <1>0, <1>a, HandledSilently DEF Handle
  <1> USE DEF frameVars, hostVars, railVars, docVars
  <1>1. CASE HandleSelect
    <2> DEFINE s == Head(mainQueue).ring
    <2>1. Handle("select") /\ SetDetail(s) /\ UNCHANGED <<cardShown, laying, rail, toRail>>
      BY <1>1 DEF HandleSelect
    <2>2. LastWordIs(mainQueue, rail.selected)
      BY DEF WindowsInv, HostFollowsRail
    <2>3. /\ IsSequence(mainQueue') /\ KeepsHides
          /\ LastWordIs(mainQueue', rail.selected)
          /\ Has(mainQueue', "select") \/ s = rail.selected
      BY <1>0, <2>1, <2>2, WordTaken
    <2> HIDE DEF s
    <2>4. /\ \E t, g, h : detail' = [selection |-> t, generation |-> g, height |-> h]
          /\ detail'.selection = s
          /\ s = None => detail'.generation \in hides' \/ UNCHANGED <<detail, hides>>
      BY <1>0, <2>1, SelectionSet
    <2>5. WindowsTypes'
      BY <1>0, <2>1, <2>3, <2>4 DEF WindowsTypes
    <2>6. HostFollowsRail'
      BY <2>1, <2>3, <2>4 DEF HostFollowsRail
    <2>7. OrphanWillLeave'
      BY <2>1, <2>3, <2>4 DEF WindowsInv, OrphanWillLeave, KeepsHides
    <2> QED  BY <2>5, <2>6, <2>7 DEF WindowsInv
  <1>2. CASE HandleDismiss
    <2>1. NoWordOfTheRail /\ KeepsHides
      BY <1>2, <1>a DEF HandleDismiss
    <2>2. UNCHANGED <<rail, cardShown, laying>>
      BY <1>2 DEF HandleDismiss
    <2>3. CASE DismissDetail
      BY <2>1, <2>2, <2>3, DismissStep
    <2>4. CASE UNCHANGED <<detail, hides, toDoc, toRail>>
      BY <2>1, <2>2, <2>4, ElsewhereStep
    <2> QED  BY <1>2, <2>3, <2>4 DEF HandleDismiss, DismissIfActive
  <1>3. CASE HandleHide
    <2>1. NoWordOfTheRail
      BY <1>0, <1>3, HandledSilently DEF HandleHide
    <2>2. /\ laying' = "idle" /\ cardShown' = FALSE
          /\ UNCHANGED <<rail, toRail, detail, hides>>
      BY <1>3 DEF HandleHide, Handle
    <2>3. WindowsTypes' /\ HostFollowsRail'
      BY <2>1, <2>2 DEF WindowsInv, WindowsTypes, HostFollowsRail, NoWordOfTheRail
    <2>4. OrphanWillLeave'
      BY <2>2 DEF OrphanWillLeave
    <2> QED  BY <2>3, <2>4 DEF WindowsInv
  <1>4. CASE HandleLayout
    <2>1. NoWordOfTheRail /\ KeepsHides /\ UNCHANGED <<rail, toRail, hides, cardShown>>
      BY <1>4, <1>a DEF HandleLayout
    <2>2. CASE UNCHANGED <<detail, laying>>
      BY <2>1, <2>2, ElsewhereStep
    <2>3. ASSUME NEW z, detail.selection # None, detail' = [detail EXCEPT !.height = z]
          PROVE  WindowsInv'
      <3>1. PICK t, g, h : detail = [selection |-> t, generation |-> g, height |-> h]
        BY <1>0 DEF WindowsTypes
      <3>2. detail' = [selection |-> t, generation |-> g, height |-> z]
        BY <2>3, <3>1
      <3>3. WindowsTypes'
        BY <2>1, <3>2 DEF WindowsInv, WindowsTypes, NoWordOfTheRail
      <3>4. detail'.selection = detail.selection
        BY <3>1, <3>2
      <3>5. HostFollowsRail'
        BY <2>1, <3>4 DEF WindowsInv, HostFollowsRail, NoWordOfTheRail
      <3>6. OrphanWillLeave'
        BY <2>3, <3>4 DEF OrphanWillLeave
      <3> QED  BY <3>3, <3>5, <3>6 DEF WindowsInv
    <2> QED  BY <1>4, <2>2, <2>3 DEF HandleLayout
  <1>5. CASE PlaceForLayout \/ ShowCard \/ PanelGoes
    <2>1. /\ UNCHANGED <<mainQueue, rail, toRail, detail, hides>>
          /\ cardShown' \/ laying' # "idle" => cardShown \/ laying # "idle"
      BY <1>5 DEF PlaceForLayout, ShowCard, PanelGoes
    <2> QED  BY <1>0, <2>1, NothingPosted, ElsewhereStep
  <1>6. CASE HandlePlace
    BY <1>6, <1>a, ElsewhereStep DEF HandlePlace
  <1>7. CASE HandleMove \/ HandleRail \/ HandleHeight \/ HandleFrame
    <2>1. NoWordOfTheRail /\ KeepsHides
      BY <1>7, <1>a DEF HandleMove, HandleRail, HandleHeight, HandleFrame
    <2>2. UNCHANGED <<rail, toRail, detail, hides, cardShown, laying>>
      BY <1>7 DEF HandleMove, HandleRail, HandleHeight, HandleFrame, PanelBecomes
    <2> QED  BY <2>1, <2>2, ElsewhereStep
  <1> QED  BY <1>1, <1>2, <1>3, <1>4, <1>5, <1>6, <1>7 DEF MainThread

(* The polls, a settings write and the delayed hides.                      *)
LEMMA ThreadsStep == ASSUME WindowsInv, Threads PROVE WindowsInv'
  <1>0. WindowsTypes
    BY DEF WindowsInv
  <1> USE DEF frameVars, hostVars, railVars, docVars
  <1>1. CASE PollFindsOutside
    BY <1>0, <1>1, NothingPosted, ElsewhereStep DEF PollFindsOutside
  <1>2. CASE PollPlaces
    <2>1. PICK what : what.do = "place" /\ Post(<<what>>)
      BY <1>2 DEF PollPlaces, Place
    <2> QED  BY <1>0, <1>2, <2>1, OnePosted, ElsewhereStep DEF PollPlaces
  <1>3. CASE PollClamps
    <2>1. PICK what : what.do = "move" /\ Post(<<what>>)
      BY <1>3 DEF PollClamps, MoveTo
    <2> QED  BY <1>0, <1>3, <2>1, OnePosted, ElsewhereStep DEF PollClamps
  <1>4. CASE SetFullLayout
    <2>1. NoWordOfTheRail /\ KeepsHides
      <3>1. UNCHANGED mainQueue \/ \E what : what.do = "frame" /\ Post(<<what>>)
        BY <1>4 DEF SetFullLayout, Frame
      <3> QED  BY <1>0, <3>1, NothingPosted, OnePosted
    <2>2. toRail' = Append(toRail, "full") /\ "full" \in RailWords
      BY <1>4 DEF SetFullLayout, RailWords
    <2> QED  BY <1>4, <2>1, <2>2, ElsewhereStep DEF SetFullLayout
  <1>5. ASSUME NEW t \in dismissing, FinishDismissal(t) PROVE WindowsInv'
    BY <1>0, <1>5, NothingPosted, DismissStep DEF FinishDismissal
  <1>6. ASSUME NEW g \in hides, HideIsDue(g) PROVE WindowsInv'
    <2>1. UNCHANGED <<detail, cardShown, laying, rail, toRail>> /\ hides' = hides \ {g}
      BY <1>6 DEF HideIsDue
    <2>2. CASE g = detail.generation /\ detail.selection = None
      <3> DEFINE r == <<HideCard>>
      <3>1. Post(r)
        BY <1>6, <2>2 DEF HideIsDue
      <3>2. r \in Seq({HideCard}) /\ DOMAIN r = {1} /\ Len(r) = 1 /\ r[1].do = "hide"
        BY DEF HideCard
      <3> HIDE DEF r
      <3>3. IsSequence(r) /\ IsSequence(mainQueue)
        BY <1>0, <3>2 DEF IsSequence, WindowsTypes
      <3>4. Silent(r)
        BY <3>2 DEF Silent
      <3>5. NoWordOfTheRail
        BY <1>0, <3>1, <3>3, <3>4, PostedSilently
      <3>6. Has(mainQueue', "hide")
        <4>1. mainQueue' = mainQueue \o r
          BY <3>1 DEF Post
        <4>2. /\ Len(mainQueue) \in Nat
              /\ DOMAIN (mainQueue \o r) = 1..(Len(mainQueue) + Len(r))
              /\ \A i \in DOMAIN r : (mainQueue \o r)[Len(mainQueue) + i] = r[i]
          <5> DEFINE q == mainQueue
          <5>1. IsSequence(q) /\ IsSequence(r)
            BY <3>3
          <5> HIDE DEF q
          <5>2. /\ IsSequence(q \o r)
                /\ Len(q) \in Nat /\ Len(r) \in Nat
                /\ DOMAIN q = 1..Len(q) /\ DOMAIN r = 1..Len(r)
                /\ DOMAIN (q \o r) = 1..(Len(q) + Len(r))
                /\ \A i \in DOMAIN q : (q \o r)[i] = q[i]
                /\ \A i \in DOMAIN r : (q \o r)[Len(q) + i] = r[i]
            BY ONLY <5>1, Joined
          <5> QED  BY ONLY <5>2 DEF q
        <4>3. Len(mainQueue) + 1 \in DOMAIN (mainQueue \o r)
              /\ (mainQueue \o r)[Len(mainQueue) + 1] = r[1]
          BY <3>2, <4>2
        <4> QED  BY <3>2, <4>1, <4>3 DEF Has
      <3>7. WindowsTypes' /\ HostFollowsRail'
        BY <2>1, <3>5 DEF WindowsInv, WindowsTypes, HostFollowsRail, NoWordOfTheRail
      <3> QED  BY <3>6, <3>7 DEF WindowsInv, OrphanWillLeave
    <2>3. CASE ~(g = detail.generation /\ detail.selection = None)
      <3>1. UNCHANGED mainQueue
        BY <1>6, <2>3 DEF HideIsDue
      <3>2. WindowsTypes' /\ HostFollowsRail'
        BY <2>1, <3>1 DEF WindowsInv, WindowsTypes, HostFollowsRail
      <3>3. OrphanWillLeave'
        BY <2>1, <2>3, <3>1 DEF WindowsInv, OrphanWillLeave
      <3> QED  BY <3>2, <3>3 DEF WindowsInv
    <2> QED  BY <2>2, <2>3
  <1> QED  BY <1>1, <1>2, <1>3, <1>4, <1>5, <1>6 DEF Threads

(* Nothing and two messages of the rail's shape can follow its word.       *)
LEMMA SilentTails ==
  /\ IsSequence(<<>>) /\ Silent(<<>>)
  /\ \A what : what.do # "select" => IsSequence(<<what>>) /\ Silent(<<what>>)
  /\ \A what, next : what.do # "select" /\ next.do # "select" =>
       IsSequence(<<what, next>>) /\ Silent(<<what, next>>)
  <1>1. IsSequence(<<>>) /\ Silent(<<>>)
    <2>1. <<>> \in Seq({}) /\ DOMAIN <<>> = {}
      OBVIOUS
    <2> QED  BY <2>1 DEF IsSequence, Silent
  <1>2. ASSUME NEW what, what.do # "select" PROVE IsSequence(<<what>>) /\ Silent(<<what>>)
    <2> DEFINE r == <<what>>
    <2>1. r \in Seq({what}) /\ DOMAIN r = {1} /\ r[1] = what
      OBVIOUS
    <2> HIDE DEF r
    <2>2. IsSequence(r) /\ Silent(r)
      BY <1>2, <2>1 DEF IsSequence, Silent
    <2> QED  BY <2>2 DEF r
  <1>3. ASSUME NEW what, NEW next, what.do # "select", next.do # "select"
        PROVE  IsSequence(<<what, next>>) /\ Silent(<<what, next>>)
    <2> DEFINE r == <<what, next>>
    <2>1. r \in Seq({what, next}) /\ DOMAIN r = {1, 2} /\ r[1] = what /\ r[2] = next
      OBVIOUS
    <2> HIDE DEF r
    <2>2. IsSequence(r) /\ Silent(r)
      BY <1>3, <2>1 DEF IsSequence, Silent
    <2> QED  BY <2>2 DEF r
  <1> QED  BY <1>1, <1>2, <1>3

(* A first message and those behind it.                                    *)
LEMMA FirstAndRest ==
  \A h, i, j : <<h, i>> = <<h>> \o <<i>> /\ <<h, i, j>> = <<h>> \o <<i, j>>
  <1> SUFFICES ASSUME NEW h, NEW i, NEW j
               PROVE  <<h, i>> = <<h>> \o <<i>> /\ <<h, i, j>> = <<h>> \o <<i, j>>
    OBVIOUS
  <1> DEFINE S == {h, i, j}
  <1>1. <<h>> \in Seq(S) /\ <<i>> \in Seq(S) /\ <<i, j>> \in Seq(S)
    OBVIOUS
  <1>2. <<h, i>> \in Seq(S) /\ <<h, i, j>> \in Seq(S)
    OBVIOUS
  <1>3. <<h, i>> = <<h>> \o <<i>>
    <2> DEFINE p == <<h, i>>
               q == <<h>> \o <<i>>
    <2>1. p \in Seq(S) /\ Len(p) = 2 /\ p[1] = h /\ p[2] = i
      BY <1>2
    <2>2. q \in Seq(S) /\ Len(q) = 2 /\ q[1] = h /\ q[2] = i
      BY <1>1
    <2> HIDE DEF p, q
    <2>3. p = q
      BY <2>1, <2>2, SeqEqual
    <2> QED  BY <2>3 DEF p, q
  <1>4. <<h, i, j>> = <<h>> \o <<i, j>>
    <2> DEFINE p == <<h, i, j>>
               q == <<h>> \o <<i, j>>
    <2>1. p \in Seq(S) /\ Len(p) = 3 /\ p[1] = h /\ p[2] = i /\ p[3] = j
      BY <1>2
    <2>2. q \in Seq(S) /\ Len(q) = 3 /\ q[1] = h /\ q[2] = i /\ q[3] = j
      BY <1>1
    <2> HIDE DEF p, q
    <2>3. p = q
      BY <2>1, <2>2, SeqEqual
    <2> QED  BY <2>3 DEF p, q
  <1> QED  BY <1>3, <1>4

(* Messages that stand for no selection.                                   *)
LEMMA OtherMessages ==
  \A x, y : /\ Layout(x).do # "select" /\ RailLayout(x, y).do # "select"
            /\ Height(x).do # "select" /\ Dismiss.do # "select"
  BY DEF Layout, RailLayout, Height, Dismiss

(* The rail says what it has selected, and stays the shape it is.          *)
LEMMA RailSaysStep ==
  ASSUME WindowsInv, NEW s, RailSays(s, <<>>), toRail' \in Seq(RailWords),
         UNCHANGED <<detail, hides, cardShown, laying>>
  PROVE  WindowsInv'
  <1>1. PICK m, t : rail = [minimal |-> m, selected |-> t]
    BY DEF WindowsInv, WindowsTypes
  <1>2. rail' = [minimal |-> m, selected |-> s]
    BY <1>1 DEF RailSays
  <1>3. Post(<<Select(s)>> \o <<>>)
    BY DEF RailSays
  <1> QED  BY <1>2, <1>3, SilentTails, SpeakStep

(* Users and contents.                                                     *)
LEMMA InputsStep == ASSUME WindowsInv, Inputs PROVE WindowsInv'
  <1>0. WindowsTypes /\ toRail \in Seq(RailWords)
    BY DEF WindowsInv, WindowsTypes
  <1> USE DEF frameVars, hostVars, railVars, docVars
  <1>1. CASE Drop \/ ToggleGrip
    <2>1. UNCHANGED <<mainQueue, rail, toRail, detail, hides, cardShown, laying>>
      BY <1>1 DEF Drop, ToggleGrip
    <2> QED  BY <1>0, <2>1, NothingPosted, ElsewhereStep
  <1>2. CASE HidePanel
    <2>1. UNCHANGED <<mainQueue, rail, cardShown, laying>>
      BY <1>2 DEF HidePanel
    <2>2. CASE DismissDetail
      BY <1>0, <2>1, <2>2, NothingPosted, DismissStep
    <2>3. CASE UNCHANGED <<detail, hides, toDoc, toRail>>
      BY <1>0, <2>1, <2>3, NothingPosted, ElsewhereStep
    <2> QED  BY <1>2, <2>2, <2>3 DEF HidePanel, DismissIfActive
  <1>3. CASE ShowPanel
    <2>1. toRail' = toRail \/ toRail' = Append(toRail, "reopened")
      BY <1>3 DEF ShowPanel
    <2>2. "reopened" \in RailWords
      BY DEF RailWords
    <2>3. UNCHANGED <<mainQueue, rail, detail, hides, cardShown, laying>>
      BY <1>3 DEF ShowPanel
    <2> QED  BY <1>0, <2>1, <2>2, <2>3, NothingPosted, ElsewhereStep
  <1>4. CASE SwitchToFull
    BY <1>0, <1>4, NothingPosted, ElsewhereStep DEF SwitchToFull
  <1>5. CASE SwitchToMinimal
    <2>1. "minimal" \in RailWords
      BY DEF RailWords
    <2> QED  BY <1>0, <1>5, <2>1, NothingPosted, ElsewhereStep DEF SwitchToMinimal
  <1>6. ASSUME NEW s \in Rings, Point(s) PROVE WindowsInv'
    BY <1>0, <1>6, RailSaysStep DEF Point, RailUnchanged
  <1>7. CASE LeavePlatform
    BY <1>0, <1>7, RailSaysStep DEF LeavePlatform, RailUnchanged
  <1>8. CASE ContentChanges
    <2>1. PICK what : what.do # "select" /\ Post(<<what>>)
      BY <1>8, OtherMessages DEF ContentChanges
    <2> QED  BY <1>0, <1>8, <2>1, OnePosted, ElsewhereStep DEF ContentChanges, RailUnchanged
  <1>9. CASE CardChanges
    <2>1. PICK what : what.do # "select" /\ Post(<<what>>)
      BY <1>9, OtherMessages DEF CardChanges
    <2> QED  BY <1>0, <1>9, <2>1, OnePosted, ElsewhereStep DEF CardChanges
  <1>10. CASE EscapeInCard
    BY <1>0, <1>10, OtherMessages, OnePosted, ElsewhereStep DEF EscapeInCard
  <1> QED  BY <1>1, <1>2, <1>3, <1>4, <1>5, <1>6, <1>7, <1>8, <1>9, <1>10 DEF Inputs

(* The documents.                                                          *)
LEMMA DocumentsStep == ASSUME WindowsInv, Documents PROVE WindowsInv'
  <1>0. WindowsTypes /\ toRail \in Seq(RailWords)
    BY DEF WindowsInv, WindowsTypes
  <1>a. ASSUME NEW what, Hear(what)
        PROVE  /\ toRail' \in Seq(RailWords)
               /\ what # "dismiss" /\ Heard(toRail, "dismiss") => Heard(toRail', "dismiss")
    <2>1. toRail # <<>> /\ Head(toRail) = what /\ toRail' = Tail(toRail)
      BY <1>a DEF Hear
    <2>2. toRail' \in Seq(RailWords)
      BY <1>0, <2>1
    <2>3. ASSUME what # "dismiss", NEW i \in DOMAIN toRail, toRail[i] = "dismiss"
          PROVE  Heard(toRail', "dismiss")
      <3>1. i # 1 /\ i \in 1..Len(toRail)
        BY <1>0, <2>1, <2>3
      <3>2. i - 1 \in DOMAIN toRail' /\ toRail'[i - 1] = toRail[i]
        BY <1>0, <2>1, <3>1
      <3> QED  BY <2>3, <3>2 DEF Heard
    <2> QED  BY <2>2, <2>3 DEF Heard
  <1> USE DEF frameVars, hostVars, railVars, docVars
  <1>1. CASE RailTicks
    BY <1>0, <1>1, RailSaysStep DEF RailTicks, RailUnchanged
  <1>2. CASE HearDismissal
    <2>1. /\ Hear("dismiss") \/ Hear("reopened")
          /\ UNCHANGED <<detail, hides, cardShown, laying>>
      BY <1>2 DEF HearDismissal, RailUnchanged
    <2>2. toRail' \in Seq(RailWords)
      BY <1>a, <2>1
    <2>3. CASE rail.selected # None
      <3>1. RailSays(None, <<>>)
        BY <1>2, <2>3 DEF HearDismissal
      <3> QED  BY <2>1, <2>2, <3>1, RailSaysStep
    <2>4. CASE rail.selected = None
      <3>1. UNCHANGED <<rail, mainQueue>>
        BY <1>2, <2>4 DEF HearDismissal
      <3>2. WindowsTypes'
        BY <1>0, <2>1, <2>2, <3>1 DEF WindowsTypes
      <3>3. HostFollowsRail'
        BY <2>1, <2>4, <3>1 DEF WindowsInv, HostFollowsRail
      <3>4. OrphanWillLeave'
        BY <2>1, <3>1 DEF WindowsInv, OrphanWillLeave
      <3> QED  BY <3>2, <3>3, <3>4 DEF WindowsInv
    <2> QED  BY <2>3, <2>4
  <1>3. CASE HearFull \/ HearMinimal
    <2>1. toRail' \in Seq(RailWords) /\ UNCHANGED <<detail, hides, cardShown, laying>>
      BY <1>3, <1>a DEF HearFull, HearMinimal, RailUnchanged
    <2>2. PICK m : rail' = [minimal |-> m, selected |-> None]
      BY <1>3 DEF HearFull, HearMinimal
    <2>3. PICK r : IsSequence(r) /\ Silent(r) /\ Post(<<Select(None)>> \o r)
      <3>1. CASE HearFull
        <4>1. PICK h \in PanelHeights : Post(<<Select(None), Height(h)>>)
          BY <3>1 DEF HearFull
        <4>2. Post(<<Select(None)>> \o <<Height(h)>>)
          BY <4>1, FirstAndRest
        <4> QED  BY <4>2, SilentTails, OtherMessages
      <3>2. CASE HearMinimal
        <4>1. PICK h : \/ Post(<<Select(None), RailLayout(h, TRUE)>>)
                       \/ Post(<<Select(None), RailLayout(panel.h, TRUE), RailLayout(h, FALSE)>>)
          BY <3>2 DEF HearMinimal
        <4>2. \/ Post(<<Select(None)>> \o <<RailLayout(h, TRUE)>>)
              \/ Post(<<Select(None)>> \o <<RailLayout(panel.h, TRUE), RailLayout(h, FALSE)>>)
          BY <4>1, FirstAndRest
        <4> QED  BY <4>2, SilentTails, OtherMessages
      <3> QED  BY <1>3, <3>1, <3>2
    <2> QED  BY <2>1, <2>2, <2>3, SpeakStep
  <1>4. CASE AdoptSelection
    <2>1. UNCHANGED <<rail, toRail, detail, hides, cardShown, laying>>
      BY <1>4 DEF AdoptSelection
    <2>2. UNCHANGED mainQueue \/ \E what : what.do # "select" /\ Post(<<what>>)
      BY <1>4, OtherMessages DEF AdoptSelection
    <2> QED  BY <1>0, <2>1, <2>2, NothingPosted, OnePosted, ElsewhereStep
  <1> QED  BY <1>1, <1>2, <1>3, <1>4 DEF Documents

(* Every step keeps the invariant.                                         *)
LEMMA WindowsInvStep == WindowsInv /\ [WindowsNext]_windowsVars => WindowsInv'
  <1> SUFFICES ASSUME WindowsInv, [WindowsNext]_windowsVars PROVE WindowsInv'
    OBVIOUS
  <1>1. CASE UNCHANGED windowsVars
    <2>1. WindowsTypes
      BY DEF WindowsInv
    <2> QED  BY <1>1, <2>1, NothingPosted, ElsewhereStep
             DEF windowsVars, frameVars, hostVars, railVars
  <1> QED  BY <1>1, MainThreadStep, ThreadsStep, InputsStep, DocumentsStep DEF WindowsNext

(* What every run of the host's windows and documents keeps.               *)
THEOREM WindowsInvariant == WindowsSpec => []WindowsInv
  BY WindowsInvInit, WindowsInvStep, PTL DEF WindowsSpec

(* A card that is up for no selection is about to go, and once nothing is  *)
(* under way the host has selected what the rail takes to be selected,     *)
(* however pointers, dismissals, mode switches and late shows crossed.     *)
THEOREM CardsFollow == WindowsSpec => []CardFollowsRail
  <1>1. WindowsInv => CardFollowsRail
    <2> SUFFICES ASSUME WindowsInv PROVE CardFollowsRail
      OBVIOUS
    <2>1. OrphanIsLeaving
      BY DEF WindowsInv, OrphanWillLeave, OrphanIsLeaving, Queued, Has
    <2>2. HostAgreesWithRail
      <3> SUFFICES ASSUME Quiet PROVE detail.selection = rail.selected
        BY DEF HostAgreesWithRail
      <3>1. mainQueue = <<>> /\ toRail = <<>>
        BY DEF Quiet
      <3>2. ~Has(mainQueue, "select") /\ ~Heard(toRail, "dismiss")
        BY <3>1 DEF Has, Heard
      <3> QED  BY <3>2 DEF WindowsInv, HostFollowsRail
    <2> QED  BY <2>1, <2>2 DEF CardFollowsRail
  <1> QED  BY <1>1, WindowsInvariant, PTL

-------------------------------------------------------------------------------
(* The panel on the displays: the arithmetic.                              *)

(* A set of natural numbers has a least one.                               *)
LEMMA LeastNatural ==
  ASSUME NEW T, T \subseteq Nat, T # {}
  PROVE  \E n \in T : \A m \in T : n <= m
  <1> DEFINE R == {p \in Nat \X Nat : p[1] < p[2]}
  <1>1. IsWellFoundedOn(R, Nat)
    BY NatLessThanWellFounded DEF OpToRel
  <1>2. \A m, n \in Nat : <<m, n>> \in R <=> m < n
    OBVIOUS
  <1> HIDE DEF R
  <1>3. PICK x \in T : \A y \in T : <<y, x>> \notin R
    BY <1>1, WFMin
  <1>4. ASSUME NEW y \in T PROVE x <= y
    <2>1. x \in Nat /\ y \in Nat
      OBVIOUS
    <2>2. ~(y < x)
      BY <1>2, <1>3, <2>1
    <2> QED  BY <2>1, <2>2
  <1> QED  BY <1>4

(* What holds of 0 and of the next number holds of all.                    *)
LEMMA NaturalInduction ==
  ASSUME NEW T, 0 \in T, \A n \in Nat : n \in T => n + 1 \in T
  PROVE  \A n \in Nat : n \in T
  <1> SUFFICES ASSUME NEW m \in Nat, m \notin T PROVE FALSE
    OBVIOUS
  <1> DEFINE U == Nat \ T
  <1>1. U # {} /\ U \subseteq Nat
    OBVIOUS
  <1> HIDE DEF U
  <1>2. PICK n \in U : \A k \in U : n <= k
    BY <1>1, LeastNatural
  <1>3. n \in Nat /\ n \notin T /\ n # 0
    BY <1>2 DEF U
  <1>4. n - 1 \in Nat /\ n - 1 \notin U
    BY <1>2, <1>3, <1>1
  <1>5. n - 1 \in T /\ (n - 1) + 1 = n
    BY <1>3, <1>4 DEF U
  <1> QED  BY <1>3, <1>4, <1>5


(* There is a display, and displays have frames.                           *)
LEMMA DisplaysAreFrames ==
  /\ Len(Displays) \in Nat \ {0} /\ Indices \subseteq Nat /\ Indices # {}
  /\ \A i \in Indices : Displays[i].bounds \in Frames /\ Displays[i].work \in Frames
  <1>1. Len(Displays) \in Nat \ {0}
    BY DisplaysAssumption
  <1>2. ASSUME NEW i \in Indices
        PROVE  Displays[i].bounds \in Frames /\ Displays[i].work \in Frames
    <2> DEFINE S == [bounds : Frames, work : Frames]
    <2> HIDE DEF S
    <2>1. Displays \in Seq(S) /\ i \in 1..Len(Displays)
      BY DisplaysAssumption DEF Indices, S
    <2>2. Displays[i] \in S
      BY <2>1
    <2>3. Displays[i] \in [bounds : Frames, work : Frames]
      BY <2>2 DEF S
    <2> QED  BY <2>3
  <1>3. 1 \in Indices /\ Indices \subseteq Nat
    BY <1>1 DEF Indices
  <1> QED  BY <1>1, <1>2, <1>3

(* The first of the indices with the least of two measures.                *)
LEMMA LeastIndex ==
  ASSUME NEW S, S \subseteq Nat, S # {}, NEW f \in [S -> Nat], NEW g \in [S -> Nat]
  PROVE  \E i \in S : \A j \in S :
            f[i] < f[j] \/ (f[i] = f[j] /\ (g[i] < g[j] \/ (g[i] = g[j] /\ i <= j)))
  <1>1. PICK a \in S : \A j \in S : f[a] <= f[j]
    <2> DEFINE T == {f[j] : j \in S}
    <2>1. T \subseteq Nat /\ T # {}
      OBVIOUS
    <2>2. PICK n \in T : \A m \in T : n <= m
      <3> HIDE DEF T
      <3> QED  BY <2>1, LeastNatural
    <2> QED  BY <2>2
  <1> DEFINE A == {j \in S : f[j] = f[a]}
  <1>2. PICK b \in A : \A j \in A : g[b] <= g[j]
    <2> DEFINE T == {g[j] : j \in A}
    <2>1. T \subseteq Nat /\ T # {}
      OBVIOUS
    <2>2. PICK n \in T : \A m \in T : n <= m
      <3> HIDE DEF T
      <3> QED  BY <2>1, LeastNatural
    <2> QED  BY <2>2
  <1> DEFINE B == {j \in A : g[j] = g[b]}
  <1>3. PICK i \in B : \A j \in B : i <= j
    <2>1. B \subseteq Nat /\ B # {}
      OBVIOUS
    <2> HIDE DEF B
    <2> QED  BY <2>1, LeastNatural
  <1>4. ASSUME NEW j \in S
        PROVE  f[i] < f[j] \/ (f[i] = f[j] /\ (g[i] < g[j] \/ (g[i] = g[j] /\ i <= j)))
    <2>1. f[i] = f[a] /\ g[i] = g[b] /\ f[i] <= f[j]
      BY <1>1
    <2>2. f[i] \in Nat /\ f[j] \in Nat /\ g[i] \in Nat /\ g[j] \in Nat
      OBVIOUS
    <2>3. CASE f[i] = f[j]
      <3>1. j \in A /\ g[i] <= g[j]
        BY <1>2, <2>1, <2>3
      <3>2. g[i] = g[j] => i <= j
        BY <1>3, <2>1, <3>1
      <3> QED  BY <2>2, <2>3, <3>1, <3>2
    <2>4. CASE f[i] # f[j]
      BY <2>1, <2>2, <2>4
    <2> QED  BY <2>3, <2>4
  <1> QED  BY <1>4

(* Products of natural numbers grow with their factors.                    *)
LEMMA Products ==
  /\ \A a, b, c, d \in Nat : a <= c /\ b <= d => a * b \in Nat /\ a * b <= c * d
  /\ \A a \in Int : a * a \in Nat
  <1>1. ASSUME NEW a \in Nat, NEW b \in Nat, NEW c \in Nat, NEW d \in Nat, a <= c, b <= d
        PROVE  a * b \in Nat /\ a * b <= c * d
    <2>1. a * b \in Nat /\ c * b \in Nat /\ c * d \in Nat
      OBVIOUS
    <2>2. a * b <= c * b
      <3>1. PICK e \in Nat : c = a + e
        <4>1. c - a \in Nat /\ c = a + (c - a)
          BY <1>1
        <4> QED  BY <4>1
      <3>2. c * b = a * b + e * b /\ e * b \in Nat
        BY <3>1
      <3> QED  BY <2>1, <3>2
    <2>3. c * b <= c * d
      <3>1. PICK e \in Nat : d = b + e
        <4>1. d - b \in Nat /\ d = b + (d - b)
          BY <1>1
        <4> QED  BY <4>1
      <3>2. c * d = c * b + c * e /\ c * e \in Nat
        BY <3>1
      <3> QED  BY <2>1, <3>2
    <2> QED  BY <2>1, <2>2, <2>3
  <1>2. ASSUME NEW a \in Int PROVE a * a \in Nat
    OBVIOUS
  <1> QED  BY <1>1, <1>2

(* A frame shares no more than its own area.                               *)
LEMMA OverlapBounded ==
  ASSUME NEW r \in Frames, NEW s \in Frames
  PROVE  Overlap(r, s) \in Nat /\ r.w * r.h \in Nat /\ Overlap(r, s) <= r.w * r.h
  <1> DEFINE a == Larger(Smaller(Right(r), Right(s)) - Larger(r.x, s.x), 0)
             b == Larger(Smaller(Bottom(r), Bottom(s)) - Larger(r.y, s.y), 0)
  <1>1. a \in Nat /\ a <= r.w /\ b \in Nat /\ b <= r.h /\ r.w \in Nat /\ r.h \in Nat
    BY DEF Frames, Larger, Smaller, Right, Bottom
  <1>2. Overlap(r, s) = a * b
    BY DEF Overlap
  <1> HIDE DEF a, b
  <1>3. r.w * r.h \in Nat
    BY <1>1
  <1> QED  BY <1>1, <1>2, <1>3, Products

(* The current display is one of the displays.                             *)
LEMMA ChosenDisplay ==
  ASSUME NEW r \in Frames
  PROVE  CurrentDisplay(r) = None \/ \E i \in Indices : CurrentDisplay(r) = Displays[i]
  <1> DEFINE on == {i \in Indices : Overlap(r, Displays[i].bounds) > 0}
             shows(i) == Overlap(r, Displays[i].bounds)
             best(i) == \A j \in on : shows(i) > shows(j) \/ (shows(i) = shows(j) /\ i <= j)
  <1>1. CurrentDisplay(r) = IF on = {} THEN None ELSE Displays[CHOOSE i \in on : best(i)]
    BY DEF CurrentDisplay
  <1>2. CASE on # {}
    <2>1. on \subseteq Nat /\ on \subseteq Indices
      BY DisplaysAreFrames
    <2>2. \A i \in on : shows(i) \in Nat /\ shows(i) <= r.w * r.h /\ r.w * r.h \in Nat
      BY OverlapBounded, DisplaysAreFrames
    <2> HIDE DEF on, shows
    <2> DEFINE rest == [i \in on |-> r.w * r.h - shows(i)]
               all == [i \in on |-> 0]
    <2>3. rest \in [on -> Nat] /\ all \in [on -> Nat]
      BY <2>2
    <2>4. PICK i \in on : \A j \in on :
             \/ rest[i] < rest[j]
             \/ rest[i] = rest[j] /\ (all[i] < all[j] \/ (all[i] = all[j] /\ i <= j))
      <3> HIDE DEF rest, all
      <3> QED  BY <1>2, <2>1, <2>3, LeastIndex
    <2>5. best(i)
      BY <2>2, <2>4
    <2> HIDE DEF best
    <2>6. (CHOOSE k \in on : best(k)) \in on
      BY <2>5
    <2> QED  BY <1>1, <1>2, <2>1, <2>6
  <1>3. CASE on = {}
    BY <1>1, <1>3
  <1> QED  BY <1>2, <1>3

(* The nearest place is a point, and lies on the display if there is room. *)
LEMMA NearestIsInside ==
  ASSUME NEW r \in Frames, NEW d, d.bounds \in Frames
  PROVE  /\ Nearest(r, d) \in Points
         /\ r.w <= d.bounds.w /\ r.h <= d.bounds.h =>
              Inside([r EXCEPT !.x = Nearest(r, d).x, !.y = Nearest(r, d).y], d.bounds)
  <1>1. /\ d.bounds.x \in Int /\ d.bounds.y \in Int /\ d.bounds.w \in Nat /\ d.bounds.h \in Nat
        /\ r.x \in Int /\ r.y \in Int /\ r.w \in Nat /\ r.h \in Nat
    BY DEF Frames
  <1>2. Nearest(r, d) \in Points
    BY <1>1 DEF Nearest, Points, Clamp, Larger, Smaller, Right, Bottom
  <1>3. ASSUME r.w <= d.bounds.w, r.h <= d.bounds.h
        PROVE  Inside([r EXCEPT !.x = Nearest(r, d).x, !.y = Nearest(r, d).y], d.bounds)
    <2> PICK m : m = [r EXCEPT !.x = Nearest(r, d).x, !.y = Nearest(r, d).y]
      OBVIOUS
    <2>1. m.x = Nearest(r, d).x /\ m.y = Nearest(r, d).y /\ m.w = r.w /\ m.h = r.h
      BY DEF Frames
    <2>2. Nearest(r, d).x >= d.bounds.x /\ Nearest(r, d).x + r.w <= d.bounds.x + d.bounds.w
      BY <1>1, <1>3 DEF Nearest, Clamp, Larger, Smaller, Right, Bottom
    <2>3. Nearest(r, d).y >= d.bounds.y /\ Nearest(r, d).y + r.h <= d.bounds.y + d.bounds.h
      BY <1>1, <1>3 DEF Nearest, Clamp, Larger, Smaller, Right, Bottom
    <2> QED  BY <2>1, <2>2, <2>3 DEF Inside, Right, Bottom
  <1> QED  BY <1>2, <1>3

(* The target is the nearest place on one of the displays.                 *)
LEMMA TargetIsNearest ==
  ASSUME NEW r \in Frames
  PROVE  BoundaryClampTarget(r) = None
           \/ \E i \in Indices : BoundaryClampTarget(r) = Nearest(r, Displays[i])
  <1> DEFINE way(i) == LET n == Nearest(r, Displays[i])
                       IN (n.x - r.x) * (n.x - r.x) + (n.y - r.y) * (n.y - r.y)
             shows(i) == Overlap(r, Displays[i].bounds)
             before(i, j) ==
               \/ way(i) < way(j)
               \/ way(i) = way(j) /\ (shows(i) > shows(j) \/ (shows(i) = shows(j) /\ i <= j))
             best(i) == \A j \in Indices : before(i, j)
  <1>1. BoundaryClampTarget(r) =
          IF Covered(r) THEN None ELSE Nearest(r, Displays[CHOOSE i \in Indices : best(i)])
    BY DEF BoundaryClampTarget
  <1>2. Indices \subseteq Nat /\ Indices # {}
    BY DisplaysAreFrames
  <1>3. \A i \in Indices : shows(i) \in Nat /\ shows(i) <= r.w * r.h /\ r.w * r.h \in Nat
    BY OverlapBounded, DisplaysAreFrames
  <1>4. ASSUME NEW i \in Indices PROVE way(i) \in Nat
    <2> PICK n : n = Nearest(r, Displays[i])
      OBVIOUS
    <2>1. n.x - r.x \in Int /\ n.y - r.y \in Int
      <3>1. Displays[i].bounds \in Frames
        BY DisplaysAreFrames
      <3>2. n \in Points
        BY <3>1, NearestIsInside
      <3> QED  BY <3>2 DEF Points, Frames
    <2>2. PICK dx \in Int, dy \in Int : dx = n.x - r.x /\ dy = n.y - r.y
      BY <2>1
    <2>3. dx * dx \in Nat /\ dy * dy \in Nat
      BY Products
    <2> QED  BY <2>2, <2>3
  <1> HIDE DEF way, shows
  <1> DEFINE far == [i \in Indices |-> way(i)]
             rest == [i \in Indices |-> r.w * r.h - shows(i)]
  <1>5. far \in [Indices -> Nat] /\ rest \in [Indices -> Nat]
    BY <1>3, <1>4
  <1>6. PICK i \in Indices : \A j \in Indices :
           \/ far[i] < far[j]
           \/ far[i] = far[j] /\ (rest[i] < rest[j] \/ (rest[i] = rest[j] /\ i <= j))
    <2> HIDE DEF far, rest
    <2> QED  BY <1>2, <1>5, LeastIndex
  <1>7. best(i)
    BY <1>3, <1>4, <1>6
  <1> HIDE DEF best
  <1>8. (CHOOSE k \in Indices : best(k)) \in Indices
    BY <1>7
  <1> QED  BY <1>1, <1>8


(* Areas added up from the first display on: the sum there is of them.     *)
AddsUp(f, o, n) == f = [m \in 0..n |-> IF m = 0 THEN 0 ELSE f[m - 1] + o[m]]

(* Sums over the first displays obey their equation.                       *)
LEMMA SumsExist ==
  ASSUME NEW o, NEW n \in Nat
  PROVE  \E f : AddsUp(f, o, n)
  <1> DEFINE T == {m \in Nat : \E f : AddsUp(f, o, m)}
  <1>1. 0 \in T
    <2> DEFINE f == [m \in 0..0 |-> 0]
    <2>1. AddsUp(f, o, 0)
      BY DEF AddsUp
    <2> QED  BY <2>1
  <1>2. ASSUME NEW m \in Nat, m \in T PROVE m + 1 \in T
    <2>1. PICK f : AddsUp(f, o, m)
      BY <1>2
    <2> DEFINE g == [k \in 0..(m + 1) |-> IF k = 0 THEN 0 ELSE f[k - 1] + o[k]]
    <2>2. \A k \in 0..m : g[k] = f[k]
      BY <2>1 DEF AddsUp
    <2>3. g = [k \in 0..(m + 1) |-> IF k = 0 THEN 0 ELSE g[k - 1] + o[k]]
      <3>1. ASSUME NEW k \in 0..(m + 1), k # 0 PROVE g[k - 1] = f[k - 1]
        <4>1. k - 1 \in 0..m
          BY <3>1
        <4> HIDE DEF g
        <4> QED  BY <2>2, <4>1
      <3> QED  BY <3>1
    <2> HIDE DEF g
    <2>4. AddsUp(g, o, m + 1)
      BY <2>3 DEF AddsUp
    <2> QED  BY <2>4
  <1> HIDE DEF T
  <1>3. n \in T
    BY <1>1, <1>2, NaturalInduction
  <1> QED  BY <1>3 DEF T

(* Displays show no less of a frame than any one of them.                  *)
LEMMA ShownAtLeast ==
  ASSUME NEW r \in Frames, NEW i \in Indices
  PROVE  ShownArea(r) \in Nat /\ ShownArea(r) >= Overlap(r, Displays[i].bounds)
  <1> DEFINE N == Len(Displays)
             a(j) == Overlap(r, Displays[j].bounds)
             o == [j \in 1..N |-> a(j)]
             f == CHOOSE f : f = [n \in 0..N |-> IF n = 0 THEN 0 ELSE f[n - 1] + a(n)]
  <1>1. N \in Nat /\ i \in 1..N /\ \A j \in 1..N : a(j) \in Nat
    BY DisplaysAreFrames, OverlapBounded DEF Indices
  <1>2. ShownArea(r) = f[N]
    BY DEF ShownArea
  <1> HIDE DEF N, a
  <1>3. \E g : g = [n \in 0..N |-> IF n = 0 THEN 0 ELSE g[n - 1] + a(n)]
    <2>1. PICK g : AddsUp(g, o, N)
      BY <1>1, SumsExist
    <2>2. \A n \in 0..N : n # 0 => o[n] = a(n)
      BY <1>1
    <2> HIDE DEF o
    <2>3. g = [n \in 0..N |-> IF n = 0 THEN 0 ELSE g[n - 1] + a(n)]
      BY <2>1, <2>2 DEF AddsUp
    <2> QED  BY <2>3
  <1>4. f = [n \in 0..N |-> IF n = 0 THEN 0 ELSE f[n - 1] + a(n)]
    BY <1>3
  <1> HIDE DEF f
  <1>5. f[0] = 0 /\ \A n \in 0..N : n # 0 => f[n] = f[n - 1] + a(n)
    BY <1>1, <1>4
  <1> DEFINE T == {n \in Nat : n <= N => f[n] \in Nat /\ \A j \in 1..n : f[n] >= a(j)}
  <1>6. 0 \in T
    BY <1>5
  <1>7. ASSUME NEW n \in Nat, n \in T PROVE n + 1 \in T
    <2> SUFFICES ASSUME n + 1 <= N
                 PROVE  f[n + 1] \in Nat /\ \A j \in 1..(n + 1) : f[n + 1] >= a(j)
      OBVIOUS
    <2>1. n + 1 \in 0..N /\ n + 1 # 0 /\ (n + 1) - 1 = n /\ n + 1 \in 1..N /\ n <= N
      BY <1>1
    <2>2. f[n + 1] = f[n] + a(n + 1) /\ a(n + 1) \in Nat
      BY <1>1, <1>5, <2>1
    <2>3. f[n] \in Nat /\ \A j \in 1..n : f[n] >= a(j)
      BY <1>7, <2>1
    <2>4. ASSUME NEW j \in 1..(n + 1) PROVE f[n + 1] >= a(j)
      <3>1. a(j) \in Nat
        BY <1>1, <2>1
      <3>2. CASE j = n + 1
        BY <2>2, <2>3, <3>2
      <3>3. CASE j # n + 1
        <4>1. j \in 1..n
          BY <3>3
        <4> QED  BY <2>2, <2>3, <3>1, <4>1
      <3> QED  BY <3>2, <3>3
    <2> QED  BY <2>2, <2>3, <2>4
  <1> HIDE DEF T
  <1>8. N \in T
    BY <1>1, <1>6, <1>7, NaturalInduction
  <1>9. f[N] \in Nat /\ f[N] >= a(i)
    BY <1>1, <1>8 DEF T
  <1> QED  BY <1>2, <1>9 DEF a

(* A frame within a display is covered, and left alone.                    *)
LEMMA InsideIsLeft ==
  ASSUME NEW r \in Frames, NEW i \in Indices, Inside(r, Displays[i].bounds)
  PROVE  BoundaryClampTarget(r) = None
  <1>1. Overlap(r, Displays[i].bounds) = r.w * r.h
    <2> PICK s : s = Displays[i].bounds
      OBVIOUS
    <2>1. s \in Frames /\ Inside(r, s)
      BY DisplaysAreFrames
    <2>2. /\ Larger(Smaller(Right(r), Right(s)) - Larger(r.x, s.x), 0) = r.w
          /\ Larger(Smaller(Bottom(r), Bottom(s)) - Larger(r.y, s.y), 0) = r.h
      BY <2>1 DEF Inside, Larger, Smaller, Right, Bottom, Frames
    <2> QED  BY <2>2 DEF Overlap
  <1>2. ShownArea(r) >= r.w * r.h
    BY <1>1, ShownAtLeast
  <1> QED  BY <1>2 DEF BoundaryClampTarget, Covered

(* One look brings a frame onto a display, and the next leaves it there.   *)
LEMMA OneLookCovers ==
  ASSUME panel \in Frames PROVE ClampCovers
  <1> DEFINE at == BoundaryClampTarget(panel)
             moved == [panel EXCEPT !.x = at.x, !.y = at.y]
  <1> SUFFICES ASSUME FitsEverywhere, at # None
               PROVE  /\ \E i \in Indices : Inside(moved, Displays[i].bounds)
                      /\ BoundaryClampTarget(moved) = None
    BY DEF ClampCovers
  <1>1. PICK i \in Indices : at = Nearest(panel, Displays[i])
    BY TargetIsNearest
  <1>2. /\ Displays[i].bounds \in Frames
        /\ panel.w <= Displays[i].bounds.w /\ panel.h <= Displays[i].bounds.h
    BY DisplaysAreFrames DEF FitsEverywhere
  <1>3. at \in Points
    BY <1>1, <1>2, NearestIsInside
  <1>4. Inside(moved, Displays[i].bounds)
    BY <1>1, <1>2, NearestIsInside
  <1>5. moved \in Frames
    BY <1>3 DEF Frames, Points
  <1> HIDE DEF at, moved
  <1> QED  BY <1>4, <1>5, InsideIsLeft

-------------------------------------------------------------------------------
(* Every place a window is given is a frame.                               *)

(* Whole coordinates and sizes make a frame.                               *)
LEMMA RectIsFrame ==
  ASSUME NEW x \in Int, NEW y \in Int, NEW w \in Nat, NEW h \in Nat
  PROVE  Rect(x, y, w, h) \in Frames
  BY DEF Rect, Frames

(* Sides of frames are integers.                                           *)
LEMMA SidesAreWhole ==
  ASSUME NEW r \in Frames
  PROVE  /\ r.x \in Int /\ r.y \in Int /\ r.w \in Nat /\ r.h \in Nat
         /\ Right(r) \in Int /\ Bottom(r) \in Int
  BY DEF Frames, Right, Bottom

(* A display by its frames.                                                *)
IsDisplay(d) == d.bounds \in Frames /\ d.work \in Frames

(* The current display has frames.                                         *)
LEMMA CurrentIsDisplay ==
  ASSUME NEW r \in Frames
  PROVE  CurrentDisplay(r) = None \/ IsDisplay(CurrentDisplay(r))
  BY ChosenDisplay, DisplaysAreFrames DEF IsDisplay

(* The rail's frame, wherever it hangs.                                    *)
LEMMA MinimalFrameIsFrame ==
  ASSUME NEW d, IsDisplay(d), NEW w \in Nat, NEW h \in Nat
  PROVE  MinimalPanelFrame(d, w, h) \in Frames
  <1> DEFINE right == Clamp(Right(d.bounds), d.work.x, Right(d.work))
             width == Smaller(Larger(w, RailWidth), Larger(right - d.work.x, 1))
             y == Clamp(d.bounds.y + 40, d.work.y, Bottom(d.work))
             height == Smaller(Larger(h, 1), Larger(Bottom(d.work) - y, 1))
  <1>1. /\ Right(d.bounds) \in Int /\ d.work.x \in Int /\ Right(d.work) \in Int
        /\ d.bounds.y \in Int /\ d.work.y \in Int /\ Bottom(d.work) \in Int
    BY SidesAreWhole DEF IsDisplay
  <1>2. right \in Int /\ y \in Int
    BY <1>1 DEF Clamp, Larger, Smaller
  <1> HIDE DEF right, y
  <1>3. width \in Nat
    BY <1>1, <1>2 DEF Larger, Smaller, RailWidth
  <1>4. height \in Nat
    BY <1>1, <1>2 DEF Larger, Smaller
  <1>5. MinimalPanelFrame(d, w, h) = Rect(right - width, y, width, height)
    BY DEF MinimalPanelFrame, right, y
  <1> HIDE DEF width, height
  <1> QED  BY <1>2, <1>3, <1>4, <1>5, RectIsFrame

(* A frame that is moved and resized.                                      *)
LEMMA ShiftedIsFrame ==
  ASSUME NEW r \in Frames, NEW at \in Points, NEW w \in Nat, NEW h \in Nat
  PROVE  Shifted(r, at, w, h) \in Frames
  <1>1. r.x \in Int /\ Bottom(r) \in Int
    BY SidesAreWhole
  <1>2. at.x \in Int /\ at.y \in Int
    BY DEF Points
  <1>3. r.x + at.x \in Int /\ Bottom(r) + at.y - h \in Int
    BY <1>1, <1>2
  <1> QED  BY <1>3, RectIsFrame DEF Shifted

(* A rail that is anchored, or on no display.                              *)
LEMMA AnchoredRailIsFrame ==
  ASSUME NEW r \in Frames, NEW h \in Nat
  PROVE  AnchoredRail(r, h) \in Frames
  <1> DEFINE d == CurrentDisplay(r)
             at == MinimalPanelFrame(d, RailWidth, h)
  <1>1. CASE d = None
    BY <1>1 DEF AnchoredRail
  <1>2. CASE d # None
    <2>1. IsDisplay(d)
      BY <1>2, CurrentIsDisplay
    <2> HIDE DEF d
    <2>2. at \in Frames
      BY <2>1, MinimalFrameIsFrame DEF RailWidth
    <2> HIDE DEF at
    <2>3. Shift(r, at) \in Points /\ at.w \in Nat /\ at.h \in Nat
      BY <2>2 DEF Shift, Points, Frames
    <2>4. AnchoredRail(r, h) = Shifted(r, Shift(r, at), at.w, at.h)
      BY <1>2 DEF AnchoredRail, d, at
    <2> QED  BY <2>3, <2>4, ShiftedIsFrame
  <1> QED  BY <1>1, <1>2

(* A rail that grows or shrinks where it is.                               *)
LEMMA GrownRailIsFrame ==
  ASSUME NEW r \in Frames, NEW h \in Nat
  PROVE  GrownRail(r, h) \in Frames
  <1> DEFINE d == RailDisplay(r)
             w == Smaller(RailWidth, Larger(Right(r) - d.work.x, 1))
             high == Smaller(Larger(h, 1), Larger(Bottom(d.work) - r.y, 1))
  <1>1. d = None \/ IsDisplay(d)
    <2> DEFINE spanning == {i \in Indices : SpansX(Displays[i], Right(r))}
    <2>1. CASE spanning = {}
      BY <2>1, CurrentIsDisplay DEF RailDisplay
    <2>2. CASE spanning # {}
      <3>1. spanning \subseteq Nat /\ spanning \subseteq Indices
        BY DisplaysAreFrames
      <3>2. d = Displays[Min(spanning)]
        BY <2>2 DEF RailDisplay
      <3> HIDE DEF spanning, d
      <3>3. \E i \in spanning : \A j \in spanning : i <= j
        BY <2>2, <3>1, LeastNatural
      <3>4. Min(spanning) \in spanning
        BY <3>3 DEF Min
      <3> QED  BY <3>1, <3>2, <3>4, DisplaysAreFrames DEF IsDisplay
    <2> QED  BY <2>1, <2>2
  <1>2. CASE d = None
    BY <1>2 DEF GrownRail
  <1>3. CASE d # None
    <2>1. GrownRail(r, h) = Rect(Right(r) - w, r.y, w, high)
      BY <1>3 DEF GrownRail, ResizedFromRight
    <2> HIDE DEF d
    <2>2. /\ Right(r) \in Int /\ r.y \in Int
          /\ d.work.x \in Int /\ Bottom(d.work) \in Int
      BY <1>1, <1>3, SidesAreWhole DEF IsDisplay
    <2>3. w \in Nat
      BY <2>2 DEF Larger, Smaller, RailWidth
    <2>4. high \in Nat
      BY <2>2 DEF Larger, Smaller
    <2>5. Right(r) - w \in Int
      BY <2>2, <2>3
    <2> HIDE DEF w, high
    <2> QED  BY <2>1, <2>2, <2>3, <2>4, <2>5, RectIsFrame
  <1> QED  BY <1>2, <1>3

(* A panel whose content has another height.                               *)
LEMMA SetHeightIsFrame ==
  ASSUME NEW r \in Frames, NEW h \in Nat
  PROVE  AfterSetHeight(r, h) \in Frames
  <1> DEFINE d == CurrentDisplay(r)
             upper == IF d = None THEN MaxHeight
                      ELSE Clamp(d.work.h - 2 * Margin, MinHeight, MaxHeight)
  <1>1. upper \in Nat
    <2>1. CASE d = None
      BY <2>1 DEF MaxHeight
    <2>2. CASE d # None
      <3>1. d.work.h \in Nat
        BY <2>2, CurrentIsDisplay, SidesAreWhole DEF IsDisplay
      <3> HIDE DEF d
      <3> QED  BY <2>2, <3>1 DEF Clamp, Larger, Smaller, Margin, MinHeight, MaxHeight
    <2> QED  BY <2>1, <2>2
  <1>2. ClampPanelHeight(h, d) = Clamp(h, Smaller(MinHeight, upper), upper)
    BY DEF ClampPanelHeight
  <1> HIDE DEF upper, d
  <1>3. ClampPanelHeight(h, d) \in Nat
    BY <1>1, <1>2 DEF Clamp, Larger, Smaller, MinHeight
  <1>4. ClampPanelHeight(h, CurrentDisplay(r)) \in Nat
    BY <1>3 DEF d
  <1>5. r.x \in Int /\ r.y \in Int /\ PanelWidth \in Nat
    BY SidesAreWhole DEF PanelWidth
  <1> QED  BY <1>4, <1>5, RectIsFrame DEF AfterSetHeight, Resized

(* The display of the tray's icon, if it is on one.                        *)
LEMMA AnchorIsDisplay ==
  ASSUME NEW anchor \in Points
  PROVE  DisplayForAnchor(anchor) = None \/ IsDisplay(DisplayForAnchor(anchor))
  <1> DEFINE off(i) == Abs(anchor.y - Displays[i].bounds.y)
             spanning == {i \in Indices : SpansX(Displays[i], anchor.x)}
             best(i) == \A j \in spanning : off(i) < off(j) \/ (off(i) = off(j) /\ i <= j)
  <1>1. DisplayForAnchor(anchor) =
          IF spanning = {} THEN None ELSE Displays[CHOOSE i \in spanning : best(i)]
    BY DEF DisplayForAnchor
  <1>2. spanning \subseteq Nat /\ spanning \subseteq Indices
    BY DisplaysAreFrames
  <1>3. \A i \in spanning : off(i) \in Nat
    <2> SUFFICES ASSUME NEW i \in spanning PROVE off(i) \in Nat
      OBVIOUS
    <2>1. anchor.y \in Int /\ Displays[i].bounds.y \in Int
      BY DisplaysAreFrames, SidesAreWhole DEF Points
    <2> QED  BY <2>1 DEF Abs
  <1>4. CASE spanning # {}
    <2> HIDE DEF spanning, off
    <2> DEFINE f == [i \in spanning |-> off(i)]
               g == [i \in spanning |-> 0]
    <2>1. f \in [spanning -> Nat] /\ g \in [spanning -> Nat]
      BY <1>3
    <2>2. PICK i \in spanning : \A j \in spanning :
             f[i] < f[j] \/ (f[i] = f[j] /\ (g[i] < g[j] \/ (g[i] = g[j] /\ i <= j)))
      <3> HIDE DEF f, g
      <3> QED  BY <1>2, <1>4, <2>1, LeastIndex
    <2>3. best(i)
      BY <2>2
    <2> HIDE DEF best
    <2>4. (CHOOSE k \in spanning : best(k)) \in spanning
      BY <2>3
    <2> QED  BY <1>1, <1>2, <1>4, <2>4, DisplaysAreFrames DEF IsDisplay
  <1>5. CASE spanning = {}
    BY <1>1, <1>5
  <1> QED  BY <1>4, <1>5

(* How far the full panel is moved.                                        *)
LEMMA FullPanelShiftIsPoint ==
  ASSUME NEW r \in Frames, NEW anchor \in Points \cup {None}, NEW h \in Nat
  PROVE  FullPanelShift(r, anchor, h) \in Points \cup {None}
  <1> DEFINE d == TargetDisplay(r, anchor)
             at == FullPanelTarget(d, anchor, h)
  <1>1. d = None \/ IsDisplay(d)
    <2>1. CASE anchor # None /\ DisplayForAnchor(anchor) # None
      BY <2>1, AnchorIsDisplay DEF TargetDisplay
    <2>2. CASE ~(anchor # None /\ DisplayForAnchor(anchor) # None)
      BY <2>2, CurrentIsDisplay DEF TargetDisplay
    <2> QED  BY <2>1, <2>2
  <1>2. CASE d = None
    BY <1>2 DEF FullPanelShift
  <1>3. CASE d # None
    <2>1. FullPanelShift(r, anchor, h) = Shift(r, at)
      BY <1>3 DEF FullPanelShift
    <2> HIDE DEF d
    <2> DEFINE rightmost == Right(d.work) - Margin - PanelWidth
               wanted == IF anchor = None THEN rightmost ELSE anchor.x
               lowest == Bottom(d.work) - Margin - h
    <2>2. /\ Right(d.work) \in Int /\ Bottom(d.work) \in Int
          /\ d.work.x \in Int /\ d.work.y \in Int /\ d.bounds.y \in Int
      BY <1>1, <1>3, SidesAreWhole DEF IsDisplay
    <2>3. rightmost \in Int /\ lowest \in Int
      BY <2>2 DEF Margin, PanelWidth
    <2>4. wanted \in Int
      BY <2>3 DEF Points
    <2>5. PanelTop(d) \in Int
      <3>1. 1 \in Indices
        BY DisplaysAreFrames DEF Indices
      <3>2. Displays[1].work.y \in Int /\ Displays[1].bounds.y \in Int
        BY <3>1, DisplaysAreFrames, SidesAreWhole
      <3>3. MenuBarHeight \in Int
        BY <3>2 DEF MenuBarHeight, Larger
      <3> QED  BY <2>2, <3>3 DEF PanelTop, Larger
    <2>6. at = [x |-> Larger(Larger(Smaller(wanted, rightmost), d.work.x + Margin), d.work.x),
                y |-> Larger(Smaller(PanelTop(d) + Margin, lowest), d.work.y)]
      BY DEF FullPanelTarget
    <2> HIDE DEF at, rightmost, wanted, lowest
    <2>7. Margin \in Int
      BY DEF Margin
    <2>8. Larger(Larger(Smaller(wanted, rightmost), d.work.x + Margin), d.work.x) \in Int
      BY <2>2, <2>3, <2>4, <2>7 DEF Larger, Smaller
    <2>9. Larger(Smaller(PanelTop(d) + Margin, lowest), d.work.y) \in Int
      BY <2>2, <2>3, <2>5, <2>7 DEF Larger, Smaller
    <2>10. r.x \in Int /\ r.y \in Int
      BY SidesAreWhole
    <2>11. at.x \in Int /\ at.y \in Int
      BY <2>6, <2>8, <2>9
    <2> QED  BY <2>1, <2>10, <2>11 DEF Shift, Points
  <1> QED  BY <1>1, <1>2, <1>3

(* The full panel, with and without a target.                              *)
LEMMA FullPanelIsFrame ==
  ASSUME NEW r \in Frames, NEW shift \in Points \cup {None}, NEW h \in Nat
  PROVE  AfterFullPanel(r, shift, h) \in Frames
  <1>1. CASE shift = None
    <2>1. Right(r) - PanelWidth \in Int /\ r.y \in Int /\ PanelWidth \in Nat
      BY SidesAreWhole DEF PanelWidth
    <2> QED  BY <1>1, <2>1, RectIsFrame DEF AfterFullPanel, ResizedFromRight
  <1>2. CASE shift # None
    <2>1. shift \in Points /\ PanelWidth \in Nat
      BY <1>2 DEF PanelWidth
    <2> QED  BY <1>2, <2>1, ShiftedIsFrame DEF AfterFullPanel
  <1> QED  BY <1>1, <1>2

-------------------------------------------------------------------------------
(* The panel on the displays: the steps.                                   *)

(* Messages about the panel's frame.                                       *)
FrameMail ==
  [do : {"move"}, at : Points]
    \cup [do : {"rail"}, height : Nat, anchor : BOOLEAN]
    \cup [do : {"height"}, height : Nat]
    \cup [do : {"frame"}, shift : Points \cup {None}, height : Nat]

InFrame(m) == m.do \in {"move", "rail", "height", "frame"} => m \in FrameMail

MailInFrame(q) == \A i \in DOMAIN q : InFrame(q[i])

(* The panel's frame is one, and what is on its way keeps it so.           *)
FramesInv == IsSequence(mainQueue) /\ panel \in Frames /\ MailInFrame(mainQueue)

(* What is posted joins what is on its way.                                *)
LEMMA MailPosted ==
  ASSUME IsSequence(mainQueue), MailInFrame(mainQueue),
         NEW r, IsSequence(r), MailInFrame(r), Post(r)
  PROVE  IsSequence(mainQueue') /\ MailInFrame(mainQueue')
  <1> DEFINE q == mainQueue
             p == q \o r
  <1>1. mainQueue' = p /\ IsSequence(q) /\ MailInFrame(q)
    BY DEF Post
  <1> HIDE DEF q
  <1>2. /\ IsSequence(p) /\ Len(q) \in Nat /\ Len(r) \in Nat
        /\ DOMAIN q = 1..Len(q) /\ DOMAIN r = 1..Len(r)
        /\ DOMAIN p = 1..(Len(q) + Len(r))
        /\ \A i \in DOMAIN q : p[i] = q[i]
        /\ \A i \in DOMAIN r : p[Len(q) + i] = r[i]
    BY <1>1, Joined
  <1> HIDE DEF p
  <1>3. ASSUME NEW i \in DOMAIN p PROVE InFrame(p[i])
    <2>1. CASE i \in DOMAIN q
      BY <1>1, <1>2, <2>1 DEF MailInFrame
    <2>2. CASE i \notin DOMAIN q
      <3>1. i - Len(q) \in DOMAIN r /\ Len(q) + (i - Len(q)) = i
        BY <1>2, <2>2
      <3>2. p[i] = r[i - Len(q)]
        BY <1>2, <3>1
      <3> QED  BY <3>1, <3>2 DEF MailInFrame
    <2> QED  BY <2>1, <2>2
  <1>4. MailInFrame(p)
    BY <1>3 DEF MailInFrame
  <1> QED  BY <1>1, <1>2, <1>4

(* What the main thread handles is typed, and so is what is left.          *)
LEMMA MailHandled ==
  ASSUME IsSequence(mainQueue), MailInFrame(mainQueue), NEW what, Handle(what)
  PROVE  /\ IsSequence(mainQueue') /\ MailInFrame(mainQueue')
         /\ Head(mainQueue).do = what /\ InFrame(Head(mainQueue))
  <1> DEFINE q == mainQueue
             p == Tail(q)
  <1>1. /\ mainQueue' = p /\ IsSequence(q) /\ q # <<>> /\ Head(q).do = what
        /\ MailInFrame(q) /\ mainQueue = q
    BY DEF Handle
  <1> HIDE DEF q
  <1>2. /\ IsSequence(p) /\ Head(q) = q[1]
        /\ Len(q) \in Nat \ {0} /\ DOMAIN q = 1..Len(q)
        /\ DOMAIN p = 1..(Len(q) - 1)
        /\ \A i \in DOMAIN p : p[i] = q[i + 1]
    BY <1>1, Handled
  <1> HIDE DEF p
  <1>3. 1 \in DOMAIN q /\ \A i \in DOMAIN p : i + 1 \in DOMAIN q
    BY <1>2
  <1>4. MailInFrame(p) /\ InFrame(q[1])
    BY <1>1, <1>2, <1>3 DEF MailInFrame
  <1> QED  BY <1>1, <1>2, <1>4

(* One message or two.                                                     *)
LEMMA ShortMail ==
  /\ IsSequence(<<>>) /\ MailInFrame(<<>>)
  /\ \A m : InFrame(m) => IsSequence(<<m>>) /\ MailInFrame(<<m>>)
  /\ \A m, n : InFrame(m) /\ InFrame(n) => IsSequence(<<m, n>>) /\ MailInFrame(<<m, n>>)
  /\ \A m, n, o : InFrame(m) /\ InFrame(n) /\ InFrame(o) =>
       IsSequence(<<m, n, o>>) /\ MailInFrame(<<m, n, o>>)
  <1>1. IsSequence(<<>>) /\ MailInFrame(<<>>)
    <2>1. <<>> \in Seq({}) /\ DOMAIN <<>> = {}
      OBVIOUS
    <2> QED  BY <2>1 DEF IsSequence, MailInFrame
  <1>2. ASSUME NEW m, InFrame(m) PROVE IsSequence(<<m>>) /\ MailInFrame(<<m>>)
    <2> DEFINE r == <<m>>
    <2>1. r \in Seq({m}) /\ DOMAIN r = {1} /\ r[1] = m
      OBVIOUS
    <2> HIDE DEF r
    <2>2. IsSequence(r) /\ MailInFrame(r)
      BY <1>2, <2>1 DEF IsSequence, MailInFrame
    <2> QED  BY <2>2 DEF r
  <1>3. ASSUME NEW m, NEW n, InFrame(m), InFrame(n)
        PROVE  IsSequence(<<m, n>>) /\ MailInFrame(<<m, n>>)
    <2> DEFINE r == <<m, n>>
    <2>1. r \in Seq({m, n}) /\ DOMAIN r = {1, 2} /\ r[1] = m /\ r[2] = n
      OBVIOUS
    <2> HIDE DEF r
    <2>2. IsSequence(r) /\ MailInFrame(r)
      BY <1>3, <2>1 DEF IsSequence, MailInFrame
    <2> QED  BY <2>2 DEF r
  <1>4. ASSUME NEW m, NEW n, NEW o, InFrame(m), InFrame(n), InFrame(o)
        PROVE  IsSequence(<<m, n, o>>) /\ MailInFrame(<<m, n, o>>)
    <2> DEFINE r == <<m, n, o>>
    <2>1. r \in Seq({m, n, o}) /\ DOMAIN r = {1, 2, 3} /\ r[1] = m /\ r[2] = n /\ r[3] = o
      OBVIOUS
    <2> HIDE DEF r
    <2>2. IsSequence(r) /\ MailInFrame(r)
      BY <1>4, <2>1 DEF IsSequence, MailInFrame
    <2> QED  BY <2>2 DEF r
  <1> QED  BY <1>1, <1>2, <1>3, <1>4

(* What is posted keeps the panel in its frame.                            *)
LEMMA MessagesInFrame ==
  /\ \A s : InFrame(Select(s))
  /\ \A h : InFrame(Layout(h))
  /\ InFrame(HideCard) /\ InFrame(Dismiss) /\ \A f : InFrame(Place(f))
  /\ \A h \in Nat : InFrame(Height(h))
  /\ \A h \in Nat, anchor \in BOOLEAN : InFrame(RailLayout(h, anchor))
  /\ \A at \in Points : InFrame(MoveTo(at))
  /\ \A shift \in Points \cup {None}, h \in Nat : InFrame(Frame(shift, h))
  <1>1. \A s : InFrame(Select(s))
    BY DEF Select, InFrame
  <1>2. \A h : InFrame(Layout(h))
    BY DEF Layout, InFrame
  <1>3. InFrame(HideCard) /\ InFrame(Dismiss) /\ \A f : InFrame(Place(f))
    BY DEF HideCard, Dismiss, Place, InFrame
  <1>4. ASSUME NEW h \in Nat
        PROVE  /\ Height(h) \in FrameMail
               /\ \A anchor \in BOOLEAN : RailLayout(h, anchor) \in FrameMail
               /\ \A shift \in Points \cup {None} : Frame(shift, h) \in FrameMail
    BY DEF Height, RailLayout, Frame, FrameMail
  <1>5. \A at \in Points : MoveTo(at) \in FrameMail
    BY DEF MoveTo, FrameMail
  <1> QED  BY <1>1, <1>2, <1>3, <1>4, <1>5 DEF InFrame

(* The first panel is the rail, and nothing is on its way.                 *)
LEMMA FramesInvInit == WindowsInit => FramesInv
  <1> SUFFICES ASSUME WindowsInit PROVE FramesInv
    OBVIOUS
  <1>1. Min(RailHeights) \in Nat
    <2>1. \E n \in RailHeights : \A m \in RailHeights : n <= m
      BY InputsAssumption, LeastNatural
    <2>2. Min(RailHeights) \in RailHeights
      BY <2>1 DEF Min
    <2> QED  BY <2>2, InputsAssumption
  <1>2. IsDisplay(Displays[1])
    BY DisplaysAreFrames DEF IsDisplay, Indices
  <1>3. panel \in Frames
    BY <1>1, <1>2, MinimalFrameIsFrame DEF WindowsInit, RailWidth
  <1>4. mainQueue = <<>>
    BY DEF WindowsInit
  <1> QED  BY <1>3, <1>4, ShortMail DEF FramesInv

(* A step that neither moves the panel nor posts.                          *)
LEMMA FramesStay ==
  ASSUME FramesInv, UNCHANGED <<panel, mainQueue>>
  PROVE  FramesInv'
  BY DEF FramesInv, MailInFrame

(* A step that posts.                                                      *)
LEMMA FramesPosted ==
  ASSUME FramesInv, UNCHANGED panel, NEW r, IsSequence(r), MailInFrame(r), Post(r)
  PROVE  FramesInv'
  <1>1. IsSequence(mainQueue') /\ MailInFrame(mainQueue')
    BY MailPosted DEF FramesInv
  <1> QED  BY <1>1 DEF FramesInv, MailInFrame

(* A step that handles a message.                                          *)
LEMMA FramesHandled ==
  ASSUME FramesInv, NEW what, Handle(what), panel' \in Frames
  PROVE  FramesInv'
  <1>1. IsSequence(mainQueue') /\ MailInFrame(mainQueue')
    BY MailHandled DEF FramesInv
  <1> QED  BY <1>1 DEF FramesInv, MailInFrame

(* The main thread.                                                        *)
LEMMA FramesMainThread == ASSUME FramesInv, MainThread PROVE FramesInv'
  <1>0. panel \in Frames
    BY DEF FramesInv
  <1>a. ASSUME NEW what, Handle(what) PROVE InFrame(Head(mainQueue)) /\ Head(mainQueue).do = what
    BY <1>a, MailHandled DEF FramesInv
  <1>1. ASSUME HandleSelect \/ HandleDismiss \/ HandleHide \/ HandleLayout \/ HandlePlace
        PROVE  FramesInv'
    <2>1. panel' = panel /\ \E what : Handle(what)
      BY <1>1 DEF HandleSelect, HandleDismiss, HandleHide, HandleLayout, HandlePlace, frameVars
    <2> QED  BY <1>0, <2>1, FramesHandled
  <1>2. CASE PlaceForLayout \/ ShowCard
    BY <1>2, FramesStay DEF PlaceForLayout, ShowCard, frameVars
  <1>3. CASE HandleMove
    <2> DEFINE m == Head(mainQueue)
    <2>1. Handle("move") /\ panel' = [panel EXCEPT !.x = m.at.x, !.y = m.at.y]
      BY <1>3 DEF HandleMove, PanelBecomes
    <2>2. m.at \in Points
      <3>1. InFrame(m) /\ m.do = "move"
        BY <1>a, <2>1
      <3> QED  BY <3>1 DEF InFrame, FrameMail
    <2> HIDE DEF m
    <2>3. panel' \in Frames
      BY <1>0, <2>1, <2>2 DEF Frames, Points
    <2> QED  BY <2>1, <2>3, FramesHandled
  <1>4. CASE HandleRail
    <2> DEFINE m == Head(mainQueue)
    <2>1. Handle("rail") /\ panel' = AfterMinimalLayout(panel, m.height, m.anchor)
      BY <1>4 DEF HandleRail, PanelBecomes
    <2>2. m.height \in Nat
      <3>1. InFrame(m) /\ m.do = "rail"
        BY <1>a, <2>1
      <3> QED  BY <3>1 DEF InFrame, FrameMail
    <2> HIDE DEF m
    <2>3. panel' \in Frames
      BY <1>0, <2>1, <2>2, AnchoredRailIsFrame, GrownRailIsFrame DEF AfterMinimalLayout
    <2> QED  BY <2>1, <2>3, FramesHandled
  <1>5. CASE HandleHeight
    <2> DEFINE m == Head(mainQueue)
    <2>1. Handle("height") /\ panel' = AfterSetHeight(panel, m.height)
      BY <1>5 DEF HandleHeight, PanelBecomes
    <2>2. m.height \in Nat
      <3>1. InFrame(m) /\ m.do = "height"
        BY <1>a, <2>1
      <3> QED  BY <3>1 DEF InFrame, FrameMail
    <2> HIDE DEF m
    <2>3. panel' \in Frames
      BY <1>0, <2>1, <2>2, SetHeightIsFrame
    <2> QED  BY <2>1, <2>3, FramesHandled
  <1>6. CASE HandleFrame
    <2> DEFINE m == Head(mainQueue)
    <2>1. Handle("frame") /\ panel' = AfterFullPanel(panel, m.shift, m.height)
      BY <1>6 DEF HandleFrame, PanelBecomes
    <2>2. m.height \in Nat /\ m.shift \in Points \cup {None}
      <3>1. InFrame(m) /\ m.do = "frame"
        BY <1>a, <2>1
      <3> QED  BY <3>1 DEF InFrame, FrameMail
    <2> HIDE DEF m
    <2>3. panel' \in Frames
      BY <1>0, <2>1, <2>2, FullPanelIsFrame
    <2> QED  BY <2>1, <2>3, FramesHandled
  <1>7. CASE PanelGoes
    BY <1>7, FramesStay DEF PanelGoes
  <1> QED  BY <1>1, <1>2, <1>3, <1>4, <1>5, <1>6, <1>7 DEF MainThread

(* The other threads.                                                      *)
LEMMA FramesThreads == ASSUME FramesInv, Threads PROVE FramesInv'
  <1>0. panel \in Frames
    BY DEF FramesInv
  <1>1. CASE PollFindsOutside \/ \E t \in dismissing : FinishDismissal(t)
    BY <1>1, FramesStay DEF PollFindsOutside, FinishDismissal, frameVars
  <1>2. CASE PollPlaces
    <2>1. UNCHANGED panel /\ Post(<<Place(CardFrame)>>)
      BY <1>2 DEF PollPlaces, frameVars
    <2>2. InFrame(Place(CardFrame))
      BY MessagesInFrame
    <2> QED  BY <2>1, <2>2, ShortMail, FramesPosted
  <1>3. CASE PollClamps
    <2> DEFINE at == BoundaryClampTarget(panel)
    <2>1. UNCHANGED panel /\ Post(<<MoveTo(at)>>) /\ at # None
      BY <1>3 DEF PollClamps, frameVars
    <2>2. at \in Points
      <3>1. PICK i \in Indices : at = Nearest(panel, Displays[i])
        BY <1>0, <2>1, TargetIsNearest
      <3>2. Displays[i].bounds \in Frames
        BY DisplaysAreFrames
      <3> QED  BY <1>0, <3>1, <3>2, NearestIsInside
    <2> HIDE DEF at
    <2>3. InFrame(MoveTo(at))
      BY <2>2, MessagesInFrame
    <2> QED  BY <2>1, <2>3, ShortMail, FramesPosted
  <1>4. CASE SetFullLayout
    <2> DEFINE shift == FullPanelShift(panel, None, panel.h)
    <2>1. UNCHANGED panel /\ (UNCHANGED mainQueue \/ Post(<<Frame(shift, panel.h)>>))
      BY <1>4 DEF SetFullLayout, frameVars
    <2>2. panel.h \in Nat
      BY <1>0, SidesAreWhole
    <2>3. shift \in Points \cup {None}
      BY <1>0, <2>2, FullPanelShiftIsPoint
    <2> HIDE DEF shift
    <2>4. InFrame(Frame(shift, panel.h))
      BY <2>2, <2>3, MessagesInFrame
    <2> QED  BY <2>1, <2>4, ShortMail, FramesPosted, FramesStay
  <1>5. ASSUME NEW g \in hides, HideIsDue(g) PROVE FramesInv'
    <2>1. UNCHANGED panel /\ (UNCHANGED mainQueue \/ Post(<<HideCard>>))
      BY <1>5 DEF HideIsDue, frameVars
    <2>2. InFrame(HideCard)
      BY MessagesInFrame
    <2> QED  BY <2>1, <2>2, ShortMail, FramesPosted, FramesStay
  <1> QED  BY <1>1, <1>2, <1>3, <1>4, <1>5 DEF Threads

(* A selection the rail says, with at most one message more.               *)
LEMMA SelectionPosted ==
  ASSUME FramesInv, UNCHANGED panel, NEW s,
         \/ Post(<<Select(s)>> \o <<>>)
         \/ \E m : InFrame(m) /\ Post(<<Select(s), m>>)
         \/ \E m, n : InFrame(m) /\ InFrame(n) /\ Post(<<Select(s), m, n>>)
  PROVE  FramesInv'
  <1>1. InFrame(Select(s))
    BY MessagesInFrame
  <1>2. <<Select(s)>> \o <<>> = <<Select(s)>>
    OBVIOUS
  <1> QED  BY <1>1, <1>2, ShortMail, FramesPosted

(* Users and contents.                                                     *)
LEMMA FramesInputs == ASSUME FramesInv, Inputs PROVE FramesInv'
  <1>0. panel \in Frames
    BY DEF FramesInv
  <1>1. CASE Drop
    <2>1. PICK at \in DropPoints : panel' = [panel EXCEPT !.x = at.x, !.y = at.y]
      BY <1>1 DEF Drop
    <2>2. at \in Points
      BY InputsAssumption
    <2>3. panel' \in Frames
      BY <1>0, <2>1, <2>2 DEF Frames, Points
    <2>4. UNCHANGED mainQueue
      BY <1>1 DEF Drop
    <2> QED  BY <2>3, <2>4 DEF FramesInv, MailInFrame
  <1>2. CASE ToggleGrip \/ HidePanel \/ SwitchToFull \/ SwitchToMinimal
    BY <1>2, FramesStay DEF ToggleGrip, HidePanel, SwitchToFull, SwitchToMinimal, frameVars
  <1>3. CASE ShowPanel
    <2>1. UNCHANGED mainQueue
      BY <1>3 DEF ShowPanel
    <2>2. panel.h \in Nat
      BY <1>0, SidesAreWhole
    <2>3. AnchoredRail(panel, panel.h) \in Frames
      BY <1>0, <2>2, AnchoredRailIsFrame
    <2>4. ASSUME NEW anchor \in TrayAnchors \union {None}
          PROVE  AfterFullPanel(panel, FullPanelShift(panel, anchor, panel.h), panel.h) \in Frames
      <3>1. anchor \in Points \cup {None}
        BY InputsAssumption
      <3>2. FullPanelShift(panel, anchor, panel.h) \in Points \cup {None}
        BY <1>0, <2>2, <3>1, FullPanelShiftIsPoint
      <3> QED  BY <1>0, <2>2, <3>2, FullPanelIsFrame
    <2>5. panel' \in Frames
      BY <1>0, <1>3, <2>3, <2>4 DEF ShowPanel, AfterMinimalLayout
    <2> QED  BY <2>1, <2>5 DEF FramesInv, MailInFrame
  <1>4. ASSUME (\E s \in Rings : Point(s)) \/ LeavePlatform PROVE FramesInv'
    <2>1. UNCHANGED panel /\ \E s : Post(<<Select(s)>> \o <<>>)
      BY <1>4 DEF Point, LeavePlatform, RailSays, RailUnchanged, frameVars
    <2> QED  BY <2>1, SelectionPosted
  <1>5. CASE ContentChanges
    <2>1. UNCHANGED panel
      BY <1>5 DEF ContentChanges, RailUnchanged, frameVars
    <2>2. PICK m : InFrame(m) /\ Post(<<m>>)
      <3>1. CASE \E h \in RailHeights : Post(<<RailLayout(h, FALSE)>>)
        BY <3>1, MessagesInFrame, InputsAssumption
      <3>2. CASE \E h \in PanelHeights : Post(<<Height(h)>>)
        BY <3>2, MessagesInFrame, InputsAssumption
      <3> QED  BY <1>5, <3>1, <3>2 DEF ContentChanges
    <2> QED  BY <2>1, <2>2, ShortMail, FramesPosted
  <1>6. CASE CardChanges
    <2>1. UNCHANGED panel /\ \E h : Post(<<Layout(h)>>)
      BY <1>6 DEF CardChanges, frameVars
    <2> QED  BY <2>1, MessagesInFrame, ShortMail, FramesPosted
  <1>7. CASE EscapeInCard
    <2>1. UNCHANGED panel /\ Post(<<Dismiss>>)
      BY <1>7 DEF EscapeInCard, frameVars
    <2> QED  BY <2>1, MessagesInFrame, ShortMail, FramesPosted
  <1> QED  BY <1>1, <1>2, <1>3, <1>4, <1>5, <1>6, <1>7 DEF Inputs

(* The documents.                                                          *)
LEMMA FramesDocuments == ASSUME FramesInv, Documents PROVE FramesInv'
  <1>0. panel \in Frames /\ panel.h \in Nat
    BY SidesAreWhole DEF FramesInv
  <1>1. CASE RailTicks
    <2>1. UNCHANGED panel /\ Post(<<Select(rail.selected)>> \o <<>>)
      BY <1>1 DEF RailTicks, RailSays, RailUnchanged, frameVars
    <2> QED  BY <2>1, SelectionPosted
  <1>2. CASE HearDismissal
    <2>1. UNCHANGED panel /\ (UNCHANGED mainQueue \/ Post(<<Select(None)>> \o <<>>))
      BY <1>2 DEF HearDismissal, RailSays, RailUnchanged, frameVars
    <2> QED  BY <2>1, SelectionPosted, FramesStay
  <1>3. CASE HearFull
    <2>1. UNCHANGED panel
      BY <1>3 DEF HearFull, RailUnchanged, frameVars
    <2>2. PICK h \in PanelHeights : Post(<<Select(None), Height(h)>>)
      BY <1>3 DEF HearFull
    <2>3. InFrame(Height(h))
      BY MessagesInFrame, InputsAssumption
    <2> QED  BY <2>1, <2>2, <2>3, SelectionPosted
  <1>4. CASE HearMinimal
    <2>1. UNCHANGED panel
      BY <1>4 DEF HearMinimal, RailUnchanged, frameVars
    <2>2. PICK h \in RailHeights :
            \/ Post(<<Select(None), RailLayout(h, TRUE)>>)
            \/ Post(<<Select(None), RailLayout(panel.h, TRUE), RailLayout(h, FALSE)>>)
      BY <1>4 DEF HearMinimal
    <2>3. /\ InFrame(RailLayout(h, TRUE)) /\ InFrame(RailLayout(h, FALSE))
          /\ InFrame(RailLayout(panel.h, TRUE))
      BY <1>0, MessagesInFrame, InputsAssumption
    <2> QED  BY <2>1, <2>2, <2>3, SelectionPosted
  <1>5. CASE AdoptSelection
    <2>1. UNCHANGED panel /\ (UNCHANGED mainQueue \/ \E h : Post(<<Layout(h)>>))
      BY <1>5 DEF AdoptSelection, frameVars
    <2> QED  BY <2>1, MessagesInFrame, ShortMail, FramesPosted, FramesStay
  <1> QED  BY <1>1, <1>2, <1>3, <1>4, <1>5 DEF Documents

(* Every step keeps the panel in a frame.                                  *)
LEMMA FramesInvStep == FramesInv /\ [WindowsNext]_windowsVars => FramesInv'
  <1> SUFFICES ASSUME FramesInv, [WindowsNext]_windowsVars PROVE FramesInv'
    OBVIOUS
  <1>1. CASE UNCHANGED windowsVars
    BY <1>1, FramesStay DEF windowsVars, frameVars
  <1> QED  BY <1>1, FramesMainThread, FramesThreads, FramesInputs, FramesDocuments DEF WindowsNext

(* Wherever drags, heights reported for one shape or the other and changes *)
(* of shape have left the panel, one look of the boundary poll puts it     *)
(* wholly on a display, if every display has room for it, and the next     *)
(* look leaves it there; for any displays.                                 *)
THEOREM ClampsCover == WindowsSpec => []ClampCovers
  <1>1. FramesInv => ClampCovers
    BY OneLookCovers DEF FramesInv
  <1> QED  BY <1>1, FramesInvInit, FramesInvStep, PTL DEF WindowsSpec
===============================================================================
