------------------------------ MODULE CodexSession ------------------------------
(* One Codex app-server session at a time, shared by the callers of a          *)
(* CodexAppServerSupervisor (crates/usage-core/src/adapters/codex/json_rpc.rs): *)
(* the child process with its reader, writer and waiter tasks, the JSON-RPC     *)
(* client that correlates answers, and the supervisor that connects, retries    *)
(* and replaces sessions under one async lock.                                  *)
(*                                                                              *)
(* A caller is one task inside CodexAppServerSupervisor::request.  Its future   *)
(* may be dropped wherever it awaits (a run that timed out, a request handler   *)
(* whose connection closed).  A request is tagged with who asked for what, so   *)
(* that an answer which reaches another request shows.                          *)
EXTENDS Integers, FiniteSets

CONSTANTS Callers,          \* tasks that use the supervisor
          Sessions,         \* 1..n: the children the factory can start
          MaxCalls,         \* requests one caller makes
          MaxAttempts,      \* MAX_REQUEST_ATTEMPTS
          NoLock            \* nobody holds the lock

ASSUME SessionAssumption ==
    /\ IsFiniteSet(Callers)
    /\ Sessions \subseteq Nat \ {0}
    /\ MaxCalls \in Nat
    /\ MaxAttempts \in Nat \ {0}
    /\ NoLock \notin Callers

VARIABLES ses,        \* child process, transport and client of each session
          current,    \* supervisor.state: the published session, 0 if none
          lock,       \* who holds the async lock around it
          cal,        \* what each caller is doing
          mail        \* outcome sent to each caller's oneshot receiver

vars == <<ses, current, lock, cal, mail>>

Whats == {"initialize", "request"}
Tags  == [who : Callers, call : 0..MaxCalls, try : 1..MaxAttempts, what : Whats]
Tag(c) == [who |-> c, call |-> cal[c].call, try |-> cal[c].try, what |-> cal[c].what]

\* wire: the requests queued for the child, which it may answer from then on;
\* lost: the caller that shook hands with the child was dropped while it did, and
\* with it the only client of that session.
NewSession == [proc |-> "none", kill |-> FALSE, lost |-> FALSE,
               writer |-> TRUE, closed |-> FALSE,
               hook |-> FALSE, cclosed |-> FALSE, drained |-> FALSE,
               next |-> 1, pending |-> {}, wire |-> {}]

Init == /\ ses = [s \in Sessions |-> NewSession]
        /\ current = 0
        /\ lock = NoLock
        /\ cal = [c \in Callers |-> [pc |-> "idle", what |-> "request", try |-> 1,
                                     call |-> 0, ses |-> 0, id |-> 0]]
        /\ mail = [c \in Callers |-> {}]

------------------------------------------------------------------------------
(* Helpers.                                                                     *)

At(c, pc) == cal[c].pc = pc
Client(c) == ses[cal[c].ses]
Goto(c, pc) == cal' = [cal EXCEPT ![c].pc = pc]

\* The caller is done with the session it used.
Leave(c, pc) == cal' = [cal EXCEPT ![c].pc = pc, ![c].what = "request",
                                   ![c].ses = 0, ![c].id = 0]
\* The supervised request returns.
Return(c) == cal' = [cal EXCEPT ![c].pc = "idle", ![c].what = "request",
                                ![c].ses = 0, ![c].id = 0, ![c].try = 1]

\* Is caller c still listening for the outcome of the request tagged t?
Waits(c, t) == At(c, "wait") /\ Tag(c) = t

\* The oneshot senders of the taken slots, each with an outcome.
Send(taken, outcome(_)) ==
    mail' = [c \in Callers |->
                mail[c] \cup {outcome(p) : p \in {q \in taken : Waits(c, q.tag)}}]

\* close(): the shutdown sender is taken and used once.
Close(f, s) == IF s = 0 THEN f ELSE [f EXCEPT ![s].kill = TRUE]

\* Dispatcher::close: once, then the registered close handler, which is the
\* client's handle_close (its drain is a step of its own).
DispatcherClosed(s) ==
    ses' = [ses EXCEPT ![s].closed = TRUE, ![s].cclosed = @ \/ ses[s].hook]

------------------------------------------------------------------------------
(* The child process and the tasks of StdioRpcTransport::spawn.                 *)

Dies(s) ==
    /\ ses[s].proc = "run"
    /\ ses' = [ses EXCEPT ![s].proc = "dead"]
    /\ UNCHANGED <<current, lock, cal, mail>>

\* The waiter's two branches: the child exits, or close() was called and it is
\* killed.
ChildExits(s) == ~ses[s].kill /\ Dies(s)
WaiterKills(s) == ses[s].kill /\ Dies(s)

WaiterReports(s) ==
    /\ ses[s].proc = "dead"
    /\ ~ses[s].closed
    /\ DispatcherClosed(s)
    /\ UNCHANGED <<current, lock, cal, mail>>

\* A line that is not JSON, or a read error: the session is closed, its child
\* is not.
ReaderRejects(s) ==
    /\ ses[s].proc = "run"
    /\ ~ses[s].closed
    /\ DispatcherClosed(s)
    /\ UNCHANGED <<current, lock, cal, mail>>

\* A queued line meets the broken pipe of a dead child; which of its lines are
\* still queued when it dies is left open.
WriterStops(s) ==
    /\ ses[s].proc = "dead"
    /\ ses[s].writer
    /\ ses[s].wire # {}
    /\ ses' = [ses EXCEPT ![s].writer = FALSE]
    /\ UNCHANGED <<current, lock, cal, mail>>

\* The child answers a request it was sent, as late, out of order and often as it
\* likes, and the reader hands the line to handle_message, maybe after the child's
\* death: the slot of the answer's id is removed and its sender used; an answer
\* whose slot is gone, by a timeout or an earlier answer, is dropped.
HandleMessage(s) ==
    /\ \E m \in ses[s].wire, ok \in BOOLEAN :
          LET taken == {p \in ses[s].pending : p.id = m.id} IN
          /\ ses' = [ses EXCEPT ![s].pending = @ \ taken]
          /\ Send(taken, LAMBDA p : [tag |-> m.tag, ok |-> ok])
    /\ UNCHANGED <<current, lock, cal>>

\* handle_close, after the closed flag is set and its lock released.
DrainPending(s) ==
    /\ ses[s].cclosed
    /\ ~ses[s].drained
    /\ ses' = [ses EXCEPT ![s].drained = TRUE, ![s].pending = {}]
    /\ Send(ses[s].pending, LAMBDA p : [tag |-> p.tag, ok |-> FALSE])
    /\ UNCHANGED <<current, lock, cal>>

------------------------------------------------------------------------------
(* CodexAppServerSupervisor::connect.                                           *)

\* A caller starts one supervised request.
Call(c) ==
    /\ At(c, "idle")
    /\ cal[c].call < MaxCalls
    /\ cal' = [cal EXCEPT ![c].pc = "connect", ![c].call = @ + 1]
    /\ UNCHANGED <<ses, current, lock, mail>>

Usable(s) == s # 0 /\ ~ses[s].cclosed

\* The lock is taken, the live session handed out and the lock released.
ReuseSession(c) ==
    /\ At(c, "connect")
    /\ lock = NoLock
    /\ Usable(current)
    /\ cal' = [cal EXCEPT ![c].pc = "ask", ![c].ses = current]
    /\ UNCHANGED <<ses, current, lock, mail>>

\* No live session: close a dead one, spawn a child and keep the lock.  The
\* dispatcher's closed flag is read by on_close before the handler is pushed.
StartSession(c) ==
    /\ At(c, "connect")
    /\ lock = NoLock
    /\ ~Usable(current)
    /\ \E s \in Sessions :
          /\ ses[s].proc = "none"
          /\ \A r \in Sessions : r < s => ses[r].proc # "none"
          /\ ses' = [Close(ses, current) EXCEPT ![s].proc = "run"]
          /\ cal' = [cal EXCEPT ![c].pc = "hook", ![c].what = "initialize", ![c].ses = s]
    /\ lock' = c
    /\ current' = 0
    /\ UNCHANGED <<mail>>

\* The factory fails: the backoff follows without the lock.
FactoryFails(c) ==
    /\ At(c, "connect")
    /\ lock = NoLock
    /\ ~Usable(current)
    /\ ses' = Close(ses, current)
    /\ current' = 0
    /\ Leave(c, "sleep")
    /\ UNCHANGED <<lock, mail>>

\* on_close: an already closed dispatcher calls the handler at once; otherwise
\* the handler is pushed, in a second step.
CheckClosed(c) ==
    /\ At(c, "hook")
    /\ IF Client(c).closed
         THEN /\ ses' = [ses EXCEPT ![cal[c].ses].cclosed = TRUE]
              /\ Goto(c, "ask")
         ELSE /\ Goto(c, "push")
              /\ UNCHANGED ses
    /\ UNCHANGED <<current, lock, mail>>

PushCloseHandler(c) ==
    /\ At(c, "push")
    /\ ses' = [ses EXCEPT ![cal[c].ses].hook = TRUE]
    /\ Goto(c, "ask")
    /\ UNCHANGED <<current, lock, mail>>

------------------------------------------------------------------------------
(* JsonRpcClient::request_with_timeout, for the handshake and for requests.     *)

\* Faulty variants: the child of a failed handshake is left running; the backoff
\* is slept with the lock held.
HandshakeKeepsChild(c) ==
    /\ lock' = NoLock
    /\ Leave(c, "sleep")
    /\ UNCHANGED <<ses, current, mail>>

SleepsUnderLock(c) ==
    /\ ses' = Close(ses, cal[c].ses)
    /\ Leave(c, "sleep")
    /\ UNCHANGED <<current, lock, mail>>

\* The handshake failed: the client is closed and the lock dropped before the
\* backoff.
HandshakeFailed(c) ==
    /\ ses' = Close(ses, cal[c].ses)
    /\ lock' = NoLock
    /\ Leave(c, "sleep")
    /\ UNCHANGED <<current, mail>>

\* What a failed request does next: both kinds give up the session they used.
Failed(c) ==
    \/ cal[c].what = "initialize" /\ HandshakeFailed(c)
    \/ /\ cal[c].what = "request"
       /\ Leave(c, "invalidate")
       /\ UNCHANGED <<ses, current, lock, mail>>

AskClosed(c) == At(c, "ask") /\ Client(c).cclosed /\ Failed(c)

AskOpen(c) ==
    /\ At(c, "ask")
    /\ ~Client(c).cclosed
    /\ Goto(c, "send")
    /\ UNCHANGED <<ses, current, lock, mail>>

\* Faulty variant: ids taken from the number of slots in use come back
\* while an old answer is still on its way.
FreshIdFromPending(s) == Cardinality(ses[s].pending) + 1

\* next_id.fetch_add(1)
FreshId(s) == ses[s].next

\* The slot is inserted and the line queued for the writer.  The flag read in
\* AskOpen may be out of date by now.
SendRequest(c) ==
    LET s == cal[c].ses
        slot == [id |-> FreshId(s), tag |-> Tag(c)] IN
    /\ At(c, "send")
    /\ ses[s].writer
    /\ ses' = [ses EXCEPT ![s].next = @ + 1,
                          ![s].pending = {p \in @ : p.id # slot.id} \cup {slot},
                          ![s].wire = @ \cup {slot}]
    /\ cal' = [cal EXCEPT ![c].pc = "wait", ![c].id = slot.id]
    /\ UNCHANGED <<current, lock, mail>>

\* The writer is gone: the slot is inserted and taken again.
SendFails(c) ==
    /\ At(c, "send")
    /\ ~Client(c).writer
    /\ Failed(c)

\* The receiver yields an outcome.  An initialize is followed by the
\* `initialized` notification, which fails on a closed client or dead writer.
Outcome(c, ok) ==
    /\ At(c, "wait")
    /\ \E m \in mail[c] : m.ok = ok

ConnectSucceeds(c) ==
    /\ Outcome(c, TRUE)
    /\ cal[c].what = "initialize"
    /\ ~Client(c).cclosed /\ Client(c).writer
    /\ current' = cal[c].ses
    /\ lock' = NoLock
    /\ cal' = [cal EXCEPT ![c].pc = "ask", ![c].what = "request"]
    /\ mail' = [mail EXCEPT ![c] = {}]
    /\ UNCHANGED ses

InitializedNotSent(c) ==
    /\ Outcome(c, TRUE)
    /\ cal[c].what = "initialize"
    /\ Client(c).cclosed \/ ~Client(c).writer
    /\ ses' = Close(ses, cal[c].ses)
    /\ lock' = NoLock
    /\ Leave(c, "sleep")
    /\ mail' = [mail EXCEPT ![c] = {}]
    /\ UNCHANGED current

RequestSucceeds(c) ==
    /\ Outcome(c, TRUE)
    /\ cal[c].what = "request"
    /\ Return(c)
    /\ mail' = [mail EXCEPT ![c] = {}]
    /\ UNCHANGED <<ses, current, lock>>

\* Faulty variant: without the timeout a request waits for the outcome alone.
FailsOnOutcomeOnly(c) ==
    /\ Outcome(c, FALSE)
    /\ cal[c].what = "request"
    /\ Leave(c, "invalidate")
    /\ mail' = [mail EXCEPT ![c] = {}]
    /\ UNCHANGED <<ses, current, lock>>

\* The error of an answer, of the close, or of the request's own timeout, which
\* takes the slot so that a late answer finds nobody.
RequestFails(c) ==
    LET s == cal[c].ses
        left == {p \in ses[s].pending : p.id # cal[c].id}
        init == cal[c].what = "initialize" IN
    /\ At(c, "wait")
    /\ \A m \in mail[c] : ~m.ok
    /\ ses' = [Close(ses, IF init THEN s ELSE 0) EXCEPT ![s].pending = left]
    /\ lock' = IF init THEN NoLock ELSE lock
    /\ Leave(c, IF init THEN "sleep" ELSE "invalidate")
    /\ mail' = [mail EXCEPT ![c] = {}]
    /\ UNCHANGED current

------------------------------------------------------------------------------
(* CodexAppServerSupervisor::request, invalidate, shutdown and cancellation.    *)

LastTry(c) == cal[c].try = MaxAttempts

\* The session current now is closed, whichever that is; a retry waits first.
Invalidate(c) ==
    /\ At(c, "invalidate")
    /\ lock = NoLock
    /\ ses' = Close(ses, current)
    /\ current' = 0
    /\ IF LastTry(c) THEN Return(c) ELSE Leave(c, "sleep")
    /\ UNCHANGED <<lock, mail>>

\* The backoff is over: next attempt, or the error is returned.
Wake(c) ==
    /\ At(c, "sleep")
    /\ IF LastTry(c)
         THEN Return(c)
         ELSE cal' = [cal EXCEPT ![c].pc = "connect", ![c].try = @ + 1]
    /\ UNCHANGED <<ses, current, lock, mail>>

\* The supervisor's owner replaces it (the collector slot of another path).
Shutdown ==
    /\ lock = NoLock
    /\ current # 0
    /\ ses' = Close(ses, current)
    /\ current' = 0
    /\ UNCHANGED <<lock, cal, mail>>

\* The caller's future is dropped at an await: a lock it holds is released, a
\* slot it left stays until it is answered or drained, nothing is closed, not
\* even the session it was shaking hands with.
Cancel(c) ==
    /\ cal[c].pc \in {"connect", "wait", "invalidate", "sleep"}
    /\ Return(c)
    /\ IF lock = c THEN /\ lock' = NoLock
                       /\ ses' = [ses EXCEPT ![cal[c].ses].lost = TRUE]
                   ELSE UNCHANGED <<lock, ses>>
    /\ mail' = [mail EXCEPT ![c] = {}]
    /\ UNCHANGED current

------------------------------------------------------------------------------
AskForSession(c) == ReuseSession(c) \/ StartSession(c) \/ FactoryFails(c)

CallerStep(c) ==
    \/ CheckClosed(c) \/ PushCloseHandler(c)
    \/ AskClosed(c) \/ AskOpen(c) \/ SendRequest(c) \/ SendFails(c)
    \/ ConnectSucceeds(c) \/ InitializedNotSent(c)
    \/ RequestSucceeds(c) \/ RequestFails(c)
    \/ Wake(c)

SessionStep(s) ==
    \/ ChildExits(s) \/ WaiterKills(s) \/ WaiterReports(s) \/ ReaderRejects(s) \/ WriterStops(s)
    \/ HandleMessage(s) \/ DrainPending(s)

Next == \/ \E c \in Callers : \/ Call(c) \/ Cancel(c)
                              \/ AskForSession(c) \/ Invalidate(c) \/ CallerStep(c)
        \/ \E s \in Sessions : SessionStep(s)
        \/ Shutdown

\* The runtime polls every ready task, a sleep and a timeout elapse, and tokio's
\* mutex hands the lock over in order.  Nothing is assumed of the child.
Fairness == \A c \in Callers : /\ WF_vars(CallerStep(c))
                               /\ SF_vars(AskForSession(c))
                               /\ SF_vars(Invalidate(c))

Spec == Init /\ [][Next]_vars /\ Fairness

------------------------------------------------------------------------------
(* Properties.                                                                  *)

Slot(s) == [id : 1..ses[s].next, tag : Tags]

\* Type invariant: a session's slots and lines carry ids it has handed out, and
\* the lock is held only by a caller in the middle of a handshake.
TypeOK ==
    /\ current \in Sessions \cup {0}
    /\ lock \in Callers \cup {NoLock}
    /\ \A s \in Sessions :
         /\ ses[s].proc \in {"none", "run", "dead"} /\ ses[s].lost \in BOOLEAN
         /\ ses[s].next \in Nat
         /\ ses[s].pending \subseteq Slot(s)
         /\ ses[s].wire \subseteq Slot(s)
    /\ \A c \in Callers :
         /\ mail[c] \subseteq [tag : Tags, ok : BOOLEAN]
         /\ (lock = c) <=> (cal[c].what = "initialize"
                              /\ cal[c].pc \in {"hook", "push", "ask", "send", "wait"})

\* An outcome a caller receives is the one of the request it waits for, although
\* requests of several callers, timed-out and abandoned ones among them, share a
\* session and the child answers late, twice and in any order.
AnswersMatch == \A c \in Callers : \A m \in mail[c] : m.tag = Tag(c)

\* A child that runs and that nobody has told to stop is the published session,
\* the one the holder of the lock is shaking hands with, or one whose caller was
\* dropped in the middle of its handshake; that last kind is the only exception
\* to the supervisor "owns the lifetime of at most one Codex app-server session".
OneSession ==
    \A s \in Sessions : ses[s].proc = "run" /\ ~ses[s].kill =>
        \/ s = current
        \/ lock # NoLock /\ s = cal[lock].ses
        \/ ses[s].lost

\* A request always comes back, with a result or an error: whatever the child
\* does (silence, death, garbage), whichever close handler or slot is lost to a
\* race, and however callers contend for the lock.
EveryCallReturns == \A c \in Callers : cal[c].pc # "idle" ~> cal[c].pc = "idle"
================================================================================
