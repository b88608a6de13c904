-------------------------- MODULE CodexSessionProofs ---------------------------
(******************************************************************************)
(* What TLAPS proves of CodexSession for any callers, sessions and bounds.    *)
(*                                                                            *)
(* Answers: an id is handed out once per session, so a line and a slot with   *)
(* the same id are about the same request, whatever was timed out, abandoned  *)
(* or drained in between, and a caller is only listening while it waits.      *)
(*                                                                            *)
(* Sessions: the lock is held for the whole handshake, over an empty state,   *)
(* and everything that ends a handshake publishes its child or stops it, but  *)
(* for the caller being dropped half-way, which loses the child: at most that *)
(* is left over.                                                              *)
(******************************************************************************)
EXTENDS CodexSession, TLAPS

Handshake == {"hook", "push", "ask", "send", "wait"}
Stages == Handshake \cup {"idle", "connect", "invalidate", "sleep"}

Slots == [id : Nat \ {0}, tag : Tags]
SessionStates ==
    [proc : {"none", "run", "dead"}, kill : BOOLEAN, lost : BOOLEAN, writer : BOOLEAN,
     closed : BOOLEAN, hook : BOOLEAN, cclosed : BOOLEAN, drained : BOOLEAN,
     next : Nat \ {0}, pending : SUBSET Slots, wire : SUBSET Slots]
CallStates ==
    [pc : Stages, what : Whats, try : 1..MaxAttempts, call : 0..MaxCalls,
     ses : Sessions \cup {0}, id : Nat]

SesTypes == ses \in [Sessions -> SessionStates]
CalTypes == cal \in [Callers -> CallStates]
SlotTypes == /\ current \in Sessions \cup {0}
             /\ lock \in Callers \cup {NoLock}
MailTypes == mail \in [Callers -> SUBSET [tag : Tags, ok : BOOLEAN]]

\* A caller in a handshake or a request has a session.
WorksOnSession == \A c \in Callers : cal[c].pc \in Handshake => cal[c].ses # 0

\* Outside a session a caller is not in a handshake.
RequestsOutside ==
    \A c \in Callers : cal[c].pc \notin Handshake => cal[c].what = "request"

\* The lock is held for as long as a handshake lasts, ...
LockIsHandshake ==
    \A c \in Callers :
        (lock = c) <=> (cal[c].what = "initialize" /\ cal[c].pc \in Handshake)

\* ... with no session published.
HandshakeOverNothing == lock # NoLock => current = 0

\* What is outstanding on a session: the slots of its client and the lines its
\* child was sent.
Outstanding(s) == ses[s].pending \cup ses[s].wire

\* An id handed out names one request.
IdsNameRequests ==
    \A s \in Sessions : \A p, q \in Outstanding(s) :
        p.id < ses[s].next /\ (p.id = q.id => p = q)

MailOnlyForWaiting == \A c \in Callers : mail[c] # {} => At(c, "wait")

Inv ==
    /\ SesTypes /\ CalTypes /\ SlotTypes /\ MailTypes
    /\ WorksOnSession /\ RequestsOutside
    /\ LockIsHandshake /\ HandshakeOverNothing
    /\ IdsNameRequests /\ MailOnlyForWaiting
    /\ AnswersMatch

------------------------------------------------------------------------------
\* What a step can do to the sessions.

(* 0 stands for no session.                                                     *)
LEMMA ZeroIsNoSession == 0 \notin Sessions
  BY SessionAssumption

\* close() sets one flag of one session.
LEMMA CloseKeeps ==
  ASSUME SesTypes, NEW s \in Sessions \cup {0}
  PROVE  /\ Close(ses, s) \in [Sessions -> SessionStates]
         /\ \A r \in Sessions :
              Close(ses, s)[r] = IF r = s THEN [ses[r] EXCEPT !.kill = TRUE] ELSE ses[r]
<1>1. \A r \in Sessions : [ses[r] EXCEPT !.kill = TRUE] \in SessionStates
  BY DEF SesTypes, SessionStates
<1> QED
  BY <1>1, ZeroIsNoSession DEF SesTypes, Close

\* An id names one request for as long as slots and lines only leave.
LEMMA SlotsOnlyLeave ==
  ASSUME IdsNameRequests,
         \A s \in Sessions : /\ ses'[s].next = ses[s].next
                             /\ ses'[s].pending \subseteq ses[s].pending
                             /\ ses'[s].wire \subseteq ses[s].wire
  PROVE  IdsNameRequests'
<1>1. \A s \in Sessions : Outstanding(s)' \subseteq Outstanding(s)
  BY DEF Outstanding
<1> QED
  BY <1>1 DEF IdsNameRequests

(* A caller in a handshake or a request works on a session that exists.         *)
LEMMA WorkingSession ==
  ASSUME CalTypes, WorksOnSession, NEW c \in Callers, cal[c].pc \in Handshake
  PROVE  cal[c].ses \in Sessions /\ ses[cal[c].ses] = Client(c)
  BY DEF CalTypes, CallStates, WorksOnSession, Client

(* What a caller asks is one of the tags.                                       *)
LEMMA TagIsTag == ASSUME CalTypes, NEW c \in Callers PROVE Tag(c) \in Tags
  BY DEF CalTypes, CallStates, Tag, Tags

(* At least one attempt is allowed.                                             *)
LEMMA FirstTry == 1 \in 1..MaxAttempts
  BY SessionAssumption

\* One session, or one caller, moves to another state.
LEMMA SessionMoves ==
  ASSUME SesTypes, NEW s \in Sessions, NEW f \in SessionStates,
         ses' = [ses EXCEPT ![s] = f]
  PROVE  SesTypes'
  BY DEF SesTypes

(* The end of the dispatcher closes a session and leaves it a session.          *)
LEMMA DispatcherClosedMoves ==
  ASSUME SesTypes, NEW s \in Sessions, DispatcherClosed(s)
  PROVE  SesTypes'
<1> DEFINE f == [ses[s] EXCEPT !.closed = TRUE, !.cclosed = ses[s].cclosed \/ ses[s].hook]
<1>1. ses[s] \in SessionStates /\ (ses[s].cclosed \/ ses[s].hook) \in BOOLEAN
  BY DEF SesTypes
<1>2. \A b \in BOOLEAN : [ses[s] EXCEPT !.closed = TRUE, !.cclosed = b] \in SessionStates
  BY <1>1 DEF SessionStates
<1>3. f \in SessionStates
  BY <1>1, <1>2
<1>4. ses' = [ses EXCEPT ![s] = f]
  BY DEF DispatcherClosed
<1> QED
  BY <1>3, <1>4, SessionMoves

(* A step of one caller leaves the others as they are.                          *)
LEMMA CallMoves ==
  ASSUME CalTypes, NEW c \in Callers, NEW r \in CallStates,
         cal' = [cal EXCEPT ![c] = r]
  PROVE  CalTypes'
  BY DEF CalTypes

(* A caller that lets go of its session is still a caller.                      *)
LEMMA LeavingKeepsTypes ==
  ASSUME CalTypes, NEW c \in Callers
  PROVE  /\ \A pc \in Stages : Leave(c, pc) => CalTypes'
         /\ Return(c) => CalTypes'
<1>1. cal[c] \in CallStates /\ 0 \in Nat /\ "request" \in Whats
  BY DEF CalTypes, Whats
<1>2. ASSUME NEW pc \in Stages, Leave(c, pc) PROVE CalTypes'
  <2> DEFINE r == [cal[c] EXCEPT !.pc = pc, !.what = "request", !.ses = 0, !.id = 0]
  <2>1. r \in CallStates
    BY <1>1 DEF CallStates
  <2>2. cal' = [cal EXCEPT ![c] = r]
    BY <1>2 DEF Leave, CalTypes
  <2> HIDE DEF r
  <2> QED
    BY <2>1, <2>2, CallMoves
<1>3. ASSUME Return(c) PROVE CalTypes'
  <2>1. "idle" \in Stages
    BY DEF Stages
  <2> DEFINE r == [cal[c] EXCEPT !.pc = "idle", !.what = "request", !.ses = 0, !.id = 0, !.try = 1]
  <2>2. r \in CallStates
    BY <1>1, <2>1, FirstTry DEF CallStates
  <2>3. cal' = [cal EXCEPT ![c] = r]
    BY <1>3 DEF Return, CalTypes
  <2> HIDE DEF r
  <2> QED
    BY <2>2, <2>3, CallMoves
<1> QED
  BY <1>2, <1>3

(* Telling a child to stop leaves its slots and lines alone.                    *)
LEMMA KillKeepsSlots ==
  ASSUME NEW f \in SessionStates
  PROVE  /\ [f EXCEPT !.kill = TRUE].next = f.next
         /\ [f EXCEPT !.kill = TRUE].pending = f.pending
         /\ [f EXCEPT !.kill = TRUE].wire = f.wire
  BY DEF SessionStates

(* close() leaves every id the name of the request it was handed out for.       *)
LEMMA CloseKeepsIds ==
  ASSUME SesTypes, IdsNameRequests, NEW s \in Sessions \cup {0}, ses' = Close(ses, s)
  PROVE  IdsNameRequests'
<1>1. \A r \in Sessions : /\ ses'[r].next = ses[r].next
                          /\ ses'[r].pending = ses[r].pending
                          /\ ses'[r].wire = ses[r].wire
  <2>1. \A r \in Sessions :
          ses[r] \in SessionStates /\ (ses'[r] = ses[r] \/ ses'[r] = [ses[r] EXCEPT !.kill = TRUE])
    BY CloseKeeps DEF SesTypes
  <2> QED
    BY <2>1, KillKeepsSlots
<1> QED
  BY <1>1, SlotsOnlyLeave

\* The inductive invariant.

(* Before the first call there is no session and nothing under way.             *)
LEMMA InvInit == Init => Inv
<1> SUFFICES ASSUME Init PROVE Inv
  OBVIOUS
<1>1. NewSession \in SessionStates
  BY DEF NewSession, SessionStates
<1>2. SesTypes
  BY <1>1 DEF Init, SesTypes
<1>3. CalTypes
  BY FirstTry, SessionAssumption DEF Init, CalTypes, CallStates, Stages, Whats
<1>4. SlotTypes /\ MailTypes /\ WorksOnSession /\ RequestsOutside
  BY DEF Init, SlotTypes, MailTypes, WorksOnSession, RequestsOutside, Handshake
<1>5. LockIsHandshake /\ HandshakeOverNothing
  BY SessionAssumption DEF Init, LockIsHandshake, HandshakeOverNothing, Handshake
<1>6. IdsNameRequests
  BY DEF Init, NewSession, IdsNameRequests, Outstanding
<1>7. MailOnlyForWaiting /\ AnswersMatch
  BY DEF Init, MailOnlyForWaiting, AnswersMatch
<1> QED
  BY <1>2, <1>3, <1>4, <1>5, <1>6, <1>7 DEF Inv

(* Every step of a caller, a child and its tasks keeps the invariant.           *)
LEMMA InvStep == Inv /\ [Next]_vars => Inv'
<1> SUFFICES ASSUME Inv, [Next]_vars PROVE Inv'
  OBVIOUS
<1> USE DEF Inv
<1>1. ASSUME NEW s \in Sessions, Dies(s) PROVE Inv'
  <2>1. SesTypes'
    BY <1>1 DEF Dies, At, SesTypes, SessionStates
  <2>2. IdsNameRequests'
    BY <1>1, SlotsOnlyLeave DEF Dies, At, SesTypes, SessionStates
  <2>3. /\ CalTypes' /\ SlotTypes' /\ MailTypes' /\ WorksOnSession'
        /\ RequestsOutside' /\ LockIsHandshake' /\ HandshakeOverNothing'
        /\ MailOnlyForWaiting' /\ AnswersMatch'
    BY <1>1
      DEF Dies, CalTypes, SlotTypes, MailTypes, WorksOnSession, RequestsOutside,
          LockIsHandshake, HandshakeOverNothing, MailOnlyForWaiting,
          AnswersMatch, At, Tag
  <2> QED
    BY <2>1, <2>2, <2>3 DEF Inv
<1>2. ASSUME NEW s \in Sessions, WaiterReports(s) PROVE Inv'
  <2>1. SesTypes'
    BY <1>2, DispatcherClosedMoves DEF WaiterReports
  <2>2. IdsNameRequests'
    BY <1>2, SlotsOnlyLeave
      DEF WaiterReports, DispatcherClosed, At, SesTypes, SessionStates
  <2>3. /\ CalTypes' /\ SlotTypes' /\ MailTypes' /\ WorksOnSession'
        /\ RequestsOutside' /\ LockIsHandshake' /\ HandshakeOverNothing'
        /\ MailOnlyForWaiting' /\ AnswersMatch'
    BY <1>2
      DEF WaiterReports, DispatcherClosed, CalTypes, SlotTypes, MailTypes,
          WorksOnSession, RequestsOutside, LockIsHandshake,
          HandshakeOverNothing, MailOnlyForWaiting, AnswersMatch, At, Tag
  <2> QED
    BY <2>1, <2>2, <2>3 DEF Inv
<1>3. ASSUME NEW s \in Sessions, ReaderRejects(s) PROVE Inv'
  <2>1. SesTypes'
    BY <1>3, DispatcherClosedMoves DEF ReaderRejects
  <2>2. IdsNameRequests'
    BY <1>3, SlotsOnlyLeave
      DEF ReaderRejects, DispatcherClosed, At, SesTypes, SessionStates
  <2>3. /\ CalTypes' /\ SlotTypes' /\ MailTypes' /\ WorksOnSession'
        /\ RequestsOutside' /\ LockIsHandshake' /\ HandshakeOverNothing'
        /\ MailOnlyForWaiting' /\ AnswersMatch'
    BY <1>3
      DEF ReaderRejects, DispatcherClosed, CalTypes, SlotTypes, MailTypes,
          WorksOnSession, RequestsOutside, LockIsHandshake,
          HandshakeOverNothing, MailOnlyForWaiting, AnswersMatch, At, Tag
  <2> QED
    BY <2>1, <2>2, <2>3 DEF Inv
<1>4. ASSUME NEW s \in Sessions, WriterStops(s) PROVE Inv'
  <2>1. SesTypes'
    <3> DEFINE f == [ses[s] EXCEPT !.writer = FALSE]
    <3>1. f \in SessionStates
      BY DEF SesTypes, SessionStates
    <3>2. ses' = [ses EXCEPT ![s] = f]
      BY <1>4 DEF WriterStops
    <3> HIDE DEF f
    <3> QED
      BY <3>1, <3>2, SessionMoves
  <2>2. IdsNameRequests'
    BY <1>4, SlotsOnlyLeave DEF WriterStops, At, SesTypes, SessionStates
  <2>3. /\ CalTypes' /\ SlotTypes' /\ MailTypes' /\ WorksOnSession'
        /\ RequestsOutside' /\ LockIsHandshake' /\ HandshakeOverNothing'
        /\ MailOnlyForWaiting' /\ AnswersMatch'
    BY <1>4
      DEF WriterStops, CalTypes, SlotTypes, MailTypes, WorksOnSession,
          RequestsOutside, LockIsHandshake, HandshakeOverNothing,
          MailOnlyForWaiting, AnswersMatch, At, Tag
  <2> QED
    BY <2>1, <2>2, <2>3 DEF Inv
<1>5. ASSUME NEW s \in Sessions, HandleMessage(s) PROVE Inv'
  <2>1. SesTypes'
    <3>1. PICK P \in SUBSET ses[s].pending : ses' = [ses EXCEPT ![s].pending = P]
      BY <1>5 DEF HandleMessage
    <3> DEFINE f == [ses[s] EXCEPT !.pending = P]
    <3>2. f \in SessionStates
      BY DEF SesTypes, SessionStates
    <3>3. ses' = [ses EXCEPT ![s] = f]
      BY <3>1
    <3> HIDE DEF f
    <3> QED
      BY <3>2, <3>3, SessionMoves
  <2>2. MailTypes'
    BY <1>5
      DEF HandleMessage, Send, Waits, MailTypes, SesTypes, SessionStates, Slots
  <2>3. IdsNameRequests'
    BY <1>5, SlotsOnlyLeave
      DEF HandleMessage, Send, Waits, At, SesTypes, SessionStates
  <2>4. MailOnlyForWaiting'
    BY <1>5
      DEF HandleMessage, Send, Waits, At, MailOnlyForWaiting, CalTypes,
          CallStates
  <2>5. AnswersMatch'
    <3>1. PICK m \in ses[s].wire, ok \in BOOLEAN :
            mail' = [c \in Callers |->
                       mail[c] \cup {[tag |-> m.tag, ok |-> ok] :
                                       p \in {q \in {r \in ses[s].pending : r.id = m.id} :
                                                Waits(c, q.tag)}}]
      BY <1>5 DEF HandleMessage, Send
    <3>2. \A p \in ses[s].pending : p.id = m.id => p = m
      BY DEF IdsNameRequests, Outstanding
    <3> SUFFICES ASSUME NEW c \in Callers, NEW a \in mail'[c]
                 PROVE  a.tag = Tag(c)
      BY <1>5 DEF AnswersMatch, Tag, HandleMessage
    <3>3. CASE a \in mail[c]
      BY <3>3 DEF AnswersMatch
    <3>4. CASE a \notin mail[c]
      <4>1. a = [tag |-> m.tag, ok |-> ok] /\ Waits(c, m.tag)
        BY <3>1, <3>2, <3>4
      <4> QED
        BY <4>1 DEF Waits
    <3> QED
      BY <3>3, <3>4
  <2>6. /\ CalTypes' /\ SlotTypes' /\ WorksOnSession' /\ RequestsOutside'
        /\ LockIsHandshake' /\ HandshakeOverNothing'
    BY <1>5
      DEF HandleMessage, Send, Waits, CalTypes, SlotTypes, WorksOnSession,
          RequestsOutside, LockIsHandshake, HandshakeOverNothing
  <2> QED
    BY <2>1, <2>2, <2>3, <2>4, <2>5, <2>6 DEF Inv
<1>6. ASSUME NEW s \in Sessions, DrainPending(s) PROVE Inv'
  <2>1. SesTypes'
    <3> DEFINE f == [ses[s] EXCEPT !.drained = TRUE, !.pending = {}]
    <3>1. f \in SessionStates
      BY DEF SesTypes, SessionStates
    <3>2. ses' = [ses EXCEPT ![s] = f]
      BY <1>6 DEF DrainPending
    <3> HIDE DEF f
    <3> QED
      BY <3>1, <3>2, SessionMoves
  <2>2. MailTypes'
    BY <1>6
      DEF DrainPending, Send, Waits, MailTypes, SesTypes, SessionStates, Slots
  <2>3. IdsNameRequests'
    BY <1>6, SlotsOnlyLeave
      DEF DrainPending, Send, Waits, At, SesTypes, SessionStates
  <2>4. MailOnlyForWaiting'
    BY <1>6
      DEF DrainPending, Send, Waits, At, MailOnlyForWaiting, CalTypes,
          CallStates
  <2>5. AnswersMatch'
    BY <1>6
      DEF DrainPending, Send, Waits, At, Tag, AnswersMatch, MailOnlyForWaiting,
          CalTypes, CallStates
  <2>6. /\ CalTypes' /\ SlotTypes' /\ WorksOnSession' /\ RequestsOutside'
        /\ LockIsHandshake' /\ HandshakeOverNothing'
    BY <1>6
      DEF DrainPending, Send, Waits, CalTypes, SlotTypes, WorksOnSession,
          RequestsOutside, LockIsHandshake, HandshakeOverNothing
  <2> QED
    BY <2>1, <2>2, <2>3, <2>4, <2>5, <2>6 DEF Inv
<1>7. ASSUME NEW c \in Callers, Call(c) PROVE Inv'
  <2>1. CalTypes'
    BY <1>7 DEF Call, CalTypes, CallStates, Stages, Handshake, Whats
  <2>2. WorksOnSession'
    BY <1>7 DEF Call, At, WorksOnSession, Handshake, CalTypes, CallStates
  <2>3. RequestsOutside'
    BY <1>7 DEF Call, At, RequestsOutside, Handshake, CalTypes, CallStates
  <2>4. LockIsHandshake'
    BY <1>7 DEF Call, At, LockIsHandshake, Handshake, CalTypes, CallStates
  <2>5. MailOnlyForWaiting'
    BY <1>7 DEF Call, At, MailOnlyForWaiting, CalTypes, CallStates
  <2>6. AnswersMatch'
    BY <1>7
      DEF Call, At, Tag, AnswersMatch, MailOnlyForWaiting, CalTypes, CallStates
  <2>7. /\ SesTypes' /\ SlotTypes' /\ MailTypes' /\ HandshakeOverNothing'
        /\ IdsNameRequests'
    BY <1>7
      DEF Call, SesTypes, SlotTypes, MailTypes, HandshakeOverNothing,
          IdsNameRequests, Outstanding
  <2> QED
    BY <2>1, <2>2, <2>3, <2>4, <2>5, <2>6, <2>7 DEF Inv
<1>8. ASSUME NEW c \in Callers, ReuseSession(c) PROVE Inv'
  <2>1. CalTypes'
    <3>1. current \in Sessions \cup {0} /\ "ask" \in Stages /\ cal[c] \in CallStates
      BY DEF SlotTypes, Stages, Handshake, CalTypes
    <3>2. [cal[c] EXCEPT !.pc = "ask", !.ses = current] \in CallStates
      BY <3>1 DEF CallStates
    <3> QED
      BY <1>8, <3>2, CallMoves DEF ReuseSession
  <2>2. WorksOnSession'
    BY <1>8
      DEF ReuseSession, Usable, At, WorksOnSession, Handshake, CalTypes,
          CallStates
  <2>3. RequestsOutside'
    BY <1>8
      DEF ReuseSession, Usable, At, RequestsOutside, Handshake, CalTypes,
          CallStates
  <2>4. LockIsHandshake'
    BY <1>8
      DEF ReuseSession, Usable, At, LockIsHandshake, Handshake, RequestsOutside,
          SlotTypes, CalTypes, CallStates
  <2>5. MailOnlyForWaiting'
    BY <1>8
      DEF ReuseSession, Usable, At, MailOnlyForWaiting, CalTypes, CallStates
  <2>6. AnswersMatch'
    BY <1>8
      DEF ReuseSession, Usable, At, Tag, AnswersMatch, MailOnlyForWaiting,
          CalTypes, CallStates
  <2>7. /\ SesTypes' /\ SlotTypes' /\ MailTypes' /\ HandshakeOverNothing'
        /\ IdsNameRequests'
    BY <1>8
      DEF ReuseSession, Usable, SesTypes, SlotTypes, MailTypes,
          HandshakeOverNothing, IdsNameRequests, Outstanding
  <2> QED
    BY <2>1, <2>2, <2>3, <2>4, <2>5, <2>6, <2>7 DEF Inv
<1>9. ASSUME NEW c \in Callers, StartSession(c) PROVE Inv'
  <2>1. SesTypes'
    <3>1. PICK s \in Sessions : ses' = [Close(ses, current) EXCEPT ![s].proc = "run"]
      BY <1>9 DEF StartSession
    <3>2. Close(ses, current) \in [Sessions -> SessionStates]
      BY CloseKeeps DEF SlotTypes
    <3>3. \A f \in SessionStates : [f EXCEPT !.proc = "run"] \in SessionStates
      BY DEF SessionStates
    <3> QED
      BY <3>1, <3>2, <3>3 DEF SesTypes
  <2>2. CalTypes'
    <3>1. PICK s \in Sessions :
            cal' = [cal EXCEPT ![c].pc = "hook", ![c].what = "initialize", ![c].ses = s]
      BY <1>9 DEF StartSession
    <3>2. "hook" \in Stages /\ "initialize" \in Whats /\ cal[c] \in CallStates
      BY DEF Stages, Handshake, Whats, CalTypes
    <3> DEFINE r == [cal[c] EXCEPT !.pc = "hook", !.what = "initialize", !.ses = s]
    <3>3. r \in CallStates
      BY <3>2 DEF CallStates
    <3>4. cal' = [cal EXCEPT ![c] = r]
      BY <3>1 DEF CalTypes
    <3> HIDE DEF r
    <3> QED
      BY <3>3, <3>4, CallMoves
  <2>3. SlotTypes'
    BY <1>9 DEF StartSession, At, SlotTypes
  <2>4. WorksOnSession'
    BY <1>9, ZeroIsNoSession
      DEF StartSession, At, WorksOnSession, Handshake, Stages, SlotTypes,
          CalTypes, CallStates
  <2>5. RequestsOutside'
    BY <1>9
      DEF StartSession, At, RequestsOutside, Handshake, CalTypes, CallStates
  <2>6. LockIsHandshake'
    BY <1>9
      DEF StartSession, At, LockIsHandshake, Handshake, RequestsOutside,
          SlotTypes, CalTypes, CallStates
  <2>7. HandshakeOverNothing'
    BY <1>9 DEF StartSession, At, HandshakeOverNothing
  <2>8. IdsNameRequests'
    <3>1. PICK s \in Sessions : ses' = [Close(ses, current) EXCEPT ![s].proc = "run"]
      BY <1>9 DEF StartSession
    <3> DEFINE closed == Close(ses, current)
    <3>2. /\ closed \in [Sessions -> SessionStates]
          /\ \A r \in Sessions : closed[r] = ses[r] \/ closed[r] = [ses[r] EXCEPT !.kill = TRUE]
      BY CloseKeeps DEF SlotTypes
    <3>3. \A r \in Sessions : /\ closed[r].next = ses[r].next
                              /\ closed[r].pending = ses[r].pending
                              /\ closed[r].wire = ses[r].wire
      BY <3>2, KillKeepsSlots DEF SesTypes
    <3> HIDE DEF closed
    <3>4. \A r \in Sessions : /\ ses'[r].next = closed[r].next
                              /\ ses'[r].pending = closed[r].pending
                              /\ ses'[r].wire = closed[r].wire
      <4>1. ses' = [closed EXCEPT ![s].proc = "run"]
        BY <3>1 DEF closed
      <4>2. \A f \in SessionStates : LET g == [f EXCEPT !.proc = "run"] IN
              g.next = f.next /\ g.pending = f.pending /\ g.wire = f.wire
        BY DEF SessionStates
      <4>3. \A r \in Sessions : closed[r] \in SessionStates
        BY <3>2
      <4>4. \A r \in Sessions : ses'[r] = IF r = s THEN [closed[r] EXCEPT !.proc = "run"] ELSE closed[r]
        BY <3>2, <4>1
      <4> QED
        BY <4>2, <4>3, <4>4
    <3> QED
      BY <3>3, <3>4, SlotsOnlyLeave
  <2>9. MailOnlyForWaiting'
    BY <1>9 DEF StartSession, At, MailOnlyForWaiting, CalTypes, CallStates
  <2>10. AnswersMatch'
    BY <1>9
      DEF StartSession, At, Tag, AnswersMatch, MailOnlyForWaiting, CalTypes,
          CallStates
  <2>11. MailTypes'
    BY <1>9 DEF StartSession, Close, MailTypes
  <2> QED
    BY <2>1, <2>2, <2>3, <2>4, <2>5, <2>6, <2>7, <2>8, <2>9, <2>10, <2>11
      DEF Inv
<1>10. ASSUME NEW c \in Callers, FactoryFails(c) PROVE Inv'
  <2>1. SesTypes'
    BY <1>10, CloseKeeps DEF FactoryFails, Leave, At, SesTypes, SlotTypes
  <2>2. CalTypes'
    BY <1>10, LeavingKeepsTypes DEF FactoryFails, Stages
  <2>3. SlotTypes'
    BY <1>10 DEF FactoryFails, Leave, At, SlotTypes
  <2>4. WorksOnSession'
    BY <1>10
      DEF FactoryFails, Leave, At, WorksOnSession, Handshake, CalTypes,
          CallStates
  <2>5. RequestsOutside'
    BY <1>10
      DEF FactoryFails, Leave, At, RequestsOutside, Handshake, CalTypes,
          CallStates
  <2>6. LockIsHandshake'
    BY <1>10
      DEF FactoryFails, Leave, At, LockIsHandshake, Handshake, CalTypes,
          CallStates
  <2>7. HandshakeOverNothing'
    BY <1>10 DEF FactoryFails, Leave, At, HandshakeOverNothing
  <2>8. IdsNameRequests'
    BY <1>10, CloseKeepsIds DEF FactoryFails, SlotTypes
  <2>9. MailOnlyForWaiting'
    BY <1>10
      DEF FactoryFails, Leave, At, MailOnlyForWaiting, CalTypes, CallStates
  <2>10. AnswersMatch'
    BY <1>10
      DEF FactoryFails, Leave, At, Tag, AnswersMatch, MailOnlyForWaiting,
          CalTypes, CallStates
  <2>11. MailTypes'
    BY <1>10 DEF FactoryFails, Close, Leave, MailTypes
  <2> QED
    BY <2>1, <2>2, <2>3, <2>4, <2>5, <2>6, <2>7, <2>8, <2>9, <2>10, <2>11
      DEF Inv
<1>11. ASSUME NEW c \in Callers, CheckClosed(c) PROVE Inv'
  <2>1. SesTypes'
    <3>1. CASE ses' = ses
      BY <3>1 DEF SesTypes
    <3>2. CASE ses' # ses
      <4> DEFINE s == cal[c].ses
                 f == [ses[s] EXCEPT !.cclosed = TRUE]
      <4>1. s \in Sessions
        BY <1>11, WorkingSession DEF CheckClosed, At, Handshake
      <4>2. f \in SessionStates
        <5>1. ses[s] \in SessionStates
          BY <4>1 DEF SesTypes
        <5> HIDE DEF s
        <5> QED
          BY <5>1 DEF SessionStates
      <4>3. ses' = [ses EXCEPT ![s] = f]
        BY <1>11, <3>2 DEF CheckClosed
      <4> HIDE DEF s, f
      <4> QED
        BY <4>1, <4>2, <4>3, SessionMoves
    <3> QED
      BY <3>1, <3>2
  <2>2. CalTypes'
    BY <1>11
      DEF CheckClosed, Client, Goto, CalTypes, CallStates, Stages, Handshake,
          Whats
  <2>3. WorksOnSession'
    BY <1>11
      DEF CheckClosed, Client, Goto, At, WorksOnSession, Handshake, CalTypes,
          CallStates
  <2>4. RequestsOutside'
    BY <1>11
      DEF CheckClosed, Client, Goto, At, RequestsOutside, Handshake, CalTypes,
          CallStates
  <2>5. LockIsHandshake'
    BY <1>11
      DEF CheckClosed, Client, Goto, At, LockIsHandshake, Handshake, CalTypes,
          CallStates
  <2>6. IdsNameRequests'
    BY <1>11, SlotsOnlyLeave, WorkingSession
      DEF CheckClosed, Client, Goto, At, Handshake, SesTypes, SessionStates
  <2>7. MailOnlyForWaiting'
    BY <1>11
      DEF CheckClosed, Client, Goto, At, MailOnlyForWaiting, CalTypes,
          CallStates
  <2>8. AnswersMatch'
    BY <1>11
      DEF CheckClosed, Client, Goto, At, Tag, AnswersMatch, MailOnlyForWaiting,
          CalTypes, CallStates
  <2>9. /\ SlotTypes' /\ MailTypes' /\ HandshakeOverNothing'
    BY <1>11
      DEF CheckClosed, Client, Goto, SlotTypes, MailTypes, HandshakeOverNothing
  <2> QED
    BY <2>1, <2>2, <2>3, <2>4, <2>5, <2>6, <2>7, <2>8, <2>9 DEF Inv
<1>12. ASSUME NEW c \in Callers, PushCloseHandler(c) PROVE Inv'
  <2>1. SesTypes'
    <3> DEFINE s == cal[c].ses
               f == [ses[s] EXCEPT !.hook = TRUE]
    <3>1. s \in Sessions
      BY <1>12, WorkingSession DEF PushCloseHandler, At, Handshake
    <3>2. f \in SessionStates
      <4>1. ses[s] \in SessionStates
        BY <3>1 DEF SesTypes
      <4> HIDE DEF s
      <4> QED
        BY <4>1 DEF SessionStates
    <3>3. ses' = [ses EXCEPT ![s] = f]
      BY <1>12 DEF PushCloseHandler
    <3> HIDE DEF s, f
    <3> QED
      BY <3>1, <3>2, <3>3, SessionMoves
  <2>2. CalTypes'
    BY <1>12
      DEF PushCloseHandler, Goto, CalTypes, CallStates, Stages, Handshake, Whats
  <2>3. WorksOnSession'
    BY <1>12
      DEF PushCloseHandler, Goto, At, WorksOnSession, Handshake, CalTypes,
          CallStates
  <2>4. RequestsOutside'
    BY <1>12
      DEF PushCloseHandler, Goto, At, RequestsOutside, Handshake, CalTypes,
          CallStates
  <2>5. LockIsHandshake'
    BY <1>12
      DEF PushCloseHandler, Goto, At, LockIsHandshake, Handshake, CalTypes,
          CallStates
  <2>6. IdsNameRequests'
    BY <1>12, SlotsOnlyLeave, WorkingSession
      DEF PushCloseHandler, Goto, At, Handshake, SesTypes, SessionStates
  <2>7. MailOnlyForWaiting'
    BY <1>12
      DEF PushCloseHandler, Goto, At, MailOnlyForWaiting, CalTypes, CallStates
  <2>8. AnswersMatch'
    BY <1>12
      DEF PushCloseHandler, Goto, At, Tag, AnswersMatch, MailOnlyForWaiting,
          CalTypes, CallStates
  <2>9. /\ SlotTypes' /\ MailTypes' /\ HandshakeOverNothing'
    BY <1>12
      DEF PushCloseHandler, Goto, SlotTypes, MailTypes, HandshakeOverNothing
  <2> QED
    BY <2>1, <2>2, <2>3, <2>4, <2>5, <2>6, <2>7, <2>8, <2>9 DEF Inv
<1>13. ASSUME NEW c \in Callers, AskOpen(c) PROVE Inv'
  <2>1. CalTypes'
    BY <1>13 DEF AskOpen, Goto, CalTypes, CallStates, Stages, Handshake, Whats
  <2>2. WorksOnSession'
    BY <1>13
      DEF AskOpen, Goto, At, WorksOnSession, Handshake, CalTypes, CallStates
  <2>3. RequestsOutside'
    BY <1>13
      DEF AskOpen, Goto, At, RequestsOutside, Handshake, CalTypes, CallStates
  <2>4. LockIsHandshake'
    BY <1>13
      DEF AskOpen, Goto, At, LockIsHandshake, Handshake, CalTypes, CallStates
  <2>5. MailOnlyForWaiting'
    BY <1>13 DEF AskOpen, Goto, At, MailOnlyForWaiting, CalTypes, CallStates
  <2>6. AnswersMatch'
    BY <1>13
      DEF AskOpen, Goto, At, Tag, AnswersMatch, MailOnlyForWaiting, CalTypes,
          CallStates
  <2>7. /\ SesTypes' /\ SlotTypes' /\ MailTypes' /\ HandshakeOverNothing'
        /\ IdsNameRequests'
    BY <1>13
      DEF AskOpen, Goto, SesTypes, SlotTypes, MailTypes, HandshakeOverNothing,
          IdsNameRequests, Outstanding
  <2> QED
    BY <2>1, <2>2, <2>3, <2>4, <2>5, <2>6, <2>7 DEF Inv
<1>14. ASSUME NEW c \in Callers, AskClosed(c) \/ SendFails(c) PROVE Inv'
  <2>1. SesTypes'
    BY <1>14, CloseKeeps, WorkingSession
      DEF AskClosed, SendFails, Failed, HandshakeFailed, Leave, At, Handshake,
          SesTypes, SlotTypes
  <2>2. CalTypes'
    BY <1>14
      DEF AskClosed, SendFails, Failed, HandshakeFailed, Leave, CalTypes,
          CallStates, Stages, Handshake, Whats
  <2>3. SlotTypes'
    BY <1>14
      DEF AskClosed, SendFails, Failed, HandshakeFailed, Leave, At, SlotTypes
  <2>4. WorksOnSession'
    BY <1>14
      DEF AskClosed, SendFails, Failed, HandshakeFailed, Leave, At,
          WorksOnSession, Handshake, CalTypes, CallStates
  <2>5. RequestsOutside'
    BY <1>14
      DEF AskClosed, SendFails, Failed, HandshakeFailed, Leave, At,
          RequestsOutside, Handshake, CalTypes, CallStates
  <2>6. LockIsHandshake'
    BY <1>14
      DEF AskClosed, SendFails, Failed, HandshakeFailed, Leave, At,
          LockIsHandshake, Handshake, CalTypes, CallStates
  <2>7. HandshakeOverNothing'
    BY <1>14
      DEF AskClosed, SendFails, Failed, HandshakeFailed, Leave, At,
          HandshakeOverNothing
  <2>8. IdsNameRequests'
    <3>1. cal[c].ses \in Sessions
      BY <1>14, WorkingSession DEF AskClosed, SendFails, At, Handshake
    <3>2. CASE ses' = ses
      BY <3>2 DEF IdsNameRequests, Outstanding
    <3>3. CASE ses' = Close(ses, cal[c].ses)
      BY <3>1, <3>3, CloseKeepsIds
    <3> QED
      BY <1>14, <3>2, <3>3 DEF AskClosed, SendFails, Failed, HandshakeFailed
  <2>9. MailOnlyForWaiting'
    BY <1>14
      DEF AskClosed, SendFails, Failed, HandshakeFailed, Leave, At,
          MailOnlyForWaiting, CalTypes, CallStates
  <2>10. AnswersMatch'
    BY <1>14
      DEF AskClosed, SendFails, Failed, HandshakeFailed, Leave, At, Tag,
          AnswersMatch, MailOnlyForWaiting, CalTypes, CallStates
  <2>11. MailTypes'
    BY <1>14
      DEF AskClosed, SendFails, Failed, HandshakeFailed, Close, Leave, MailTypes
  <2> QED
    BY <2>1, <2>2, <2>3, <2>4, <2>5, <2>6, <2>7, <2>8, <2>9, <2>10, <2>11
      DEF Inv
<1>15. ASSUME NEW c \in Callers, SendRequest(c) PROVE Inv'
  <2>1. SesTypes'
    <3> DEFINE s == cal[c].ses
               n == ses[s].next
               slot == [id |-> n, tag |-> Tag(c)]
               pending == {p \in ses[s].pending : p.id # n} \cup {slot}
               wire == ses[s].wire \cup {slot}
               f == [ses[s] EXCEPT !.next = n + 1, !.pending = pending, !.wire = wire]
    <3>1. s \in Sessions
      BY <1>15, WorkingSession DEF SendRequest, At, Handshake
    <3>2. ses[s] \in SessionStates /\ slot \in Slots /\ n + 1 \in Nat \ {0}
      BY <3>1, TagIsTag DEF SesTypes, SessionStates, Slots
    <3>3. ses' = [ses EXCEPT ![s] = f]
      BY <1>15 DEF SendRequest, FreshId
    <3> HIDE DEF s, n, slot
    <3>4. f \in SessionStates
      <4>1. pending \in SUBSET Slots /\ wire \in SUBSET Slots
        BY <3>2 DEF SessionStates
      <4> HIDE DEF pending, wire
      <4> QED
        BY <3>2, <4>1 DEF SessionStates
    <3> QED
      BY <3>1, <3>3, <3>4, SessionMoves
  <2>2. CalTypes'
    <3> DEFINE n == ses[cal[c].ses].next
    <3>1. n \in Nat
      BY <1>15, WorkingSession DEF SendRequest, At, Handshake, SesTypes, SessionStates
    <3>2. cal' = [cal EXCEPT ![c].pc = "wait", ![c].id = n]
      BY <1>15 DEF SendRequest, FreshId
    <3>3. "wait" \in Stages /\ cal[c] \in CallStates
      BY DEF Stages, Handshake, CalTypes
    <3> HIDE DEF n
    <3>4. [cal[c] EXCEPT !.pc = "wait", !.id = n] \in CallStates
      BY <3>1, <3>3 DEF CallStates
    <3> QED
      BY <3>2, <3>4, CallMoves
  <2>3. WorksOnSession'
    BY <1>15
      DEF SendRequest, FreshId, At, WorksOnSession, Handshake, CalTypes,
          CallStates
  <2>4. RequestsOutside'
    BY <1>15
      DEF SendRequest, FreshId, At, RequestsOutside, Handshake, CalTypes,
          CallStates
  <2>5. LockIsHandshake'
    BY <1>15
      DEF SendRequest, FreshId, At, LockIsHandshake, Handshake, CalTypes,
          CallStates
  <2>6. IdsNameRequests'
    <3>1. PICK s \in Sessions : s = cal[c].ses
      BY <1>15, WorkingSession DEF SendRequest, At, Handshake
    <3>2. PICK n \in Nat : n = ses[s].next /\ ses[s] \in SessionStates
      BY DEF SesTypes, SessionStates
    <3> DEFINE slot == [id |-> n, tag |-> Tag(c)]
               kept == {p \in ses[s].pending : p.id # n}
    <3>3. ses' = [ses EXCEPT ![s] = [ses[s] EXCEPT !.next = n + 1,
                                                   !.pending = kept \cup {slot},
                                                   !.wire = ses[s].wire \cup {slot}]]
      BY <1>15, <3>1, <3>2 DEF SendRequest, FreshId, SesTypes
    <3>4. kept \subseteq ses[s].pending /\ slot.id = n
      OBVIOUS
    <3> HIDE DEF slot, kept
    <3>5. /\ ses'[s] = [ses[s] EXCEPT !.next = n + 1, !.pending = kept \cup {slot},
                                      !.wire = ses[s].wire \cup {slot}]
          /\ \A r \in Sessions : r # s => ses'[r] = ses[r]
      BY <3>1, <3>3 DEF SesTypes
    <3>6. /\ ses'[s].next = n + 1 /\ ses'[s].pending = kept \cup {slot}
          /\ ses'[s].wire = ses[s].wire \cup {slot}
      BY <3>2, <3>5 DEF SessionStates
    <3>7. Outstanding(s)' \subseteq Outstanding(s) \cup {slot}
      <4>1. ses'[s].pending \cup ses'[s].wire \subseteq ses[s].pending \cup ses[s].wire \cup {slot}
        BY <3>4, <3>6
      <4> QED
        BY <4>1 DEF Outstanding
    <3>8. \A p \in Outstanding(s) : p.id \in Nat /\ p.id < n
      BY <3>1, <3>2 DEF IdsNameRequests, Outstanding, SessionStates, Slots
    <3>9. \A p, q \in Outstanding(s)' : p.id < n + 1 /\ (p.id = q.id => p = q)
      BY <3>1, <3>2, <3>4, <3>7, <3>8 DEF IdsNameRequests
    <3>10. ASSUME NEW r \in Sessions, r # s
           PROVE  \A p, q \in Outstanding(r)' : p.id < ses'[r].next /\ (p.id = q.id => p = q)
      BY <3>5, <3>10 DEF IdsNameRequests, Outstanding
    <3> QED
      BY <3>6, <3>9, <3>10 DEF IdsNameRequests
  <2>7. MailOnlyForWaiting'
    BY <1>15
      DEF SendRequest, FreshId, At, MailOnlyForWaiting, CalTypes, CallStates
  <2>8. AnswersMatch'
    BY <1>15
      DEF SendRequest, FreshId, At, Tag, AnswersMatch, MailOnlyForWaiting,
          CalTypes, CallStates
  <2>9. /\ SlotTypes' /\ MailTypes' /\ HandshakeOverNothing'
    BY <1>15
      DEF SendRequest, FreshId, SlotTypes, MailTypes, HandshakeOverNothing
  <2> QED
    BY <2>1, <2>2, <2>3, <2>4, <2>5, <2>6, <2>7, <2>8, <2>9 DEF Inv
<1>16. ASSUME NEW c \in Callers, ConnectSucceeds(c) PROVE Inv'
  <2>1. CalTypes'
    BY <1>16
      DEF ConnectSucceeds, Outcome, CalTypes, CallStates, Stages, Handshake,
          Whats
  <2>2. SlotTypes'
    BY <1>16, WorkingSession DEF ConnectSucceeds, Outcome, At, Handshake, SlotTypes
  <2>3. MailTypes'
    BY <1>16 DEF ConnectSucceeds, Outcome, MailTypes
  <2>4. WorksOnSession'
    BY <1>16
      DEF ConnectSucceeds, Outcome, At, WorksOnSession, Handshake, CalTypes,
          CallStates
  <2>5. RequestsOutside'
    BY <1>16
      DEF ConnectSucceeds, Outcome, At, RequestsOutside, Handshake, CalTypes,
          CallStates
  <2>6. LockIsHandshake'
    BY <1>16
      DEF ConnectSucceeds, Outcome, At, LockIsHandshake, Handshake, CalTypes,
          CallStates
  <2>7. HandshakeOverNothing'
    BY <1>16 DEF ConnectSucceeds, Outcome, At, HandshakeOverNothing
  <2>8. MailOnlyForWaiting'
    BY <1>16
      DEF ConnectSucceeds, Outcome, At, MailOnlyForWaiting, CalTypes, CallStates
  <2>9. AnswersMatch'
    BY <1>16
      DEF ConnectSucceeds, Outcome, At, Tag, AnswersMatch, MailOnlyForWaiting,
          CalTypes, CallStates
  <2>10. /\ SesTypes' /\ IdsNameRequests'
    BY <1>16
      DEF ConnectSucceeds, Outcome, SesTypes, IdsNameRequests, Outstanding
  <2> QED
    BY <2>1, <2>2, <2>3, <2>4, <2>5, <2>6, <2>7, <2>8, <2>9, <2>10 DEF Inv
<1>17. ASSUME NEW c \in Callers, InitializedNotSent(c) PROVE Inv'
  <2>1. SesTypes'
    BY <1>17, CloseKeeps, WorkingSession
      DEF InitializedNotSent, Outcome, Leave, At, Handshake, SesTypes, SlotTypes
  <2>2. CalTypes'
    BY <1>17
      DEF InitializedNotSent, Outcome, Leave, CalTypes, CallStates, Stages,
          Handshake, Whats
  <2>3. SlotTypes'
    BY <1>17 DEF InitializedNotSent, Outcome, Leave, At, SlotTypes
  <2>4. MailTypes'
    BY <1>17 DEF InitializedNotSent, Outcome, Leave, MailTypes
  <2>5. WorksOnSession'
    BY <1>17
      DEF InitializedNotSent, Outcome, Leave, At, WorksOnSession, Handshake,
          CalTypes, CallStates
  <2>6. RequestsOutside'
    BY <1>17
      DEF InitializedNotSent, Outcome, Leave, At, RequestsOutside, Handshake,
          CalTypes, CallStates
  <2>7. LockIsHandshake'
    BY <1>17
      DEF InitializedNotSent, Outcome, Leave, At, LockIsHandshake, Handshake,
          CalTypes, CallStates
  <2>8. HandshakeOverNothing'
    BY <1>17 DEF InitializedNotSent, Outcome, Leave, At, HandshakeOverNothing
  <2>9. IdsNameRequests'
    BY <1>17, WorkingSession, CloseKeepsIds
      DEF InitializedNotSent, Outcome, At, Handshake
  <2>10. MailOnlyForWaiting'
    BY <1>17
      DEF InitializedNotSent, Outcome, Leave, At, MailOnlyForWaiting, CalTypes,
          CallStates
  <2>11. AnswersMatch'
    BY <1>17
      DEF InitializedNotSent, Outcome, Leave, At, Tag, AnswersMatch,
          MailOnlyForWaiting, CalTypes, CallStates
  <2> QED
    BY <2>1, <2>2, <2>3, <2>4, <2>5, <2>6, <2>7, <2>8, <2>9, <2>10, <2>11
      DEF Inv
<1>18. ASSUME NEW c \in Callers, RequestSucceeds(c) PROVE Inv'
  <2>1. CalTypes'
    BY <1>18, LeavingKeepsTypes DEF RequestSucceeds
  <2>2. MailTypes'
    BY <1>18 DEF RequestSucceeds, Outcome, Return, MailTypes
  <2>3. WorksOnSession'
    BY <1>18
      DEF RequestSucceeds, Outcome, Return, At, WorksOnSession, Handshake,
          CalTypes, CallStates
  <2>4. RequestsOutside'
    BY <1>18
      DEF RequestSucceeds, Outcome, Return, At, RequestsOutside, Handshake,
          CalTypes, CallStates
  <2>5. LockIsHandshake'
    BY <1>18
      DEF RequestSucceeds, Outcome, Return, At, LockIsHandshake, Handshake,
          CalTypes, CallStates
  <2>6. MailOnlyForWaiting'
    BY <1>18
      DEF RequestSucceeds, Outcome, Return, At, MailOnlyForWaiting, MailTypes,
          CalTypes, CallStates
  <2>7. AnswersMatch'
    BY <1>18
      DEF RequestSucceeds, Outcome, Return, At, Tag, AnswersMatch,
          MailOnlyForWaiting, CalTypes, CallStates
  <2>8. /\ SesTypes' /\ SlotTypes' /\ HandshakeOverNothing' /\ IdsNameRequests'
    BY <1>18
      DEF RequestSucceeds, Outcome, Return, SesTypes, SlotTypes,
          HandshakeOverNothing, IdsNameRequests, Outstanding
  <2> QED
    BY <2>1, <2>2, <2>3, <2>4, <2>5, <2>6, <2>7, <2>8 DEF Inv
<1>19. ASSUME NEW c \in Callers, RequestFails(c) PROVE Inv'
  <2>1. SesTypes'
    <3> DEFINE s == cal[c].ses
               t == IF cal[c].what = "initialize" THEN s ELSE 0
               left == {p \in ses[s].pending : p.id # cal[c].id}
               closed == Close(ses, t)
    <3>1. s \in Sessions /\ t \in Sessions \cup {0}
      BY <1>19, WorkingSession DEF RequestFails, At, Handshake
    <3>2. closed \in [Sessions -> SessionStates]
      BY <3>1, CloseKeeps
    <3>3. left \in SUBSET Slots
      BY <3>1 DEF SesTypes, SessionStates
    <3>4. ses' = [closed EXCEPT ![s].pending = left]
      BY <1>19 DEF RequestFails
    <3> HIDE DEF s, left, closed
    <3>5. [closed[s] EXCEPT !.pending = left] \in SessionStates
      <4>1. closed[s] \in SessionStates
        BY <3>1, <3>2
      <4> QED
        BY <3>3, <4>1 DEF SessionStates
    <3> QED
      BY <3>1, <3>2, <3>4, <3>5 DEF SesTypes
  <2>2. CalTypes'
    BY <1>19, LeavingKeepsTypes DEF RequestFails, Stages
  <2>3. SlotTypes'
    BY <1>19 DEF RequestFails, Leave, At, SlotTypes
  <2>4. MailTypes'
    BY <1>19 DEF RequestFails, Leave, MailTypes
  <2>5. WorksOnSession'
    BY <1>19
      DEF RequestFails, Leave, At, WorksOnSession, Handshake, CalTypes,
          CallStates
  <2>6. RequestsOutside'
    BY <1>19
      DEF RequestFails, Leave, At, RequestsOutside, Handshake, CalTypes,
          CallStates
  <2>7. LockIsHandshake'
    BY <1>19
      DEF RequestFails, Leave, At, LockIsHandshake, Handshake, CalTypes,
          CallStates
  <2>8. HandshakeOverNothing'
    BY <1>19 DEF RequestFails, Leave, At, HandshakeOverNothing
  <2>9. IdsNameRequests'
    <3> DEFINE s == cal[c].ses
               t == IF cal[c].what = "initialize" THEN s ELSE 0
               left == {p \in ses[s].pending : p.id # cal[c].id}
               closed == Close(ses, t)
    <3>1. s \in Sessions /\ t \in Sessions \cup {0}
      BY <1>19, WorkingSession DEF RequestFails, At, Handshake
    <3>2. /\ closed \in [Sessions -> SessionStates]
          /\ \A r \in Sessions : closed[r] = ses[r] \/ closed[r] = [ses[r] EXCEPT !.kill = TRUE]
      BY <3>1, CloseKeeps
    <3>3. ses' = [closed EXCEPT ![s].pending = left]
      BY <1>19 DEF RequestFails
    <3>4. left \subseteq ses[s].pending
      OBVIOUS
    <3> HIDE DEF closed, left
    <3>5. \A r \in Sessions : /\ closed[r].next = ses[r].next
                              /\ closed[r].pending = ses[r].pending
                              /\ closed[r].wire = ses[r].wire
      BY <3>2, KillKeepsSlots DEF SesTypes
    <3>6. \A r \in Sessions : /\ ses'[r].next = closed[r].next
                              /\ ses'[r].pending \subseteq closed[r].pending
                              /\ ses'[r].wire = closed[r].wire
      <4>1. /\ ses'[s] = [closed[s] EXCEPT !.pending = left]
            /\ \A r \in Sessions : r # s => ses'[r] = closed[r]
        BY <3>1, <3>2, <3>3
      <4>2. closed[s] \in SessionStates
        BY <3>1, <3>2
      <4>3. /\ ses'[s].next = closed[s].next /\ ses'[s].pending = left
            /\ ses'[s].wire = closed[s].wire
        BY <4>1, <4>2 DEF SessionStates
      <4>4. ses'[s].pending \subseteq closed[s].pending
        BY <3>1, <3>4, <3>5, <4>3
      <4> QED
        BY <4>1, <4>3, <4>4
    <3> QED
      BY <3>5, <3>6, SlotsOnlyLeave
  <2>10. MailOnlyForWaiting'
    BY <1>19
      DEF RequestFails, Leave, At, MailOnlyForWaiting, MailTypes, CalTypes,
          CallStates
  <2>11. AnswersMatch'
    BY <1>19
      DEF RequestFails, Leave, At, Tag, AnswersMatch, MailOnlyForWaiting,
          CalTypes, CallStates
  <2> QED
    BY <2>1, <2>2, <2>3, <2>4, <2>5, <2>6, <2>7, <2>8, <2>9, <2>10, <2>11
      DEF Inv
<1>20. ASSUME NEW c \in Callers, Wake(c) PROVE Inv'
  <2>1. CalTypes'
    BY <1>20
      DEF Wake, LastTry, Return, CalTypes, CallStates, Stages, Handshake, Whats
  <2>2. WorksOnSession'
    BY <1>20
      DEF Wake, LastTry, Return, At, WorksOnSession, Handshake, CalTypes,
          CallStates
  <2>3. RequestsOutside'
    BY <1>20
      DEF Wake, LastTry, Return, At, RequestsOutside, Handshake, CalTypes,
          CallStates
  <2>4. LockIsHandshake'
    BY <1>20
      DEF Wake, LastTry, Return, At, LockIsHandshake, Handshake, CalTypes,
          CallStates
  <2>5. MailOnlyForWaiting'
    BY <1>20
      DEF Wake, LastTry, Return, At, MailOnlyForWaiting, CalTypes, CallStates
  <2>6. AnswersMatch'
    BY <1>20
      DEF Wake, LastTry, Return, At, Tag, AnswersMatch, MailOnlyForWaiting,
          CalTypes, CallStates
  <2>7. /\ SesTypes' /\ SlotTypes' /\ MailTypes' /\ HandshakeOverNothing'
        /\ IdsNameRequests'
    BY <1>20
      DEF Wake, LastTry, Return, SesTypes, SlotTypes, MailTypes,
          HandshakeOverNothing, IdsNameRequests, Outstanding
  <2> QED
    BY <2>1, <2>2, <2>3, <2>4, <2>5, <2>6, <2>7 DEF Inv
<1>21. ASSUME NEW c \in Callers, Invalidate(c) PROVE Inv'
  <2>1. SesTypes'
    BY <1>21, CloseKeeps DEF Invalidate, Return, Leave, At, SesTypes, SlotTypes
  <2>2. CalTypes'
    BY <1>21
      DEF Invalidate, Return, Leave, CalTypes, CallStates, Stages, Handshake,
          Whats
  <2>3. SlotTypes'
    BY <1>21 DEF Invalidate, Return, Leave, At, SlotTypes
  <2>4. WorksOnSession'
    BY <1>21
      DEF Invalidate, Return, Leave, At, WorksOnSession, Handshake, CalTypes,
          CallStates
  <2>5. RequestsOutside'
    BY <1>21
      DEF Invalidate, Return, Leave, At, RequestsOutside, Handshake, CalTypes,
          CallStates
  <2>6. LockIsHandshake'
    BY <1>21
      DEF Invalidate, Return, Leave, At, LockIsHandshake, Handshake, CalTypes,
          CallStates
  <2>7. HandshakeOverNothing'
    BY <1>21 DEF Invalidate, Return, Leave, At, HandshakeOverNothing
  <2>8. IdsNameRequests'
    BY <1>21, CloseKeepsIds DEF Invalidate, SlotTypes
  <2>9. MailOnlyForWaiting'
    BY <1>21
      DEF Invalidate, Return, Leave, At, MailOnlyForWaiting, CalTypes,
          CallStates
  <2>10. AnswersMatch'
    BY <1>21
      DEF Invalidate, Return, Leave, At, Tag, AnswersMatch, MailOnlyForWaiting,
          CalTypes, CallStates
  <2>11. MailTypes'
    BY <1>21 DEF Invalidate, Close, Return, Leave, MailTypes
  <2> QED
    BY <2>1, <2>2, <2>3, <2>4, <2>5, <2>6, <2>7, <2>8, <2>9, <2>10, <2>11
      DEF Inv
<1>22. ASSUME NEW c \in Callers, Cancel(c) PROVE Inv'
  <2>1. CalTypes'
    BY <1>22, LeavingKeepsTypes DEF Cancel
  <2>2. SlotTypes'
    BY <1>22 DEF Cancel, Return, At, SlotTypes
  <2>3. MailTypes'
    BY <1>22 DEF Cancel, Return, MailTypes
  <2>4. WorksOnSession'
    BY <1>22
      DEF Cancel, Return, At, WorksOnSession, Handshake, CalTypes, CallStates
  <2>5. RequestsOutside'
    BY <1>22
      DEF Cancel, Return, At, RequestsOutside, Handshake, CalTypes, CallStates
  <2>6. LockIsHandshake'
    BY <1>22
      DEF Cancel, Return, At, LockIsHandshake, Handshake, CalTypes, CallStates
  <2>7. HandshakeOverNothing'
    BY <1>22 DEF Cancel, Return, At, HandshakeOverNothing
  <2>8. MailOnlyForWaiting'
    BY <1>22
      DEF Cancel, Return, At, MailOnlyForWaiting, MailTypes, CalTypes,
          CallStates
  <2>9. AnswersMatch'
    BY <1>22
      DEF Cancel, Return, At, Tag, AnswersMatch, MailOnlyForWaiting, CalTypes,
          CallStates
  <2>10. SesTypes'
    <3>1. \A t \in Sessions : [ses[t] EXCEPT !.lost = TRUE] \in SessionStates
      BY DEF SesTypes, SessionStates
    <3> QED
      BY <1>22, <3>1 DEF Cancel, SesTypes
  <2>11. IdsNameRequests'
    BY <1>22, <2>10, SlotsOnlyLeave DEF Cancel, SesTypes, SessionStates
  <2> QED
    BY <2>1, <2>2, <2>3, <2>4, <2>5, <2>6, <2>7, <2>8, <2>9, <2>10, <2>11 DEF Inv
<1>23. CASE Shutdown
  <2>1. SesTypes'
    BY <1>23, CloseKeeps DEF Shutdown, At, SesTypes, SlotTypes
  <2>2. SlotTypes'
    BY <1>23 DEF Shutdown, At, SlotTypes
  <2>3. HandshakeOverNothing'
    BY <1>23 DEF Shutdown, At, HandshakeOverNothing
  <2>4. IdsNameRequests'
    BY <1>23, CloseKeepsIds DEF Shutdown, SlotTypes
  <2>5. /\ CalTypes' /\ MailTypes' /\ WorksOnSession' /\ RequestsOutside'
        /\ LockIsHandshake' /\ MailOnlyForWaiting' /\ AnswersMatch'
    BY <1>23
      DEF Shutdown, Close, CalTypes, MailTypes, WorksOnSession, RequestsOutside,
          LockIsHandshake, MailOnlyForWaiting, AnswersMatch, At, Tag
  <2> QED
    BY <2>1, <2>2, <2>3, <2>4, <2>5 DEF Inv
<1>24. CASE UNCHANGED vars
  <2>1. /\ SesTypes' /\ CalTypes' /\ SlotTypes' /\ MailTypes'
        /\ WorksOnSession' /\ RequestsOutside' /\ LockIsHandshake'
        /\ HandshakeOverNothing' /\ IdsNameRequests' /\ MailOnlyForWaiting'
        /\ AnswersMatch'
    BY <1>24
      DEF vars, SesTypes, CalTypes, SlotTypes, MailTypes, WorksOnSession,
          RequestsOutside, LockIsHandshake, HandshakeOverNothing,
          IdsNameRequests, MailOnlyForWaiting, AnswersMatch, Outstanding, At,
          Tag
  <2> QED
    BY <2>1 DEF Inv
<1> QED
  BY <1>1, <1>2, <1>3, <1>4, <1>5, <1>6, <1>7, <1>8, <1>9, <1>10, <1>11, <1>12,
     <1>13, <1>14, <1>15, <1>16, <1>17, <1>18, <1>19, <1>20, <1>21, <1>22,
     <1>23, <1>24
    DEF Next, CallerStep, SessionStep, AskForSession, ChildExits, WaiterKills

(* The types of the parts make up the type invariant of the module.             *)
LEMMA TypesAreTypes == Inv => TypeOK
<1> SUFFICES ASSUME Inv PROVE TypeOK
  OBVIOUS
<1>1. ASSUME NEW s \in Sessions
      PROVE  /\ ses[s].proc \in {"none", "run", "dead"} /\ ses[s].lost \in BOOLEAN
             /\ ses[s].next \in Nat
             /\ ses[s].pending \subseteq Slot(s) /\ ses[s].wire \subseteq Slot(s)
  <2>1. /\ ses[s].proc \in {"none", "run", "dead"} /\ ses[s].lost \in BOOLEAN
        /\ ses[s].next \in Nat
        /\ ses[s].pending \subseteq Slots /\ ses[s].wire \subseteq Slots
    BY DEF Inv, SesTypes, SessionStates
  <2>2. \A p \in Outstanding(s) : p.id < ses[s].next
    BY DEF Inv, IdsNameRequests
  <2>3. \A p \in Slots : p.id < ses[s].next => p \in Slot(s)
    BY <2>1 DEF Slots, Slot
  <2> QED
    BY <2>1, <2>2, <2>3 DEF Outstanding
<1>2. \A c \in Callers :
        /\ mail[c] \subseteq [tag : Tags, ok : BOOLEAN]
        /\ (lock = c) <=> (cal[c].what = "initialize"
                             /\ cal[c].pc \in {"hook", "push", "ask", "send", "wait"})
  BY DEF Inv, MailTypes, LockIsHandshake, Handshake
<1> QED
  BY <1>1, <1>2 DEF Inv, SlotTypes, TypeOK

(* Once closed, a session is no longer one that nobody has told to stop.        *)
LEMMA CloseStops ==
  ASSUME SesTypes, NEW t \in Sessions \cup {0}
  PROVE  \A s \in Sessions :
           Close(ses, t)[s].proc = "run" /\ ~Close(ses, t)[s].kill =>
             ses[s].proc = "run" /\ ~ses[s].kill /\ s # t /\ Close(ses, t)[s] = ses[s]
<1> SUFFICES ASSUME NEW s \in Sessions,
                    Close(ses, t)[s].proc = "run", ~Close(ses, t)[s].kill
             PROVE  /\ ses[s].proc = "run" /\ ~ses[s].kill /\ s # t
                    /\ Close(ses, t)[s] = ses[s]
  OBVIOUS
<1>1. ses[s] \in SessionStates
  BY DEF SesTypes
<1>2. [ses[s] EXCEPT !.kill = TRUE].kill
  BY <1>1 DEF SessionStates
<1>3. Close(ses, t)[s] = IF s = t THEN [ses[s] EXCEPT !.kill = TRUE] ELSE ses[s]
  BY CloseKeeps
<1> QED
  BY <1>2, <1>3

\* Whoever releases the lock has published its child, told it to stop or lost it.
LEMMA OneSessionStep ==
  ASSUME Inv, OneSession, [Next]_vars
  PROVE  OneSession'
<1> USE DEF Inv
<1>1. ASSUME NEW s \in Sessions, Dies(s) PROVE OneSession'
  BY <1>1
    DEF Dies, At, OneSession, CalTypes, CallStates, SlotTypes, LockIsHandshake,
        Handshake, HandshakeOverNothing
<1>2. ASSUME NEW s \in Sessions, WaiterReports(s) PROVE OneSession'
  BY <1>2
    DEF WaiterReports, DispatcherClosed, At, OneSession, SesTypes,
        SessionStates, SlotTypes, CalTypes, CallStates
<1>3. ASSUME NEW s \in Sessions, ReaderRejects(s) PROVE OneSession'
  BY <1>3
    DEF ReaderRejects, DispatcherClosed, At, OneSession, SesTypes,
        SessionStates, SlotTypes, CalTypes, CallStates
<1>4. ASSUME NEW s \in Sessions, WriterStops(s) PROVE OneSession'
  BY <1>4
    DEF WriterStops, At, OneSession, CalTypes, CallStates, SlotTypes,
        LockIsHandshake, Handshake, HandshakeOverNothing
<1>5. ASSUME NEW s \in Sessions, HandleMessage(s) PROVE OneSession'
  BY <1>5
    DEF HandleMessage, Send, Waits, At, OneSession, SesTypes, SessionStates,
        SlotTypes, CalTypes, CallStates
<1>6. ASSUME NEW s \in Sessions, DrainPending(s) PROVE OneSession'
  BY <1>6
    DEF DrainPending, Send, Waits, At, OneSession, SesTypes, SessionStates,
        SlotTypes, CalTypes, CallStates
<1>7. ASSUME NEW c \in Callers, Call(c) PROVE OneSession'
  BY <1>7
    DEF Call, At, OneSession, CalTypes, CallStates, SlotTypes, LockIsHandshake,
        Handshake, HandshakeOverNothing
<1>8. ASSUME NEW c \in Callers, ReuseSession(c) PROVE OneSession'
  BY <1>8
    DEF ReuseSession, Usable, At, OneSession, CalTypes, CallStates, SlotTypes,
        LockIsHandshake, Handshake, HandshakeOverNothing
<1>9. ASSUME NEW c \in Callers, StartSession(c) PROVE OneSession'
  <2>1. PICK s \in Sessions :
          /\ ses' = [Close(ses, current) EXCEPT ![s].proc = "run"]
          /\ cal' = [cal EXCEPT ![c].pc = "hook", ![c].what = "initialize", ![c].ses = s]
    BY <1>9 DEF StartSession
  <2>2. lock = NoLock /\ lock' = c /\ lock' # NoLock
    BY <1>9, SessionAssumption DEF StartSession
  <2>3. cal'[c].ses = s
    BY <2>1 DEF CalTypes, CallStates
  <2>4. \A r \in Sessions : r # s => ses'[r] = Close(ses, current)[r]
    BY <2>1, CloseKeeps DEF SlotTypes
  <2>5. \A r \in Sessions : ses'[r].proc = "run" /\ ~ses'[r].kill => r = s \/ ses'[r].lost
    BY <2>2, <2>4, CloseStops DEF OneSession, SlotTypes
  <2> QED
    BY <2>2, <2>3, <2>5 DEF OneSession
<1>10. ASSUME NEW c \in Callers, FactoryFails(c) PROVE OneSession'
  BY <1>10, CloseStops DEF FactoryFails, OneSession, SlotTypes
<1>11. ASSUME NEW c \in Callers, CheckClosed(c) PROVE OneSession'
  BY <1>11, WorkingSession
    DEF CheckClosed, Client, Goto, At, OneSession, SesTypes, SessionStates,
        SlotTypes, CalTypes, CallStates, LockIsHandshake, Handshake,
        HandshakeOverNothing
<1>12. ASSUME NEW c \in Callers, PushCloseHandler(c) PROVE OneSession'
  BY <1>12, WorkingSession
    DEF PushCloseHandler, Goto, At, OneSession, CalTypes, CallStates, SlotTypes,
        LockIsHandshake, Handshake, HandshakeOverNothing
<1>13. ASSUME NEW c \in Callers, AskOpen(c) PROVE OneSession'
  BY <1>13
    DEF AskOpen, Goto, At, OneSession, CalTypes, CallStates, SlotTypes,
        LockIsHandshake, Handshake, HandshakeOverNothing
<1>14. ASSUME NEW c \in Callers, AskClosed(c) \/ SendFails(c) PROVE OneSession'
  BY <1>14, CloseKeeps, WorkingSession
    DEF AskClosed, SendFails, Failed, HandshakeFailed, Leave, At, OneSession,
        CalTypes, CallStates, SlotTypes, LockIsHandshake, Handshake,
        HandshakeOverNothing
<1>15. ASSUME NEW c \in Callers, SendRequest(c) PROVE OneSession'
  <2>1. PICK s \in Sessions : s = cal[c].ses
    BY <1>15, WorkingSession DEF SendRequest, At, Handshake
  <2>2. PICK n, P, W :
          ses' = [ses EXCEPT ![s] = [ses[s] EXCEPT !.next = n, !.pending = P, !.wire = W]]
    BY <1>15, <2>1 DEF SendRequest, SesTypes
  <2>3. ses[s] \in SessionStates
    BY DEF SesTypes
  <2>4. LET f == [ses[s] EXCEPT !.next = n, !.pending = P, !.wire = W]
        IN  f.proc = ses[s].proc /\ f.kill = ses[s].kill /\ f.lost = ses[s].lost
    BY <2>3 DEF SessionStates
  <2>5. \A r \in Sessions : /\ ses'[r].proc = ses[r].proc /\ ses'[r].kill = ses[r].kill
                            /\ ses'[r].lost = ses[r].lost
    BY <2>2, <2>4 DEF SesTypes
  <2>6. current' = current /\ lock' = lock /\ \A d \in Callers : cal'[d].ses = cal[d].ses
    BY <1>15 DEF SendRequest, CalTypes, CallStates
  <2> QED
    BY <2>5, <2>6 DEF OneSession, SlotTypes
<1>16. ASSUME NEW c \in Callers, ConnectSucceeds(c) PROVE OneSession'
  BY <1>16, WorkingSession
    DEF ConnectSucceeds, Outcome, At, OneSession, CalTypes, CallStates,
        SlotTypes, LockIsHandshake, Handshake, HandshakeOverNothing
<1>17. ASSUME NEW c \in Callers, InitializedNotSent(c) PROVE OneSession'
  BY <1>17, CloseKeeps, WorkingSession
    DEF InitializedNotSent, Outcome, Leave, At, OneSession, CalTypes,
        CallStates, SlotTypes, LockIsHandshake, Handshake, HandshakeOverNothing
<1>18. ASSUME NEW c \in Callers, RequestSucceeds(c) PROVE OneSession'
  BY <1>18
    DEF RequestSucceeds, Outcome, Return, At, OneSession, CalTypes, CallStates,
        SlotTypes, LockIsHandshake, Handshake, HandshakeOverNothing
<1>19. ASSUME NEW c \in Callers, RequestFails(c) PROVE OneSession'
  <2>1. PICK s \in Sessions : s = cal[c].ses
    BY <1>19, WorkingSession DEF RequestFails, At, Handshake
  <2> DEFINE t == IF cal[c].what = "initialize" THEN s ELSE 0
             closed == Close(ses, t)
             left == {p \in ses[s].pending : p.id # cal[c].id}
  <2>2. t \in Sessions \cup {0}
    OBVIOUS
  <2>3. closed \in [Sessions -> SessionStates]
    BY <2>2, CloseKeeps
  <2>4. ses' = [closed EXCEPT ![s].pending = left]
    BY <1>19, <2>1 DEF RequestFails
  <2>5. \A r \in Sessions : closed[r].proc = "run" /\ ~closed[r].kill =>
          ses[r].proc = "run" /\ ~ses[r].kill /\ r # t /\ closed[r].lost = ses[r].lost
    BY <2>2, CloseStops
  <2> HIDE DEF closed, left
  <2>6. \A r \in Sessions : /\ ses'[r].proc = closed[r].proc /\ ses'[r].kill = closed[r].kill
                            /\ ses'[r].lost = closed[r].lost
    <3>1. closed[s] \in SessionStates
      BY <2>3
    <3>2. LET f == [closed[s] EXCEPT !.pending = left]
          IN  f.proc = closed[s].proc /\ f.kill = closed[s].kill /\ f.lost = closed[s].lost
      BY <3>1 DEF SessionStates
    <3> QED
      BY <2>3, <2>4, <3>2
  <2>7. CASE cal[c].what = "initialize"
    <3>1. lock = c /\ current = 0
      BY <1>19, <2>7, SessionAssumption
        DEF RequestFails, At, LockIsHandshake, Handshake, HandshakeOverNothing
    <3>2. \A r \in Sessions : ses'[r].proc = "run" /\ ~ses'[r].kill => ses'[r].lost
      BY <2>1, <2>5, <2>6, <2>7, <3>1, ZeroIsNoSession DEF OneSession
    <3> QED
      BY <3>2 DEF OneSession
  <2>8. CASE cal[c].what # "initialize"
    <3>1. lock' = lock /\ lock # c /\ current' = current
      BY <1>19, <2>8 DEF RequestFails, LockIsHandshake
    <3>2. \A d \in Callers : d # c => cal'[d] = cal[d]
      BY <1>19 DEF RequestFails, Leave, CalTypes
    <3> QED
      BY <2>5, <2>6, <3>1, <3>2 DEF OneSession, SlotTypes
  <2> QED
    BY <2>7, <2>8
<1>20. ASSUME NEW c \in Callers, Wake(c) PROVE OneSession'
  BY <1>20
    DEF Wake, LastTry, Return, At, OneSession, CalTypes, CallStates, SlotTypes,
        LockIsHandshake, Handshake, HandshakeOverNothing
<1>21. ASSUME NEW c \in Callers, Invalidate(c) PROVE OneSession'
  BY <1>21, CloseStops DEF Invalidate, OneSession, SlotTypes
<1>22. ASSUME NEW c \in Callers, Cancel(c) PROVE OneSession'
  <2>1. CASE lock = c
    <3>1. /\ cal[c].ses \in Sessions
          /\ ses' = [ses EXCEPT ![cal[c].ses].lost = TRUE]
      BY <1>22, <2>1, WorkingSession DEF Cancel, LockIsHandshake
    <3>2. /\ \A t \in Sessions : /\ ses'[t].proc = ses[t].proc /\ ses'[t].kill = ses[t].kill
                                 /\ ses[t].lost => ses'[t].lost
          /\ ses'[cal[c].ses].lost
      <4>1. \A f \in SessionStates :
              /\ [f EXCEPT !.lost = TRUE].proc = f.proc /\ [f EXCEPT !.lost = TRUE].kill = f.kill
              /\ [f EXCEPT !.lost = TRUE].lost
        BY DEF SessionStates
      <4> QED
        BY <3>1, <4>1 DEF SesTypes
    <3>3. current' = current
      BY <1>22 DEF Cancel
    <3> SUFFICES ASSUME NEW s \in Sessions, ses'[s].proc = "run", ~ses'[s].kill
                 PROVE  s = current' \/ ses'[s].lost
      BY DEF OneSession
    <3>4. ses[s].proc = "run" /\ ~ses[s].kill
      BY <3>2
    <3>5. CASE s = current \/ s = cal[c].ses
      BY <3>2, <3>3, <3>5
    <3>6. CASE ses[s].lost
      BY <3>2, <3>6
    <3> QED
      BY <2>1, <3>4, <3>5, <3>6 DEF OneSession
  <2>2. CASE lock # c
    BY <1>22, <2>2
      DEF Cancel, Return, At, OneSession, CalTypes, CallStates, SlotTypes,
          LockIsHandshake, Handshake, HandshakeOverNothing
  <2> QED
    BY <2>1, <2>2
<1>23. CASE Shutdown
  BY <1>23, CloseStops DEF Shutdown, OneSession, SlotTypes
<1>24. CASE UNCHANGED vars
  BY <1>24 DEF vars, OneSession
<1> QED
  BY <1>1, <1>2, <1>3, <1>4, <1>5, <1>6, <1>7, <1>8, <1>9, <1>10, <1>11, <1>12,
     <1>13, <1>14, <1>15, <1>16, <1>17, <1>18, <1>19, <1>20, <1>21, <1>22,
     <1>23, <1>24
    DEF Next, CallerStep, SessionStep, AskForSession, ChildExits, WaiterKills

------------------------------------------------------------------------------
(* Theorems.                                                                    *)

(* What every run of the supervisor and its sessions keeps.                     *)
THEOREM InductiveInvariant == Spec => []Inv
  BY InvInit, InvStep, PTL DEF Spec

(* Every variable keeps its type; the lock is held for exactly as long as a     *)
(* handshake lasts.                                                             *)
THEOREM TypeCorrect == Spec => []TypeOK
  BY TypesAreTypes, InductiveInvariant, PTL

(* The JSON-RPC client never gives a caller the answer to another request, nor  *)
(* to an earlier one of its own, whatever the child answers, whenever and how   *)
(* often.                                                                       *)
THEOREM AnswersReachTheirRequest == Spec => []AnswersMatch
<1>1. Inv => AnswersMatch
  BY DEF Inv
<1> QED
  BY <1>1, InductiveInvariant, PTL

(* The supervisor owns at most one live session, and the only children that     *)
(* run on besides it are those whose caller was dropped in their handshake.     *)
THEOREM OneLiveSession == Spec => []OneSession
<1>1. Init => OneSession
  BY DEF Init, NewSession, OneSession
<1>2. Inv /\ OneSession /\ [Next]_vars => OneSession'
  BY OneSessionStep
<1> QED
  BY <1>1, <1>2, InductiveInvariant, PTL DEF Spec
================================================================================
