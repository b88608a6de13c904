------------------------------- MODULE PanelFeed ------------------------------
(***************************************************************************)
(* What the overview shows, and where it has it from: src/desktop/panel/   *)
(* PanelApp.tsx over its two clients, src/shared/usage-client.ts in a      *)
(* browser and src/desktop/lib/desktop-client.ts in the app.               *)
(*                                                                         *)
(* Snapshots come from a load, a poll, a manual refresh, the service's     *)
(* event streams (a browser has one for the panel and one for its settings *)
(* store) or the host's events, and are shown in order of arrival.         *)
(*                                                                         *)
(* A snapshot is how many attempts it knows of.  A read is one step up to  *)
(* its answer, which travels by itself (answers); equal answers to the     *)
(* same reader count as one.  One platform stands for all.  That publish   *)
(* sends what it read a while ago is left to ConnectionRefresh.            *)
(***************************************************************************)
EXTENDS Integers, Sequences

CONSTANTS
  Streams,       \* the event streams of a page in a browser
  Clicks,        \* the manual refreshes a user asks for
  None, Failed,  \* no snapshot, and no answer
  Capacity,      \* how many events the service keeps for a slow stream
  MaxAttempts,   \* bound: attempts that are stored
  MaxRestarts    \* bound: deaths of the service

ASSUME FeedAssumption ==
  Capacity \in Nat \ {0} /\ MaxAttempts \in Nat /\ MaxRestarts \in Nat

(* No snapshot is none, nor is no verdict a verdict, and no click reads as *)
(* the page or its load does.                                              *)
ASSUME ReadersAssumption ==
  /\ None \notin Nat /\ Failed \notin Nat /\ None \notin {"failed", "replayed", "session"}
  /\ "load" \notin Clicks /\ "page" \notin Clicks

VARIABLES
  inApp,     \* whether the page is the app's panel, or the web page
  up, lives, \* whether the service runs, and how many it has had before
  succeeded, \* the attempts stored, by whether they succeeded
  stream,    \* the page's event streams
  answers,   \* answers, and the host's events, on their way to the page
  session,   \* the service whose token the web page holds
  click,     \* how far each manual refresh is, and what it told the user
  shown,     \* the snapshot on screen
  loadError, warned   \* whether a load failed since, and a stream's warning is up

serviceVars == <<up, lives, succeeded>>
pageVars == <<shown, loadError, warned>>
feedVars == <<inApp, serviceVars, stream, answers, session, click, pageVars>>

Snapshots == 0..MaxAttempts
stored == Len(succeeded)

Answer(reader, value) == [reader |-> reader, value |-> value]
Asked(reader, value) == answers' = answers \union {Answer(reader, value)}

(* at: how far it is; ran: the attempt it made, if that was stored; told:  *)
(* what the user was told in the end.                                      *)
NoClick == [at |-> "idle", tries |-> 0, ran |-> None, told |-> None]
Done(verdict) == [NoClick EXCEPT !.at = "done", !.told = verdict]

(* The web page reads the token of the service together with its settings, *)
(* or before its first post, and keeps it.                                 *)
TokenRead == IF session = None /\ up /\ ~inApp THEN lives ELSE session

(* The page as it mounts: its load and its streams are under way.          *)
FeedInit ==
  /\ inApp \in BOOLEAN
  /\ up = TRUE /\ lives = 0 /\ succeeded = <<>>
  /\ stream = [s \in Streams |-> [is |-> IF inApp THEN "closed" ELSE "connecting", queue |-> <<>>]]
  /\ \E v \in {0, Failed} :
       /\ answers = {Answer("load", v)}
       /\ session \in IF inApp THEN {None} ELSE IF v = Failed THEN {None, lives} ELSE {lives}
  /\ click = [c \in Clicks |-> NoClick]
  /\ shown = None /\ loadError = FALSE /\ warned = FALSE

-------------------------------------------------------------------------------
(* The service.                                                            *)

Store(ok) == stored < MaxAttempts /\ succeeded' = Append(succeeded, ok)

(* A scheduled attempt, or one another window asked for.                   *)
Attempt ==
  /\ up
  /\ \E ok \in BOOLEAN : Store(ok)
  /\ UNCHANGED <<inApp, up, lives, stream, answers, session, click, pageVars>>

(* publish broadcasts what is stored; a stream too slow loses its oldest   *)
(* events, and is told so in an event nobody listens to.                   *)
Queued(queue, v) ==
  LET longer == Append(queue, v)
  IN IF Len(longer) > Capacity THEN Tail(longer) ELSE longer

Broadcast ==
  stream' = [s \in Streams |->
    IF stream[s].is = "open" THEN [stream[s] EXCEPT !.queue = Queued(@, stored)] ELSE stream[s]]

Publish ==
  /\ up /\ Broadcast
  /\ UNCHANGED <<inApp, serviceVars, answers, session, click, pageVars>>

(* The service dies with the refreshes it runs; what it has written may    *)
(* still arrive.                                                           *)
Die ==
  /\ up /\ lives < MaxRestarts
  /\ up' = FALSE
  /\ stream' = [s \in Streams |->
       IF stream[s].is = "open" THEN [stream[s] EXCEPT !.is = "broken"] ELSE stream[s]]
  /\ click' = [c \in Clicks |->
       IF click[c].at = "ran" THEN [click[c] EXCEPT !.at = "lost"] ELSE click[c]]
  /\ UNCHANGED <<inApp, lives, succeeded, answers, session, pageVars>>

(* Another one starts, with the same store and a token of its own.         *)
Start ==
  /\ ~up
  /\ up' = TRUE /\ lives' = lives + 1
  /\ UNCHANGED <<inApp, succeeded, stream, answers, session, click, pageVars>>

-------------------------------------------------------------------------------
(* What is shown.                                                          *)

Show(v) == shown' = v /\ loadError' = FALSE

AnswerTaken(reader, v) ==
  /\ Answer(reader, v) \in answers
  /\ answers' = answers \ {Answer(reader, v)}
  /\ UNCHANGED <<inApp, serviceVars, stream, session>>

(* load, as the user retries it (one at a time here): settings and         *)
(* snapshot are read together, and either may fail.                        *)
Loading == \E v \in Snapshots \union {Failed} : Answer("load", v) \in answers

Load ==
  /\ loadError /\ shown = None /\ ~Loading
  /\ \/ Asked("load", Failed) /\ session' \in {session, TokenRead}
     \/ up /\ Asked("load", stored) /\ session' = TokenRead
  /\ UNCHANGED <<inApp, serviceVars, stream, click, pageVars>>

LoadArrives(v) ==
  /\ AnswerTaken("load", v)
  /\ IF v = Failed THEN loadError' = TRUE /\ UNCHANGED shown ELSE Show(v)
  /\ UNCHANGED <<click, warned>>

PollEmptyPage ==
  /\ up /\ shown = None
  /\ Asked("page", stored)
  /\ UNCHANGED <<inApp, serviceVars, stream, session, click, pageVars>>

(* The safety net, every five seconds.  A poll that fails says nothing.    *)
Poll ==
  /\ up
  /\ Asked("page", stored)
  /\ UNCHANGED <<inApp, serviceVars, stream, session, click, pageVars>>

SnapshotArrives(v) ==
  /\ AnswerTaken("page", v)
  /\ Show(v)
  /\ UNCHANGED <<click, warned>>

-------------------------------------------------------------------------------
(* A browser's event streams, each with its own recovery; what any of them *)
(* says reaches every listener.                                            *)

StreamBecomes(s, is) == stream' = [stream EXCEPT ![s] = [is |-> is, queue |-> <<>>]]

(* onopen: the service has subscribed the stream to its broadcasts.        *)
Open(s) ==
  /\ up /\ stream[s].is = "connecting"
  /\ StreamBecomes(s, "open")
  /\ warned' = FALSE
  /\ UNCHANGED <<inApp, serviceVars, answers, session, click, shown, loadError>>

Deliver(s) ==
  /\ stream[s].queue # <<>>
  /\ stream' = [stream EXCEPT ![s].queue = Tail(@)]
  /\ Show(Head(stream[s].queue))
  /\ warned' = FALSE
  /\ UNCHANGED <<inApp, serviceVars, answers, session, click>>

(* onerror: the stream is closed and the page says that it will retry.     *)
StreamFails(s) ==
  /\ stream[s].is \in {"connecting", "open", "broken"}
  /\ StreamBecomes(s, "waiting")
  /\ warned' = TRUE
  /\ UNCHANGED <<inApp, serviceVars, answers, session, click, shown, loadError>>

(* The timer of the recovery: a snapshot is read and the stream reopened.  *)
Recover(s) ==
  /\ stream[s].is = "waiting"
  /\ StreamBecomes(s, "connecting")
  /\ IF up THEN Asked("page", stored) ELSE UNCHANGED answers
  /\ UNCHANGED <<inApp, serviceVars, session, click, pageVars>>

(* The warning is a toast, and leaves like any other.                      *)
ToastLeaves ==
  /\ warned /\ warned' = FALSE
  /\ UNCHANGED <<inApp, serviceVars, stream, answers, session, click, shown, loadError>>

-------------------------------------------------------------------------------
(* The host's events: its forwarder, every three seconds, and the snapshot *)
(* it reads after a collection it has asked for.  The two may cross, and   *)
(* what arrives is shown like the answer to a poll.                        *)
HostReads ==
  /\ inApp /\ up
  /\ Asked("page", stored)
  /\ UNCHANGED <<inApp, serviceVars, stream, session, click, pageVars>>

-------------------------------------------------------------------------------
(* A manual refresh.                                                       *)

ClickUnchanged == UNCHANGED <<inApp, up, lives>>

(* The page posts it; the web page with its token, if it can have one.     *)
Click(c) ==
  /\ click[c].at = "idle"
  /\ session' = TokenRead
  /\ click' = [click EXCEPT ![c].at = IF inApp \/ session' # None THEN "posted" ELSE "lost"]
  /\ ClickUnchanged /\ UNCHANGED <<succeeded, stream, answers, pageVars>>

Accepted == up /\ (inApp \/ session = lives)

(* refresh_provider: the service runs it, whatever the cooldown.  An       *)
(* outcome it cannot save is ignored.                                      *)
Run(c) ==
  /\ click[c].at = "posted" /\ Accepted
  /\ \/ /\ \E ok \in BOOLEAN : Store(ok)
        /\ click' = [click EXCEPT ![c].at = "ran", ![c].ran = stored + 1]
     \/ /\ click' = [click EXCEPT ![c].at = "ran"]
        /\ UNCHANGED succeeded
  /\ ClickUnchanged /\ UNCHANGED <<stream, answers, session, pageVars>>

(* It publishes and acknowledges.                                          *)
Acknowledge(c) ==
  /\ click[c].at = "ran"
  /\ Broadcast
  /\ click' = [click EXCEPT ![c].at = "acknowledged"]
  /\ ClickUnchanged /\ UNCHANGED <<succeeded, answers, session, pageVars>>

Said(verdict) == IF shown = None THEN None ELSE verdict

(* No answer: the host tries once more, whatever the first has done, and   *)
(* tells the page that it failed; a browser tells it in a result.          *)
PostFails(c) ==
  /\ click[c].at = "lost" \/ (click[c].at = "posted" /\ ~up)
  /\ click' = [click EXCEPT ![c] =
       IF ~inApp THEN [@ EXCEPT !.at = "unanswered"]
       ELSE IF @.tries = 0 THEN [@ EXCEPT !.at = "posted", !.tries = 1]
       ELSE Done(Said("failed"))]
  /\ ClickUnchanged /\ UNCHANGED <<succeeded, stream, answers, session, pageVars>>

(* 403 for the token of a service that is gone.                            *)
PostRefused(c) ==
  /\ click[c].at = "posted" /\ up /\ ~Accepted
  /\ click' = [click EXCEPT ![c] = Done("session")]
  /\ ClickUnchanged /\ UNCHANGED <<succeeded, stream, answers, session, pageVars>>

(* The page reads the state that was published, whatever the result says.  *)
ReadVerdict(c) ==
  /\ click[c].at \in {"acknowledged", "unanswered"}
  /\ Asked(c, IF up THEN stored ELSE Failed)
  /\ click' = [click EXCEPT ![c].at = IF @ = "acknowledged" THEN "judging" ELSE "guessing"]
  /\ ClickUnchanged /\ UNCHANGED <<succeeded, stream, session, pageVars>>

(* latestAttemptFailed: nothing stored is a failure too.  What became of a *)
(* refresh is only said over cards, with a replay of them if all is well.  *)
LatestAttemptFailed(v) == v = 0 \/ ~succeeded[v]

VerdictOfTheScreen(c, v) ==
  /\ AnswerTaken(c, v)
  /\ click' = [click EXCEPT ![c] =
       Done(Said(IF shown = None \/ LatestAttemptFailed(shown) THEN "failed" ELSE "replayed"))]
  /\ UNCHANGED pageVars

VerdictArrives(c, v) ==
  /\ AnswerTaken(c, v)
  /\ shown' = IF v = Failed THEN shown ELSE v
  /\ click' = [click EXCEPT ![c] =
       Done(Said(IF v = Failed \/ LatestAttemptFailed(v) THEN "failed" ELSE "replayed"))]
  /\ UNCHANGED <<loadError, warned>>

-------------------------------------------------------------------------------
Service ==
  Attempt \/ Publish \/ Die \/ Start

Page ==
  \/ Load \/ Poll \/ ToastLeaves
  \/ \E v \in Snapshots \union {Failed} : LoadArrives(v)
  \/ \E v \in Snapshots : SnapshotArrives(v)
  \/ \E s \in Streams : Open(s) \/ Deliver(s) \/ StreamFails(s) \/ Recover(s)

Refresh ==
  \E c \in Clicks :
    \/ Click(c) \/ Run(c) \/ Acknowledge(c) \/ PostFails(c) \/ PostRefused(c) \/ ReadVerdict(c)
    \/ \E v \in Snapshots \union {Failed} : VerdictArrives(c, v)

FeedNext == Service \/ HostReads \/ Page \/ Refresh

(* The poll's timer fires, and a service that runs answers over loopback.  *)
FeedFairness == WF_feedVars(Poll) /\ \A v \in Snapshots : WF_feedVars(SnapshotArrives(v))

FeedSpec == FeedInit /\ [][FeedNext]_feedVars /\ FeedFairness

-------------------------------------------------------------------------------
(* Properties.                                                             *)

(* Whatever streams, events and answers are lost or late, and in whatever  *)
(* order they arrive: once the store rests under a service that runs, the  *)
(* page comes to show what is stored, and goes on to show it.              *)
FeedConverges ==
  \A v \in Snapshots : <>[](up /\ stored = v) => <>[](shown = v)

(* The verdict on an acknowledged refresh is read from a snapshot that     *)
(* knows of the attempt made for it, and calls a success what is stored as *)
(* one.                                                                    *)
JudgedRightly(c) ==
  click[c].at = "judging" /\ click'[c].at = "done" /\ Answer(c, Failed) \notin answers =>
    /\ click[c].ran # None => shown' # None /\ shown' >= click[c].ran
    /\ click'[c].told = "replayed" => succeeded[shown']

VerdictIsOfTheClick == [][\A c \in Clicks : JudgedRightly(c)]_feedVars

(* docs/desktop/README.md on a manual refresh: success replays the cards,  *)
(* and a failure is told.                                                  *)
ReplayMeansAcknowledged ==
  [][\A c \in Clicks : click[c].at = "guessing" => click'[c].told # "replayed"]_feedVars

(* PanelApp.tsx on the warning: it ends when the stream reopens, not when  *)
(* a clock runs out.                                                       *)
WarnedWhileBroken == (\E s \in Streams : stream[s].is = "waiting") => warned
===============================================================================
