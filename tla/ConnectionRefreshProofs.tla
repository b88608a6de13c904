------------------------ MODULE ConnectionRefreshProofs ------------------------
(***************************************************************************)
(* What TLAPS proves of ConnectionRefresh for any connections, requesters, *)
(* passes, requests, waits and bounds.                                     *)
(*                                                                         *)
(* Outcomes are saved with no lock held between the end of a run and its   *)
(* row, so nothing orders the callers.  What makes the rows true all the   *)
(* same is that a caller carries its own run, which nobody else's steps    *)
(* can touch, to the row of the connection that run was about.             *)
(***************************************************************************)
EXTENDS ConnectionRefresh, TLAPS

Attempts == [key : Connections, result : {"none", "success", "failure", "miss"}]
Rows == [snapshot : 0..Len(history), verdict : 0..Len(history),
         failed : BOOLEAN, consecutive : Nat]

(* The stages of a caller that has no connection to deal with.             *)
Idle == {"starting", "waiting", "publishing", "sending"}

(* TypeOK in three parts, the rows as records.                             *)
ClockTypes ==
  /\ now \in Nat /\ active \subseteq Connections /\ attempted \subseteq Connections
  /\ last \in [Connections -> Nat] /\ failures \in [Connections -> Nat]

CallerTypes ==
  /\ stage \in [Callers -> Stages]
  /\ plan \in [Callers -> Seq(Connections)]
  /\ \A c \in Callers :
       (plan[c] = <<>>) <=> (stage[c] \in Idle)
  /\ run \in [Callers -> 0..Len(history)]
  /\ counted \in [Callers -> Nat]

RowTypes ==
  /\ history \in Seq(Attempts)
  /\ store \in [Connections -> Rows] /\ view \in [Connections -> Rows]
  /\ read \in [Callers -> [Connections -> Rows]]

RunIs(c, result) ==
  /\ run[c] # 0
  /\ history[run[c]] = [key |-> CurrentOf(c), result |-> result]

(* A caller is at the stage its own run of its current connection is at.   *)
CarriesItsRun ==
  \A c \in Callers :
    /\ stage[c] = "running" => RunIs(c, "none")
    /\ stage[c] = "succeeded" => RunIs(c, "success")
    /\ stage[c] \in {"failed", "saving"} => RunIs(c, "failure")

(* No run belongs to two callers.                                          *)
RunsAreOwn ==
  \A c, d \in Callers : c # d /\ run[c] # 0 => run[c] # run[d]

(* A run that is not saved yet is nobody's cached reading.                 *)
UnsavedIsNotCached ==
  \A c \in Callers, k \in Connections :
    stage[c] \in {"running", "succeeded"} => store[k].snapshot # run[c]

Inv ==
  /\ ClockTypes /\ CallerTypes /\ RowTypes
  /\ CarriesItsRun
  /\ RunsAreOwn
  /\ UnsavedIsNotCached
  /\ StoreTellsTheAttempt

-------------------------------------------------------------------------------
(* The types of the parts make up the type invariant of the module.        *)
LEMMA TypesAreTypes == ClockTypes /\ CallerTypes /\ RowTypes => TypeOK
<1> SUFFICES ASSUME ClockTypes, CallerTypes, RowTypes PROVE TypeOK
  OBVIOUS
<1>1. \A row \in Rows : RowOK(row)
  BY DEF Rows, RowOK
<1>2. /\ \A k \in Connections : RowOK(store[k]) /\ RowOK(view[k])
      /\ \A c \in Callers, k \in Connections : RowOK(read[c][k])
  BY <1>1 DEF RowTypes
<1> QED
  BY <1>2 DEF ClockTypes, CallerTypes, RowTypes, Attempts, Idle, TypeOK

(* Rows stay rows while the history grows.                                 *)
LEMMA RowsStayRows ==
  ASSUME history \in Seq(Attempts), Len(history') \in Nat, Len(history') >= Len(history)
  PROVE  /\ \A row \in Rows : row \in Rows'
         /\ \A v \in [Connections -> Rows] : v \in [Connections -> Rows']
         /\ \A v \in [Callers -> [Connections -> Rows]] : v \in [Callers -> [Connections -> Rows']]
<1>1. Len(history) \in Nat
  OBVIOUS
<1>2. \A n \in 0..Len(history) : n \in 0..Len(history')
  BY <1>1
<1>3. \A row \in Rows : row \in Rows'
  BY <1>2 DEF Rows
<1> QED
  BY <1>3

(* A run that has ended stays what it was; a new one goes on top.          *)
LEMMA HistoryGrows ==
  ASSUME NEW runs \in Seq(Attempts), NEW r \in Attempts
  PROVE  /\ Append(runs, r) \in Seq(Attempts)
         /\ Len(Append(runs, r)) = Len(runs) + 1
         /\ Append(runs, r)[Len(runs) + 1] = r
         /\ \A n \in 1..Len(runs) : Append(runs, r)[n] = runs[n]
  OBVIOUS

(* A run that ends changes its own entry of the history and no other.      *)
LEMMA HistorySettles ==
  ASSUME NEW runs \in Seq(Attempts), NEW n \in 1..Len(runs), NEW r \in Attempts
  PROVE  /\ [runs EXCEPT ![n] = r] \in Seq(Attempts)
         /\ Len([runs EXCEPT ![n] = r]) = Len(runs)
         /\ [runs EXCEPT ![n] = r][n] = r
         /\ \A m \in 1..Len(runs) : m # n => [runs EXCEPT ![n] = r][m] = runs[m]
  OBVIOUS

-------------------------------------------------------------------------------
(* The inductive invariant.                                                *)

(* At first nothing has run and nothing is stored.                         *)
LEMMA InvInit == CInit => Inv
<1> SUFFICES ASSUME CInit PROVE Inv
  OBVIOUS
<1>1. history \in Seq(Attempts) /\ Len(history) = 0
  BY DEF CInit
<1>2. EmptyRow \in Rows
  BY <1>1 DEF EmptyRow, Rows
<1>3. NoView \in [Connections -> Rows]
  BY <1>2 DEF NoView
<1>4. RowTypes
  BY <1>1, <1>3 DEF CInit, RowTypes
<1>5. ClockTypes
  BY DEF CInit, Init, ClockTypes
<1>6. CallerTypes
  BY <1>1 DEF CInit, CallerTypes, StageAtStart, Stages, Idle
<1>7. CarriesItsRun /\ RunsAreOwn /\ UnsavedIsNotCached
  BY DEF CInit, StageAtStart, CarriesItsRun, RunsAreOwn, UnsavedIsNotCached
<1>8. StoreTellsTheAttempt
  BY DEF CInit, NoView, EmptyRow, StoreTellsTheAttempt
<1> QED
  BY <1>4, <1>5, <1>6, <1>7, <1>8 DEF Inv

(* A caller in the middle of a request is about one of the connections.    *)
LEMMA CurrentIsConnection ==
  ASSUME CallerTypes, NEW c \in Callers,
         stage[c] \notin Idle
  PROVE  /\ plan[c] # <<>> /\ CurrentOf(c) \in Connections
         /\ Tail(plan[c]) \in Seq(Connections)
<1>1. plan[c] \in Seq(Connections) /\ plan[c] # <<>>
  BY DEF CallerTypes
<1> QED
  BY <1>1 DEF CurrentOf

(* The run a caller carries is one of those that started.                  *)
LEMMA CarriedRunStarted ==
  ASSUME CallerTypes, RowTypes, NEW c \in Callers, run[c] # 0
  PROVE  run[c] \in 1..Len(history)
<1>1. run[c] \in 0..Len(history) /\ Len(history) \in Nat
  BY DEF CallerTypes, RowTypes
<1> QED
  BY <1>1

(* One caller's stage changes, and neither its run nor its plan.           *)
LEMMA StageMoves ==
  ASSUME CallerTypes, NEW c \in Callers, NEW s \in Stages, Goto(c, s),
         (stage[c] \in Idle)
           <=> (s \in Idle),
         UNCHANGED plan
  PROVE  /\ stage' \in [Callers -> Stages] /\ plan' \in [Callers -> Seq(Connections)]
         /\ \A d \in Callers :
              (plan'[d] = <<>>) <=> (stage'[d] \in Idle)
  BY DEF CallerTypes, Goto

(* A caller begins with a connection by looking for its collector or by    *)
(* asking the scheduler; without one it publishes.                         *)
LEMMA StagesFor ==
  ASSUME NEW asked \in Seq(Connections)
  PROVE  /\ StageFor(asked) \in {"looking", "asking", "publishing"}
         /\ StageFor(asked) \in Stages
         /\ (asked = <<>>) <=> (StageFor(asked) \in Idle)
  BY DEF StageFor, Stages, Idle

(* What a caller carries stays what it is while the history only grows.    *)
LEMMA CarriedRunsStay ==
  ASSUME CallerTypes, RowTypes, NEW d \in Callers, NEW result, RunIs(d, result),
         run'[d] = run[d], plan'[d] = plan[d],
         \A n \in 1..Len(history) : history'[n] = history[n]
  PROVE  RunIs(d, result)'
<1>1. run[d] \in 1..Len(history)
  BY CarriedRunStarted DEF RunIs
<1> QED
  BY <1>1 DEF RunIs, CurrentOf

(* A caller that is done with a connection goes on with the next or        *)
(* publishes; what the others carry is theirs.                             *)
LEMMA ConnectionEnds ==
  ASSUME CallerTypes, RowTypes, CarriesItsRun, RunsAreOwn, NEW c \in Callers,
         stage[c] \notin Idle, EndOfConnection(c),
         Len(history') \in Nat, Len(history') >= Len(history),
         \A n \in 1..Len(history) : history'[n] = history[n]
  PROVE  /\ CallerTypes' /\ CarriesItsRun' /\ RunsAreOwn'
         /\ stage'[c] \in {"looking", "asking", "publishing"}
         /\ \A d \in Callers : d # c => stage'[d] = stage[d] /\ run'[d] = run[d]
<1>1. /\ stage' = [stage EXCEPT ![c] = StageFor(Tail(plan[c]))]
      /\ plan' = [plan EXCEPT ![c] = Tail(plan[c])]
      /\ run' = [run EXCEPT ![c] = 0]
      /\ counted' = [counted EXCEPT ![c] = 0]
  BY DEF EndOfConnection, Goto
<1>2. Tail(plan[c]) \in Seq(Connections)
  BY CurrentIsConnection
<1>3. /\ StageFor(Tail(plan[c])) \in {"looking", "asking", "publishing"}
      /\ StageFor(Tail(plan[c])) \in Stages
      /\ (Tail(plan[c]) = <<>>) <=> (StageFor(Tail(plan[c])) \in Idle)
  BY <1>2, StagesFor
<1>4. /\ stage' \in [Callers -> Stages] /\ stage'[c] \in {"looking", "asking", "publishing"}
      /\ \A d \in Callers : d # c => /\ stage'[d] = stage[d] /\ plan'[d] = plan[d]
                                     /\ run'[d] = run[d]
  BY <1>1, <1>3 DEF CallerTypes
<1>5. /\ plan' \in [Callers -> Seq(Connections)]
      /\ \A d \in Callers : (plan'[d] = <<>>) <=> (stage'[d] \in Idle)
  BY <1>1, <1>2, <1>3, <1>4 DEF CallerTypes
<1>6. run' \in [Callers -> 0..Len(history')]
  <2>1. Len(history) \in Nat
    BY DEF RowTypes
  <2> QED
    BY <1>1, <2>1 DEF CallerTypes
<1>7. CallerTypes'
  BY <1>1, <1>4, <1>5, <1>6 DEF CallerTypes
<1>8. CarriesItsRun'
  <2>1. ASSUME NEW d \in Callers, d # c, NEW result, RunIs(d, result)
        PROVE  RunIs(d, result)'
    BY <1>4, <2>1, CarriedRunsStay
  <2> QED
    BY <1>4, <2>1 DEF CarriesItsRun
<1>9. RunsAreOwn'
  BY <1>1 DEF CallerTypes, RunsAreOwn
<1> QED
  BY <1>4, <1>7, <1>8, <1>9

(* Steps that leave the runs, the plans and the store alone.               *)
LEMMA StoreStepsOK ==
  ASSUME Inv, UNCHANGED <<store, history>>, ClockTypes', CallerTypes', RowTypes',
         CarriesItsRun', RunsAreOwn',
         \A c \in Callers : stage'[c] \in {"running", "succeeded"} =>
           stage[c] \in {"running", "succeeded"} /\ run'[c] = run[c]
  PROVE  Inv'
<1>1. UnsavedIsNotCached'
  BY DEF Inv, UnsavedIsNotCached
<1>2. StoreTellsTheAttempt'
  BY DEF Inv, StoreTellsTheAttempt
<1> QED
  BY <1>1, <1>2 DEF Inv

(* A caller takes up its plan.                                             *)
LEMMA AskStep == ASSUME Inv, NEW c \in Callers, NEW asked \in Seq(Connections),
                        asked # <<>>, NEW first \in {"looking", "asking"},
                        Ask(c, asked, first)
                 PROVE  Inv'
<1>1. /\ stage' = [stage EXCEPT ![c] = first] /\ plan' = [plan EXCEPT ![c] = asked]
      /\ UNCHANGED <<vars, run, counted, read, store, view, history>>
  BY DEF Ask, Goto
<1>2. ClockTypes' /\ RowTypes'
  BY <1>1 DEF Inv, ClockTypes, RowTypes, Rows, vars
<1>3. CallerTypes'
  BY <1>1 DEF Inv, CallerTypes, Stages, Idle
<1>4. CarriesItsRun'
  BY <1>1 DEF Inv, CallerTypes, CarriesItsRun, RunIs, CurrentOf
<1>5. RunsAreOwn'
  BY <1>1 DEF Inv, RunsAreOwn
<1>6. \A d \in Callers : stage'[d] \in {"running", "succeeded"} =>
        stage[d] \in {"running", "succeeded"} /\ run'[d] = run[d]
  BY <1>1 DEF Inv, CallerTypes
<1> QED
  BY <1>1, <1>2, <1>3, <1>4, <1>5, <1>6, StoreStepsOK

(* A caller that is dropped leaves its run and the rows as they are.       *)
LEMMA DisconnectStep == ASSUME Inv, NEW c \in Callers, Disconnect(c) PROVE Inv'
<1>1. /\ stage' = [stage EXCEPT ![c] = "waiting"] /\ plan' = [plan EXCEPT ![c] = <<>>]
      /\ run' = [run EXCEPT ![c] = 0]
      /\ UNCHANGED <<counted, read, store, view, history>>
  BY DEF Disconnect, Goto
<1>2. ClockTypes'
  BY DEF Disconnect, Abandon, vars, Inv, ClockTypes
<1>3. RowTypes'
  BY <1>1 DEF Inv, RowTypes, Rows
<1>4. CallerTypes'
  BY <1>1 DEF Inv, CallerTypes, RowTypes, Stages, Idle
<1>5. CarriesItsRun'
  BY <1>1 DEF Inv, CallerTypes, CarriesItsRun, RunIs, CurrentOf
<1>6. RunsAreOwn'
  BY <1>1 DEF Inv, CallerTypes, RunsAreOwn
<1>7. \A d \in Callers : stage'[d] \in {"running", "succeeded"} =>
        stage[d] \in {"running", "succeeded"} /\ run'[d] = run[d]
  BY <1>1 DEF Inv, CallerTypes
<1> QED
  BY <1>1, <1>2, <1>3, <1>4, <1>5, <1>6, <1>7, StoreStepsOK

(* What is stored of a connection is one of its attempts that ended so.    *)
RowIsTrue(k, row, past) ==
  /\ row.snapshot # 0 => past[row.snapshot] = [key |-> k, result |-> "success"]
  /\ row.verdict # 0 =>
       /\ past[row.verdict].key = k
       /\ past[row.verdict].result \in IF row.failed THEN {"failure", "miss"} ELSE {"success"}

(* It stays true while the attempts that have ended stay as they ended.    *)
LEMMA RowsStayTrue ==
  ASSUME StoreTellsTheAttempt, RowTypes, NEW k \in Connections,
         \A n \in 1..Len(history) : history[n].result # "none" => history'[n] = history[n]
  PROVE  RowIsTrue(k, store[k], history')
<1>1. /\ store[k].snapshot # 0 => store[k].snapshot \in 1..Len(history)
      /\ store[k].verdict # 0 => store[k].verdict \in 1..Len(history)
  <2>1. store[k].snapshot \in 0..Len(history) /\ store[k].verdict \in 0..Len(history)
    BY DEF RowTypes, Rows
  <2>2. Len(history) \in Nat
    BY DEF RowTypes
  <2> QED
    BY <2>1, <2>2
<1>2. RowIsTrue(k, store[k], history)
  BY DEF StoreTellsTheAttempt, RowIsTrue
<1> QED
  BY <1>1, <1>2 DEF RowIsTrue

(* A run that starts is a new one: it is nobody's, and in no row.          *)
LEMMA RunStartsStep == ASSUME Inv, NEW c \in Callers, RunStarts(c) PROVE Inv'
<1> DEFINE new == Len(history) + 1
           begun == [key |-> CurrentOf(c), result |-> "none"]
<1>1. /\ stage[c] = "asking" /\ stage' = [stage EXCEPT ![c] = "running"]
      /\ run' = [run EXCEPT ![c] = new] /\ history' = Append(history, begun)
      /\ UNCHANGED <<plan, counted, read, store, view>>
  BY DEF RunStarts, Goto
<1>2. CurrentOf(c) \in Connections /\ history \in Seq(Attempts) /\ begun \in Attempts
  BY <1>1, CurrentIsConnection DEF Inv, RowTypes, Attempts, Idle
<1>3. /\ history' \in Seq(Attempts) /\ Len(history') = new /\ history'[new] = begun
      /\ \A n \in 1..Len(history) : history'[n] = history[n]
  BY <1>1, <1>2, HistoryGrows
<1>4. Len(history) \in Nat /\ new \in Nat
  BY <1>2
<1>5. ClockTypes'
  BY <1>2 DEF RunStarts, Start, Inv, ClockTypes
<1>6. CallerTypes'
  <2>1. run' \in [Callers -> 0..Len(history')]
    BY <1>1, <1>3, <1>4 DEF Inv, CallerTypes
  <2> QED
    BY <1>1, <2>1, StageMoves DEF Inv, CallerTypes, RunStarts, Stages, Idle
<1>7. RowTypes'
  BY <1>1, <1>2, <1>3, <1>4, RowsStayRows DEF Inv, RowTypes, Attempts
<1>8. \A d \in Callers : d # c => run'[d] = run[d] /\ run[d] \in 0..Len(history) /\ run[d] # new
  BY <1>1, <1>4 DEF Inv, CallerTypes
<1>9. CarriesItsRun'
  <2>1. ASSUME NEW d \in Callers, d # c, NEW result, RunIs(d, result)
        PROVE  RunIs(d, result)'
    BY <1>1, <1>3, <1>8, <2>1, CarriedRunsStay DEF Inv
  <2>2. RunIs(c, "none")'
    BY <1>1, <1>3, <1>4 DEF Inv, CallerTypes, RunIs, CurrentOf
  <2>3. stage'[c] = "running" /\ \A d \in Callers : d # c => stage'[d] = stage[d]
    BY <1>1 DEF Inv, CallerTypes
  <2> QED
    BY <2>1, <2>2, <2>3 DEF Inv, CarriesItsRun
<1>10. RunsAreOwn'
  BY <1>1, <1>8 DEF Inv, CallerTypes, RunsAreOwn
<1>11. \A k \in Connections : store[k].snapshot \in 0..Len(history)
  BY DEF Inv, RowTypes, Rows
<1>12. UnsavedIsNotCached'
  BY <1>1, <1>4, <1>8, <1>11 DEF Inv, CallerTypes, UnsavedIsNotCached
<1>13. StoreTellsTheAttempt'
  <2>1. \A k \in Connections : RowIsTrue(k, store[k], history')
    BY <1>3, RowsStayTrue DEF Inv
  <2> QED
    BY <1>1, <2>1 DEF RowIsTrue, StoreTellsTheAttempt
<1> QED
  BY <1>5, <1>6, <1>7, <1>9, <1>10, <1>12, <1>13 DEF Inv

(* A run that ends settles its own entry of the history; no row is about a *)
(* run that had not ended.                                                 *)
LEMMA RunEndsStep ==
  ASSUME Inv, NEW c \in Callers, NEW succeeded \in BOOLEAN, RunEnds(c, succeeded)
  PROVE  Inv'
<1> DEFINE result == IF succeeded THEN "success" ELSE "failure"
           next == IF succeeded THEN "succeeded" ELSE "failed"
<1>1. /\ stage[c] = "running" /\ Goto(c, next)
      /\ history' = [history EXCEPT ![run[c]].result = result]
      /\ UNCHANGED <<plan, run, counted, read, store, view>>
  BY DEF RunEnds
<1>2. /\ result \in {"success", "failure"} /\ next \in {"succeeded", "failed"}
      /\ (result = "success") <=> (next = "succeeded")
  OBVIOUS
<1> HIDE DEF result, next
<1>3. /\ run[c] # 0 /\ run[c] \in 1..Len(history)
      /\ history[run[c]] = [key |-> CurrentOf(c), result |-> "none"]
  BY <1>1, CarriedRunStarted DEF Inv, CarriesItsRun, RunIs
<1>4. /\ history' \in Seq(Attempts) /\ Len(history') = Len(history)
      /\ history'[run[c]] = [key |-> CurrentOf(c), result |-> result]
      /\ \A n \in 1..Len(history) : n # run[c] => history'[n] = history[n]
  <2> DEFINE settled == [key |-> CurrentOf(c), result |-> result]
  <2>1. [history[run[c]] EXCEPT !.result = result] = settled
    BY <1>3
  <2>2. history' = [history EXCEPT ![run[c]] = settled]
    BY <1>1, <2>1
  <2>3. history \in Seq(Attempts) /\ settled \in Attempts
    BY <1>1, <1>2, CurrentIsConnection DEF Inv, RowTypes, Attempts, Idle
  <2> HIDE DEF settled
  <2>4. /\ history' \in Seq(Attempts) /\ Len(history') = Len(history)
        /\ history'[run[c]] = settled
        /\ \A n \in 1..Len(history) : n # run[c] => history'[n] = history[n]
    BY <1>3, <2>2, <2>3, HistorySettles
  <2> QED
    BY <2>4 DEF settled
<1>5. CurrentOf(c) \in Connections
  BY <1>1, CurrentIsConnection DEF Inv, Idle
<1>6. stage' = [stage EXCEPT ![c] = next]
  BY <1>1 DEF Goto
<1>7. ClockTypes'
  BY <1>5 DEF RunEnds, End, Inv, ClockTypes
<1>8. CallerTypes'
  BY <1>1, <1>2, <1>4, StageMoves DEF Inv, CallerTypes, Stages, Idle
<1>9. RowTypes'
  <2>1. Len(history') \in Nat /\ Len(history') >= Len(history)
    BY <1>4
  <2> QED
    BY <1>1, <1>4, <2>1, RowsStayRows DEF Inv, RowTypes, Attempts
<1>10. CarriesItsRun'
  <2>1. ASSUME NEW d \in Callers, d # c, NEW res, RunIs(d, res)
        PROVE  RunIs(d, res)'
    <3>1. run[d] \in 1..Len(history) /\ run[d] # run[c]
      BY <2>1, <1>3, CarriedRunStarted DEF Inv, RunIs, RunsAreOwn
    <3> QED
      BY <1>1, <1>4, <2>1, <3>1 DEF RunIs, CurrentOf
  <2>2. RunIs(c, result)'
    BY <1>1, <1>3, <1>4 DEF RunIs, CurrentOf
  <2>3. stage'[c] = next /\ \A d \in Callers : d # c => stage'[d] = stage[d]
    BY <1>6 DEF Inv, CallerTypes
  <2>4. ASSUME NEW d \in Callers, d # c
        PROVE  /\ stage'[d] = "running" => RunIs(d, "none")'
               /\ stage'[d] = "succeeded" => RunIs(d, "success")'
               /\ stage'[d] \in {"failed", "saving"} => RunIs(d, "failure")'
    <3>1. /\ stage[d] = "running" => RunIs(d, "none")
          /\ stage[d] = "succeeded" => RunIs(d, "success")
          /\ stage[d] \in {"failed", "saving"} => RunIs(d, "failure")
      BY DEF Inv, CarriesItsRun
    <3> QED
      BY <2>1, <2>3, <2>4, <3>1
  <2>5. /\ stage'[c] = "running" => RunIs(c, "none")'
        /\ stage'[c] = "succeeded" => RunIs(c, "success")'
        /\ stage'[c] \in {"failed", "saving"} => RunIs(c, "failure")'
    BY <1>2, <2>2, <2>3
  <2> QED
    BY <2>4, <2>5 DEF CarriesItsRun
<1>11. RunsAreOwn'
  BY <1>1 DEF Inv, RunsAreOwn
<1>12. UnsavedIsNotCached'
  BY <1>1, <1>6 DEF Inv, CallerTypes, UnsavedIsNotCached
<1>13. StoreTellsTheAttempt'
  <2>1. \A k \in Connections : RowIsTrue(k, store[k], history')
    BY <1>3, <1>4, RowsStayTrue DEF Inv
  <2> QED
    BY <1>1, <2>1 DEF RowIsTrue, StoreTellsTheAttempt
<1> QED
  BY <1>7, <1>8, <1>9, <1>10, <1>11, <1>12, <1>13 DEF Inv

(* The attempts so far are a number.                                       *)
LEMMA HistoryIsLong == Inv => Len(history) \in Nat
  BY DEF Inv, RowTypes

(* Only rows of one connection are written, with the run the caller        *)
(* carries.                                                                *)
LEMMA RowTypesKept ==
  ASSUME RowTypes, NEW k \in Connections, NEW row \in Rows,
         store' = [store EXCEPT ![k] = row], UNCHANGED <<view, read, history>>
  PROVE  RowTypes'
  BY DEF RowTypes, Rows

(* A success is saved with the run that the caller carries.                *)
LEMMA SaveSuccessStep == ASSUME Inv, NEW c \in Callers, SaveSuccess(c) PROVE Inv'
<1> DEFINE k == CurrentOf(c)
           saved == [snapshot |-> run[c], verdict |-> run[c], failed |-> FALSE, consecutive |-> 0]
<1>1. /\ stage[c] = "succeeded" /\ EndOfConnection(c)
      /\ store' = [store EXCEPT ![k] = saved]
      /\ UNCHANGED <<vars, read, view, history>>
  BY DEF SaveSuccess, RowAfterSuccess
<1>2. k \in Connections
  BY <1>1, CurrentIsConnection DEF Inv, Idle
<1>3. saved \in Rows /\ run[c] # 0 /\ history[run[c]] = [key |-> k, result |-> "success"]
  <2>1. run[c] # 0 /\ history[run[c]] = [key |-> k, result |-> "success"]
    BY <1>1 DEF Inv, CarriesItsRun, RunIs
  <2>2. run[c] \in 0..Len(history)
    BY DEF Inv, CallerTypes
  <2> QED
    BY <2>1, <2>2 DEF Rows
<1>4. ClockTypes'
  BY <1>1 DEF Inv, ClockTypes, vars
<1>5. RowTypes'
  BY <1>1, <1>2, <1>3, RowTypesKept DEF Inv
<1>6. /\ CallerTypes' /\ CarriesItsRun' /\ RunsAreOwn'
      /\ stage'[c] \in {"looking", "asking", "publishing"}
      /\ \A d \in Callers : d # c => stage'[d] = stage[d] /\ run'[d] = run[d]
  BY <1>1, HistoryIsLong, ConnectionEnds DEF Inv, Idle
<1>7. /\ store'[k].snapshot = run[c] /\ store'[k].verdict = run[c] /\ store'[k].failed = FALSE
      /\ \A j \in Connections : j # k => store'[j] = store[j]
  BY <1>1, <1>2 DEF Inv, RowTypes
<1>8. UnsavedIsNotCached'
  BY <1>1, <1>3, <1>6, <1>7 DEF Inv, RunsAreOwn, UnsavedIsNotCached
<1>9. StoreTellsTheAttempt'
  <2>1. ASSUME NEW j \in Connections, j # k
        PROVE  RowIsTrue(j, store'[j], history')
    BY <1>1, <1>7, <2>1 DEF Inv, StoreTellsTheAttempt, RowIsTrue
  <2>2. RowIsTrue(k, store'[k], history')
    BY <1>1, <1>3, <1>7 DEF RowIsTrue
  <2> QED
    BY <2>1, <2>2 DEF StoreTellsTheAttempt, RowIsTrue
<1> QED
  BY <1>4, <1>5, <1>6, <1>8, <1>9 DEF Inv

(* Reading the failures that are counted changes nothing stored.           *)
LEMMA ReadFailuresStep == ASSUME Inv, NEW c \in Callers, ReadFailures(c) PROVE Inv'
<1>1. /\ stage[c] = "failed" /\ Goto(c, "saving")
      /\ counted' = [counted EXCEPT ![c] = failures[CurrentOf(c)]]
      /\ UNCHANGED <<vars, plan, run, read, store, view, history>>
  BY DEF ReadFailures
<1>2. ClockTypes' /\ RowTypes'
  BY <1>1 DEF Inv, ClockTypes, RowTypes, Rows, vars
<1>3. CallerTypes'
  <2>1. counted' \in [Callers -> Nat]
    BY <1>1, CurrentIsConnection DEF Inv, CallerTypes, ClockTypes, Idle
  <2> QED
    BY <1>1, <2>1, StageMoves DEF Inv, CallerTypes, Stages, Idle
<1>4. CarriesItsRun'
  BY <1>1 DEF Inv, CallerTypes, CarriesItsRun, RunIs, CurrentOf, Goto
<1>5. RunsAreOwn'
  BY <1>1 DEF Inv, RunsAreOwn
<1>6. \A d \in Callers : stage'[d] \in {"running", "succeeded"} =>
        stage[d] \in {"running", "succeeded"} /\ run'[d] = run[d]
  BY <1>1 DEF Inv, CallerTypes, Goto
<1> QED
  BY <1>1, <1>2, <1>3, <1>4, <1>5, <1>6, StoreStepsOK

(* A failure is saved as the verdict of its run and keeps the reading.     *)
LEMMA SaveFailureStep == ASSUME Inv, NEW c \in Callers, SaveFailure(c) PROVE Inv'
<1> DEFINE k == CurrentOf(c)
           saved == [store[k] EXCEPT !.verdict = run[c], !.failed = TRUE, !.consecutive = counted[c]]
<1>1. /\ stage[c] = "saving" /\ EndOfConnection(c)
      /\ store' = [store EXCEPT ![k] = saved]
      /\ UNCHANGED <<vars, read, view, history>>
  BY DEF SaveFailure, RowAfterFailure
<1>2. k \in Connections
  BY <1>1, CurrentIsConnection DEF Inv, Idle
<1>3. saved \in Rows
  <2>1. store[k] \in Rows /\ run[c] \in 0..Len(history) /\ counted[c] \in Nat
    BY <1>2 DEF Inv, RowTypes, CallerTypes
  <2> QED
    BY <2>1 DEF Rows
<1>4. run[c] # 0 /\ history[run[c]] = [key |-> k, result |-> "failure"]
  BY <1>1 DEF Inv, CarriesItsRun, RunIs
<1>5. ClockTypes'
  BY <1>1 DEF Inv, ClockTypes, vars
<1>6. RowTypes'
  BY <1>1, <1>2, <1>3, RowTypesKept DEF Inv
<1>7. /\ CallerTypes' /\ CarriesItsRun' /\ RunsAreOwn'
      /\ stage'[c] \in {"looking", "asking", "publishing"}
      /\ \A d \in Callers : d # c => stage'[d] = stage[d] /\ run'[d] = run[d]
  BY <1>1, HistoryIsLong, ConnectionEnds DEF Inv, Idle
<1>8. /\ store'[k].snapshot = store[k].snapshot /\ store'[k].verdict = run[c]
      /\ store'[k].failed = TRUE
      /\ \A j \in Connections : j # k => store'[j] = store[j]
  BY <1>1, <1>2 DEF Inv, RowTypes, Rows
<1>9. UnsavedIsNotCached'
  BY <1>1, <1>7, <1>8 DEF Inv, UnsavedIsNotCached
<1>10. StoreTellsTheAttempt'
  <2>1. store[k].snapshot # 0 => history[store[k].snapshot] = [key |-> k, result |-> "success"]
    BY <1>2 DEF Inv, StoreTellsTheAttempt
  <2>2. ASSUME NEW j \in Connections, j # k
        PROVE  RowIsTrue(j, store'[j], history')
    BY <1>1, <1>8, <2>2 DEF Inv, StoreTellsTheAttempt, RowIsTrue
  <2>3. RowIsTrue(k, store'[k], history')
    BY <1>1, <1>4, <1>8, <2>1 DEF RowIsTrue
  <2> QED
    BY <2>2, <2>3 DEF StoreTellsTheAttempt, RowIsTrue
<1> QED
  BY <1>5, <1>6, <1>7, <1>9, <1>10 DEF Inv

(* A miss is a new attempt on top of the others; its row, if it is written,*)
(* keeps the reading.                                                      *)
LEMMA MissIsAnAttempt ==
  ASSUME RowTypes, StoreTellsTheAttempt, NEW k \in Connections, Missed(k),
         UNCHANGED <<view, read>>
  PROVE  /\ RowTypes' /\ StoreTellsTheAttempt'
         /\ Len(history') \in Nat /\ Len(history') >= Len(history)
         /\ \A n \in 1..Len(history) : history'[n] = history[n]
         /\ \A j \in Connections : store'[j].snapshot = store[j].snapshot
<1> DEFINE new == Len(history) + 1
           missed == [key |-> k, result |-> "miss"]
           saved == [store[k] EXCEPT !.verdict = new, !.failed = TRUE, !.consecutive = 1]
<1>1. /\ history' = Append(history, missed)
      /\ store' = store \/ store' = [store EXCEPT ![k] = saved]
  BY DEF Missed, RowAfterFailure
<1>2. history \in Seq(Attempts) /\ missed \in Attempts /\ Len(history) \in Nat
  BY DEF RowTypes, Attempts
<1>3. /\ history' \in Seq(Attempts) /\ Len(history') = new /\ history'[new] = missed
      /\ \A n \in 1..Len(history) : history'[n] = history[n]
  BY <1>1, <1>2, HistoryGrows
<1>4. new \in Nat /\ new # 0 /\ new >= Len(history)
  BY <1>2
<1>5. /\ store \in [Connections -> Rows'] /\ view \in [Connections -> Rows']
      /\ read \in [Callers -> [Connections -> Rows']]
  BY <1>2, <1>3, <1>4, RowsStayRows DEF RowTypes
<1>6. saved \in Rows'
  <2>1. store[k] \in Rows'
    BY <1>5
  <2>2. new \in 0..Len(history') /\ 1 \in Nat
    BY <1>3, <1>4
  <2> HIDE DEF new
  <2> QED
    BY <2>1, <2>2 DEF Rows
<1>7. RowTypes'
  BY <1>1, <1>3, <1>5, <1>6 DEF RowTypes, Attempts
<1>8. /\ saved.snapshot = store[k].snapshot /\ saved.verdict = new /\ saved.failed = TRUE
  BY <1>5 DEF Rows
<1> HIDE DEF saved
<1>9. \A j \in Connections : store'[j] = store[j] \/ (j = k /\ store'[j] = saved)
  BY <1>1, <1>5
<1>10. \A j \in Connections : RowIsTrue(j, store[j], history')
  BY <1>3, RowsStayTrue
<1>11. RowIsTrue(k, saved, history')
  BY <1>3, <1>8, <1>10 DEF RowIsTrue
<1>12. StoreTellsTheAttempt'
  <2>1. \A j \in Connections : RowIsTrue(j, store'[j], history')
    BY <1>9, <1>10, <1>11
  <2> QED
    BY <2>1 DEF StoreTellsTheAttempt, RowIsTrue
<1> QED
  BY <1>3, <1>4, <1>7, <1>8, <1>9, <1>12

(* The service starts, with or without a miss.                             *)
LEMMA StartUpStep == Inv /\ StartUp => Inv'
<1> SUFFICES ASSUME Inv, StartUp PROVE Inv'
  OBVIOUS
<1>1. /\ stage[Schedule] = "starting" /\ stage' = [stage EXCEPT ![Schedule] = "waiting"]
      /\ UNCHANGED <<vars, plan, run, counted, read, view>>
  BY DEF StartUp, Goto
<1>2. Schedule \in Callers
  BY DEF Callers
<1>3. /\ RowTypes' /\ StoreTellsTheAttempt'
      /\ Len(history') \in Nat /\ Len(history') >= Len(history)
      /\ \A n \in 1..Len(history) : history'[n] = history[n]
      /\ \A j \in Connections : store'[j].snapshot = store[j].snapshot
  <2>1. CASE UNCHANGED <<store, history>>
    BY <1>1, <2>1, HistoryIsLong DEF Inv, RowTypes, Rows, StoreTellsTheAttempt
  <2>2. CASE \E k \in LookedUp : Missed(k)
    BY <1>1, <2>2, PassAssumption, MissIsAnAttempt DEF Inv
  <2> QED
    BY <2>1, <2>2 DEF StartUp
<1>4. ClockTypes'
  BY <1>1 DEF Inv, ClockTypes, vars
<1>5. /\ stage' \in [Callers -> Stages]
      /\ \A d \in Callers : d # Schedule => stage'[d] = stage[d]
      /\ stage'[Schedule] = "waiting"
  BY <1>1, <1>2 DEF Inv, CallerTypes, Stages
<1>6. CallerTypes'
  <2>1. run' \in [Callers -> 0..Len(history')]
    BY <1>1, <1>3, HistoryIsLong DEF Inv, CallerTypes
  <2> QED
    BY <1>1, <1>5, <2>1 DEF Inv, CallerTypes, Idle
<1>7. CarriesItsRun'
  <2>1. ASSUME NEW d \in Callers, NEW result, RunIs(d, result)
        PROVE  RunIs(d, result)'
    BY <1>1, <1>3, <2>1, CarriedRunsStay DEF Inv
  <2> QED
    BY <1>5, <2>1 DEF Inv, CarriesItsRun
<1>8. RunsAreOwn'
  BY <1>1 DEF Inv, RunsAreOwn
<1>9. UnsavedIsNotCached'
  BY <1>1, <1>3, <1>5 DEF Inv, UnsavedIsNotCached
<1> QED
  BY <1>3, <1>4, <1>6, <1>7, <1>8, <1>9 DEF Inv

(* A caller that has looked in vain is over with the connection.           *)
LEMMA FindsNothingStep == ASSUME Inv, NEW c \in Callers, FindsNothing(c) PROVE Inv'
<1>1. /\ stage[c] = "looking" /\ Missed(CurrentOf(c)) /\ EndOfConnection(c)
      /\ UNCHANGED <<vars, read, view>>
  BY DEF FindsNothing
<1>2. CurrentOf(c) \in Connections
  BY <1>1, CurrentIsConnection DEF Inv, Idle
<1>3. /\ RowTypes' /\ StoreTellsTheAttempt'
      /\ Len(history') \in Nat /\ Len(history') >= Len(history)
      /\ \A n \in 1..Len(history) : history'[n] = history[n]
      /\ \A j \in Connections : store'[j].snapshot = store[j].snapshot
  BY <1>1, <1>2, MissIsAnAttempt DEF Inv
<1>4. /\ CallerTypes' /\ CarriesItsRun' /\ RunsAreOwn'
      /\ stage'[c] \in {"looking", "asking", "publishing"}
      /\ \A d \in Callers : d # c => stage'[d] = stage[d] /\ run'[d] = run[d]
  BY <1>1, <1>3, ConnectionEnds DEF Inv, Idle
<1>5. ClockTypes'
  BY <1>1 DEF Inv, ClockTypes, vars
<1>6. UnsavedIsNotCached'
  BY <1>3, <1>4 DEF Inv, UnsavedIsNotCached
<1> QED
  BY <1>3, <1>4, <1>5, <1>6 DEF Inv

(* NothingToUse, CoolDown and SaveNothing: the connection is over and      *)
(* nothing is written.                                                     *)
LEMMA NothingSavedStep ==
  ASSUME Inv, NEW c \in Callers, NothingToUse(c) \/ CoolDown(c) \/ SaveNothing(c)
  PROVE  Inv'
<1>1. /\ stage[c] \in {"looking", "asking", "succeeded", "saving"} /\ EndOfConnection(c)
      /\ UNCHANGED <<vars, read, store, view, history>>
  BY DEF CoolDown, SaveNothing, NothingToUse
<1>2. ClockTypes' /\ RowTypes'
  BY <1>1 DEF Inv, ClockTypes, RowTypes, Rows, vars
<1>3. /\ CallerTypes' /\ CarriesItsRun' /\ RunsAreOwn'
      /\ stage'[c] \in {"looking", "asking", "publishing"}
      /\ \A d \in Callers : d # c => stage'[d] = stage[d] /\ run'[d] = run[d]
  BY <1>1, HistoryIsLong, ConnectionEnds DEF Inv, Idle
<1>4. \A d \in Callers : stage'[d] \in {"running", "succeeded"} =>
        stage[d] \in {"running", "succeeded"} /\ run'[d] = run[d]
  BY <1>1, <1>3
<1> QED
  BY <1>1, <1>2, <1>3, <1>4, StoreStepsOK

(* What a publisher reads are rows.                                        *)
LEMMA PublishReadStep == ASSUME Inv, NEW c \in Callers, PublishRead(c) PROVE Inv'
<1>1. /\ stage[c] = "publishing" /\ Goto(c, "sending")
      /\ read' = [read EXCEPT ![c] = store]
      /\ UNCHANGED <<vars, plan, run, counted, store, view, history>>
  BY DEF PublishRead
<1>2. ClockTypes'
  BY <1>1 DEF Inv, ClockTypes, vars
<1>3. RowTypes'
  BY <1>1 DEF Inv, RowTypes, Rows
<1>4. CallerTypes'
  BY <1>1, StageMoves DEF Inv, CallerTypes, Stages, Idle
<1>5. CarriesItsRun'
  BY <1>1 DEF Inv, CallerTypes, CarriesItsRun, RunIs, CurrentOf, Goto
<1>6. RunsAreOwn'
  BY <1>1 DEF Inv, RunsAreOwn
<1>7. \A d \in Callers : stage'[d] \in {"running", "succeeded"} =>
        stage[d] \in {"running", "succeeded"} /\ run'[d] = run[d]
  BY <1>1 DEF Inv, CallerTypes, Goto
<1> QED
  BY <1>1, <1>2, <1>3, <1>4, <1>5, <1>6, <1>7, StoreStepsOK

(* A caller that has found a collector asks for a run, and one that cannot *)
(* read the states waits; neither writes.                                  *)
LEMMA StageOnlyStep ==
  ASSUME Inv, NEW c \in Callers, Found(c) \/ PublishNothing(c)
  PROVE  Inv'
<1>1. /\ \/ stage[c] = "looking" /\ Goto(c, "asking")
         \/ stage[c] = "publishing" /\ Goto(c, "waiting")
      /\ UNCHANGED <<vars, plan, run, counted, read, store, view, history>>
  BY DEF Found, PublishNothing
<1>2. ClockTypes' /\ RowTypes'
  BY <1>1 DEF Inv, ClockTypes, RowTypes, Rows, vars
<1>3. CallerTypes'
  BY <1>1, StageMoves DEF Inv, CallerTypes, Stages, Idle
<1>4. CarriesItsRun'
  BY <1>1 DEF Inv, CallerTypes, CarriesItsRun, RunIs, CurrentOf, Goto
<1>5. RunsAreOwn'
  BY <1>1 DEF Inv, RunsAreOwn
<1>6. \A d \in Callers : stage'[d] \in {"running", "succeeded"} =>
        stage[d] \in {"running", "succeeded"} /\ run'[d] = run[d]
  BY <1>1 DEF Inv, CallerTypes, Goto
<1> QED
  BY <1>1, <1>2, <1>3, <1>4, <1>5, <1>6, StoreStepsOK

(* The rows of a store in which nothing is stored are rows.                *)
LEMMA EmptyRowsAreRows ==
  ASSUME history \in Seq(Attempts)
  PROVE  NoView \in [Connections -> Rows]
<1>1. Len(history) \in Nat
  OBVIOUS
<1> QED
  BY <1>1 DEF NoView, EmptyRow, Rows

(* A publisher sends the rows it has read.                                 *)
LEMMA PublishSendStep == ASSUME Inv, NEW c \in Callers, PublishSend(c) PROVE Inv'
<1>1. /\ stage[c] = "sending" /\ Goto(c, "waiting") /\ view' = read[c]
      /\ read' = [read EXCEPT ![c] = NoView]
      /\ UNCHANGED <<vars, plan, run, counted, store, history>>
  BY DEF PublishSend
<1>2. ClockTypes'
  BY <1>1 DEF Inv, ClockTypes, vars
<1>3. RowTypes'
  <2>1. NoView \in [Connections -> Rows]
    BY EmptyRowsAreRows DEF Inv, RowTypes
  <2> QED
    BY <1>1, <2>1 DEF Inv, RowTypes, Rows
<1>4. CallerTypes'
  BY <1>1, StageMoves DEF Inv, CallerTypes, Stages, Idle
<1>5. CarriesItsRun'
  BY <1>1 DEF Inv, CallerTypes, CarriesItsRun, RunIs, CurrentOf, Goto
<1>6. RunsAreOwn'
  BY <1>1 DEF Inv, CallerTypes, RunsAreOwn
<1>7. \A d \in Callers : stage'[d] \in {"running", "succeeded"} =>
        stage[d] \in {"running", "succeeded"} /\ run'[d] = run[d]
  BY <1>1 DEF Inv, CallerTypes, Goto
<1> QED
  BY <1>1, <1>2, <1>3, <1>4, <1>5, <1>6, <1>7, StoreStepsOK

(* The store survives a restart, and everything that could still be on its *)
(* way into it does not.                                                   *)
LEMMA RestartStep == Inv /\ Restart => Inv'
<1> SUFFICES ASSUME Inv, Restart PROVE Inv'
  OBVIOUS
<1>1. /\ active' = {} /\ attempted' = {} /\ now' = now
      /\ last' = [k \in Connections |-> 0] /\ failures' = [k \in Connections |-> 0]
      /\ stage' = StageAtStart /\ plan' = [c \in Callers |-> <<>>]
      /\ run' = [c \in Callers |-> 0] /\ counted' = [c \in Callers |-> 0]
      /\ read' = [c \in Callers |-> NoView] /\ view' = NoView
      /\ UNCHANGED <<store, history>>
  BY DEF Restart
<1>2. ClockTypes'
  BY <1>1 DEF Inv, ClockTypes
<1>3. RowTypes'
  <2>1. NoView \in [Connections -> Rows]
    BY EmptyRowsAreRows DEF Inv, RowTypes
  <2> QED
    BY <1>1, <2>1 DEF Inv, RowTypes, Rows
<1>4. CallerTypes'
  <2>1. 0 \in 0..Len(history')
    BY <1>1 DEF Inv, RowTypes
  <2> QED
    BY <1>1, <2>1 DEF CallerTypes, StageAtStart, Stages, Idle
<1>5. CarriesItsRun' /\ RunsAreOwn'
  BY <1>1 DEF StageAtStart, CarriesItsRun, RunsAreOwn
<1>6. \A d \in Callers : stage'[d] \in {"running", "succeeded"} =>
        stage[d] \in {"running", "succeeded"} /\ run'[d] = run[d]
  BY <1>1 DEF StageAtStart
<1> QED
  BY <1>1, <1>2, <1>3, <1>4, <1>5, <1>6, StoreStepsOK

(* Time passes for nobody in particular.                                   *)
LEMMA TickStep == Inv /\ (Tick \/ UNCHANGED allVars) => Inv'
<1> SUFFICES ASSUME Inv, Tick \/ UNCHANGED allVars PROVE Inv'
  OBVIOUS
<1>1. /\ now' = now \/ now' = now + 1
      /\ UNCHANGED <<active, attempted, last, failures, callerVars, store, view, history>>
  BY DEF Tick, Advance, allVars, vars
<1>2. ClockTypes'
  BY <1>1 DEF Inv, ClockTypes
<1>3. RowTypes' /\ CallerTypes'
  BY <1>1 DEF Inv, RowTypes, CallerTypes, Rows, callerVars
<1>4. CarriesItsRun' /\ RunsAreOwn'
  BY <1>1 DEF Inv, CarriesItsRun, RunIs, CurrentOf, RunsAreOwn, callerVars
<1>5. \A d \in Callers : stage'[d] \in {"running", "succeeded"} =>
        stage[d] \in {"running", "succeeded"} /\ run'[d] = run[d]
  BY <1>1 DEF callerVars
<1> QED
  BY <1>1, <1>2, <1>3, <1>4, <1>5, StoreStepsOK

(* Every step keeps the invariant.                                         *)
LEMMA InvStep == Inv /\ [CNext]_allVars => Inv'
<1> SUFFICES ASSUME Inv, [CNext]_allVars PROVE Inv'
  OBVIOUS
<1>1. CASE StartPass
  <2>1. Schedule \in Callers /\ Pass \in Seq(Connections) /\ Pass # <<>>
    BY PassAssumption DEF Callers
  <2> QED
    BY <1>1, <2>1, StagesFor, AskStep DEF StartPass, Idle
<1>2. ASSUME NEW c \in Requesters, NEW asked \in Requests, Request(c, asked) PROVE Inv'
  <2>1. c \in Callers /\ asked \in Seq(Connections) /\ asked # <<>>
    BY PassAssumption DEF Callers
  <2> QED
    BY <1>2, <2>1, StagesFor, AskStep DEF Request, Idle
<1>7. ASSUME NEW c \in Requesters, NEW k \in LookedUp, Notified(c, k) PROVE Inv'
  <2>1. c \in Callers /\ <<k>> \in Seq(Connections) /\ <<k>> # <<>>
    BY PassAssumption DEF Callers
  <2> QED
    BY <1>7, <2>1, AskStep DEF Notified
<1>8. CASE StartUp
  BY <1>8, StartUpStep
<1>3. ASSUME NEW c \in Requesters, Disconnect(c) PROVE Inv'
  BY <1>3, DisconnectStep DEF Callers
<1>4. ASSUME NEW c \in Callers, CallerStep(c) PROVE Inv'
  BY <1>4, StageOnlyStep, FindsNothingStep, RunStartsStep, RunEndsStep, NothingSavedStep, SaveSuccessStep, ReadFailuresStep,
     SaveFailureStep, PublishReadStep, PublishSendStep
     DEF CallerStep
<1>5. CASE Tick \/ UNCHANGED allVars
  BY <1>5, TickStep
<1>6. CASE Restart
  BY <1>6, RestartStep
<1> QED
  BY <1>1, <1>2, <1>3, <1>4, <1>5, <1>6, <1>7, <1>8 DEF CNext

-------------------------------------------------------------------------------
(* Theorems.                                                               *)

(* What every run of callers, restarts and publishers keeps.               *)
THEOREM InductiveInvariant == CSpec => []Inv
  BY InvInit, InvStep, PTL DEF CSpec

(* Every variable keeps its type.                                          *)
THEOREM TypeCorrect == CSpec => []TypeOK
<1>1. Inv => TypeOK
  BY TypesAreTypes DEF Inv
<1> QED
  BY <1>1, InductiveInvariant, PTL

(* Whatever order callers save in, whoever is cancelled, whichever look-ups*)
(* miss and however often the service restarts: a stored reading is that of*)
(* a run of the same connection that succeeded, and a stored verdict is how*)
(* its attempt ended, with or without a run.                               *)
THEOREM StoreIsTrue == CSpec => []StoreTellsTheAttempt
<1>1. Inv => StoreTellsTheAttempt
  BY DEF Inv
<1> QED
  BY <1>1, InductiveInvariant, PTL

(* One step: SaveFailure keeps the reading of the row it writes, and       *)
(* SaveSuccess, the only step that clears a recorded failure, brings a     *)
(* reading no row has had.                                                 *)
LEMMA RowStep ==
  ASSUME Inv, [CNext]_allVars, NEW k \in Connections
  PROVE  /\ store'[k].failed => store'[k].snapshot = store[k].snapshot
         /\ store[k].failed /\ ~store'[k].failed =>
              store'[k].snapshot # store[k].snapshot
<1>1. ASSUME NEW c \in Callers, SaveSuccess(c), CurrentOf(c) = k
      PROVE  store'[k].failed = FALSE /\ store'[k].snapshot # store[k].snapshot
  <2>1. stage[c] = "succeeded" /\ store'[k] = RowAfterSuccess(store[k], run[c])
    BY <1>1 DEF SaveSuccess, Inv, RowTypes
  <2>2. store[k].snapshot # run[c]
    BY <2>1 DEF Inv, UnsavedIsNotCached
  <2> QED
    BY <2>1, <2>2 DEF RowAfterSuccess
<1>2. ASSUME NEW c \in Callers, SaveFailure(c), CurrentOf(c) = k
      PROVE  store'[k].failed = TRUE /\ store'[k].snapshot = store[k].snapshot
  BY <1>2 DEF SaveFailure, RowAfterFailure, Inv, RowTypes, Rows
<1>3. ASSUME NEW c \in Callers, SaveSuccess(c) \/ SaveFailure(c), CurrentOf(c) # k
      PROVE  store'[k] = store[k]
  BY <1>3 DEF SaveSuccess, SaveFailure, Inv, RowTypes
<1>4. CASE store' = store
  BY <1>4
<1>5. ASSUME NEW j \in Connections, Missed(j)
      PROVE  \/ store'[k] = store[k]
             \/ store'[k].failed = TRUE /\ store'[k].snapshot = store[k].snapshot
  <2>1. store \in [Connections -> Rows]
    BY DEF Inv, RowTypes
  <2>2. \/ store' = store
        \/ store' = [store EXCEPT ![j] = RowAfterFailure(store[j], Len(history) + 1, 1)]
    BY <1>5 DEF Missed
  <2>3. \A row \in Rows : /\ RowAfterFailure(row, Len(history) + 1, 1).failed = TRUE
                           /\ RowAfterFailure(row, Len(history) + 1, 1).snapshot = row.snapshot
    BY DEF RowAfterFailure, Rows
  <2> QED
    BY <2>1, <2>2, <2>3
<1>6. ASSUME NEW c \in Callers, FindsNothing(c)
      PROVE  \E j \in Connections : Missed(j)
  BY <1>6, CurrentIsConnection DEF FindsNothing, Inv, Idle
<1>7. \/ store' = store
      \/ \E c \in Callers : SaveSuccess(c) \/ SaveFailure(c)
      \/ \E j \in Connections : Missed(j)
  BY <1>6, PassAssumption
     DEF CNext, StartUp, StartPass, Request, Notified, Ask, Disconnect, CallerStep, Found,
         NothingToUse, RunStarts, RunEnds, CoolDown, ReadFailures, SaveNothing, PublishRead,
         PublishNothing, PublishSend, Tick, Restart, allVars
<1> QED
  BY <1>1, <1>2, <1>3, <1>4, <1>5, <1>7

(* A failed refresh never overwrites the last successful snapshot, and a   *)
(* recorded failure goes away only together with a new reading.            *)
THEOREM ReadingsSurvive == CSpec => ReadingsOutliveFailures
<1>1. Inv /\ [CNext]_allVars =>
        [\A k \in Connections :
           /\ store'[k].failed => store'[k].snapshot = store[k].snapshot
           /\ store[k].failed /\ ~store'[k].failed =>
                store'[k].snapshot # store[k].snapshot]_allVars
  BY RowStep
<1> QED
  BY <1>1, InductiveInvariant, PTL DEF CSpec, ReadingsOutliveFailures
===============================================================================
