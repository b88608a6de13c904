------------------------ MODULE RefreshSchedulerProofs ------------------------
(***************************************************************************)
(* What TLAPS proves of RefreshScheduler for any connections, callers,     *)
(* cooldown and bounds.  Everything rests on one inductive invariant:      *)
(* whoever is past the re-check is the head of its connection's slot.      *)
(***************************************************************************)
EXTENDS RefreshScheduler, TLAPS

(* A caller past the re-check is the holder of its connection's slot.      *)
HoldersAtHead ==
  \A c \in Callers : pc[c] \in Holding => HoldsGate(c)

Inv == TypeOK /\ HoldersAtHead

-------------------------------------------------------------------------------
(* The clock rules.                                                        *)

(* The factors of the backoff are numbers.                                 *)
LEMMA GrowthType == \A e \in 0..10 : 2 ^ e \in Nat
<1> SUFFICES ASSUME NEW e \in 0..10 PROVE 2 ^ e \in Nat
  OBVIOUS
<1>1. \/ e = 0 \/ e = 1 \/ e = 2 \/ e = 3 \/ e = 4 \/ e = 5
      \/ e = 6 \/ e = 7 \/ e = 8 \/ e = 9 \/ e = 10
  OBVIOUS
<1>2. /\ 2 ^ 0 \in Nat /\ 2 ^ 1 \in Nat /\ 2 ^ 2 \in Nat /\ 2 ^ 3 \in Nat
      /\ 2 ^ 4 \in Nat /\ 2 ^ 5 \in Nat /\ 2 ^ 6 \in Nat /\ 2 ^ 7 \in Nat
      /\ 2 ^ 8 \in Nat /\ 2 ^ 9 \in Nat /\ 2 ^ 10 \in Nat
  OBVIOUS
<1> QED
  BY <1>1, <1>2, Zenon

(* The backoff is a number of seconds for every count of failures.         *)
LEMMA BackoffType == \A n \in Nat : Backoff(n) \in Nat
<1> SUFFICES ASSUME NEW n \in Nat, n # 0 PROVE Backoff(n) \in Nat
  BY DEF Backoff
<1>1. Least(n - 1, 10) \in 0..10
  BY DEF Least
<1>2. 2 ^ Least(n - 1, 10) \in Nat
  BY <1>1, GrowthType
<1> QED
  BY <1>2, ConstantsAssumption DEF Backoff, Least

(* The wait after an attempt is a number of clock units, never below the   *)
(* cooldown: what FailuresNeverHastenRetry rests on.                       *)
LEMMA WaitAtLeastCooldown ==
  /\ RequiredWait(0) = Cooldown
  /\ \A n \in Nat : RequiredWait(n) \in Nat /\ RequiredWait(n) >= Cooldown
<1>1. RequiredWait(0) = Cooldown
  BY DEF RequiredWait
<1>2. ASSUME NEW n \in Nat
      PROVE  RequiredWait(n) \in Nat /\ RequiredWait(n) >= Cooldown
  BY BackoffType, ConstantsAssumption DEF RequiredWait, Greatest
<1> QED
  BY <1>1, <1>2

-------------------------------------------------------------------------------
(* Slots.                                                                  *)

(* Who queues up does so behind the first.                                 *)
LEMMA AppendKeepsHead ==
  ASSUME NEW S, NEW s \in Seq(S), NEW x \in S
  PROVE  /\ Append(s, x) \in Seq(S)
         /\ s # <<>> => Append(s, x) # <<>> /\ Head(Append(s, x)) = Head(s)
  OBVIOUS

(* Who leaves a queue from behind leaves its first in place.               *)
LEMMA WithoutKeepsHead ==
  ASSUME NEW S, NEW s \in Seq(S), NEW i \in 1..Len(s)
  PROVE  /\ Without(s, i) \in Seq(S)
         /\ i # 1 => Without(s, i) # <<>> /\ Head(Without(s, i)) = Head(s)
<1>1. SubSeq(s, 1, i - 1) \in Seq(S) /\ SubSeq(s, i + 1, Len(s)) \in Seq(S)
  OBVIOUS
<1>2. Without(s, i) \in Seq(S)
  BY <1>1 DEF Without
<1>3. ASSUME i # 1
      PROVE  Without(s, i) # <<>> /\ Head(Without(s, i)) = Head(s)
  <2>1. /\ Len(SubSeq(s, 1, i - 1)) = i - 1
        /\ SubSeq(s, 1, i - 1)[1] = s[1]
    BY <1>3
  <2>2. /\ Len(Without(s, i)) >= i - 1
        /\ Without(s, i)[1] = s[1]
    <3> DEFINE front == SubSeq(s, 1, i - 1)
               back == SubSeq(s, i + 1, Len(s))
    <3>1. Len(back) \in Nat /\ Len(front) = i - 1 /\ i - 1 >= 1 /\ front[1] = s[1]
      BY <1>1, <1>3, <2>1
    <3>2. front \in Seq(S) /\ back \in Seq(S)
      BY <1>1
    <3> HIDE DEF front, back
    <3>3. Len(front \o back) = Len(front) + Len(back) /\ (front \o back)[1] = front[1]
      BY <3>1, <3>2
    <3> QED
      BY <3>1, <3>3 DEF Without, front, back
  <2>3. Without(s, i) # <<>> /\ s # <<>>
    BY <1>2, <1>3, <2>2
  <2> QED
    BY <1>2, <2>2, <2>3
<1> QED
  BY <1>2, <1>3

-------------------------------------------------------------------------------
(* The inductive invariant.                                                *)

(* At first nobody waits and nobody holds a gate.                          *)
LEMMA InvInit == Init => Inv
  BY ConstantsAssumption
  DEF Init, Inv, TypeOK, HoldersAtHead, Holding, Phases, Outcomes, Results

(* Every step keeps the invariant.                                         *)
LEMMA InvStep == Inv /\ [Next]_vars => Inv'
<1> SUFFICES ASSUME Inv, [Next]_vars PROVE Inv'
  OBVIOUS
<1> USE DEF Inv
<1>1. ASSUME NEW c \in Callers, NEW k \in Connections, NEW force \in BOOLEAN,
             Call(c, k, force)
      PROVE  Inv'
  <2>1. TypeOK'
    BY <1>1 DEF Call, TypeOK, Phases, Jobs, attemptState
  <2>2. HoldersAtHead'
    BY <1>1 DEF Call, TypeOK, HoldersAtHead, Holding, HoldsGate, KeyOf
  <2> QED
    BY <2>1, <2>2
<1>2. ASSUME NEW c \in Callers, FastPath(c) PROVE Inv'
  <2>1. TypeOK'
    BY <1>2 DEF FastPath, ReturnTo, TypeOK, Phases, Outcomes, Jobs, attemptState
  <2>2. HoldersAtHead'
    BY <1>2 DEF FastPath, ReturnTo, TypeOK, HoldersAtHead, Holding, HoldsGate, KeyOf
  <2> QED
    BY <2>1, <2>2
<1>3. ASSUME NEW c \in Callers, JoinSlot(c) PROVE Inv'
  <2>1. KeyOf(c) \in Connections
    BY <1>3 DEF JoinSlot, TypeOK, Jobs, KeyOf
  <2>2. slot' \in [Connections -> Seq(Callers)]
    BY <1>3, <2>1, AppendKeepsHead DEF JoinSlot, TypeOK
  <2>3. TypeOK'
    BY <1>3, <2>2 DEF JoinSlot, TypeOK, Phases, attemptState
  <2>4. ASSUME NEW d \in Callers, pc'[d] \in Holding PROVE HoldsGate(d)'
    <3>1. pc[d] \in Holding /\ HoldsGate(d) /\ KeyOf(d) \in Connections
      BY <1>3, <2>4 DEF JoinSlot, TypeOK, HoldersAtHead, Holding, KeyOf, Jobs
    <3>2. slot[KeyOf(d)] \in Seq(Callers)
      BY <3>1 DEF TypeOK
    <3>3. slot'[KeyOf(d)] = slot[KeyOf(d)] \/ slot'[KeyOf(d)] = Append(slot[KeyOf(d)], c)
      BY <1>3, <3>1 DEF JoinSlot, TypeOK
    <3>4. slot'[KeyOf(d)] # <<>> /\ Head(slot'[KeyOf(d)]) = Head(slot[KeyOf(d)])
      BY <3>1, <3>2, <3>3, AppendKeepsHead DEF HoldsGate
    <3> QED
      BY <1>3, <3>1, <3>4 DEF JoinSlot, HoldsGate, KeyOf
  <2> QED
    BY <2>3, <2>4 DEF HoldersAtHead
<1>4. ASSUME NEW c \in Callers, Recheck(c) PROVE Inv'
  <2>1. KeyOf(c) \in Connections /\ HoldsGate(c)
    BY <1>4 DEF Recheck, TypeOK, Jobs, KeyOf
  <2>2. UNCHANGED slot \/ (ReleaseGate(c) /\ pc'[c] = "returned")
    BY <1>4 DEF Recheck, ReturnTo, TypeOK
  <2>3. slot' \in [Connections -> Seq(Callers)]
    <3>1. CASE UNCHANGED slot
      BY <3>1 DEF TypeOK
    <3>2. CASE ReleaseGate(c)
      BY <2>1, <3>2 DEF HoldsGate, ReleaseGate, TypeOK
    <3> QED
      BY <2>2, <3>1, <3>2
  <2>4. TypeOK'
    BY <1>4, <2>3 DEF Recheck, ReturnTo, TypeOK, Phases, Outcomes, Jobs, attemptState
  <2>5. ASSUME NEW d \in Callers, pc'[d] \in Holding PROVE HoldsGate(d)'
    <3>1. HoldsGate(d) /\ KeyOf(d)' = KeyOf(d)
      BY <1>4, <2>1, <2>5 DEF Recheck, ReturnTo, TypeOK, HoldersAtHead, Holding, KeyOf
    <3>2. slot'[KeyOf(d)] = slot[KeyOf(d)]
      <4>1. CASE UNCHANGED slot
        BY <4>1
      <4>2. CASE ReleaseGate(c) /\ pc'[c] = "returned"
        <5>1. KeyOf(d) # KeyOf(c)
          BY <2>1, <2>5, <3>1, <4>2 DEF HoldsGate, Holding
        <5> QED
          BY <4>2, <5>1 DEF ReleaseGate, TypeOK
      <4> QED
        BY <2>2, <4>1, <4>2
    <3> QED
      BY <3>1, <3>2 DEF HoldsGate
  <2> QED
    BY <2>4, <2>5 DEF HoldersAtHead
<1>5. ASSUME NEW c \in Callers, BeginRun(c) PROVE Inv'
  <2>1. TypeOK'
    BY <1>5 DEF BeginRun, TypeOK, Phases, Jobs, KeyOf
  <2>2. HoldersAtHead'
    BY <1>5 DEF BeginRun, TypeOK, HoldersAtHead, Holding, HoldsGate, KeyOf
  <2> QED
    BY <2>1, <2>2
<1>6. ASSUME NEW c \in Callers, NEW result \in Results, FinishRun(c, result)
      PROVE  Inv'
  <2>1. KeyOf(c) \in Connections /\ HoldsGate(c)
    BY <1>6 DEF FinishRun, TypeOK, Jobs, KeyOf, HoldersAtHead, Holding
  <2>2. slot' \in [Connections -> Seq(Callers)]
    BY <1>6, <2>1 DEF FinishRun, HoldsGate, ReleaseGate, TypeOK
  <2>3. failures' \in [Connections -> Nat]
    BY <1>6, <2>1 DEF FinishRun, CountAfter, TypeOK
  <2>4. TypeOK'
    BY <1>6, <2>1, <2>2, <2>3
    DEF FinishRun, ReturnTo, TypeOK, Phases, Outcomes, Results, Jobs
  <2>5. ASSUME NEW d \in Callers, pc'[d] \in Holding PROVE HoldsGate(d)'
    <3>1. d # c /\ HoldsGate(d)
      BY <1>6, <2>5 DEF FinishRun, ReturnTo, TypeOK, HoldersAtHead, Holding
    <3>2. slot'[KeyOf(d)] = slot[KeyOf(d)]
      BY <1>6, <2>1, <3>1 DEF FinishRun, ReleaseGate, HoldsGate, TypeOK
    <3> QED
      BY <1>6, <3>1, <3>2 DEF FinishRun, HoldsGate, KeyOf
  <2> QED
    BY <2>4, <2>5 DEF HoldersAtHead
<1>7. ASSUME NEW c \in Callers, Return(c) PROVE Inv'
  <2>1. TypeOK'
    BY <1>7 DEF Return, TypeOK, Phases, Outcomes, attemptState
  <2>2. HoldersAtHead'
    BY <1>7 DEF Return, TypeOK, HoldersAtHead, Holding, HoldsGate, KeyOf
  <2> QED
    BY <2>1, <2>2
<1>8. ASSUME NEW c \in Callers, Cancel(c) PROVE Inv'
  <2>1. KeyOf(c) \in Connections /\ slot[KeyOf(c)] \in Seq(Callers)
    BY <1>8 DEF Cancel, TypeOK, Jobs, KeyOf
  <2>2. \/ UNCHANGED slot
        \/ \E i \in 1..Len(slot[KeyOf(c)]) :
             /\ slot[KeyOf(c)][i] = c
             /\ slot' = [slot EXCEPT ![KeyOf(c)] = Without(@, i)]
    BY <1>8 DEF Cancel, LeaveSlot
  <2>3. slot' \in [Connections -> Seq(Callers)]
    <3>1. ASSUME NEW i \in 1..Len(slot[KeyOf(c)])
          PROVE  Without(slot[KeyOf(c)], i) \in Seq(Callers)
      BY <2>1, WithoutKeepsHead
    <3> QED
      BY <2>1, <2>2, <3>1 DEF TypeOK
  <2>4. TypeOK'
    BY <1>8, <2>3 DEF Cancel, TypeOK, Phases, attemptState
  <2>5. ASSUME NEW d \in Callers, pc'[d] \in Holding PROVE HoldsGate(d)'
    <3>1. d # c /\ HoldsGate(d) /\ KeyOf(d)' = KeyOf(d) /\ KeyOf(d) \in Connections
      BY <1>8, <2>5 DEF Cancel, TypeOK, HoldersAtHead, Holding, KeyOf, Jobs
    <3>2. CASE slot'[KeyOf(d)] = slot[KeyOf(d)]
      BY <3>1, <3>2 DEF HoldsGate
    <3>3. CASE slot'[KeyOf(d)] # slot[KeyOf(d)]
      <4>1. PICK i \in 1..Len(slot[KeyOf(c)]) :
                 /\ slot[KeyOf(c)][i] = c
                 /\ slot' = [slot EXCEPT ![KeyOf(c)] = Without(@, i)]
        BY <2>2, <3>3
      <4>2. KeyOf(c) = KeyOf(d) /\ slot'[KeyOf(d)] = Without(slot[KeyOf(d)], i)
        BY <2>1, <3>1, <3>3, <4>1 DEF TypeOK
      <4>3. i # 1
        BY <3>1, <4>1, <4>2 DEF HoldsGate
      <4> QED
        BY <2>1, <3>1, <4>2, <4>3, WithoutKeepsHead DEF HoldsGate
    <3> QED
      BY <3>2, <3>3
  <2> QED
    BY <2>4, <2>5 DEF HoldersAtHead
<1>9. ASSUME NEW k \in Connections, ResetFailures(k) PROVE Inv'
  BY <1>9 DEF ResetFailures, TypeOK, Jobs, HoldersAtHead, HoldsGate, KeyOf
<1>10. CASE OnDateChange
  BY <1>10 DEF OnDateChange, TypeOK, Jobs, HoldersAtHead, HoldsGate, KeyOf
<1>11. CASE Tick
  BY <1>11 DEF Tick, TypeOK, Jobs, HoldersAtHead, HoldsGate, KeyOf, attemptState
<1>12. CASE UNCHANGED vars
  BY <1>12 DEF vars, TypeOK, Jobs, HoldersAtHead, HoldsGate, KeyOf
<1> QED
  BY <1>1, <1>2, <1>3, <1>4, <1>5, <1>6, <1>7, <1>8, <1>9, <1>10, <1>11, <1>12
  DEF Next, Proceed

(* What every run of the scheduler keeps.                                  *)
LEMMA Invariance == Spec => []Inv
  BY InvInit, InvStep, PTL DEF Spec

(* Every variable keeps its type; the gate's invariant is needed for it,   *)
(* because a slot may only be released by its holder.                      *)
THEOREM TypeCorrect == Spec => []TypeOK
<1>1. Inv => TypeOK
  BY DEF Inv
<1> QED
  BY <1>1, Invariance, PTL

(* One in-flight refresh per connection, for any number of connections and *)
(* callers, forced, scheduled or cancelled.                                *)
THEOREM MutualExclusion == Spec => []OneRunPerConnection
<1>1. Inv => OneRunPerConnection
  BY DEF Inv, HoldersAtHead, Holding, HoldsGate, OneRunPerConnection
<1> QED
  BY <1>1, Invariance, PTL

(* However short the backoff, a connection that fails waits out the        *)
(* cooldown like a healthy one.                                            *)
THEOREM NoHastyRetry == Spec => []FailuresNeverHastenRetry
<1>1. Inv => FailuresNeverHastenRetry
  <2> SUFFICES ASSUME Inv, NEW k \in attempted, now < last[k] + Cooldown
               PROVE  ~Eligible(k)
    BY DEF FailuresNeverHastenRetry
  <2>1. now \in Nat /\ last[k] \in Nat /\ failures[k] \in Nat
    BY DEF Inv, TypeOK
  <2>2. RequiredWait(failures[k]) \in Nat /\ RequiredWait(failures[k]) >= Cooldown
    BY <2>1, WaitAtLeastCooldown
  <2> QED
    BY <2>1, <2>2, ConstantsAssumption DEF Eligible
<1> QED
  BY <1>1, Invariance, PTL

-------------------------------------------------------------------------------
(* The check under the gate is still true when the run starts.             *)

(* A caller that has been admitted is not disturbed by another caller's    *)
(* steps: only the gate's holder writes its connection's clocks.           *)
LEMMA AdmittedStep ==
  Inv /\ AdmittedStillEligible /\ [Next]_vars => AdmittedStillEligible'
<1> SUFFICES ASSUME Inv, AdmittedStillEligible, [Next]_vars,
                    NEW d \in Callers, pc'[d] = "admitted"
             PROVE  MayProceed(d)'
  BY DEF AdmittedStillEligible
<1> USE DEF Inv
<1> DEFINE Undisturbed == pc[d] = "admitted" /\ job'[d] = job[d]
<1>1. ASSUME Undisturbed
      PROVE  MayProceed(d) /\ HoldsGate(d) /\ KeyOf(d) \in Connections /\ KeyOf(d)' = KeyOf(d)
  BY <1>1 DEF AdmittedStillEligible, HoldersAtHead, Holding, TypeOK, Jobs, KeyOf
<1>2. ASSUME Undisturbed, UNCHANGED <<now, attempted, last, failures>> PROVE MayProceed(d)'
  BY <1>1, <1>2 DEF MayProceed, Eligible, KeyOf
<1>3. ASSUME NEW c \in Callers, NEW k \in Connections, NEW force \in BOOLEAN,
             Call(c, k, force)
      PROVE  MayProceed(d)'
  <2>1. Undisturbed
    BY <1>3 DEF Call, TypeOK
  <2> QED
    BY <1>2, <1>3, <2>1 DEF Call, attemptState
<1>4. ASSUME NEW c \in Callers, FastPath(c) PROVE MayProceed(d)'
  <2>1. Undisturbed
    BY <1>4 DEF FastPath, ReturnTo, TypeOK
  <2> QED
    BY <1>2, <1>4, <2>1 DEF FastPath, attemptState
<1>5. ASSUME NEW c \in Callers, JoinSlot(c) PROVE MayProceed(d)'
  <2>1. Undisturbed
    BY <1>5 DEF JoinSlot, TypeOK
  <2> QED
    BY <1>2, <1>5, <2>1 DEF JoinSlot, attemptState
<1>6. ASSUME NEW c \in Callers, Recheck(c) PROVE MayProceed(d)'
  <2>1. UNCHANGED <<now, attempted, last, failures, job>>
    BY <1>6 DEF Recheck, attemptState
  <2>2. CASE pc[d] = "admitted"
    BY <1>2, <2>1, <2>2
  <2>3. CASE pc[d] # "admitted"
    <3>1. d = c /\ MayProceed(c)
      BY <1>6, <2>3 DEF Recheck, ReturnTo, TypeOK
    <3> QED
      BY <2>1, <3>1 DEF MayProceed, Eligible, KeyOf
  <2> QED
    BY <2>2, <2>3
<1>7. ASSUME NEW c \in Callers, BeginRun(c) PROVE MayProceed(d)'
  <2>1. Undisturbed /\ d # c
    BY <1>7 DEF BeginRun, TypeOK
  <2>2. KeyOf(c) # KeyOf(d) /\ KeyOf(c) \in Connections
    BY <1>1, <1>7, <2>1 DEF BeginRun, HoldersAtHead, Holding, HoldsGate, TypeOK, Jobs, KeyOf
  <2> QED
    BY <1>1, <1>7, <2>1, <2>2 DEF BeginRun, MayProceed, Eligible, TypeOK, KeyOf
<1>8. ASSUME NEW c \in Callers, NEW result \in Results, FinishRun(c, result)
      PROVE  MayProceed(d)'
  <2>1. Undisturbed /\ d # c
    BY <1>8 DEF FinishRun, ReturnTo, TypeOK
  <2>2. KeyOf(c) # KeyOf(d) /\ KeyOf(c) \in Connections
    BY <1>1, <1>8, <2>1 DEF FinishRun, HoldersAtHead, Holding, HoldsGate, TypeOK, Jobs, KeyOf
  <2> QED
    BY <1>1, <1>8, <2>1, <2>2 DEF FinishRun, MayProceed, Eligible, TypeOK, KeyOf
<1>9. ASSUME NEW c \in Callers, Return(c) PROVE MayProceed(d)'
  <2>1. Undisturbed
    BY <1>9 DEF Return, TypeOK
  <2> QED
    BY <1>2, <1>9, <2>1 DEF Return, attemptState
<1>10. ASSUME NEW c \in Callers, Cancel(c) PROVE MayProceed(d)'
  <2>1. Undisturbed
    BY <1>10 DEF Cancel, TypeOK
  <2> QED
    BY <1>2, <1>10, <2>1 DEF Cancel, attemptState
<1>11. ASSUME NEW k \in Connections, ResetFailures(k) PROVE MayProceed(d)'
  <2>1. Undisturbed
    BY <1>11 DEF ResetFailures
  <2>2. CASE KeyOf(d) # k
    BY <1>1, <1>11, <2>1, <2>2 DEF ResetFailures, MayProceed, Eligible, TypeOK, KeyOf
  <2>3. CASE KeyOf(d) = k /\ ~job[d].force
    <3>1. failures'[k] = 0 /\ last'[k] = last[k] /\ now' = now /\ attempted' = attempted
      BY <1>11 DEF ResetFailures, TypeOK
    <3>2. k \in attempted /\ now >= last[k] + RequiredWait(failures[k])
      BY <1>1, <1>11, <2>1, <2>3 DEF MayProceed, Eligible, ResetFailures
    <3>3. /\ now \in Nat /\ last[k] \in Nat
          /\ RequiredWait(failures[k]) \in Nat
          /\ RequiredWait(failures[k]) >= RequiredWait(0) /\ RequiredWait(0) \in Nat
      BY WaitAtLeastCooldown, ConstantsAssumption DEF TypeOK
    <3>4. now' >= last'[k] + RequiredWait(failures'[k])
      BY <3>1, <3>2, <3>3
    <3> QED
      BY <1>1, <2>1, <2>3, <3>4 DEF MayProceed, Eligible
  <2>4. CASE job[d].force
    BY <2>1, <2>4 DEF MayProceed
  <2> QED
    BY <2>2, <2>3, <2>4
<1>12. CASE OnDateChange
  BY <1>12 DEF OnDateChange, MayProceed, Eligible
<1>13. CASE Tick
  <2>1. Undisturbed
    BY <1>13 DEF Tick
  <2>2. KeyOf(d) \in attempted =>
          now \in Nat /\ last[KeyOf(d)] \in Nat /\ RequiredWait(failures[KeyOf(d)]) \in Nat
    BY <1>1, <2>1, WaitAtLeastCooldown DEF TypeOK
  <2> QED
    BY <1>1, <1>13, <2>1, <2>2 DEF Tick, attemptState, MayProceed, Eligible, KeyOf
<1>14. CASE UNCHANGED vars
  BY <1>2, <1>14 DEF vars
<1> QED
  BY <1>3, <1>4, <1>5, <1>6, <1>7, <1>8, <1>9, <1>10, <1>11, <1>12, <1>13, <1>14
  DEF Next, Proceed

(* The eligibility checked under the gate is never stale when it is used.  *)
THEOREM AdmissionHolds == Spec => []AdmittedStillEligible
<1>1. Init => AdmittedStillEligible
  BY DEF Init, AdmittedStillEligible
<1> QED
  BY <1>1, Invariance, AdmittedStep, PTL DEF Spec

-------------------------------------------------------------------------------
(* RefreshScheduler implements ConnectionRuns.                             *)

(* The connections with a run in flight: `active` of ConnectionRuns.       *)
InFlight == {KeyOf(c) : c \in {d \in Callers : pc[d] = "running"}}

(* An idle scheduler is an idle abstract one.                              *)
LEMMA RefinementInit == Init => Runs!Init
  BY DEF Init, Runs!Init

(* A step that leaves the clocks, the attempts and every running caller    *)
(* alone is invisible.                                                     *)
LEMMA InvisibleStep ==
  ASSUME UNCHANGED <<now, attempted, last, failures>>,
         \A d \in Callers : (pc'[d] = "running") <=> (pc[d] = "running"),
         \A d \in Callers : pc[d] = "running" => KeyOf(d)' = KeyOf(d)
  PROVE  UNCHANGED Runs!vars
<1>1. InFlight' = InFlight
  BY DEF InFlight
<1> QED
  BY <1>1 DEF Runs!vars, InFlight

(* A run is the only one of its connection, so ending it ends the          *)
(* connection's activity.                                                  *)
LEMMA EndOfActivity ==
  ASSUME Inv, NEW c \in Callers, pc[c] = "running",
         \A d \in Callers : (pc'[d] = "running") <=> (pc[d] = "running" /\ d # c),
         \A d \in Callers : pc'[d] = "running" => KeyOf(d)' = KeyOf(d)
  PROVE  InFlight' = InFlight \ {KeyOf(c)}
<1>1. \A d \in Callers : pc[d] = "running" /\ d # c => KeyOf(d) # KeyOf(c)
  BY DEF Inv, HoldersAtHead, Holding, HoldsGate
<1>2. ASSUME NEW k \in InFlight' PROVE k \in InFlight \ {KeyOf(c)}
  BY <1>1, <1>2 DEF InFlight
<1>3. ASSUME NEW k \in InFlight, k # KeyOf(c) PROVE k \in InFlight'
  <2>1. PICK d \in Callers : pc[d] = "running" /\ k = KeyOf(d)
    BY DEF InFlight
  <2>2. pc'[d] = "running" /\ KeyOf(d)' = k
    BY <1>3, <2>1
  <2> QED
    BY <2>2 DEF InFlight
<1> QED
  BY <1>2, <1>3

(* Every step of the scheduler is one of ConnectionRuns, or none.          *)
LEMMA RefinementStep ==
  Inv /\ AdmittedStillEligible /\ [Next]_vars => [Runs!Next]_(Runs!vars)
<1> SUFFICES ASSUME Inv, AdmittedStillEligible, [Next]_vars
             PROVE  Runs!Next \/ UNCHANGED Runs!vars
  OBVIOUS
<1> USE DEF Inv
<1>1. ASSUME NEW c \in Callers, NEW k \in Connections, NEW force \in BOOLEAN,
             Call(c, k, force)
      PROVE  UNCHANGED Runs!vars
  BY <1>1, InvisibleStep DEF Call, TypeOK, attemptState, KeyOf
<1>2. ASSUME NEW c \in Callers, FastPath(c) PROVE UNCHANGED Runs!vars
  BY <1>2, InvisibleStep DEF FastPath, ReturnTo, TypeOK, attemptState, KeyOf
<1>3. ASSUME NEW c \in Callers, JoinSlot(c) PROVE UNCHANGED Runs!vars
  BY <1>3, InvisibleStep DEF JoinSlot, TypeOK, attemptState, KeyOf
<1>4. ASSUME NEW c \in Callers, Recheck(c) PROVE UNCHANGED Runs!vars
  BY <1>4, InvisibleStep DEF Recheck, ReturnTo, TypeOK, attemptState, KeyOf
<1>5. ASSUME NEW c \in Callers, BeginRun(c) PROVE Runs!Next
  <2>1. PICK k \in Connections, forced \in BOOLEAN : KeyOf(c) = k /\ job[c].force = forced
    BY <1>5 DEF BeginRun, TypeOK, Jobs, KeyOf
  <2>2. forced \/ Eligible(k)
    BY <1>5, <2>1 DEF BeginRun, AdmittedStillEligible, MayProceed
  <2>3. k \notin InFlight
    BY <1>5, <2>1 DEF BeginRun, InFlight, HoldersAtHead, Holding, HoldsGate
  <2>4. InFlight' = InFlight \union {k}
    BY <1>5, <2>1 DEF BeginRun, InFlight, TypeOK, KeyOf
  <2>5. Runs!Start(k, forced)
    BY <1>5, <2>1, <2>2, <2>3, <2>4 DEF BeginRun, Runs!Start, Runs!Eligible, Eligible, InFlight
  <2> QED
    BY <2>5 DEF Runs!Next
<1>6. ASSUME NEW c \in Callers, NEW result \in Results, FinishRun(c, result)
      PROVE  Runs!Next
  <2> DEFINE k == KeyOf(c)
  <2>1. k \in Connections /\ k \in InFlight
    BY <1>6 DEF FinishRun, TypeOK, Jobs, KeyOf, InFlight
  <2>2. InFlight' = InFlight \ {k}
    BY <1>6, EndOfActivity DEF FinishRun, ReturnTo, TypeOK, KeyOf
  <2>3. Runs!End(k, result = "success")
    BY <1>6, <2>1, <2>2 DEF FinishRun, CountAfter, Runs!End, InFlight
  <2> QED
    BY <2>1, <2>3 DEF Runs!Next
<1>7. ASSUME NEW c \in Callers, Return(c) PROVE UNCHANGED Runs!vars
  BY <1>7, InvisibleStep DEF Return, TypeOK, attemptState, KeyOf
<1>8. ASSUME NEW c \in Callers, Cancel(c) PROVE Runs!Next \/ UNCHANGED Runs!vars
  <2>1. CASE pc[c] = "running"
    <3>1. PICK k \in Connections : KeyOf(c) = k
      BY <2>1 DEF TypeOK, Jobs, KeyOf
    <3>2. k \in InFlight
      BY <2>1, <3>1 DEF InFlight
    <3>3. InFlight' = InFlight \ {k}
      <4>1. /\ \A d \in Callers : (pc'[d] = "running") <=> (pc[d] = "running" /\ d # c)
            /\ \A d \in Callers : pc'[d] = "running" => KeyOf(d)' = KeyOf(d)
        BY <1>8, <2>1 DEF Cancel, TypeOK, KeyOf
      <4> QED
        BY <2>1, <3>1, <4>1, EndOfActivity
    <3>4. Runs!Abandon(k)
      BY <1>8, <3>2, <3>3 DEF Cancel, attemptState, Runs!Abandon, InFlight
    <3> QED
      BY <3>4 DEF Runs!Next
  <2>2. CASE pc[c] # "running"
    BY <1>8, <2>2, InvisibleStep DEF Cancel, TypeOK, attemptState, KeyOf
  <2> QED
    BY <2>1, <2>2
<1>9. ASSUME NEW k \in Connections, ResetFailures(k) PROVE Runs!Next
  <2>1. Runs!ForgetFailures(k)
    BY <1>9 DEF ResetFailures, Runs!ForgetFailures, KeyOf
  <2> QED
    BY <2>1 DEF Runs!Next
<1>10. CASE OnDateChange
  <2>1. Runs!ForgetAll
    BY <1>10 DEF OnDateChange, Runs!ForgetAll, KeyOf
  <2> QED
    BY <2>1 DEF Runs!Next
<1>11. CASE Tick
  <2>1. Runs!Advance
    BY <1>11 DEF Tick, Runs!Advance, TypeOK, attemptState, KeyOf
  <2> QED
    BY <2>1 DEF Runs!Next
<1>12. CASE UNCHANGED vars
  BY <1>12, InvisibleStep DEF vars, KeyOf
<1> QED
  BY <1>1, <1>2, <1>3, <1>4, <1>5, <1>6, <1>7, <1>8, <1>9, <1>10, <1>11, <1>12
  DEF Next, Proceed

(* The scheduler implements ConnectionRuns: its runs, their starts and the *)
(* verdicts it counts are those of the abstract specification.             *)
THEOREM Implementation == Spec => ImplementsConnectionRuns
<1>1. Spec => [](Inv /\ AdmittedStillEligible)
  BY Invariance, AdmissionHolds, PTL
<1> QED
  BY <1>1, RefinementInit, RefinementStep, PTL
  DEF Spec, ImplementsConnectionRuns, Runs!Spec

===============================================================================
