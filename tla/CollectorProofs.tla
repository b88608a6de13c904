---------------------------- MODULE CollectorProofs ----------------------------
(***************************************************************************)
(* What TLAPS proves of the collectors: which one a run gets (CodexSlot)   *)
(* and what it makes of an answer (Readings), for any paths, requesters,   *)
(* zones, answers and bounds.                                              *)
(*                                                                         *)
(* The slot: its mutex is held from the moment the old collector is taken  *)
(* out until the look-up is over, and the slot is empty for that long.  So *)
(* no caller can find a half-replaced slot, and one that is cancelled      *)
(* half-way leaves an empty slot, never a wrong one.                       *)
(*                                                                         *)
(* The readings: a key is written only by the validation that saw it       *)
(* accepted; a range of a day starts and ends with the day because the     *)
(* first instant that reads at or after midnight is the first of the day;  *)
(* and an outcome without a failure has passed every check, so the metrics *)
(* of each part of the answer are there, and their numbers are compared    *)
(* with what that part states.                                             *)
(***************************************************************************)
EXTENDS CodexSlot, Readings, WellFoundedInduction, FiniteSetTheorems, TLAPS

-------------------------------------------------------------------------------
(* The slot of the Codex collector.                                        *)

(* Whoever replaces the collector holds the slot's mutex, over a slot it   *)
(* has emptied.                                                            *)
ReplacerHoldsEmptySlot ==
  \A c \in Callers : call[c].at \in {"closing", "looking"} => lock = c /\ current = 0

(* The look-up is for the path the slot says it has resolved.              *)
LooksForResolved ==
  \A c \in Callers : At(c, "looking") => resolved = call[c].path

(* A resolver knows the path it asked with until it returns.               *)
ResolversHavePath ==
  \A c \in Resolvers : call[c].at # "idle" => call[c].path \in Paths

(* A notification comes with its collector: it never asks for the slot.    *)
NotifierNeverAsks ==
  call[Notifier].at \in {"idle", "ready", "running", "succeeded", "failed"}

(* Whoever collects, or is about to, has a collector.                      *)
CollectingHoldsOne ==
  \A c \in Callers : call[c].at \in {"fresh", "ready", "running"} => call[c].codex # 0

Inv ==
  /\ TypeOK
  /\ ReplacerHoldsEmptySlot
  /\ LooksForResolved
  /\ ResolversHavePath
  /\ NotifierNeverAsks
  /\ CollectingHoldsOne
  /\ SlotAnswersItsPath
  /\ EveryCollectorNotifies

-------------------------------------------------------------------------------
(* Building a collector numbers it after the others and keeps the program  *)
(* of every earlier one.                                                   *)
LEMMA BuildKeepsPrograms ==
  ASSUME NEW built \in Seq(Paths), NEW p \in Paths
  PROVE  /\ Append(built, p) \in Seq(Paths)
         /\ Len(Append(built, p)) = Len(built) + 1
         /\ Append(built, p)[Len(built) + 1] = p
         /\ \A n \in 1..Len(built) : Append(built, p)[n] = built[n]
  OBVIOUS

(* A caller that moves on keeps its record the record of a caller.         *)
Calls == [at : Stages, path : Paths \union {"none"}, codex : 0..Len(program)]

(* A caller that goes to another stage stays a caller.                     *)
LEMMA MovingKeepsType ==
  ASSUME call \in [Callers -> Calls], NEW c \in Callers, NEW s \in Stages,
         NEW n \in 0..Len(program)
  PROVE  /\ Goto(c, s) => call' \in [Callers -> Calls]
         /\ GotoWith(c, s, n) => call' \in [Callers -> Calls]
  BY DEF Goto, GotoWith, Calls

(* The collector someone collects with is one of those that were built.    *)
LEMMA HeldCollectorIsBuilt ==
  ASSUME TypeOK, CollectingHoldsOne, NEW c \in Callers,
         call[c].at \in {"fresh", "ready", "running"}
  PROVE  call[c].codex \in 1..Len(program)
<1>1. call[c].codex \in 0..Len(program) /\ call[c].codex # 0
  BY DEF TypeOK, CollectingHoldsOne
<1>2. Len(program) \in Nat
  OBVIOUS
<1> QED
  BY <1>1, <1>2

(* At first the slot is empty and nobody is looking.                       *)
LEMMA InvInit == Init => Inv
<1> SUFFICES ASSUME Init PROVE Inv
  OBVIOUS
<1>1. \A c \in Callers : call[c] = Idle
  BY DEF Init
<1>2. TypeOK
  <2>1. Len(program) = 0 /\ program \in Seq(Paths)
    BY DEF Init
  <2>2. call \in [Callers -> [at : Stages, path : Paths \union {"none"}, codex : 0..Len(program)]]
    BY <2>1 DEF Init, Idle, Stages
  <2>3. changes \in 0..MaxChanges /\ current \in 0..Len(program)
    BY <2>1, CallersAssumption DEF Init
  <2>4. /\ lock \in Resolvers \union {Nobody} /\ gate \in Callers \union {Nobody}
        /\ setting \in Paths /\ resolved \in Paths \union {"never"}
        /\ wired \subseteq 1..Len(program) /\ sessions \subseteq 1..Len(program)
    BY DEF Init
  <2>5. failing \in BOOLEAN
    BY DEF Init
  <2> QED
    BY <2>1, <2>2, <2>3, <2>4, <2>5 DEF TypeOK
<1>3. /\ ReplacerHoldsEmptySlot /\ LooksForResolved /\ ResolversHavePath
      /\ NotifierNeverAsks /\ CollectingHoldsOne
  BY <1>1
    DEF Idle, At, Callers, ReplacerHoldsEmptySlot, LooksForResolved,
        ResolversHavePath, NotifierNeverAsks, CollectingHoldsOne
<1>4. SlotAnswersItsPath /\ EveryCollectorNotifies
  BY <1>1 DEF Init, Idle, Callers, SlotAnswersItsPath, EveryCollectorNotifies
<1> QED
  BY <1>2, <1>3, <1>4 DEF Inv

(* Every step keeps the invariant.                                         *)
LEMMA InvStep == Inv /\ [Next]_vars => Inv'
<1> SUFFICES ASSUME Inv, [Next]_vars PROVE Inv'
  OBVIOUS
<1> USE DEF Inv
<1>1. ASSUME NEW p \in Paths, ChangePath(p) PROVE Inv'
  <2>1. TypeOK'
    BY <1>1, CallersAssumption DEF ChangePath, slotVars, TypeOK
  <2>2. /\ ReplacerHoldsEmptySlot' /\ LooksForResolved' /\ ResolversHavePath'
        /\ NotifierNeverAsks' /\ CollectingHoldsOne'
        /\ SlotAnswersItsPath' /\ EveryCollectorNotifies'
    BY <1>1
      DEF ChangePath, slotVars, At, ReplacerHoldsEmptySlot, LooksForResolved,
          ResolversHavePath, NotifierNeverAsks, CollectingHoldsOne,
          SlotAnswersItsPath, EveryCollectorNotifies
  <2> QED
    BY <2>1, <2>2
<1>2. ASSUME NEW c \in Resolvers, ReadPath(c) PROVE Inv'
  <2>1. TypeOK'
    BY <1>2 DEF ReadPath, settingVars, slotVars, TypeOK, Stages, Callers
  <2>2. ReplacerHoldsEmptySlot'
    BY <1>2 DEF ReadPath, slotVars, ReplacerHoldsEmptySlot
  <2>3. LooksForResolved'
    BY <1>2 DEF ReadPath, slotVars, At, LooksForResolved
  <2>4. ResolversHavePath'
    BY <1>2 DEF ReadPath, TypeOK, ResolversHavePath
  <2>5. NotifierNeverAsks'
    BY <1>2, CallersAssumption DEF ReadPath, NotifierNeverAsks
  <2>6. CollectingHoldsOne'
    BY <1>2 DEF ReadPath, CollectingHoldsOne
  <2>7. SlotAnswersItsPath'
    BY <1>2 DEF ReadPath, slotVars, SlotAnswersItsPath
  <2>8. EveryCollectorNotifies'
    BY <1>2 DEF ReadPath, slotVars, At, EveryCollectorNotifies
  <2> QED
    BY <2>1, <2>2, <2>3, <2>4, <2>5, <2>6, <2>7, <2>8
<1>3. ASSUME NEW c \in Requesters, Cancel(c) PROVE Inv'
  <2>1. TypeOK'
    BY <1>3
      DEF Cancel, Release, Return, Idle, settingVars, TypeOK, Stages, Resolvers,
          Callers
  <2>2. ReplacerHoldsEmptySlot'
    BY <1>3 DEF Cancel, Release, Return, Idle, TypeOK, ReplacerHoldsEmptySlot
  <2>3. LooksForResolved'
    BY <1>3 DEF Cancel, Return, Idle, At, LooksForResolved
  <2>4. ResolversHavePath'
    BY <1>3 DEF Cancel, Return, Idle, ResolversHavePath
  <2>5. NotifierNeverAsks'
    BY <1>3 DEF Cancel, Return, Idle, NotifierNeverAsks
  <2>6. CollectingHoldsOne'
    BY <1>3 DEF Cancel, Return, Idle, CollectingHoldsOne
  <2>7. SlotAnswersItsPath'
    BY <1>3 DEF Cancel, Return, Idle, SlotAnswersItsPath
  <2>8. EveryCollectorNotifies'
    BY <1>3 DEF Cancel, Cancellable, Return, At, EveryCollectorNotifies
  <2> QED
    BY <2>1, <2>2, <2>3, <2>4, <2>5, <2>6, <2>7, <2>8
<1>4. ASSUME NEW c \in Callers, Reuse(c) PROVE Inv'
  <2>1. TypeOK'
    BY <1>4
      DEF Reuse, Return, Idle, GotoWith, settingVars, slotVars, TypeOK, Stages,
          Callers
  <2>2. ReplacerHoldsEmptySlot'
    BY <1>4, CallersAssumption
      DEF Reuse, Return, Idle, GotoWith, TypeOK, Callers, ReplacerHoldsEmptySlot,
          NotifierNeverAsks, EveryCollectorNotifies
  <2>3. LooksForResolved'
    BY <1>4
      DEF Reuse, LookAgain, Return, Idle, GotoWith, settingVars, slotVars, TypeOK,
          At, Resolvers, LooksForResolved, ResolversHavePath,
          EveryCollectorNotifies
  <2>4. ResolversHavePath'
    BY <1>4, CallersAssumption
      DEF Reuse, LookAgain, Return, Idle, GotoWith, settingVars, slotVars, TypeOK,
          Resolvers, Callers, ReplacerHoldsEmptySlot, ResolversHavePath,
          NotifierNeverAsks, CollectingHoldsOne, SlotAnswersItsPath,
          EveryCollectorNotifies
  <2>5. NotifierNeverAsks'
    BY <1>4 DEF Reuse, Return, Idle, GotoWith, TypeOK, Callers, NotifierNeverAsks
  <2>6. CollectingHoldsOne'
    BY <1>4 DEF Reuse, Return, Idle, GotoWith, TypeOK, Callers, CollectingHoldsOne
  <2>7. SlotAnswersItsPath'
    BY <1>4
      DEF Reuse, LookAgain, Return, Idle, GotoWith, slotVars, TypeOK, Callers,
          ReplacerHoldsEmptySlot, LooksForResolved, CollectingHoldsOne,
          SlotAnswersItsPath
  <2>8. EveryCollectorNotifies'
    BY <1>4
      DEF Reuse, GotoWith, slotVars, TypeOK, At, Callers, EveryCollectorNotifies
  <2> QED
    BY <2>1, <2>2, <2>3, <2>4, <2>5, <2>6, <2>7, <2>8
<1>5. ASSUME NEW c \in Callers, TakeOld(c) PROVE Inv'
  <2>1. TypeOK'
    <3>1. GotoWith(c, "closing", current) /\ UNCHANGED program
      BY <1>5 DEF TakeOld
    <3>2. call' \in [Callers -> Calls]
      BY <3>1, MovingKeepsType DEF TypeOK, Calls, Stages
    <3> QED
      BY <1>5, <3>1, <3>2
        DEF TakeOld, settingVars, TypeOK, Calls, At, Callers, NotifierNeverAsks
  <2>2. ReplacerHoldsEmptySlot'
    BY <1>5, CallersAssumption
      DEF TakeOld, GotoWith, TypeOK, ReplacerHoldsEmptySlot
  <2>3. LooksForResolved'
    BY <1>5 DEF TakeOld, GotoWith, TypeOK, At, LooksForResolved
  <2>4. ResolversHavePath'
    BY <1>5 DEF TakeOld, GotoWith, TypeOK, At, Callers, ResolversHavePath
  <2>5. NotifierNeverAsks'
    BY <1>5 DEF TakeOld, GotoWith, TypeOK, At, Callers, NotifierNeverAsks
  <2>6. CollectingHoldsOne'
    BY <1>5 DEF TakeOld, GotoWith, TypeOK, CollectingHoldsOne
  <2>7. SlotAnswersItsPath'
    BY <1>5 DEF TakeOld, GotoWith, TypeOK, Callers, SlotAnswersItsPath
  <2>8. EveryCollectorNotifies'
    BY <1>5 DEF TakeOld, EveryCollectorNotifies
  <2> QED
    BY <2>1, <2>2, <2>3, <2>4, <2>5, <2>6, <2>7, <2>8
<1>6. ASSUME NEW c \in Callers, CloseOld(c) PROVE Inv'
  <2>1. TypeOK'
    <3>1. GotoWith(c, "looking", 0) /\ UNCHANGED program
      BY <1>6 DEF CloseOld
    <3>2. call' \in [Callers -> Calls]
      BY <3>1, MovingKeepsType DEF TypeOK, Calls, Stages
    <3>3. resolved' \in Paths
      BY <1>6 DEF CloseOld, At, Callers, NotifierNeverAsks, ResolversHavePath
    <3> QED
      BY <1>6, <3>1, <3>2, <3>3 DEF CloseOld, settingVars, TypeOK, Calls
  <2>2. ReplacerHoldsEmptySlot'
    BY <1>6 DEF CloseOld, GotoWith, TypeOK, At, ReplacerHoldsEmptySlot
  <2>3. LooksForResolved'
    BY <1>6
      DEF CloseOld, GotoWith, TypeOK, At, ReplacerHoldsEmptySlot, LooksForResolved
  <2>4. ResolversHavePath'
    BY <1>6 DEF CloseOld, GotoWith, TypeOK, At, Callers, ResolversHavePath
  <2>5. NotifierNeverAsks'
    BY <1>6 DEF CloseOld, GotoWith, TypeOK, At, Callers, NotifierNeverAsks
  <2>6. CollectingHoldsOne'
    BY <1>6 DEF CloseOld, GotoWith, TypeOK, CollectingHoldsOne
  <2>7. SlotAnswersItsPath'
    BY <1>6
      DEF CloseOld, GotoWith, TypeOK, At, Callers, ReplacerHoldsEmptySlot,
          SlotAnswersItsPath
  <2>8. EveryCollectorNotifies'
    BY <1>6 DEF CloseOld, GotoWith, TypeOK, At, Callers, EveryCollectorNotifies
  <2> QED
    BY <2>1, <2>2, <2>3, <2>4, <2>5, <2>6, <2>7, <2>8
<1>7. ASSUME NEW c \in Callers, Discovered(c) PROVE Inv'
  <2>1. TypeOK'
    BY <1>7 DEF Discovered, GotoWith, TypeOK
  <2>2. ReplacerHoldsEmptySlot'
    BY <1>7 DEF Discovered, GotoWith, TypeOK
  <2>3. LooksForResolved'
    BY <1>7 DEF Discovered, GotoWith, TypeOK
  <2>4. ResolversHavePath'
    BY <1>7 DEF Discovered, GotoWith, TypeOK
  <2>5. NotifierNeverAsks'
    BY <1>7 DEF Discovered, GotoWith, TypeOK
  <2>6. CollectingHoldsOne'
    BY <1>7 DEF Discovered, GotoWith, TypeOK
  <2>7. SlotAnswersItsPath'
    BY <1>7 DEF Discovered, GotoWith, TypeOK
  <2>8. EveryCollectorNotifies'
    BY <1>7 DEF Discovered, GotoWith, TypeOK
  <2> QED
    BY <2>1, <2>2, <2>3, <2>4, <2>5, <2>6, <2>7, <2>8
<1>8. ASSUME NEW c \in Callers, NotDiscovered(c) PROVE Inv'
  <2>1. TypeOK'
    BY <1>8 DEF NotDiscovered, Goto, settingVars, TypeOK, Stages, Callers
  <2>2. ReplacerHoldsEmptySlot'
    BY <1>8 DEF NotDiscovered, Goto, TypeOK, At, ReplacerHoldsEmptySlot
  <2>3. LooksForResolved'
    BY <1>8 DEF NotDiscovered, Goto, At, LooksForResolved
  <2>4. ResolversHavePath'
    BY <1>8 DEF NotDiscovered, Goto, At, ResolversHavePath
  <2>5. NotifierNeverAsks'
    BY <1>8 DEF NotDiscovered, Goto, At, NotifierNeverAsks
  <2>6. CollectingHoldsOne'
    BY <1>8 DEF NotDiscovered, Goto, CollectingHoldsOne
  <2>7. SlotAnswersItsPath'
    BY <1>8 DEF NotDiscovered, Goto, SlotAnswersItsPath
  <2>8. EveryCollectorNotifies'
    BY <1>8 DEF NotDiscovered, Goto, At, EveryCollectorNotifies
  <2> QED
    BY <2>1, <2>2, <2>3, <2>4, <2>5, <2>6, <2>7, <2>8
<1>9. ASSUME NEW c \in Callers, Wire(c) PROVE Inv'
  <2>1. TypeOK'
    <3>1. Goto(c, "ready") /\ UNCHANGED program
      BY <1>9 DEF Wire
    <3>2. call' \in [Callers -> Calls]
      BY <3>1, MovingKeepsType DEF TypeOK, Calls, Stages
    <3> QED
      BY <1>9, <3>1, <3>2, HeldCollectorIsBuilt
        DEF Wire, settingVars, TypeOK, Calls, At
  <2>2. ReplacerHoldsEmptySlot'
    BY <1>9 DEF Wire, Goto, ReplacerHoldsEmptySlot
  <2>3. LooksForResolved'
    BY <1>9 DEF Wire, Goto, At, LooksForResolved
  <2>4. ResolversHavePath'
    BY <1>9 DEF Wire, Goto, At, ResolversHavePath
  <2>5. NotifierNeverAsks'
    BY <1>9 DEF Wire, Goto, NotifierNeverAsks
  <2>6. CollectingHoldsOne'
    BY <1>9 DEF Wire, Goto, At, CollectingHoldsOne
  <2>7. SlotAnswersItsPath'
    BY <1>9 DEF Wire, Goto, At, SlotAnswersItsPath
  <2>8. EveryCollectorNotifies'
    BY <1>9 DEF Wire, Goto, At, EveryCollectorNotifies
  <2> QED
    BY <2>1, <2>2, <2>3, <2>4, <2>5, <2>6, <2>7, <2>8
<1>10. ASSUME NEW c \in Callers, SaveMiss(c) PROVE Inv'
  <2>1. TypeOK'
    BY <1>10 DEF SaveMiss, Return, Idle, settingVars, slotVars, TypeOK, Stages
  <2>2. ReplacerHoldsEmptySlot'
    BY <1>10 DEF SaveMiss, Return, Idle, slotVars, ReplacerHoldsEmptySlot
  <2>3. LooksForResolved'
    BY <1>10 DEF SaveMiss, Return, Idle, slotVars, At, LooksForResolved
  <2>4. ResolversHavePath'
    BY <1>10 DEF SaveMiss, Return, Idle, ResolversHavePath
  <2>5. NotifierNeverAsks'
    BY <1>10 DEF SaveMiss, Return, Idle, NotifierNeverAsks
  <2>6. CollectingHoldsOne'
    BY <1>10 DEF SaveMiss, Return, Idle, CollectingHoldsOne
  <2>7. SlotAnswersItsPath'
    BY <1>10 DEF SaveMiss, Return, Idle, slotVars, SlotAnswersItsPath
  <2>8. EveryCollectorNotifies'
    BY <1>10 DEF SaveMiss, Return, slotVars, At, EveryCollectorNotifies
  <2> QED
    BY <2>1, <2>2, <2>3, <2>4, <2>5, <2>6, <2>7, <2>8
<1>11. ASSUME NEW c \in Callers, RunStarts(c) PROVE Inv'
  <2>1. TypeOK'
    BY <1>11
      DEF RunStarts, Goto, settingVars, slotVars, TypeOK, Stages, At, Resolvers,
          Callers
  <2>2. ReplacerHoldsEmptySlot'
    BY <1>11 DEF RunStarts, Goto, slotVars, ReplacerHoldsEmptySlot
  <2>3. LooksForResolved'
    BY <1>11 DEF RunStarts, Goto, slotVars, At, LooksForResolved
  <2>4. ResolversHavePath'
    BY <1>11 DEF RunStarts, Goto, At, ResolversHavePath
  <2>5. NotifierNeverAsks'
    BY <1>11 DEF RunStarts, Goto, NotifierNeverAsks
  <2>6. CollectingHoldsOne'
    BY <1>11 DEF RunStarts, Goto, At, CollectingHoldsOne
  <2>7. SlotAnswersItsPath'
    BY <1>11 DEF RunStarts, Goto, slotVars, At, SlotAnswersItsPath
  <2>8. EveryCollectorNotifies'
    BY <1>11 DEF RunStarts, Goto, slotVars, At, EveryCollectorNotifies
  <2> QED
    BY <2>1, <2>2, <2>3, <2>4, <2>5, <2>6, <2>7, <2>8
<1>12. ASSUME NEW c \in Callers, Connect(c) PROVE Inv'
  <2>1. TypeOK'
    <3>1. call[c].codex \in 1..Len(program)
      BY <1>12, HeldCollectorIsBuilt DEF Connect, At
    <3> QED
      BY <1>12, <3>1 DEF Connect, settingVars, slotVars, TypeOK
  <2>2. /\ ReplacerHoldsEmptySlot' /\ LooksForResolved' /\ ResolversHavePath'
        /\ NotifierNeverAsks' /\ CollectingHoldsOne'
        /\ SlotAnswersItsPath' /\ EveryCollectorNotifies'
    BY <1>12
      DEF Connect, slotVars, At, ReplacerHoldsEmptySlot, LooksForResolved,
          ResolversHavePath, NotifierNeverAsks, CollectingHoldsOne,
          SlotAnswersItsPath, EveryCollectorNotifies
  <2> QED
    BY <2>1, <2>2
<1>13. ASSUME NEW c \in Callers, SaveOutcome(c) PROVE Inv'
  <2>1. TypeOK'
    BY <1>13
      DEF SaveOutcome, Return, Idle, settingVars, slotVars, TypeOK, Stages, At
  <2>2. ReplacerHoldsEmptySlot'
    BY <1>13 DEF SaveOutcome, Return, Idle, slotVars, ReplacerHoldsEmptySlot
  <2>3. LooksForResolved'
    BY <1>13 DEF SaveOutcome, Return, Idle, slotVars, At, LooksForResolved
  <2>4. ResolversHavePath'
    BY <1>13 DEF SaveOutcome, Return, Idle, ResolversHavePath
  <2>5. NotifierNeverAsks'
    BY <1>13 DEF SaveOutcome, Return, Idle, NotifierNeverAsks
  <2>6. CollectingHoldsOne'
    BY <1>13 DEF SaveOutcome, Return, Idle, CollectingHoldsOne
  <2>7. SlotAnswersItsPath'
    BY <1>13 DEF SaveOutcome, Return, Idle, slotVars, SlotAnswersItsPath
  <2>8. EveryCollectorNotifies'
    BY <1>13 DEF SaveOutcome, Return, slotVars, At, EveryCollectorNotifies
  <2> QED
    BY <2>1, <2>2, <2>3, <2>4, <2>5, <2>6, <2>7, <2>8
<1>14. ASSUME NEW c \in Callers, NEW succeeded \in BOOLEAN, RunEnds(c, succeeded) PROVE Inv'
  <2>1. TypeOK'
    BY <1>14, CallersAssumption
      DEF RunEnds, Goto, settingVars, slotVars, TypeOK, Stages, At, Callers
  <2>2. ReplacerHoldsEmptySlot'
    BY <1>14 DEF RunEnds, Goto, slotVars, ReplacerHoldsEmptySlot
  <2>3. LooksForResolved'
    BY <1>14 DEF RunEnds, Goto, slotVars, At, LooksForResolved
  <2>4. ResolversHavePath'
    BY <1>14 DEF RunEnds, Goto, At, ResolversHavePath
  <2>5. NotifierNeverAsks'
    BY <1>14 DEF RunEnds, Goto, NotifierNeverAsks
  <2>6. CollectingHoldsOne'
    BY <1>14 DEF RunEnds, Goto, CollectingHoldsOne
  <2>7. SlotAnswersItsPath'
    BY <1>14 DEF RunEnds, Goto, slotVars, SlotAnswersItsPath
  <2>8. EveryCollectorNotifies'
    BY <1>14 DEF RunEnds, Goto, slotVars, At, EveryCollectorNotifies
  <2> QED
    BY <2>1, <2>2, <2>3, <2>4, <2>5, <2>6, <2>7, <2>8
<1>15. ASSUME NEW n \in 1..MaxCollectors, Notify(n) PROVE Inv'
  <2>1. TypeOK'
    <3>1. GotoWith(Notifier, "ready", n) /\ UNCHANGED program /\ n \in 0..Len(program)
      BY <1>15 DEF Notify, slotVars, TypeOK
    <3>2. call' \in [Callers -> Calls]
      BY <3>1, MovingKeepsType DEF TypeOK, Calls, Stages, Callers
    <3> QED
      BY <1>15, <3>1, <3>2 DEF Notify, settingVars, slotVars, TypeOK, Calls
  <2>2. ReplacerHoldsEmptySlot'
    BY <1>15 DEF Notify, GotoWith, slotVars, TypeOK, ReplacerHoldsEmptySlot
  <2>3. LooksForResolved'
    BY <1>15 DEF Notify, GotoWith, slotVars, TypeOK, At, LooksForResolved
  <2>4. ResolversHavePath'
    BY <1>15, CallersAssumption
      DEF Notify, GotoWith, TypeOK, Callers, ResolversHavePath
  <2>5. NotifierNeverAsks'
    BY <1>15 DEF Notify, GotoWith, TypeOK, NotifierNeverAsks
  <2>6. CollectingHoldsOne'
    BY <1>15 DEF Notify, GotoWith, TypeOK, CollectingHoldsOne
  <2>7. SlotAnswersItsPath'
    BY <1>15, CallersAssumption
      DEF Notify, GotoWith, slotVars, TypeOK, Callers, SlotAnswersItsPath
  <2>8. EveryCollectorNotifies'
    BY <1>15
      DEF Notify, GotoWith, slotVars, TypeOK, At, Callers, EveryCollectorNotifies
  <2> QED
    BY <2>1, <2>2, <2>3, <2>4, <2>5, <2>6, <2>7, <2>8
<1>16. ASSUME NEW n \in 1..MaxCollectors, Exit(n) PROVE Inv'
  <2>1. TypeOK'
    BY <1>16 DEF Exit, settingVars, slotVars, TypeOK
  <2>2. /\ ReplacerHoldsEmptySlot' /\ LooksForResolved' /\ ResolversHavePath'
        /\ NotifierNeverAsks' /\ CollectingHoldsOne'
        /\ SlotAnswersItsPath' /\ EveryCollectorNotifies'
    BY <1>16
      DEF Exit, slotVars, At, ReplacerHoldsEmptySlot, LooksForResolved,
          ResolversHavePath, NotifierNeverAsks, CollectingHoldsOne,
          SlotAnswersItsPath, EveryCollectorNotifies
  <2> QED
    BY <2>1, <2>2
<1>17. ASSUME CoolDown PROVE Inv'
  <2>1. TypeOK'
    BY <1>17
      DEF CoolDown, Return, Idle, settingVars, slotVars, TypeOK, Stages,
          Resolvers, Callers
  <2>2. ReplacerHoldsEmptySlot'
    BY <1>17 DEF CoolDown, Return, Idle, slotVars, ReplacerHoldsEmptySlot
  <2>3. LooksForResolved'
    BY <1>17 DEF CoolDown, Return, Idle, slotVars, At, LooksForResolved
  <2>4. ResolversHavePath'
    BY <1>17 DEF CoolDown, Return, Idle, ResolversHavePath
  <2>5. NotifierNeverAsks'
    BY <1>17 DEF CoolDown, Return, Idle, NotifierNeverAsks
  <2>6. CollectingHoldsOne'
    BY <1>17 DEF CoolDown, Return, Idle, CollectingHoldsOne
  <2>7. SlotAnswersItsPath'
    BY <1>17 DEF CoolDown, Return, Idle, slotVars, SlotAnswersItsPath
  <2>8. EveryCollectorNotifies'
    BY <1>17 DEF CoolDown, Return, slotVars, At, EveryCollectorNotifies
  <2> QED
    BY <2>1, <2>2, <2>3, <2>4, <2>5, <2>6, <2>7, <2>8
<1>18. CASE UNCHANGED vars
  BY <1>18
    DEF vars, settingVars, slotVars, TypeOK, At, ReplacerHoldsEmptySlot,
        LooksForResolved, ResolversHavePath, NotifierNeverAsks,
        CollectingHoldsOne, SlotAnswersItsPath, EveryCollectorNotifies
<1> QED
  BY <1>1, <1>2, <1>3, <1>4, <1>5, <1>6, <1>7, <1>8, <1>9, <1>10, <1>11, <1>12,
     <1>13, <1>14, <1>15, <1>16, <1>17, <1>18
    DEF Next, CallerStep, Resolving

-------------------------------------------------------------------------------
(* Theorems.                                                               *)

(* What every run of the slot and its callers keeps.                       *)
THEOREM InductiveInvariant == Spec => []Inv
  BY InvInit, InvStep, PTL DEF Spec

(* Every variable keeps its type.                                          *)
THEOREM TypeCorrect == Spec => []TypeOK
<1>1. Inv => TypeOK
  BY DEF Inv
<1> QED
  BY <1>1, InductiveInvariant, PTL

(* CodexSlot::resolve never hands out the collector of another path, and   *)
(* the slot never claims to have resolved a path its collector was not     *)
(* built for: whatever is cancelled, and however often the setting changes.*)
THEOREM SlotAnswers == Spec => []SlotAnswersItsPath
<1>1. Inv => SlotAnswersItsPath
  BY DEF Inv
<1> QED
  BY <1>1, InductiveInvariant, PTL

(* The collector in the slot has its rate-limit notification wired, or the *)
(* caller that built it is about to wire it and cannot be stopped before.  *)
THEOREM SlotNotifies == Spec => []EveryCollectorNotifies
<1>1. Inv => EveryCollectorNotifies
  BY DEF Inv
<1> QED
  BY <1>1, InductiveInvariant, PTL

-------------------------------------------------------------------------------
(* Keys and days of a reading.                                             *)

(* A set of naturals that is not empty has a least element.                *)
LEMMA LeastNatural ==
  ASSUME NEW T, T \subseteq Nat, T # {}
  PROVE  \E n \in T : \A m \in T : n <= m
  <1> DEFINE R == {p \in Nat \X Nat : p[1] < p[2]}
  <1>1. IsWellFoundedOn(R, Nat)
    BY NatLessThanWellFounded DEF OpToRel
  <1>2. \A m, n \in Nat : <<m, n>> \in R <=> m < n
    OBVIOUS
  <1> HIDE DEF R
  <1>3. PICK x \in T : \A y \in T : <<y, x>> \notin R
    BY <1>1, WFMin
  <1>4. ASSUME NEW y \in T PROVE x <= y
    <2>1. x \in Nat /\ y \in Nat
      OBVIOUS
    <2>2. ~(y < x)
      BY <1>2, <1>3, <2>1
    <2> QED  BY <2>1, <2>2
  <1> QED  BY <1>4

(* A key is in the keychain only once its validation has passed.           *)
THEOREM KeysWereAccepted == ReadingSpec => []KeyWasAccepted
  <1>1. ReadingInit => KeyWasAccepted
    BY DEF ReadingInit, KeyWasAccepted
  <1>2. ASSUME KeyWasAccepted, [ReadingNext]_readingVars PROVE KeyWasAccepted'
    <2>1. CASE Validated
      BY <1>2, <2>1 DEF Validated, KeyWasAccepted
    <2>2. CASE DeleteCredential
      BY <2>2 DEF DeleteCredential, KeyWasAccepted
    <2>3. CASE UNCHANGED <<item, accepted>>
      BY <1>2, <2>3 DEF KeyWasAccepted
    <2>4. Ask \/ Collect \/ PutCredential \/ Switch \/ Lock \/ Tick \/ UNCHANGED readingVars
            => UNCHANGED <<item, accepted>>
      BY DEF Ask, Collect, PutCredential, Switch, Lock, Tick, readingVars
    <2> QED  BY <1>2, <2>1, <2>2, <2>3, <2>4 DEF ReadingNext
  <1> QED  BY <1>1, <1>2, PTL DEF ReadingSpec

-------------------------------------------------------------------------------
(* What Earliest picks is the least.                                       *)
LEMMA EarliestIsLeast ==
  ASSUME NEW T, T \subseteq Int, NEW least \in T, \A u \in T : least <= u
  PROVE  Earliest(T) = least
  <1>1. Earliest(T) \in T /\ \A u \in T : Earliest(T) <= u
    BY DEF Earliest
  <1>2. Earliest(T) \in Int /\ least \in Int
    BY <1>1
  <1>3. Earliest(T) <= least /\ least <= Earliest(T)
    BY <1>1
  <1> QED  BY <1>2, <1>3

(* The readings of a day are DayLength in a row.                           *)
LEMMA DayOfReading ==
  ASSUME NEW l \in Int, NEW d \in Int
  PROVE  /\ l \div DayLength \in Int
         /\ l \div DayLength < d <=> l < d * DayLength
  <1>1. DayLength \in Nat /\ DayLength > 0
    BY LocalDaysAssumption
  <1> DEFINE q == l \div DayLength
  <1>2. q \in Int /\ DayLength * q <= l /\ l < DayLength * (q + 1)
    BY <1>1
  <1> HIDE DEF q
  <1>3. CASE q < d
    <2>1. q + 1 <= d
      BY <1>2, <1>3
    <2>2. DayLength * (q + 1) <= DayLength * d
      BY <1>1, <1>2, <2>1
    <2>3. DayLength * d = d * DayLength /\ DayLength * (q + 1) \in Int /\ d * DayLength \in Int
      BY <1>1, <1>2
    <2> QED  BY <1>2, <1>3, <2>2, <2>3 DEF q
  <1>4. CASE d <= q
    <2>1. DayLength * d <= DayLength * q
      BY <1>1, <1>2, <1>4
    <2>3. DayLength * d = d * DayLength /\ DayLength * q \in Int /\ d * DayLength \in Int
      BY <1>1, <1>2
    <2> QED  BY <1>2, <1>4, <2>1, <2>3 DEF q
  <1> QED  BY <1>2, <1>3, <1>4

(* Midnight is the first instant of a day that starts once.                *)
LEMMA DaysBegin ==
  ASSUME NEW z \in [Instants -> Int], NEW d \in Int, StartsOnce(z, d)
  PROVE  /\ Midnight(z, d) \in Instants
         /\ \A t \in Instants : LocalDay(z, t) < d <=> t < Midnight(z, d)
  <1>1. PICK f \in Instants :
           /\ LocalDay(z, f) = d
           /\ \A t \in Instants : LocalDay(z, t) < d <=> t < f
           /\ \A t \in Instants : LocalDay(z, t) = d => Local(z, f) <= Local(z, t)
           /\ Local(z, f) <= d * DayLength + MaxGap
    BY DEF StartsOnce
  <1> DEFINE L == d * DayLength
             first == Local(z, f)
             later == {l \in L..(L + MaxGap) : Instances(z, l) # {}}
  <1>2. Instants \subseteq Int /\ \A t \in Instants : Local(z, t) \in Int /\ LocalDay(z, t) \in Int
    <2>1. ASSUME NEW t \in Instants PROVE Local(z, t) \in Int
      BY LocalDaysAssumption DEF Local, Instants
    <2> QED  BY <2>1, DayOfReading DEF LocalDay, Instants
  <1>3. L \in Int /\ L + MaxGap \in Int /\ first \in Int
    BY <1>2, LocalDaysAssumption
  <1>4. \A t \in Instants : LocalDay(z, t) < d <=> Local(z, t) < L
    BY <1>2, DayOfReading DEF LocalDay
  <1>5. first \in later
    <2>1. f \in Instances(z, first)
      BY DEF Instances
    <2>2. ~(first < L)
      BY <1>1, <1>2, <1>4
    <2> HIDE DEF L, first
    <2>3. first \in L..(L + MaxGap)
      BY <1>1, <1>3, <2>2 DEF L, first
    <2> QED  BY <2>1, <2>3
  <1>6. ASSUME NEW l \in later PROVE first <= l
    <2>1. PICK t \in Instants : Local(z, t) = l
      BY DEF Instances
    <2>2. l \in Int /\ L <= l
      BY <1>3
    <2>3. LocalDay(z, t) \in Int /\ ~(LocalDay(z, t) < d)
      BY <1>2, <1>3, <1>4, <2>1, <2>2
    <2>4. CASE LocalDay(z, t) = d
      BY <1>1, <2>1, <2>4
    <2>5. CASE LocalDay(z, t) # d
      <3>1. ~(LocalDay(z, t) < d + 1) /\ d + 1 \in Int
        BY <2>3, <2>5
      <3>2. ~(l < (d + 1) * DayLength)
        BY <2>1, <2>2, <3>1, DayOfReading DEF LocalDay
      <3>3. first < (d + 1) * DayLength
        <4>1. LocalDay(z, f) < d + 1
          BY <1>1
        <4> QED  BY <1>3, <3>1, <4>1, DayOfReading DEF LocalDay
      <3>4. (d + 1) * DayLength \in Int
        BY LocalDaysAssumption
      <3> QED  BY <1>3, <2>2, <3>2, <3>3, <3>4
    <2> QED  BY <2>4, <2>5
  <1>7. Earliest(later) = first
    <2>1. later \subseteq Int
      BY <1>3
    <2> HIDE DEF later, first
    <2> QED  BY <1>5, <1>6, <2>1, EarliestIsLeast
  <1>8. Earliest(Instances(z, first)) = f
    <2> DEFINE T == Instances(z, first)
    <2>1. f \in T /\ T \subseteq Int
      BY <1>2 DEF Instances
    <2>2. ASSUME NEW u \in T PROVE f <= u
      <3>1. u \in Instants /\ Local(z, u) = first
        BY DEF Instances
      <3>2. LocalDay(z, u) = d
        BY <1>1, <3>1 DEF LocalDay
      <3> QED  BY <1>1, <1>2, <3>1, <3>2
    <2> HIDE DEF T
    <2> QED  BY <2>1, <2>2, EarliestIsLeast DEF T
  <1>9. Midnight(z, d) = f
    <2>1. LocalInstant(z, L) = IF later # {} THEN Earliest(Instances(z, Earliest(later))) ELSE L
      BY DEF LocalInstant
    <2>2. Midnight(z, d) = LocalInstant(z, L)
      BY DEF Midnight
    <2> HIDE DEF later, first, L
    <2> QED  BY <1>5, <1>7, <1>8, <2>1, <2>2
  <1> QED  BY <1>1, <1>9

-------------------------------------------------------------------------------
(* A reading has no metric but those it was made with.                     *)
LEMMA OutcomeMetrics == \A checks, metrics : Outcome(checks, metrics).metrics \subseteq metrics
  BY DEF Outcome

(* A quota's metrics tell no range; those of the activity tell the range   *)
(* that was asked for, if the answer confirms it.                          *)
LEMMA GlmScopes ==
  ASSUME NEW key, NEW z, NEW t, NEW answer, NEW m \in RefreshGlmQuota(key, z, t, answer).metrics
  PROVE  m.scope.confirmed => /\ m.scope.day = LocalDay(z, t)
                              /\ m.scope.from = Midnight(z, LocalDay(z, t))
                              /\ m.scope.to = t
  <1> DEFINE range == StatisticsRange(z, t)
  <1>1. m \in NormalizeGlm(answer, range).metrics
    BY OutcomeMetrics DEF RefreshGlmQuota
  <1>2. m \in QuotaMetrics(answer.quota.limits)
               \cup ActivityMetrics("model", answer.models, range)
               \cup ActivityMetrics("tool", answer.tools, range)
    BY <1>1, OutcomeMetrics DEF NormalizeGlm
  <1>3. CASE m \in QuotaMetrics(answer.quota.limits)
    <2>1. PICK e \in Recognized(answer.quota.limits) :
             m \in Quota(<<"quota", QuotaWindow(e)>>, e.percentage, WindowSeconds(e),
                         ResetAt(e.reset))
      BY <1>3 DEF QuotaMetrics
    <2>2. m.scope = NoScope
      BY <2>1 DEF Quota, Normalize, MetricInput, Number, Given
    <2> QED  BY <2>2 DEF NoScope
  <1>4. ASSUME NEW kind, NEW body, m \in ActivityMetrics(kind, body, range)
        PROVE  m.scope = Scope(range, RangeConfirmed(body))
    BY <1>4 DEF ActivityMetrics, MetricInput
  <1>5. CASE m \notin QuotaMetrics(answer.quota.limits)
    <2>1. PICK confirmed : m.scope = Scope(range, confirmed)
      BY <1>2, <1>4, <1>5
    <2> QED  BY <2>1 DEF Scope, StatisticsRange
  <1> QED  BY <1>3, <1>5

(* What the console's answers are turned into, under one scope.            *)
WebSpend(cost, c, scope) ==
  DeepSeek!UsageMetric(<<"spend", c, "billed">>,
                       DeepSeek!Number(DeepSeek!Total(cost.costs, c)), c, scope)
WebTokens(amount, scope) ==
  DeepSeek!UsageMetric(<<"activity", "tokens">>,
                       DeepSeek!SumIfStated(DeepSeek!Tokens(amount.buckets)), "tokens", scope)
WebRequests(amount, scope) ==
  DeepSeek!UsageMetric(<<"activity", "requests">>,
                       DeepSeek!SumIfStated(DeepSeek!Requests(amount.buckets)), "requests", scope)

(* The console's metrics, one by one.                                      *)
LEMMA WebMetrics ==
  ASSUME NEW cost, NEW amount, NEW window, NEW scope,
         scope = DeepSeek!Scope(window, DeepSeek!EchoConfirms(cost)
                                          /\ DeepSeek!EchoConfirms(amount))
  PROVE  \A x : x \in DeepSeek!UsageMetrics(cost, amount, window) <=>
                  \/ \E c \in DeepSeek!Currencies(cost.costs) : x \in WebSpend(cost, c, scope)
                  \/ x \in WebTokens(amount, scope)
                  \/ x \in WebRequests(amount, scope)
  BY DEF DeepSeek!UsageMetrics, WebSpend, WebTokens, WebRequests

(* The console is asked for the whole day of the run.                      *)
LEMMA WebScopes ==
  ASSUME NEW key, NEW on, NEW z, NEW t, NEW answer,
         NEW m \in DeepSeek!RefreshDeepSeekWeb(key, on, z, t, answer).metrics
  PROVE  /\ m.scope.day = LocalDay(z, t)
         /\ m.scope.from = Midnight(z, LocalDay(z, t))
         /\ m.scope.to = Midnight(z, LocalDay(z, t) + 1)
  <1> DEFINE window == DeepSeek!UsageWindow(z, t)
             cost == answer.cost
             amount == answer.amount
  <1>1. m \in DeepSeek!NormalizeUsage(cost, amount, window).metrics
    BY OutcomeMetrics DEF DeepSeek!RefreshDeepSeekWeb, DeepSeek!Outcome, Outcome
  <1>2. m \in DeepSeek!UsageMetrics(cost, amount, window)
    BY <1>1 DEF DeepSeek!NormalizeUsage, DeepSeek!Outcome
  <1>3. PICK scope : scope = DeepSeek!Scope(window, DeepSeek!EchoConfirms(cost)
                                                      /\ DeepSeek!EchoConfirms(amount))
    OBVIOUS
  <1>4. m.scope = scope
    <2>1. \A named, value, unit : \A x \in DeepSeek!UsageMetric(named, value, unit, scope) :
             x.scope = scope
      BY DEF DeepSeek!UsageMetric, DeepSeek!MetricInput
    <2> HIDE DEF window, cost, amount
    <2>2. /\ \A c : \A x \in WebSpend(cost, c, scope) : x.scope = scope
          /\ \A x \in WebTokens(amount, scope) : x.scope = scope
          /\ \A x \in WebRequests(amount, scope) : x.scope = scope
      BY <2>1 DEF WebSpend, WebTokens, WebRequests
    <2> QED  BY <1>2, <1>3, <2>2, WebMetrics
  <1>5. window = [day |-> LocalDay(z, t), from |-> Midnight(z, LocalDay(z, t)),
                  to |-> Midnight(z, LocalDay(z, t) + 1)]
    BY DEF DeepSeek!UsageWindow, DeepSeek!LocalDay, LocalDay, DeepSeek!Local, Local,
           DeepSeek!Midnight, Midnight, DeepSeek!LocalInstant, LocalInstant,
           DeepSeek!Instances, Instances, DeepSeek!Earliest, Earliest,
           DeepSeek!Instants, Instants
  <1> QED  BY <1>3, <1>4, <1>5 DEF DeepSeek!Scope

-------------------------------------------------------------------------------
(* A day whose start and end are known holds what is between them.         *)
LEMMA DayIsBetweenMidnights ==
  ASSUME NEW z \in [Instants -> Int], NEW t \in Instants,
         StartsOnce(z, LocalDay(z, t)), StartsOnce(z, LocalDay(z, t) + 1)
  PROVE  /\ Midnight(z, LocalDay(z, t)) \in Int /\ Midnight(z, LocalDay(z, t) + 1) \in Int
         /\ t < Midnight(z, LocalDay(z, t) + 1)
         /\ \A u \in Instants :
              LocalDay(z, u) = LocalDay(z, t) <=>
                Midnight(z, LocalDay(z, t)) <= u /\ u < Midnight(z, LocalDay(z, t) + 1)
  <1> DEFINE d == LocalDay(z, t)
  <1>1. Instants \subseteq Int
    BY LocalDaysAssumption DEF Instants
  <1>2. \A u \in Instants : LocalDay(z, u) \in Int
    <2> SUFFICES ASSUME NEW u \in Instants PROVE LocalDay(z, u) \in Int
      OBVIOUS
    <2>1. Local(z, u) \in Int /\ 0 \in Int
      BY <1>1 DEF Local
    <2> QED  BY <2>1, DayOfReading DEF LocalDay
  <1>3. d \in Int /\ d + 1 \in Int
    BY <1>2
  <1>4. /\ Midnight(z, d) \in Instants
        /\ \A u \in Instants : LocalDay(z, u) < d <=> u < Midnight(z, d)
    BY <1>3, DaysBegin
  <1>5. /\ Midnight(z, d + 1) \in Instants
        /\ \A u \in Instants : LocalDay(z, u) < d + 1 <=> u < Midnight(z, d + 1)
    BY <1>3, DaysBegin
  <1>6. LocalDay(z, t) < d + 1
    BY <1>3
  <1> HIDE DEF d
  <1>7. ASSUME NEW u \in Instants
        PROVE  LocalDay(z, u) = d <=> Midnight(z, d) <= u /\ u < Midnight(z, d + 1)
    <2>1. LocalDay(z, u) \in Int /\ u \in Int /\ Midnight(z, d) \in Int
      BY <1>1, <1>2, <1>4
    <2>2. LocalDay(z, u) = d <=> ~(LocalDay(z, u) < d) /\ LocalDay(z, u) < d + 1
      BY <1>3, <2>1
    <2> QED  BY <1>4, <1>5, <2>1, <2>2
  <1> QED  BY <1>1, <1>4, <1>5, <1>6, <1>7 DEF d

(* What a run is for and when it is asked for.                             *)
RunIsPlaced ==
  /\ conn \in Followed /\ zone \in ZonesOf(conn)
  /\ now \in Days
  /\ asked = -1 \/ asked \in Days

(* What ReadingsAreOfToday is proved by.                                   *)
PlacedDay == RunIsPlaced /\ DayIsToday

(* A run that was asked for today leaves a reading of today.               *)
LEMMA CollectOfToday == ASSUME RunIsPlaced, Collect PROVE DayIsToday'
  <1>1. PICK answer \in AnswersOf(conn) :
           last' = IF Refresh(Item, enabled, asked, answer).kind = "none"
                     THEN [answer |-> answer, at |-> asked,
                           outcome |-> Refresh(Item, enabled, asked, answer)]
                     ELSE [NoReading EXCEPT !.outcome = Refresh(Item, enabled, asked, answer)]
    BY DEF Collect
  <1>2. asked \in Days /\ asked # -1 /\ UNCHANGED <<conn, zone, now>>
    BY DEF Collect, RunIsPlaced
  <1> DEFINE outcome == Refresh(Item, enabled, asked, answer)
  <1> SUFFICES ASSUME last'.outcome.kind = "none",
                      NEW m \in last'.outcome.metrics, m.scope.confirmed,
                      conn \in {"glm:quota", "deepseek:web"}
               PROVE  {t \in Instants : t >= m.scope.from /\ t < m.scope.to} =
                        {t \in Instants : /\ LocalDay(zone, t) = m.scope.day
                                          /\ conn = "glm:quota" => t < last'.at}
    BY <1>2 DEF DayIsToday
  <1>3. last'.at = asked /\ m \in outcome.metrics
    BY <1>1 DEF NoReading
  <1>4. /\ Days \subseteq Instants /\ Instants \subseteq Int
        /\ zone \in [Instants -> Int]
    BY ReadingsAssumption, LocalDaysAssumption DEF RunIsPlaced, Instants
  <1>5. \A t \in Days : /\ StartsOnce(zone, LocalDay(zone, t))
                        /\ StartsOnce(zone, LocalDay(zone, t) + 1)
    BY ZonesAssumption DEF RunIsPlaced
  <1>6. CASE conn = "glm:quota"
    <2> DEFINE d == LocalDay(zone, asked)
    <2>1. m.scope.day = d /\ m.scope.from = Midnight(zone, d) /\ m.scope.to = asked
      BY <1>3, <1>6, GlmScopes DEF Refresh
    <2>2. /\ Midnight(zone, d) \in Int /\ Midnight(zone, d + 1) \in Int
          /\ asked < Midnight(zone, d + 1)
          /\ \A u \in Instants :
               LocalDay(zone, u) = d <=> Midnight(zone, d) <= u /\ u < Midnight(zone, d + 1)
      BY <1>2, <1>4, <1>5, DayIsBetweenMidnights
    <2>3. /\ \A t \in Instants : LocalDay(zone, t) = m.scope.day <=>
                                   t >= m.scope.from /\ t < Midnight(zone, d + 1)
          /\ asked \in Int /\ Midnight(zone, d + 1) \in Int
      <3> HIDE DEF d
      <3> QED  BY <1>2, <1>4, <2>1, <2>2
    <2>4. \A t \in Instants : t < asked => t < Midnight(zone, d + 1)
      <3> HIDE DEF d
      <3> QED  BY <1>4, <2>2, <2>3
    <2> QED  BY <1>3, <1>6, <2>1, <2>3, <2>4
  <1>7. CASE conn = "deepseek:web"
    <2> DEFINE d == LocalDay(zone, now)
    <2>1. /\ m.scope.day = d /\ m.scope.from = Midnight(zone, d)
          /\ m.scope.to = Midnight(zone, d + 1)
      BY <1>3, <1>7, WebScopes DEF Refresh
    <2>2. /\ Midnight(zone, d) \in Int
          /\ \A u \in Instants :
               LocalDay(zone, u) = d <=> Midnight(zone, d) <= u /\ u < Midnight(zone, d + 1)
      BY <1>4, <1>5, DayIsBetweenMidnights DEF RunIsPlaced
    <2> HIDE DEF d
    <2> QED  BY <1>4, <1>7, <2>1, <2>2
  <1> QED  BY <1>6, <1>7

(* A range that an answer has confirmed is that of the day it is labelled  *)
(* with, in every zone whose days start once.                              *)
THEOREM ReadingsAreOfToday == ReadingSpec => []DayIsToday
  <1>1. ReadingInit => PlacedDay
    BY DEF ReadingInit, PlacedDay, RunIsPlaced, DayIsToday, NoReading, Outcome
  <1>2. ASSUME PlacedDay, [ReadingNext]_readingVars PROVE PlacedDay'
    <2> USE DEF PlacedDay, RunIsPlaced
    <2>1. CASE Ask
      BY <1>2, <2>1 DEF Ask, DayIsToday
    <2>2. CASE Collect
      BY <1>2, <2>2, CollectOfToday DEF Collect
    <2>3. CASE PutCredential
      BY <1>2, <2>3 DEF PutCredential, DayIsToday
    <2>4. CASE Validated
      BY <1>2, <2>4 DEF Validated, DayIsToday
    <2>5. CASE DeleteCredential
      BY <1>2, <2>5 DEF DeleteCredential, DayIsToday
    <2>6. CASE Switch
      BY <1>2, <2>6 DEF Switch, DayIsToday
    <2>7. CASE Tick
      BY <1>2, <2>7 DEF Tick, DayIsToday
    <2>8. CASE Lock
      BY <1>2, <2>8 DEF Lock, DayIsToday
    <2>9. CASE UNCHANGED readingVars
      BY <1>2, <2>9 DEF readingVars, DayIsToday
    <2> QED  BY <1>2, <2>1, <2>2, <2>3, <2>4, <2>5, <2>6, <2>7, <2>8, <2>9 DEF ReadingNext
  <1>3. PlacedDay => DayIsToday
    BY DEF PlacedDay
  <1> QED  BY <1>1, <1>2, <1>3, PTL DEF ReadingSpec

-------------------------------------------------------------------------------
(* A reading tells what its answer states.                                 *)

(* An outcome without a failure passed every check and has all metrics.    *)
LEMMA NoFailure ==
  ASSUME NEW checks, FirstFailure(checks) = "none"
  PROVE  \A i \in 1..Len(checks) : checks[i] = "none"
  <1> DEFINE failed == {i \in 1..Len(checks) : checks[i] # "none"}
  <1>1. CASE failed # {}
    <2>1. failed \subseteq Nat
      OBVIOUS
    <2>2. PICK n \in failed : \A j \in failed : n <= j
      <3> HIDE DEF failed
      <3> QED  BY <1>1, <2>1, LeastNatural
    <2> DEFINE first == CHOOSE i \in failed : \A j \in failed : i <= j
    <2>3. first \in failed
      <3> HIDE DEF failed
      <3> QED  BY <2>2
    <2>4. FirstFailure(checks) = checks[first]
      BY <1>1 DEF FirstFailure
    <2> HIDE DEF first
    <2> QED  BY <2>3, <2>4
  <1> QED  BY <1>1

(* The same of an outcome: every check has passed, every metric is there.  *)
LEMMA Passed ==
  ASSUME NEW checks, NEW metrics, Outcome(checks, metrics).kind = "none"
  PROVE  /\ \A i \in 1..Len(checks) : checks[i] = "none"
         /\ Outcome(checks, metrics).metrics = metrics
  BY NoFailure DEF Outcome

-------------------------------------------------------------------------------
(* What it is to be told.                                                  *)
LEMMA NumberTold ==
  \A M, x : x \in Numbers(M) <=> \E m \in M : IsNumber(m.value) /\ x = <<m.key, m.value.n>>
  BY DEF Numbers

(* The numbers of two sets of metrics are those of each.                   *)
LEMMA NumbersOfBoth == \A A, B : Numbers(A \cup B) = Numbers(A) \cup Numbers(B)
  BY DEF Numbers

(* ... and so are those of three.                                          *)
LEMMA NumbersOfThree ==
  ASSUME NEW A, NEW B, NEW C
  PROVE  Numbers(A \cup B \cup C) = Numbers(A) \cup Numbers(B) \cup Numbers(C)
  BY DEF Numbers

(* The numbers of two metrics that both have one.                          *)
LEMMA NumbersOfPair ==
  ASSUME NEW u, NEW v, IsNumber(u.value), IsNumber(v.value)
  PROVE  Numbers({u, v}) = {<<u.key, u.value.n>>, <<v.key, v.value.n>>}
  <1>1. \A x : x \in Numbers({u, v}) <=> x = <<u.key, u.value.n>> \/ x = <<v.key, v.value.n>>
    BY NumberTold
  <1> QED  BY <1>1

(* A quota tells the used and the remaining share of its window.           *)
LEMMA QuotaNumbers ==
  ASSUME NEW p, NEW w, NEW used, NEW window, NEW reset
  PROVE  Numbers(Quota(<<p, w>>, used, window, reset)) = WindowsStated(<<p>>, w, used)
  <1>1. /\ Append(<<p, w>>, "used") = <<p>> \o <<w, "used">>
        /\ Append(<<p, w>>, "remaining") = <<p>> \o <<w, "remaining">>
    OBVIOUS
  <1> DEFINE share(name, n) ==
        [Normalize(MetricInput(Append(<<p, w>>, name), Number(n), "percent"))
           EXCEPT !.window = window, !.reset = reset]
             u == share("used", used.n)
             v == share("remaining", 100 - used.n)
  <1>2. Quota(<<p, w>>, used, window, reset) = {u, v}
    <2>1. Quota(<<p, w>>, used, window, reset) =
            {share(side[1], side[2]) : side \in {<<"used", used.n>>, <<"remaining", 100 - used.n>>}}
      BY DEF Quota
    <2> HIDE DEF share
    <2> QED  BY <2>1
  <1>3. \A name, n : /\ share(name, n).key = Append(<<p, w>>, name)
                     /\ share(name, n).value = Number(n)
    <2>1. \A name, n : /\ Normalize(MetricInput(Append(<<p, w>>, name), Number(n), "percent"))
                            = MetricInput(Append(<<p, w>>, name), Number(n), "percent")
      BY DEF Normalize, MetricInput, Number, Given
    <2> QED  BY <2>1 DEF MetricInput
  <1>4. /\ u.key = Append(<<p, w>>, "used") /\ u.value = Number(used.n)
        /\ v.key = Append(<<p, w>>, "remaining") /\ v.value = Number(100 - used.n)
    <2> HIDE DEF share
    <2> QED  BY <1>3
  <1>5. \A n : IsNumber(Number(n)) /\ Number(n).n = n
    BY DEF IsNumber, Number
  <1> HIDE DEF u, v
  <1>6. Numbers({u, v}) =
          {<<Append(<<p, w>>, "used"), used.n>>, <<Append(<<p, w>>, "remaining"), 100 - used.n>>}
    <2>1. /\ IsNumber(u.value) /\ u.value.n = used.n
          /\ IsNumber(v.value) /\ v.value.n = 100 - used.n
      BY <1>4, <1>5
    <2>2. Numbers({u, v}) = {<<u.key, u.value.n>>, <<v.key, v.value.n>>}
      BY <2>1, NumbersOfPair
    <2> QED  BY <1>4, <2>1, <2>2
  <1> QED  BY <1>1, <1>2, <1>6 DEF WindowsStated

(* The numbers of the named entries of an answer.                          *)
ActivityTold(kind, body) ==
  {<<<<kind, e.name>>, Counted(kind, e).n>> :
     e \in {f \in Elements(body.entries) : f.name # "" /\ IsCount(Counted(kind, f))}}

(* The activity of GLM tells the number of each named entry that has one.  *)
LEMMA ActivityNumbers ==
  ASSUME NEW body, NEW range, NEW kind
  PROVE  Numbers(ActivityMetrics(kind, body, range)) = ActivityTold(kind, body)
  <1> DEFINE metric(e) ==
        [MetricInput(<<kind, e.name>>, Counted(kind, e), kind)
           EXCEPT !.scope = Scope(range, RangeConfirmed(body))]
             counted == {f \in Elements(body.entries) : f.name # "" /\ IsCount(Counted(kind, f))}
  <1>1. \A e : metric(e).key = <<kind, e.name>> /\ metric(e).value = Counted(kind, e)
    BY DEF MetricInput
  <1>2. ActivityMetrics(kind, body, range) = {metric(e) : e \in counted}
    BY DEF ActivityMetrics
  <1>3. \A e \in counted : IsNumber(Counted(kind, e))
    BY DEF IsCount
  <1> HIDE DEF metric, counted
  <1>4. Numbers({metric(e) : e \in counted}) =
          {<<metric(e).key, metric(e).value.n>> : e \in counted}
    BY <1>1, <1>3 DEF Numbers
  <1>5. Numbers({metric(e) : e \in counted}) =
          {<<<<kind, e.name>>, Counted(kind, e).n>> : e \in counted}
    BY <1>1, <1>4
  <1> QED  BY <1>2, <1>5 DEF counted, ActivityTold

(* The numbers of the windows that are known.                              *)
QuotaTold(limits) ==
  UNION {WindowsStated(<<"quota">>, QuotaWindow(e), e.percentage) :
           e \in {f \in Elements(limits) : QuotaWindow(f) # "unknown"}}

(* What a GLM answer states, by its three parts.                           *)
LEMMA StatedIsTold ==
  ASSUME NEW a
  PROVE  StatedByGlm(a) =
           QuotaTold(a.quota.limits) \cup ActivityTold("model", a.models)
             \cup ActivityTold("tool", a.tools)
  <1>1. ActivityTold("model", a.models) =
              {<<<<"model", e.name>>, e.count.n>> :
                 e \in {f \in Elements(a.models.entries) : f.name # "" /\ IsCount(f.count)}}
    BY DEF Counted, ActivityTold
  <1>2. \A e : /\ Counted("tool", e).n = IF IsCount(e.count) THEN e.count.n ELSE e.usage.n
               /\ IsCount(Counted("tool", e)) <=> IsCount(e.count) \/ IsCount(e.usage)
    BY DEF Counted, Either
  <1>3. ActivityTold("tool", a.tools) =
              {<<<<"tool", e.name>>, IF IsCount(e.count) THEN e.count.n ELSE e.usage.n>> :
                 e \in {f \in Elements(a.tools.entries) :
                          f.name # "" /\ (IsCount(f.count) \/ IsCount(f.usage))}}
    BY <1>2 DEF ActivityTold
  <1>4. StatedByGlm(a) = QuotaTold(a.quota.limits)
         \cup {<<<<"model", e.name>>, e.count.n>> :
                 e \in {f \in Elements(a.models.entries) : f.name # "" /\ IsCount(f.count)}}
         \cup {<<<<"tool", e.name>>, IF IsCount(e.count) THEN e.count.n ELSE e.usage.n>> :
                 e \in {f \in Elements(a.tools.entries) :
                          f.name # "" /\ (IsCount(f.count) \/ IsCount(f.usage))}}
    BY DEF StatedByGlm, QuotaTold
  <1> QED  BY <1>1, <1>3, <1>4

(* A quota reading of GLM tells exactly what the three answers state.      *)
LEMMA GlmTells ==
  ASSUME NEW key, NEW z, NEW t, NEW a, RefreshGlmQuota(key, z, t, a).kind = "none"
  PROVE  Numbers(RefreshGlmQuota(key, z, t, a).metrics) = StatedByGlm(a)
  <1> DEFINE limits == a.quota.limits
             range == StatisticsRange(z, t)
             read == NormalizeGlm(a, range)
             secret == QuietSecret(key)
             checks == <<Check(Usable(secret), "missing_config")>>
                 \o <<Get(secret, a.models.http), SameOrigin(a.models.http)>>
                 \o <<Get(secret, a.tools.http), SameOrigin(a.tools.http)>>
                 \o <<Get(secret, a.quota.http), SameOrigin(a.quota.http)>>
                 \o <<ReadJson(a.models.http, a.models),
                      ReadJson(a.tools.http, a.tools),
                      ReadJson(a.quota.http, a.quota),
                      read.kind>>
  <1>1. RefreshGlmQuota(key, z, t, a) = Outcome(checks, read.metrics)
    BY DEF RefreshGlmQuota
  <1>2. Len(checks) = 11 /\ checks[11] = read.kind
    <2> HIDE DEF read, secret
    <2> QED  OBVIOUS
  <1> HIDE DEF checks
  <1>3. read.kind = "none" /\ RefreshGlmQuota(key, z, t, a).metrics = read.metrics
    <2> HIDE DEF read
    <2>1. /\ \A i \in 1..Len(checks) : checks[i] = "none"
          /\ Outcome(checks, read.metrics).metrics = read.metrics
      BY <1>1, Passed
    <2> QED  BY <1>1, <1>2, <2>1
  <1>4. read.metrics = QuotaMetrics(limits) \cup ActivityMetrics("model", a.models, range)
                         \cup ActivityMetrics("tool", a.tools, range)
    BY <1>3, Passed DEF NormalizeGlm
  <1>5. Numbers(QuotaMetrics(limits)) = QuotaTold(limits)
    <2> DEFINE quota(e) == Quota(<<"quota", QuotaWindow(e)>>, e.percentage, WindowSeconds(e),
                                 ResetAt(e.reset))
               known == {f \in Elements(limits) : QuotaWindow(f) # "unknown"}
    <2>1. \A e : Numbers(quota(e)) = WindowsStated(<<"quota">>, QuotaWindow(e), e.percentage)
      BY QuotaNumbers
    <2>2. QuotaMetrics(limits) = UNION {quota(e) : e \in known}
      BY DEF QuotaMetrics, Recognized
    <2> HIDE DEF quota, known
    <2>3. Numbers(QuotaMetrics(limits)) = UNION {Numbers(quota(e)) : e \in known}
      BY <2>2 DEF Numbers
    <2> QED  BY <2>1, <2>3 DEF QuotaTold, known
  <1>6. PICK A, B, C : /\ A = QuotaMetrics(limits)
                       /\ B = ActivityMetrics("model", a.models, range)
                       /\ C = ActivityMetrics("tool", a.tools, range)
    OBVIOUS
  <1>7. Numbers(B) = ActivityTold("model", a.models) /\ Numbers(C) = ActivityTold("tool", a.tools)
    BY <1>6, ActivityNumbers
  <1>8. StatedByGlm(a) = QuotaTold(limits) \cup ActivityTold("model", a.models)
                           \cup ActivityTold("tool", a.tools)
    BY StatedIsTold
  <1>9. Numbers(A \cup B \cup C) = Numbers(A) \cup Numbers(B) \cup Numbers(C)
    BY NumbersOfThree
  <1> HIDE DEF read, limits, range
  <1> QED  BY <1>3, <1>4, <1>5, <1>6, <1>7, <1>8, <1>9

-------------------------------------------------------------------------------
(* The number of an estimate.                                              *)
SpendTold(currency, estimate) ==
  IF Given(estimate.spend) THEN {<<<<"spend", currency, "daily">>, estimate.spend.n>>} ELSE {}

(* An estimate is told if there is one.                                    *)
LEMMA SpendNumbers ==
  ASSUME NEW currency, NEW estimate, IsEstimate(estimate.spend)
  PROVE  /\ Numbers(SpendMetric(currency, estimate)) = SpendTold(currency, estimate)
         /\ \A total : StatedEstimate(currency, total, estimate) =
                         IF Given(total) THEN SpendTold(currency, estimate) ELSE {}
  <1> DEFINE metric == [MetricInput(<<"spend", currency, "daily">>, estimate.spend, currency)
               EXCEPT !.scope = [day |-> estimate.day, from |-> 0, to |-> 0, confirmed |-> TRUE],
                      !.marks = {"estimated"} \cup (IF estimate.partial THEN {"partial"} ELSE {})]
  <1>1. SpendMetric(currency, estimate) = IF Given(estimate.spend) THEN {metric} ELSE {}
    BY DEF SpendMetric
  <1>2. metric.key = <<"spend", currency, "daily">> /\ metric.value = estimate.spend
    BY DEF MetricInput
  <1> HIDE DEF metric
  <1>3. Numbers({}) = {}
    BY DEF Numbers
  <1>4. CASE Given(estimate.spend)
    <2>1. IsNumber(metric.value)
      BY <1>2, <1>4 DEF IsEstimate
    <2>2. Numbers({metric}) = {<<metric.key, metric.value.n>>}
      BY <2>1 DEF Numbers
    <2>3. Numbers(SpendMetric(currency, estimate)) = SpendTold(currency, estimate)
      BY <1>1, <1>2, <1>4, <2>2 DEF SpendTold
    <2>4. ASSUME NEW total
          PROVE  StatedEstimate(currency, total, estimate) =
                   IF Given(total) THEN SpendTold(currency, estimate) ELSE {}
      BY <1>4 DEF SpendTold, StatedEstimate
    <2> QED  BY <2>3, <2>4
  <1>5. CASE ~Given(estimate.spend)
    BY <1>1, <1>3, <1>5 DEF SpendTold, StatedEstimate
  <1> QED  BY <1>4, <1>5

(* A wallet reading of GLM tells its balance and its estimate.             *)
LEMMA GlmWalletTells ==
  ASSUME NEW key, NEW on, NEW a, RefreshGlmWallet(key, on, a).kind = "none",
         IsEstimate(a.estimate.spend)
  PROVE  Numbers(RefreshGlmWallet(key, on, a).metrics) =
           {<<<<"wallet", a.currency, "balance">>, a.balance.n>>}
             \cup StatedEstimate(a.currency, a.balance, a.estimate)
  <1>1. /\ RefreshGlmWallet(key, on, a).metrics = WalletMetrics(a)
        /\ IsNumeric(a.balance)
    <2> DEFINE secret == QuietSecret(key)
               checks == <<Check(on, "missing_config"),
                           Check(Usable(secret), "missing_config"),
                           ValidateEndpoint(a.endpoint),
                           Get(secret, a.http),
                           SameOrigin(a.http),
                           ReadJson(a.http, a),
                           Check(IsNumeric(a.balance), "compatibility"),
                           Check(a.currency # "", "compatibility")>>
    <2>1. RefreshGlmWallet(key, on, a) = Outcome(checks, WalletMetrics(a))
      BY DEF RefreshGlmWallet
    <2>2. Len(checks) = 8 /\ checks[7] = Check(IsNumeric(a.balance), "compatibility")
      OBVIOUS
    <2> HIDE DEF checks
    <2>3. /\ \A i \in 1..Len(checks) : checks[i] = "none"
          /\ Outcome(checks, WalletMetrics(a)).metrics = WalletMetrics(a)
      BY <2>1, Passed
    <2> QED  BY <2>1, <2>2, <2>3 DEF Check
  <1>2. PICK metric :
           metric = [MetricInput(<<"wallet", a.currency, "balance">>, Number(a.balance.n),
                                 a.currency)
                       EXCEPT !.marks = {"experimental"}]
    OBVIOUS
  <1>3. Numbers({metric}) = {<<<<"wallet", a.currency, "balance">>, a.balance.n>>}
    <2>1. /\ metric.key = <<"wallet", a.currency, "balance">>
          /\ IsNumber(metric.value) /\ metric.value.n = a.balance.n
      BY <1>2 DEF MetricInput, Number, IsNumber
    <2> QED  BY <2>1 DEF Numbers
  <1>4. WalletMetrics(a) = {metric} \cup SpendMetric(a.currency, a.estimate)
    BY <1>2 DEF WalletMetrics
  <1>5. Numbers(WalletMetrics(a)) =
          Numbers({metric}) \cup Numbers(SpendMetric(a.currency, a.estimate))
    BY <1>4, NumbersOfBoth
  <1>6. Given(a.balance)
    BY <1>1 DEF IsNumeric, Given
  <1>7. Numbers(SpendMetric(a.currency, a.estimate)) =
          StatedEstimate(a.currency, a.balance, a.estimate)
    BY <1>6, SpendNumbers
  <1> QED  BY <1>1, <1>3, <1>5, <1>7

-------------------------------------------------------------------------------
(* The three collectors share one definition of outcomes and metrics.      *)
LEMMA SameAnswers ==
  /\ \A checks, metrics : DeepSeek!Outcome(checks, metrics) = Outcome(checks, metrics)
  /\ \A checks, metrics : Codex!Outcome(checks, metrics) = Outcome(checks, metrics)
  /\ \A c, e : DeepSeek!SpendMetric(c, e) = SpendMetric(c, e)
  /\ \A i : DeepSeek!Normalize(i) = Normalize(i)
  /\ \A k, v, u : DeepSeek!MetricInput(k, v, u) = MetricInput(k, v, u)
  /\ \A k, v, u : Codex!MetricInput(k, v, u) = MetricInput(k, v, u)
  /\ \A p, u, w, r : Codex!Quota(p, u, w, r) = Quota(p, u, w, r)
  /\ \A v : DeepSeek!Given(v) = Given(v) /\ Codex!Given(v) = Given(v)
  <1>1. \A checks, metrics : DeepSeek!Outcome(checks, metrics) = Outcome(checks, metrics)
    BY DEF DeepSeek!Outcome, Outcome, DeepSeek!FirstFailure, FirstFailure
  <1>2. \A checks, metrics : Codex!Outcome(checks, metrics) = Outcome(checks, metrics)
    BY DEF Codex!Outcome, Outcome, Codex!FirstFailure, FirstFailure
  <1>3. \A v : DeepSeek!Given(v) = Given(v) /\ Codex!Given(v) = Given(v)
    BY DEF DeepSeek!Given, Given, Codex!Given
  <1>4. /\ \A k, v, u : DeepSeek!MetricInput(k, v, u) = MetricInput(k, v, u)
        /\ \A k, v, u : Codex!MetricInput(k, v, u) = MetricInput(k, v, u)
    BY DEF DeepSeek!MetricInput, MetricInput, Codex!MetricInput,
           DeepSeek!NoScope, NoScope, Codex!NoScope
  <1>5. \A c, e : DeepSeek!SpendMetric(c, e) = SpendMetric(c, e)
    BY <1>3, <1>4 DEF DeepSeek!SpendMetric, SpendMetric
  <1>6. \A i : DeepSeek!Normalize(i) = Normalize(i) /\ Codex!Normalize(i) = Normalize(i)
    BY <1>3 DEF DeepSeek!Normalize, Normalize, Codex!Normalize, DeepSeek!Null, Null, Codex!Null
  <1>7. \A p, u, w, r : Codex!Quota(p, u, w, r) = Quota(p, u, w, r)
    BY DEF Codex!Quota, Quota, Codex!Number, Number, Codex!MetricInput, MetricInput,
           Codex!NoScope, NoScope, Codex!Normalize, Normalize, Codex!Given, Given,
           Codex!Null, Null
  <1> QED  BY <1>1, <1>2, <1>3, <1>4, <1>5, <1>6, <1>7

(* An entry's components are metrics, those that were not reported without *)
(* a number.                                                               *)
LEMMA BalanceNumbers ==
  ASSUME NEW e
  PROVE  Numbers(DeepSeek!BalanceMetrics(e)) =
           {<<<<"wallet", e.currency, c>>, e[c].n>> :
              c \in {d \in DeepSeek!Components : Given(e[d])}}
  <1> DEFINE metric(c) == Normalize(MetricInput(<<"wallet", e.currency, c>>,
                                       IF Given(e[c]) THEN Number(e[c].n) ELSE Absent, e.currency))
  <1>1. DeepSeek!BalanceMetrics(e) = {metric(c) : c \in DeepSeek!Components}
    BY SameAnswers DEF DeepSeek!BalanceMetrics, DeepSeek!Number, Number, DeepSeek!Absent, Absent
  <1>2. ASSUME NEW c
        PROVE  /\ metric(c).key = <<"wallet", e.currency, c>>
               /\ IsNumber(metric(c).value) <=> Given(e[c])
               /\ Given(e[c]) => metric(c).value.n = e[c].n
    <2>1. CASE Given(e[c])
      BY <2>1 DEF Normalize, MetricInput, Number, IsNumber, Given
    <2>2. CASE ~Given(e[c])
      BY <2>2 DEF Normalize, MetricInput, Absent, Null, IsNumber, Given
    <2> QED  BY <2>1, <2>2
  <1> HIDE DEF metric
  <1>3. Numbers({metric(c) : c \in DeepSeek!Components}) =
          {<<metric(c).key, metric(c).value.n>> :
             c \in {d \in DeepSeek!Components : IsNumber(metric(d).value)}}
    BY DEF Numbers
  <1>4. {d \in DeepSeek!Components : IsNumber(metric(d).value)} =
          {d \in DeepSeek!Components : Given(e[d])}
    BY <1>2
  <1>5. PICK S : S = {d \in DeepSeek!Components : Given(e[d])}
    OBVIOUS
  <1>6. \A c \in S : <<metric(c).key, metric(c).value.n>> = <<<<"wallet", e.currency, c>>, e[c].n>>
    BY <1>2, <1>5
  <1>7. {<<metric(c).key, metric(c).value.n>> : c \in S} =
          {<<<<"wallet", e.currency, c>>, e[c].n>> : c \in S}
    BY ONLY <1>6
  <1> QED  BY <1>1, <1>3, <1>4, <1>5, <1>7

(* A balance reading tells each component and estimate of each currency.   *)
LEMMA DeepSeekTells ==
  ASSUME NEW key, NEW a, DeepSeek!RefreshDeepSeek(key, a).kind = "none",
         \A e \in Elements(a.infos) : IsEstimate(e.estimate.spend)
  PROVE  Numbers(DeepSeek!RefreshDeepSeek(key, a).metrics) = StatedByDeepSeek(a)
  <1> DEFINE entry(e) == DeepSeek!BalanceMetrics(e) \cup DeepSeek!Estimated(e)
             told(e) == {<<<<"wallet", e.currency, c>>, e[c].n>> :
                           c \in {d \in DeepSeek!Components : Given(e[d])}}
                          \cup StatedEstimate(e.currency, e.total, e.estimate)
             infos == Elements(a.infos)
  <1>1. DeepSeek!RefreshDeepSeek(key, a).metrics = UNION {entry(e) : e \in infos}
    <2>1. DeepSeek!Elements(a.infos) = Elements(a.infos)
      BY DEF DeepSeek!Elements, Elements
    <2> DEFINE checks == <<DeepSeek!ResolveApiKey(key),
              DeepSeek!Get(DeepSeek!KeychainGet(key).secret, a.http),
              DeepSeek!Classify(a.http.status),
              DeepSeek!ParseBalance(a)>>
    <2>2. DeepSeek!RefreshDeepSeek(key, a) = Outcome(checks, UNION {entry(e) : e \in infos})
      BY <2>1, SameAnswers DEF DeepSeek!RefreshDeepSeek
    <2> HIDE DEF checks
    <2> QED  BY <2>2, Passed
  <1>2. ASSUME NEW e \in infos PROVE Numbers(entry(e)) = told(e)
    <2>1. IsEstimate(e.estimate.spend)
      OBVIOUS
    <2>2. DeepSeek!Estimated(e) = IF Given(e.total) THEN SpendMetric(e.currency, e.estimate) ELSE {}
      BY SameAnswers DEF DeepSeek!Estimated
    <2>3. Numbers({}) = {}
      BY DEF Numbers
    <2>4. Numbers(DeepSeek!Estimated(e)) = StatedEstimate(e.currency, e.total, e.estimate)
      BY <2>1, <2>2, <2>3, SpendNumbers
    <2>5. Numbers(entry(e)) =
            Numbers(DeepSeek!BalanceMetrics(e)) \cup Numbers(DeepSeek!Estimated(e))
      BY NumbersOfBoth
    <2> QED  BY <2>4, <2>5, BalanceNumbers
  <1> HIDE DEF entry, told, infos
  <1>3. Numbers(UNION {entry(e) : e \in infos}) = UNION {Numbers(entry(e)) : e \in infos}
    BY DEF Numbers
  <1>4. UNION {Numbers(entry(e)) : e \in infos} = UNION {told(e) : e \in infos}
    BY <1>2
  <1> QED  BY <1>1, <1>3, <1>4 DEF StatedByDeepSeek, told, infos

(* What is made of a bucket of rate limits, and what it states.            *)
BucketMetrics(b) ==
  Codex!WindowMetrics(b, "primary") \cup Codex!WindowMetrics(b, "secondary")
    \cup Codex!CreditMetric(b)

WindowTold(b, w) == IF b[w].is = "object" THEN WindowsStated(<<b.id>>, w, b[w].used) ELSE {}
CreditTold(b) == {<<<<b.id, "credits">>, v.n>> : v \in {u \in {b.credits} : IsNumeric(u)}}
BucketTold(b) == WindowTold(b, "primary") \cup WindowTold(b, "secondary") \cup CreditTold(b)

(* No window of a quota is named like the activity of Codex.               *)
LEMMA QuotaKeys ==
  ASSUME NEW p, NEW w, NEW used, NEW window, NEW reset,
         NEW m \in Quota(<<p, w>>, used, window, reset)
  PROVE  ~Activity(m)
  <1> DEFINE share(side) ==
        [Normalize(MetricInput(Append(<<p, w>>, side[1]), Number(side[2]), "percent"))
           EXCEPT !.window = window, !.reset = reset]
  <1>1. PICK side : m = share(side)
    BY DEF Quota
  <1>2. m.key = Append(<<p, w>>, side[1])
    BY <1>1 DEF MetricInput, Normalize
  <1>3. Len(m.key) = 3
    BY <1>2
  <1> QED  BY <1>3 DEF Activity

(* Credits that are no number are shown but tell none.                     *)
LEMMA CreditNumbers ==
  ASSUME NEW b
  PROVE  /\ Numbers(Codex!CreditMetric(b)) = CreditTold(b)
         /\ \A m \in Codex!CreditMetric(b) : ~Activity(m)
  <1> DEFINE v == b.credits
             value == Codex!CreditValue(v)
  <1>1. value = CASE IsNumeric(v) -> Number(v.n) [] v = Word -> Word [] OTHER -> Absent
    BY DEF Codex!CreditValue, Codex!IsNumeric, IsNumeric, Codex!Number, Number, Codex!Word, Word,
           Codex!Absent, Absent
  <1>2. CASE IsNumeric(v)
    <2>1. value = Number(v.n)
      BY <1>1, <1>2 DEF IsNumeric, Word
    <2> PICK metric : metric = MetricInput(<<b.id, "credits">>, value, "credits")
      OBVIOUS
    <2>2. Codex!CreditMetric(b) = {metric}
      <3>1. Given(value)
        BY <2>1 DEF Given, Number
      <3> QED  BY <3>1, SameAnswers DEF Codex!CreditMetric
    <2>3. metric.key = <<b.id, "credits">> /\ IsNumber(metric.value) /\ metric.value.n = v.n
      BY <2>1 DEF MetricInput, Number, IsNumber
    <2>4. Numbers({metric}) = {<<<<b.id, "credits">>, v.n>>}
      BY <2>3 DEF Numbers
    <2>5. CreditTold(b) = {<<<<b.id, "credits">>, v.n>>}
      BY <1>2 DEF CreditTold
    <2>6. metric.key # <<"activity", "daily">> /\ metric.key # <<"activity", "lifetime">>
      BY <2>3
    <2> QED  BY <2>2, <2>4, <2>5, <2>6 DEF Activity
  <1>3. CASE ~IsNumeric(v)
    <2>1. value = Word \/ value = Absent
      BY <1>1, <1>3
    <2> PICK metric : metric = MetricInput(<<b.id, "credits">>, value, "credits")
      OBVIOUS
    <2>2. Codex!CreditMetric(b) \subseteq {metric}
      BY <2>1, SameAnswers DEF Codex!CreditMetric, Given
    <2>3. metric.key = <<b.id, "credits">> /\ ~IsNumber(metric.value)
      BY <2>1 DEF MetricInput, Word, Absent, IsNumber
    <2>4. Numbers(Codex!CreditMetric(b)) = {}
      BY <2>2, <2>3 DEF Numbers
    <2>5. CreditTold(b) = {}
      BY <1>3 DEF CreditTold
    <2>6. metric.key # <<"activity", "daily">> /\ metric.key # <<"activity", "lifetime">>
      BY <2>3
    <2> QED  BY <2>2, <2>4, <2>5, <2>6 DEF Activity
  <1> QED  BY <1>2, <1>3

(* A window that is not there tells nothing.                               *)
LEMMA WindowNumbers ==
  ASSUME NEW b, NEW w
  PROVE  /\ Numbers(Codex!WindowMetrics(b, w)) = WindowTold(b, w)
         /\ \A m \in Codex!WindowMetrics(b, w) : ~Activity(m)
  <1>1. Codex!WindowMetrics(b, w) =
          IF b[w].is # "object" THEN {}
          ELSE Quota(<<b.id, w>>, b[w].used,
                     Codex!Positive(b[w].minutes), Codex!Positive(b[w].resets))
    BY SameAnswers DEF Codex!WindowMetrics
  <1>2. CASE b[w].is = "object"
    <2> PICK minutes, resets, used : /\ minutes = Codex!Positive(b[w].minutes)
                                     /\ resets = Codex!Positive(b[w].resets)
                                     /\ used = b[w].used
      OBVIOUS
    <2>1. Codex!WindowMetrics(b, w) = Quota(<<b.id, w>>, used, minutes, resets)
      BY <1>1, <1>2
    <2>2. WindowTold(b, w) = WindowsStated(<<b.id>>, w, used)
      BY <1>2 DEF WindowTold
    <2>3. Numbers(Quota(<<b.id, w>>, used, minutes, resets)) = WindowsStated(<<b.id>>, w, used)
      BY QuotaNumbers
    <2>4. \A m \in Quota(<<b.id, w>>, used, minutes, resets) : ~Activity(m)
      BY QuotaKeys
    <2> QED  BY <2>1, <2>2, <2>3, <2>4
  <1>3. CASE b[w].is # "object"
    BY <1>1, <1>3 DEF WindowTold, Numbers
  <1> QED  BY <1>2, <1>3

(* A bucket tells its windows and credits.                                 *)
LEMMA BucketNumbers ==
  ASSUME NEW b
  PROVE  /\ Numbers(BucketMetrics(b)) = BucketTold(b)
         /\ \A m \in BucketMetrics(b) : ~Activity(m)
  <1> PICK A, B, C : /\ A = Codex!WindowMetrics(b, "primary")
                     /\ B = Codex!WindowMetrics(b, "secondary")
                     /\ C = Codex!CreditMetric(b)
    OBVIOUS
  <1>1. Numbers(A \cup B \cup C) = Numbers(A) \cup Numbers(B) \cup Numbers(C)
    BY NumbersOfThree
  <1>2. /\ Numbers(A) = WindowTold(b, "primary") /\ \A m \in A : ~Activity(m)
        /\ Numbers(B) = WindowTold(b, "secondary") /\ \A m \in B : ~Activity(m)
        /\ Numbers(C) = CreditTold(b) /\ \A m \in C : ~Activity(m)
    BY WindowNumbers, CreditNumbers
  <1> QED  BY <1>1, <1>2 DEF BucketMetrics, BucketTold

(* What the rate limits state, bucket by bucket.                           *)
LEMMA StatedIsBuckets ==
  ASSUME NEW a
  PROVE  StatedByCodex(a) = UNION {BucketTold(b) : b \in Codex!Buckets(a.limits)}
  <1>1. ASSUME NEW b
        PROVE  UNION {WindowsStated(<<b.id>>, w, b[w].used) :
                        w \in {v \in {"primary", "secondary"} : b[v].is = "object"}}
                 = WindowTold(b, "primary") \cup WindowTold(b, "secondary")
    <2>1. PICK S : S = {v \in {"primary", "secondary"} : b[v].is = "object"}
      OBVIOUS
    <2> DEFINE told(w) == WindowsStated(<<b.id>>, w, b[w].used)
    <2>2. \A x : x \in UNION {told(w) : w \in S} <=>
                    x \in WindowTold(b, "primary") \cup WindowTold(b, "secondary")
      <3>1. /\ WindowTold(b, "primary") = IF "primary" \in S THEN told("primary") ELSE {}
            /\ WindowTold(b, "secondary") = IF "secondary" \in S THEN told("secondary") ELSE {}
        BY <2>1 DEF WindowTold
      <3>2. S \subseteq {"primary", "secondary"}
        BY <2>1
      <3> HIDE DEF told
      <3> QED  BY <3>1, <3>2
    <2> QED  BY <2>1, <2>2
  <1> DEFINE stated(b) == (UNION {WindowsStated(<<b.id>>, w, b[w].used) :
                             w \in {v \in {"primary", "secondary"} : b[v].is = "object"}})
             \cup {<<<<b.id, "credits">>, v.n>> : v \in {u \in {b.credits} : IsNumeric(u)}}
  <1>2. \A b : stated(b) = BucketTold(b)
    BY <1>1 DEF BucketTold, CreditTold
  <1>3. StatedByCodex(a) = UNION {stated(b) : b \in Codex!Buckets(a.limits)}
    BY DEF StatedByCodex
  <1> HIDE DEF stated
  <1> QED  BY <1>2, <1>3

(* The entries that are read are entries of the answer.                    *)
LEMMA UpToDayElements ==
  ASSUME NEW s, NEW day, IsArray(s)
  PROVE  Codex!Elements(Codex!UpToDay(s, day)) \subseteq Elements(s)
  <1> DEFINE found == {i \in 1..Len(s) : Codex!Readable(s[i]) /\ s[i].day = day}
  <1>1. s \in Seq(Elements(s))
    BY DEF IsArray
  <1>2. CASE found = {}
    BY <1>2 DEF Codex!UpToDay, Codex!Elements, Elements
  <1>3. CASE found # {}
    <2>1. found \subseteq Nat
      OBVIOUS
    <2> DEFINE k == CHOOSE i \in found : \A j \in found : i <= j
    <2>2. k \in found
      <3>1. \E i \in found : \A j \in found : i <= j
        <4> HIDE DEF found
        <4> QED  BY <1>3, <2>1, LeastNatural
      <3> HIDE DEF found
      <3> QED  BY <3>1
    <2>3. Codex!UpToDay(s, day) = SubSeq(s, 1, k)
      BY <1>3 DEF Codex!UpToDay
    <2>4. k \in 1..Len(s)
      <3> HIDE DEF k
      <3> QED  BY <2>2
    <2> HIDE DEF k, found
    <2>5. Len(SubSeq(s, 1, k)) = k /\ \A i \in 1..k : SubSeq(s, 1, k)[i] = s[i]
      <3> PICK T : T = Elements(s)
        OBVIOUS
      <3> QED  BY <1>1, <2>4
    <2> QED  BY <2>3, <2>4, <2>5 DEF Codex!Elements, Elements
  <1> QED  BY <1>2, <1>3

(* All that the usage adds is activity, the daily one of the day asked for. *)
LEMMA UsageTells ==
  ASSUME NEW usage, NEW day, IsArray(usage.buckets.entries),
         NEW m \in Codex!NormalizeUsage(usage, day).metrics
  PROVE  /\ Activity(m)
         /\ m.key = <<"activity", "daily">> =>
              \E e \in Elements(usage.buckets.entries) : e.day = day /\ e.tokens = m.value
  <1> DEFINE entries == IF usage.buckets.is = "array"
                          THEN Codex!UpToDay(usage.buckets.entries, day) ELSE <<>>
             daily(e) == [MetricInput(<<"activity", "daily">>, e.tokens, "tokens")
                            EXCEPT !.scope = [day |-> 1, from |-> 0, to |-> 0, confirmed |-> TRUE]]
             dailies == {daily(e) : e \in {f \in Codex!Elements(entries) : f.day = day}}
             lifetimes == {MetricInput(<<"activity", "lifetime">>, v, "tokens") :
                             v \in {u \in {usage.lifetime} : Codex!IsCount(u)}}
             checks == <<Codex!Check(usage.summary, "compatibility"),
                         Codex!Check(usage.buckets.is \in {"absent", "array"}, "compatibility"),
                         Codex!Check(\A e \in Codex!Elements(entries) : Codex!Readable(e),
                                     "compatibility")>>
  <1>1. Codex!NormalizeUsage(usage, day) = Outcome(checks, dailies \cup lifetimes)
    BY SameAnswers DEF Codex!NormalizeUsage
  <1>2. m \in dailies \cup lifetimes
    <2> HIDE DEF checks, dailies, lifetimes
    <2> QED  BY <1>1, OutcomeMetrics
  <1>3. CASE m \in dailies
    <2>1. PICK e \in Codex!Elements(entries) : e.day = day /\ m = daily(e)
      BY <1>3
    <2>2. e \in Elements(usage.buckets.entries)
      <3>1. CASE usage.buckets.is = "array"
        BY <2>1, <3>1, UpToDayElements
      <3>2. CASE usage.buckets.is # "array"
        BY <2>1, <3>2 DEF Codex!Elements
      <3> QED  BY <3>1, <3>2
    <2>3. m.key = <<"activity", "daily">> /\ m.value = e.tokens
      BY <2>1 DEF MetricInput
    <2> QED  BY <2>1, <2>2, <2>3 DEF Activity
  <1>4. CASE m \in lifetimes
    <2>1. m.key = <<"activity", "lifetime">>
      BY <1>4 DEF MetricInput
    <2> QED  BY <2>1 DEF Activity
  <1> QED  BY <1>2, <1>3, <1>4

(* A reading of Codex tells its buckets, whatever became of the usage.     *)
LEMMA CodexTells ==
  ASSUME NEW day, NEW a, Codex!RefreshCodex(day, a).kind = "none", IsArray(a.usage.buckets.entries)
  PROVE  /\ Numbers({m \in Codex!RefreshCodex(day, a).metrics : ~Activity(m)}) = StatedByCodex(a)
         /\ \A m \in Codex!RefreshCodex(day, a).metrics : m.key = <<"activity", "daily">> =>
              \E e \in Elements(a.usage.buckets.entries) : e.day = day /\ e.tokens = m.value
  <1> PICK M : M = Codex!RefreshCodex(day, a).metrics
    OBVIOUS
  <1> DEFINE limits == Codex!NormalizeRateLimits(a.limits)
             usage == IF a.usageRpc = "none" THEN Codex!NormalizeUsage(a.usage, day).metrics ELSE {}
             checks == <<a.accountRpc, Codex!Check(Codex!Given(a.account), "authentication"),
                         a.limitsRpc, limits.kind>>
  <1>1. Codex!RefreshCodex(day, a) = Outcome(checks, limits.metrics \cup usage)
    BY SameAnswers DEF Codex!RefreshCodex
  <1>2. Len(checks) = 4 /\ checks[4] = limits.kind
    <2> HIDE DEF limits
    <2> QED  OBVIOUS
  <1>3. limits.kind = "none" /\ M = limits.metrics \cup usage
    <2> HIDE DEF limits, usage, checks
    <2>1. /\ \A i \in 1..Len(checks) : checks[i] = "none"
          /\ Outcome(checks, limits.metrics \cup usage).metrics = limits.metrics \cup usage
      BY <1>1, Passed
    <2> QED  BY <1>1, <1>2, <2>1
  <1>4. limits.metrics = UNION {BucketMetrics(b) : b \in Codex!Buckets(a.limits)}
    <2> DEFINE buckets == Codex!Buckets(a.limits)
               kind == Codex!FirstFailure(<<Codex!Check(a.limits.object, "compatibility"),
                               Codex!Check(a.limits.legacy # "other", "compatibility"),
                               Codex!Check(buckets # {}, "compatibility"),
                               Codex!Check(\A b \in buckets : Codex!BucketCheck(b) = "none",
                                           "compatibility")>>)
               all == UNION {BucketMetrics(b) : b \in buckets}
    <2>1. limits = Outcome(<<kind>>, IF kind # "none" THEN {} ELSE all)
      BY SameAnswers DEF Codex!NormalizeRateLimits, BucketMetrics
    <2> HIDE DEF limits, kind, all
    <2>2. kind = "none" /\ limits.metrics = IF kind # "none" THEN {} ELSE all
      <3> PICK c, T : c = <<kind>> /\ T = IF kind # "none" THEN {} ELSE all
        OBVIOUS
      <3>1. Outcome(c, T).kind = "none"
        BY <1>3, <2>1
      <3>2. /\ \A i \in 1..Len(c) : c[i] = "none"
            /\ Outcome(c, T).metrics = T
        BY <3>1, Passed
      <3>3. Len(c) = 1 /\ c[1] = kind
        OBVIOUS
      <3> QED  BY <2>1, <3>2, <3>3
    <2> QED  BY <2>2 DEF all
  <1>5. \A m \in usage : /\ Activity(m)
                         /\ m.key = <<"activity", "daily">> =>
                              \E e \in Elements(a.usage.buckets.entries) :
                                 e.day = day /\ e.tokens = m.value
    BY UsageTells
  <1>6. \A m \in limits.metrics : ~Activity(m)
    BY <1>4, BucketNumbers
  <1>7. {m \in M : ~Activity(m)} = limits.metrics
    <2> HIDE DEF limits, usage
    <2> QED  BY <1>3, <1>5, <1>6
  <1>8. Numbers(limits.metrics) = UNION {Numbers(BucketMetrics(b)) : b \in Codex!Buckets(a.limits)}
    <2> HIDE DEF limits
    <2> QED  BY <1>4 DEF Numbers
  <1>9. Numbers(limits.metrics) = StatedByCodex(a)
    <2> HIDE DEF limits
    <2> QED  BY <1>8, BucketNumbers, StatedIsBuckets
  <1>10. \A m \in limits.metrics : m.key # <<"activity", "daily">>
    BY <1>6 DEF Activity
  <1> HIDE DEF limits, usage
  <1> QED  BY <1>3, <1>5, <1>7, <1>9, <1>10

(* A sum of nothing but zeros is zero. *)
LEMMA SumOfZeros ==
  ASSUME NEW S, IsFiniteSet(S), \A s \in S : s[1] = 0
  PROVE  SumOf(S) = 0
  <1> DEFINE Adds(f) == f = [T \in SUBSET S |->
                          IF T = {} THEN 0
                          ELSE LET t == CHOOSE t \in T : TRUE IN t[1] + f[T \ {t}]]
             sum == CHOOSE f : Adds(f)
  <1>1. SumOf(S) = sum[S]
    BY DEF SumOf
  <1>2. Adds(sum)
    <2>1. Adds([T \in SUBSET S |-> 0])
      <3> DEFINE zero == [T \in SUBSET S |-> 0]
      <3>1. ASSUME NEW T \in SUBSET S
            PROVE  zero[T] = IF T = {} THEN 0
                             ELSE LET t == CHOOSE t \in T : TRUE IN t[1] + zero[T \ {t}]
        <4>1. CASE T # {}
          <5> DEFINE t == CHOOSE t \in T : TRUE
          <5>1. t \in T
            BY <4>1
          <5> HIDE DEF t
          <5>2. t[1] = 0 /\ zero[T \ {t}] = 0 /\ zero[T] = 0
            BY <5>1
          <5> HIDE DEF zero
          <5>3. zero[T] = t[1] + zero[T \ {t}]
            BY <5>2
          <5> QED  BY <4>1, <5>3 DEF t
        <4> QED  BY <4>1
      <3>2. zero = [T \in SUBSET S |->
                      IF T = {} THEN 0
                      ELSE LET t == CHOOSE t \in T : TRUE IN t[1] + zero[T \ {t}]]
        BY <3>1, Zenon
      <3> QED  BY <3>2
    <2> HIDE DEF Adds
    <2> QED  BY <2>1
  <1> HIDE DEF sum
  <1> DEFINE Wrong == {T \in SUBSET S : sum[T] # 0}
             Sizes == {Cardinality(T) : T \in Wrong}
  <1>3. CASE Wrong # {}
    <2>1. Sizes \subseteq Nat /\ Sizes # {}
      BY <1>3, FS_Subset, FS_CardinalityType
    <2>2. PICK n \in Sizes : \A m \in Sizes : n <= m
      <3> HIDE DEF Sizes
      <3> QED  BY <2>1, LeastNatural
    <2>3. PICK T \in Wrong : n = Cardinality(T)
      BY <2>2
    <2>4. T \subseteq S /\ sum[T] # 0
      BY <2>3
    <2>5. sum[T] = IF T = {} THEN 0
                   ELSE LET t == CHOOSE t \in T : TRUE IN t[1] + sum[T \ {t}]
      <3>1. sum = [U \in SUBSET S |-> IF U = {} THEN 0
                           ELSE LET t == CHOOSE t \in U : TRUE IN t[1] + sum[U \ {t}]]
        BY <1>2
      <3>2. PICK g : g = [U \in SUBSET S |-> IF U = {} THEN 0
                           ELSE LET t == CHOOSE t \in U : TRUE IN t[1] + sum[U \ {t}]]
        OBVIOUS
      <3>3. g[T] = IF T = {} THEN 0
                   ELSE LET t == CHOOSE t \in T : TRUE IN t[1] + sum[T \ {t}]
        BY <2>4, <3>2
      <3> QED  BY <3>1, <3>2, <3>3
    <2>6. T # {}
      BY <2>4, <2>5
    <2>7. PICK t \in T : sum[T] = t[1] + sum[T \ {t}]
      <3>1. PICK u : u = CHOOSE v \in T : TRUE
        OBVIOUS
      <3>2. u \in T
        BY <2>6, <3>1
      <3>3. sum[T] = u[1] + sum[T \ {u}]
        BY <2>5, <2>6, <3>1
      <3> QED  BY <3>2, <3>3
    <2>8. IsFiniteSet(T) /\ T \ {t} \subseteq S
      BY <2>4, FS_Subset
    <2>9. /\ Cardinality(T \ {t}) = Cardinality(T) - 1
          /\ Cardinality(T) \in Nat
      BY <2>7, <2>8, FS_RemoveElement, FS_CardinalityType
    <2>10. T \ {t} \notin Wrong
      <3> SUFFICES ASSUME T \ {t} \in Wrong PROVE FALSE
        OBVIOUS
      <3>1. Cardinality(T \ {t}) \in Sizes
        OBVIOUS
      <3>2. n <= Cardinality(T) - 1
        BY <2>2, <2>9, <3>1
      <3> QED  BY <2>3, <2>9, <3>2
    <2>11. sum[T \ {t}] = 0
      BY <2>8, <2>10
    <2>12. t[1] = 0
      BY <2>4, <2>7
    <2> QED  BY <2>4, <2>7, <2>11, <2>12
  <1>4. CASE Wrong = {}
    BY <1>1, <1>4
  <1> QED  BY <1>3, <1>4

(* DeepSeekReadings sums like Answers.                                     *)
LEMMA SameSums ==
  /\ \A S : DeepSeek!SumOf(S) = SumOf(S)
  /\ \A v : DeepSeek!IsNumeric(v) <=> IsNumeric(v)
  /\ \A f : DeepSeek!Sum(f) = Sum(f)
  <1>1. \A S : DeepSeek!SumOf(S) = SumOf(S)
    BY DEF DeepSeek!SumOf, SumOf
  <1>2. \A v : DeepSeek!IsNumeric(v) <=> IsNumeric(v)
    BY DEF DeepSeek!IsNumeric, IsNumeric
  <1>3. \A f : DeepSeek!Sum(f) = Sum(f)
    BY <1>1, <1>2 DEF DeepSeek!Sum, Sum
  <1> QED  BY <1>1, <1>2, <1>3

(* Some entry of the currency states a cost.                               *)
HasCosts(costs, c) ==
  \E e \in Elements(costs) : e.currency = c /\ \E i \in 1..Len(e.costs) : IsNumeric(e.costs[i])

(* A currency none of whose entries states a cost is billed zero.          *)
LEMMA NothingBilled ==
  ASSUME NEW costs, NEW c, IsArray(costs), \A e \in Elements(costs) : IsArray(e.costs),
         ~HasCosts(costs, c)
  PROVE  DeepSeek!Total(costs, c) = 0
  <1> DEFINE sums == [i \in 1..Len(costs) |->
                   IF costs[i].currency = c THEN Number(Sum(costs[i].costs)) ELSE Absent]
             parts == {i \in DOMAIN sums : IsNumeric(sums[i])}
             addends == {<<sums[i].n, i>> : i \in parts}
  <1>1. Len(costs) \in Nat
    <2> PICK T : T = Elements(costs) /\ costs \in Seq(T)
      BY DEF IsArray
    <2> QED  OBVIOUS
  <1>2. DeepSeek!Total(costs, c) = SumOf(addends)
    <2>1. DeepSeek!Total(costs, c) = Sum(sums)
      BY SameSums DEF DeepSeek!Total, DeepSeek!Number, Number, DeepSeek!Absent, Absent
    <2> HIDE DEF sums
    <2> QED  BY <2>1 DEF Sum
  <1>3. ASSUME NEW i \in parts PROVE sums[i].n = 0
    <2>1. i \in 1..Len(costs) /\ IsNumeric(sums[i])
      OBVIOUS
    <2>2. costs[i].currency = c /\ sums[i] = Number(Sum(costs[i].costs))
      BY <2>1 DEF Absent, IsNumeric
    <2>3. PICK s : s = costs[i].costs
      OBVIOUS
    <2>4. costs[i] \in Elements(costs)
      BY <2>1 DEF Elements
    <2>5. IsArray(s) /\ \A k \in 1..Len(s) : ~IsNumeric(s[k])
      BY <2>2, <2>3, <2>4 DEF HasCosts
    <2>6. DOMAIN s = 1..Len(s)
      <3> PICK T : T = Elements(s) /\ s \in Seq(T)
        BY <2>5 DEF IsArray
      <3> QED  OBVIOUS
    <2>7. Sum(s) = SumOf({})
      <3>1. {k \in DOMAIN s : IsNumeric(s[k])} = {}
        BY <2>5, <2>6
      <3>2. {<<s[k].n, k>> : k \in {j \in DOMAIN s : IsNumeric(s[j])}} = {}
        BY <3>1
      <3> QED  BY <3>2 DEF Sum
    <2>8. SumOf({}) = 0
      BY SumOfZeros, FS_EmptySet
    <2> QED  BY <2>2, <2>3, <2>7, <2>8 DEF Number
  <1>4. IsFiniteSet(parts)
    <2>1. IsFiniteSet(1..Len(costs))
      BY <1>1, FS_Interval
    <2>2. parts \subseteq 1..Len(costs)
      OBVIOUS
    <2> QED  BY <2>1, <2>2, FS_Subset
  <1> HIDE DEF sums, parts
  <1>5. IsFiniteSet(addends)
    <2> DEFINE place == [i \in parts |-> <<sums[i].n, i>>]
    <2>1. place \in Surjection(parts, addends)
      BY DEF Surjection
    <2> HIDE DEF place, addends
    <2> QED  BY <1>4, <2>1, FS_Surjection
  <1>6. \A x \in addends : x[1] = 0
    BY <1>3
  <1> QED  BY <1>2, <1>5, <1>6, SumOfZeros

(* The totals of currencies, and the sum of a counter that is stated.      *)
WebSpendTold(costs, S) == {<<<<"spend", c, "billed">>, DeepSeek!Total(costs, c)>> : c \in S}
WebSumTold(name, values) ==
  IF \E i \in DOMAIN values : IsNumeric(values[i])
    THEN {<<<<"activity", name>>, Sum(values)>>} ELSE {}

(* A sum is told if one of its parts is stated, and is absent otherwise.   *)
LEMMA WebSumNumbers ==
  ASSUME NEW name, NEW values, NEW scope
  PROVE  Numbers(DeepSeek!UsageMetric(<<"activity", name>>, DeepSeek!SumIfStated(values),
                                      name, scope)) = WebSumTold(name, values)
  <1> PICK value : value = DeepSeek!SumIfStated(values)
    OBVIOUS
  <1> PICK metric : metric = [MetricInput(<<"activity", name>>, value, name)
                                EXCEPT !.scope = scope, !.marks = {"experimental"}]
    OBVIOUS
  <1>1. value = IF \E i \in DOMAIN values : IsNumeric(values[i])
                  THEN Number(Sum(values)) ELSE Absent
    BY SameSums DEF DeepSeek!SumIfStated, DeepSeek!Number, Number, DeepSeek!Absent, Absent
  <1>2. DeepSeek!UsageMetric(<<"activity", name>>, value, name, scope) =
          IF Given(value) THEN {metric} ELSE {}
    BY SameAnswers DEF DeepSeek!UsageMetric
  <1>3. metric.key = <<"activity", name>> /\ metric.value = value
    BY DEF MetricInput
  <1>4. CASE \E i \in DOMAIN values : IsNumeric(values[i])
    <2>1. value = Number(Sum(values))
      BY <1>1, <1>4
    <2>2. Given(value) /\ IsNumber(value) /\ value.n = Sum(values)
      BY <2>1 DEF Given, IsNumber, Number
    <2>3. Numbers({metric}) = {<<<<"activity", name>>, Sum(values)>>}
      BY <1>3, <2>2 DEF Numbers
    <2> QED  BY <1>2, <1>4, <2>2, <2>3 DEF WebSumTold
  <1>5. CASE ~\E i \in DOMAIN values : IsNumeric(values[i])
    <2>1. ~Given(value)
      BY <1>1, <1>5 DEF Given, Absent
    <2> QED  BY <1>2, <1>5, <2>1 DEF WebSumTold, Numbers
  <1> QED  BY <1>4, <1>5

(* A total is told whatever it was made of.                                *)
LEMMA WebSpendNumbers ==
  ASSUME NEW cost, NEW c, NEW scope
  PROVE  Numbers(WebSpend(cost, c, scope)) =
           {<<<<"spend", c, "billed">>, DeepSeek!Total(cost.costs, c)>>}
  <1> PICK total : total = DeepSeek!Total(cost.costs, c)
    OBVIOUS
  <1> PICK metric : metric = [MetricInput(<<"spend", c, "billed">>, Number(total), c)
                                EXCEPT !.scope = scope, !.marks = {"experimental"}]
    OBVIOUS
  <1>1. Given(Number(total)) /\ IsNumber(Number(total)) /\ Number(total).n = total
    BY DEF Given, IsNumber, Number
  <1>2. WebSpend(cost, c, scope) = {metric}
    <2>1. DeepSeek!Number(total) = Number(total)
      BY DEF DeepSeek!Number, Number
    <2>2. DeepSeek!UsageMetric(<<"spend", c, "billed">>, Number(total), c, scope) = {metric}
      BY <1>1, SameAnswers DEF DeepSeek!UsageMetric
    <2> QED  BY <2>1, <2>2 DEF WebSpend
  <1>3. metric.key = <<"spend", c, "billed">> /\ metric.value = Number(total)
    BY DEF MetricInput
  <1>4. Numbers({metric}) = {<<<<"spend", c, "billed">>, total>>}
    BY <1>1, <1>3 DEF Numbers
  <1> QED  BY <1>2, <1>4

(* The numbers of the console's metrics, one by one.                       *)
LEMMA WebNumbers ==
  ASSUME NEW cost, NEW amount, NEW window, NEW x
  PROVE  x \in Numbers(DeepSeek!UsageMetrics(cost, amount, window)) <=>
                  \/ x \in WebSpendTold(cost.costs, DeepSeek!Currencies(cost.costs))
                  \/ x \in WebSumTold("tokens", DeepSeek!Tokens(amount.buckets))
                  \/ x \in WebSumTold("requests", DeepSeek!Requests(amount.buckets))
  <1> PICK scope :
           scope = DeepSeek!Scope(window, DeepSeek!EchoConfirms(cost)
                                            /\ DeepSeek!EchoConfirms(amount))
    OBVIOUS
  <1>1. \A m : m \in DeepSeek!UsageMetrics(cost, amount, window) <=>
                  \/ \E c \in DeepSeek!Currencies(cost.costs) : m \in WebSpend(cost, c, scope)
                  \/ m \in WebTokens(amount, scope)
                  \/ m \in WebRequests(amount, scope)
    BY WebMetrics
  <1>2. x \in Numbers(DeepSeek!UsageMetrics(cost, amount, window)) <=>
          \/ \E c \in DeepSeek!Currencies(cost.costs) : x \in Numbers(WebSpend(cost, c, scope))
          \/ x \in Numbers(WebTokens(amount, scope))
          \/ x \in Numbers(WebRequests(amount, scope))
    BY <1>1, NumberTold
  <1>3. (\E c \in DeepSeek!Currencies(cost.costs) : x \in Numbers(WebSpend(cost, c, scope)))
          <=> x \in WebSpendTold(cost.costs, DeepSeek!Currencies(cost.costs))
    BY WebSpendNumbers DEF WebSpendTold
  <1>4. /\ Numbers(WebTokens(amount, scope)) = WebSumTold("tokens", DeepSeek!Tokens(amount.buckets))
        /\ Numbers(WebRequests(amount, scope)) =
             WebSumTold("requests", DeepSeek!Requests(amount.buckets))
    BY WebSumNumbers DEF WebTokens, WebRequests
  <1> QED  BY <1>2, <1>3, <1>4

(* ... and what its answers state.                                         *)
LEMMA StatedOnWeb ==
  ASSUME NEW a
  PROVE  \A x : x \in StatedByWeb(a) <=>
                  \/ x \in WebSpendTold(a.cost.costs,
                            {c \in DeepSeek!Currencies(a.cost.costs) : HasCosts(a.cost.costs, c)})
                  \/ x \in WebSumTold("tokens", DeepSeek!Tokens(a.amount.buckets))
                  \/ x \in WebSumTold("requests", DeepSeek!Requests(a.amount.buckets))
  <1> PICK tokens, requests : /\ tokens = DeepSeek!Tokens(a.amount.buckets)
                              /\ requests = DeepSeek!Requests(a.amount.buckets)
    OBVIOUS
  <1> PICK S : S = {c \in DeepSeek!Currencies(a.cost.costs) : HasCosts(a.cost.costs, c)}
    OBVIOUS
  <1> DEFINE sums == {<<<<"activity", s[1]>>, Sum(s[2])>> :
                        s \in {r \in {<<"tokens", tokens>>, <<"requests", requests>>} :
                                 \E i \in DOMAIN r[2] : IsNumeric(r[2][i])}}
  <1>1. StatedByWeb(a) = WebSpendTold(a.cost.costs, S) \cup sums
    BY DEF StatedByWeb, WebSpendTold, HasCosts
  <1>2. \A x : x \in sums <=> \/ x \in WebSumTold("tokens", tokens)
                              \/ x \in WebSumTold("requests", requests)
    <2>1. PICK named : named = {r \in {<<"tokens", tokens>>, <<"requests", requests>>} :
                                  \E i \in DOMAIN r[2] : IsNumeric(r[2][i])}
      OBVIOUS
    <2>2. sums = {<<<<"activity", s[1]>>, Sum(s[2])>> : s \in named}
      BY <2>1
    <2>3. /\ named \subseteq {<<"tokens", tokens>>, <<"requests", requests>>}
          /\ <<"tokens", tokens>> \in named <=> \E i \in DOMAIN tokens : IsNumeric(tokens[i])
          /\ <<"requests", requests>> \in named <=>
               \E i \in DOMAIN requests : IsNumeric(requests[i])
      BY <2>1
    <2>4. /\ WebSumTold("tokens", tokens) =
               IF <<"tokens", tokens>> \in named
                 THEN {<<<<"activity", "tokens">>, Sum(tokens)>>} ELSE {}
          /\ WebSumTold("requests", requests) =
               IF <<"requests", requests>> \in named
                 THEN {<<<<"activity", "requests">>, Sum(requests)>>} ELSE {}
      BY <2>3 DEF WebSumTold
    <2> HIDE DEF sums
    <2> QED  BY <2>2, <2>3, <2>4
  <1> HIDE DEF sums
  <1> QED  BY <1>1, <1>2

(* A console reading tells what is stated, and beyond that only zero spend. *)
LEMMA WebTells ==
  ASSUME NEW key, NEW on, NEW z, NEW t, NEW a,
         DeepSeek!RefreshDeepSeekWeb(key, on, z, t, a).kind = "none",
         IsArray(a.cost.costs), \A e \in Elements(a.cost.costs) : IsArray(e.costs)
  PROVE  LET numbers == Numbers(DeepSeek!RefreshDeepSeekWeb(key, on, z, t, a).metrics)
         IN  /\ StatedByWeb(a) \subseteq numbers
             /\ \A x \in numbers \ StatedByWeb(a) : x[1][1] = "spend" /\ x[2] = 0
  <1> PICK M, window : /\ M = DeepSeek!RefreshDeepSeekWeb(key, on, z, t, a).metrics
                       /\ window = DeepSeek!UsageWindow(z, t)
    OBVIOUS
  <1> DEFINE secret == DeepSeek!QuietSecret(key)
             read == DeepSeek!NormalizeUsage(a.cost, a.amount, window)
             checks == <<DeepSeek!Check(on, "missing_config"),
                 DeepSeek!Check(DeepSeek!Usable(secret), "missing_config"),
                 DeepSeek!ReadEnvelope(secret, a.cost),
                 DeepSeek!ReadEnvelope(secret, a.amount),
                 read.kind>>
             parsed == DeepSeek!FirstFailure(<<DeepSeek!BizData(a.cost), DeepSeek!BizData(a.amount),
                                 DeepSeek!ParseCosts(a.cost),
                                 DeepSeek!Check(a.amount.array, "compatibility")>>)
             all == DeepSeek!UsageMetrics(a.cost, a.amount, window)
  <1>1. DeepSeek!RefreshDeepSeekWeb(key, on, z, t, a) = Outcome(checks, read.metrics)
    BY SameAnswers DEF DeepSeek!RefreshDeepSeekWeb
  <1>2. Len(checks) = 5 /\ checks[5] = read.kind
    <2> HIDE DEF read, secret
    <2> QED  OBVIOUS
  <1>3. read.kind = "none" /\ M = read.metrics
    <2> HIDE DEF read, checks
    <2>1. /\ \A i \in 1..Len(checks) : checks[i] = "none"
          /\ Outcome(checks, read.metrics).metrics = read.metrics
      BY <1>1, Passed
    <2> QED  BY <1>1, <1>2, <2>1
  <1>4. read = Outcome(<<parsed>>, IF parsed = "none" THEN all ELSE {})
    BY SameAnswers DEF DeepSeek!NormalizeUsage
  <1>5. M = all
    <2> HIDE DEF read, parsed, all
    <2> PICK c, T : c = <<parsed>> /\ T = IF parsed = "none" THEN all ELSE {}
      OBVIOUS
    <2>1. Outcome(c, T).kind = "none"
      BY <1>3, <1>4
    <2>2. /\ \A i \in 1..Len(c) : c[i] = "none"
          /\ Outcome(c, T).metrics = T
      BY <2>1, Passed
    <2>3. Len(c) = 1 /\ c[1] = parsed
      OBVIOUS
    <2> QED  BY <1>3, <1>4, <2>2, <2>3
  <1> HIDE DEF read, all
  <1> PICK costs, C, tokens, requests :
         /\ costs = a.cost.costs /\ C = DeepSeek!Currencies(costs)
         /\ tokens = WebSumTold("tokens", DeepSeek!Tokens(a.amount.buckets))
         /\ requests = WebSumTold("requests", DeepSeek!Requests(a.amount.buckets))
    OBVIOUS
  <1>6. \A x : x \in Numbers(M) <=> x \in WebSpendTold(costs, C) \/ x \in tokens \/ x \in requests
    BY <1>5, WebNumbers DEF all
  <1>7. \A x : x \in StatedByWeb(a) <=> \/ x \in WebSpendTold(costs, {c \in C : HasCosts(costs, c)})
                                         \/ x \in tokens \/ x \in requests
    BY StatedOnWeb
  <1>8. ASSUME NEW x \in Numbers(M), x \notin StatedByWeb(a)
        PROVE  x[1][1] = "spend" /\ x[2] = 0
    <2>1. PICK c \in C : /\ x = <<<<"spend", c, "billed">>, DeepSeek!Total(costs, c)>>
                          /\ ~HasCosts(costs, c)
      BY <1>6, <1>7, <1>8 DEF WebSpendTold
    <2>2. DeepSeek!Total(costs, c) = 0
      BY <2>1, NothingBilled
    <2> QED  BY <2>1, <2>2
  <1>9. StatedByWeb(a) \subseteq Numbers(M)
    BY <1>6, <1>7 DEF WebSpendTold
  <1> QED  BY <1>8, <1>9

(* ReadingTellsTheAnswer of an outcome and the answer it was made from.    *)
AsStated(outcome, a) ==
  LET numbers == Numbers({m \in outcome.metrics : conn = "codex" => ~Activity(m)})
  IN  /\ Stated(a) \subseteq numbers
      /\ \A x \in numbers \ Stated(a) : conn = "deepseek:web" /\ x[1][1] = "spend" /\ x[2] = 0
      /\ conn = "codex" =>
           \A m \in outcome.metrics : m.key = <<"activity", "daily">> =>
             \E e \in Elements(a.usage.buckets.entries) : e.day = Today /\ e.tokens = m.value

(* Whatever the connection, an outcome without a failure is as stated.     *)
LEMMA RefreshTells ==
  ASSUME NEW key, NEW on, NEW at, conn \in Followed, NEW a \in AnswersOf(conn),
         Refresh(key, on, at, a).kind = "none"
  PROVE  AsStated(Refresh(key, on, at, a), a)
  <1> PICK outcome : outcome = Refresh(key, on, at, a)
    OBVIOUS
  <1>1. conn \in {"glm:quota", "glm:wallet", "deepseek:wallet", "deepseek:web", "codex"}
    BY ReadingsAssumption DEF Experimental
  <1>2. CASE conn = "glm:quota"
    <2>1. outcome = RefreshGlmQuota(key, zone, at, a)
      BY <1>2 DEF Refresh
    <2>2. Numbers(outcome.metrics) = StatedByGlm(a)
      BY <2>1, GlmTells
    <2> QED  BY <1>2, <2>2 DEF AsStated, Stated
  <1>3. CASE conn = "glm:wallet"
    <2>1. outcome = RefreshGlmWallet(key, on, a)
      BY <1>3 DEF Refresh
    <2>2. IsEstimate(a.estimate.spend)
      BY <1>3, AnswersAssumption
    <2>3. Numbers(outcome.metrics) = Stated(a)
      BY <1>3, <2>1, <2>2, GlmWalletTells DEF Stated
    <2> QED  BY <1>3, <2>3 DEF AsStated
  <1>4. CASE conn = "deepseek:wallet"
    <2>1. outcome = DeepSeek!RefreshDeepSeek(key, a)
      BY <1>4 DEF Refresh
    <2>2. \A e \in Elements(a.infos) : IsEstimate(e.estimate.spend)
      BY <1>4, AnswersAssumption
    <2>3. Numbers(outcome.metrics) = StatedByDeepSeek(a)
      BY <2>1, <2>2, DeepSeekTells
    <2> QED  BY <1>4, <2>3 DEF AsStated, Stated
  <1>5. CASE conn = "deepseek:web"
    <2>1. outcome = DeepSeek!RefreshDeepSeekWeb(key, on, zone, now, a)
      BY <1>5 DEF Refresh
    <2>2. IsArray(a.cost.costs) /\ \A e \in Elements(a.cost.costs) : IsArray(e.costs)
      BY <1>5, AnswersAssumption
    <2>3. /\ StatedByWeb(a) \subseteq Numbers(outcome.metrics)
          /\ \A x \in Numbers(outcome.metrics) \ StatedByWeb(a) : x[1][1] = "spend" /\ x[2] = 0
      BY <2>1, <2>2, WebTells
    <2> QED  BY <1>5, <2>3 DEF AsStated, Stated
  <1>6. CASE conn = "codex"
    <2>1. CASE Codex!Discover(a.cli) = "none"
      <3>1. outcome = Codex!RefreshCodex(Today, a)
        BY <1>6, <2>1 DEF Refresh
      <3>2. IsArray(a.usage.buckets.entries)
        BY <1>6, AnswersAssumption
      <3>3. /\ Numbers({m \in outcome.metrics : ~Activity(m)}) = StatedByCodex(a)
            /\ \A m \in outcome.metrics : m.key = <<"activity", "daily">> =>
                 \E e \in Elements(a.usage.buckets.entries) : e.day = Today /\ e.tokens = m.value
        BY <3>1, <3>2, CodexTells
      <3> QED  BY <1>6, <3>3 DEF AsStated, Stated
    <2>2. CASE Codex!Discover(a.cli) # "none"
      <3> PICK c : c = <<Codex!Discover(a.cli)>>
        OBVIOUS
      <3>1. outcome = Outcome(c, {})
        BY <1>6, <2>2 DEF Refresh
      <3>2. \A i \in 1..Len(c) : c[i] = "none"
        BY <3>1, Passed
      <3> QED  BY <2>2, <3>2
    <2> QED  BY <2>1, <2>2
  <1> QED  BY <1>1, <1>2, <1>3, <1>4, <1>5, <1>6

(* A reading holds exactly the numbers its answer states, and a currency   *)
(* without any cost is billed zero, for every answer a provider may give.  *)
THEOREM ReadingsTellTheAnswer == ReadingSpec => []ReadingTellsTheAnswer
  <1> DEFINE Told == conn \in Followed /\ ReadingTellsTheAnswer
  <1>1. ReadingInit => Told
    BY DEF ReadingInit, ReadingTellsTheAnswer, NoReading, Outcome, FirstFailure
  <1>2. ASSUME Told, [ReadingNext]_readingVars PROVE Told'
    <2>1. CASE Collect
      <3>1. PICK answer \in AnswersOf(conn) :
               last' = IF Refresh(Item, enabled, asked, answer).kind = "none"
                         THEN [answer |-> answer, at |-> asked,
                               outcome |-> Refresh(Item, enabled, asked, answer)]
                         ELSE [NoReading EXCEPT !.outcome = Refresh(Item, enabled, asked, answer)]
        BY <2>1 DEF Collect
      <3>2. conn' = conn
        BY <2>1 DEF Collect
      <3> PICK outcome : outcome = Refresh(Item, enabled, asked, answer)
        OBVIOUS
      <3>3. last'.outcome = outcome
        BY <3>1 DEF NoReading
      <3>4. CASE outcome.kind = "none"
        <4>1. last'.answer = answer
          BY <3>1, <3>4
        <4>2. AsStated(outcome, answer)
          BY <1>2, <3>4, RefreshTells
        <4> QED  BY <1>2, <3>2, <3>3, <4>1, <4>2 DEF AsStated, ReadingTellsTheAnswer, Stated
      <3>5. CASE outcome.kind # "none"
        BY <1>2, <3>2, <3>3, <3>5 DEF ReadingTellsTheAnswer
      <3> QED  BY <3>4, <3>5
    <2>2. CASE ~Collect
      <3>1. UNCHANGED <<conn, last>>
        BY <1>2, <2>2 DEF ReadingNext, Ask, PutCredential, Validated, DeleteCredential, Switch,
                          Lock, Tick, readingVars
      <3> QED  BY <1>2, <3>1 DEF ReadingTellsTheAnswer, Stated
    <2> QED  BY <2>1, <2>2
  <1>3. Told => ReadingTellsTheAnswer
    OBVIOUS
  <1> QED  BY <1>1, <1>2, <1>3, PTL DEF ReadingSpec
================================================================================
