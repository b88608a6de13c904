------------------------------ MODULE RegionCard ------------------------------
(* The GLM card and the region it is read from.  A write of the region makes    *)
(* the host collect GLM again (recollect_now in src-tauri/src/lib.rs); a run    *)
(* reads the region in effect when it starts, and its outcome is stored by the  *)
(* caller it returns to, once the gate is free for the next run                 *)
(* (run_connection_forced in crates/usage-service/src/lib.rs).  Any of these    *)
(* may fail or be lost, and the schedule tries again.                           *)
EXTENDS Naturals

CONSTANTS Refreshes,   \* requests of a refresh that may overlap
          Pass,        \* the scheduled pass
          Regions,     \* the regions of GLM
          Stored,      \* the region stored before the first start
          MaxWrites,   \* writes of the region in all
          MaxRestarts  \* restarts of the service in all

ASSUME RegionAssumption ==
    Pass \notin Refreshes /\ Stored \in Regions /\ MaxWrites \in Nat /\ MaxRestarts \in Nat

Callers == Refreshes \cup {Pass}

VARIABLES region,   \* glm_region of the settings in memory
          stored,   \* glm_region of the stored settings
          call,     \* each refresh: where it is, and what its run is read from
          card,     \* the stored reading's region, and has a run failed since?
          writes, restarts

vars == <<region, stored, call, card, writes, restarts>>
settings == <<region, stored, writes>>

NoCall == [pc |-> "idle", read |-> Stored, failed |-> FALSE]
At(c, pc) == call[c].pc = pc
Goto(c, pc) == call' = [call EXCEPT ![c].pc = pc]
Finish(c) == call' = [call EXCEPT ![c] = NoCall]

Init == /\ region = Stored /\ stored = Stored
        /\ call = [c \in Callers |-> NoCall]
        /\ card = [region |-> Stored, failed |-> FALSE]
        /\ writes = 0 /\ restarts = 0

------------------------------------------------------------------------------
(* The host.                                                                    *)

\* update_settings with a region: in memory, and on disk unless the save fails or
\* is skipped.  The host collects again when it has the answer of an accepted
\* write (write_settings, providers_to_recollect); an error, or an answer that is
\* lost, ends the command there.
WriteRegion(r) ==
    /\ writes < MaxWrites
    /\ writes' = writes + 1
    /\ region' = r
    /\ stored' \in {stored, r}
    /\ \/ UNCHANGED call
       \/ \E f \in Refreshes : At(f, "idle") /\ Goto(f, "post")
    /\ UNCHANGED <<card, restarts>>

\* panel_refresh: the user asks.
Ask(f) == /\ At(f, "idle")
          /\ Goto(f, "post")
          /\ UNCHANGED <<settings, card, restarts>>

\* The request is refused or does not arrive, which is only logged.
PostFails(f) == /\ At(f, "post")
                /\ Finish(f)
                /\ UNCHANGED <<settings, card, restarts>>

PostArrives(f) == /\ At(f, "post")
                  /\ Goto(f, "gate")
                  /\ UNCHANGED <<settings, card, restarts>>

------------------------------------------------------------------------------
(* The service.                                                                 *)

\* refresh_all reaches glm:quota.
PassComes == /\ At(Pass, "idle")
             /\ Goto(Pass, "gate")
             /\ UNCHANGED <<settings, card, restarts>>

GateIsFree == \A c \in Callers : ~At(c, "run")

\* The pass, which is not forced, finds the connection cooling down.
PassCoolsDown == /\ At(Pass, "gate") /\ GateIsFree
                 /\ Finish(Pass)
                 /\ UNCHANGED <<settings, card, restarts>>

\* Faulty variant: the collector keeps the region it was built with.
RunReadsFirstRegion(c) ==
    /\ At(c, "gate") /\ GateIsFree
    /\ call' = [call EXCEPT ![c].pc = "run", ![c].read = Stored]
    /\ UNCHANGED <<settings, card, restarts>>

\* One run at a time, which asks for the region as it starts.
RunStarts(c) ==
    /\ At(c, "gate") /\ GateIsFree
    /\ call' = [call EXCEPT ![c].pc = "run", ![c].read = region]
    /\ UNCHANGED <<settings, card, restarts>>

\* The run ends one way or the other, or is timed out; the gate is free.
RunEnds(c) ==
    /\ At(c, "run")
    /\ \E failed \in BOOLEAN :
         call' = [call EXCEPT ![c].pc = "save", ![c].failed = failed]
    /\ UNCHANGED <<settings, card, restarts>>

\* save_success stores the reading, save_failure the error beside the one there is.
Save(c) ==
    /\ At(c, "save")
    /\ card' = IF call[c].failed THEN [card EXCEPT !.failed = TRUE]
               ELSE [region |-> call[c].read, failed |-> FALSE]
    /\ Finish(c)
    /\ UNCHANGED <<settings, restarts>>

\* A save that fails, or that a poisoned lock skips, is not reported.
SaveIsLost(c) ==
    /\ At(c, "save")
    /\ Finish(c)
    /\ UNCHANGED <<settings, card, restarts>>

\* A service that dies takes its runs with it.  A request it had not answered
\* fails, or is made again of the next service.
ServiceRestarts ==
    LET asked == {f \in Refreshes : call[f].pc \in {"gate", "run", "save"}} IN
    /\ restarts < MaxRestarts
    /\ restarts' = restarts + 1
    /\ region' = stored
    /\ \E again \in SUBSET asked :
         call' = [c \in Callers |->
                    IF c \in again THEN [NoCall EXCEPT !.pc = "post"]
                    ELSE IF c \in asked \cup {Pass} THEN NoCall
                    ELSE call[c]]
    /\ UNCHANGED <<stored, card, writes>>

------------------------------------------------------------------------------
PassStep == PassComes \/ PassCoolsDown \/ RunEnds(Pass) \/ Save(Pass) \/ SaveIsLost(Pass)
RefreshStep(f) == \/ PostFails(f) \/ PostArrives(f)
                  \/ RunStarts(f) \/ RunEnds(f) \/ Save(f) \/ SaveIsLost(f)

Next == \/ \E r \in Regions : WriteRegion(r)
        \/ \E f \in Refreshes : Ask(f) \/ RefreshStep(f)
        \/ PassStep \/ RunStarts(Pass)
        \/ ServiceRestarts

\* Whatever is on its way goes on, and the schedule comes back; a cooldown ends,
\* waiters have the gate in turn, and not every save of the schedule's is lost.
Fairness == /\ \A f \in Refreshes : WF_vars(RefreshStep(f))
            /\ WF_vars(PassStep)
            /\ SF_vars(RunStarts(Pass)) /\ SF_vars(Save(Pass))

Spec == Init /\ [][Next]_vars /\ Fairness

------------------------------------------------------------------------------
(* Properties.                                                                  *)

Answers == card.failed \/ card.region = region

\* A change of region reaches the card for good: once the region stays as it is,
\* the stored reading comes to be of that region, or marked as failed, and no run
\* begun under another region takes its place, whichever runs were in flight, and
\* though the request to collect again, the answer to the write, a save or the
\* whole service may have been lost on the way.
CardAnswersTheRegion == <>[]Answers

\* Not checked by any run, since the code does otherwise: a reading of the region
\* in effect is not replaced by one of another.  The gate orders runs and not their
\* saves, so one begun before the change may be stored after the one it caused, and
\* stays until the schedule comes around.
NoLateSaves ==
    [][\A c \in Callers : Save(c) /\ card.region = region => card'.region = region]_vars
================================================================================
