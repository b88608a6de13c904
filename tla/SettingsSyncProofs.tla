--------------------------- MODULE SettingsSyncProofs ---------------------------
(* What SettingsSync promises of the copies of the settings, for any windows,   *)
(* tasks and patches: memory and disk differ in nothing but what writes without *)
(* a save left behind; a lone write heals every window; the tray agrees while   *)
(* commands do not overlap.                                                     *)
(*                                                                              *)
(* The last two are stated of the end of the commands.  What every step keeps   *)
(* says where the newest settings are while a command is on its way: in the     *)
(* answer it carries, or in an event.                                           *)
EXTENDS SettingsSync, TLAPS

PCs == {"idle", "put", "payload", "host", "sync", "emit", "reply"}
\* Names of shapes and themes, those of the first state included.
Texts == STRING \cup {"", "full", "dark"}
TaskRecords == [pc : PCs, who : Windows \cup {Tray}, patch : Patches \cup {<<>>},
                val : Settings, seen : Texts]

MemTypes  == mem \in Settings /\ disk \in Settings
TaskTypes == task \in [Tasks -> TaskRecords]
HostTypes == /\ shape \in Texts
             /\ tray \in [theme : Texts, mode : Texts]
ViewTypes == view \in [Windows -> Settings] /\ events \in [Windows -> Seq(Settings)]
FlagTypes == alone \in BOOLEAN /\ clean \in BOOLEAN
Types == MemTypes /\ TaskTypes /\ HostTypes /\ ViewTypes /\ FlagTypes

OneTask == \A s, t \in Tasks : ~At(s, "idle") /\ ~At(t, "idle") => s = t

\* Before it has told the windows, a write owes them the settings.
Owes(t) == task[t].pc \in {"put", "payload", "host", "sync", "emit"}
Carrying(t) == task[t].pc \in {"host", "sync", "emit", "reply"}

\* A window has the settings in memory, or they are the one event it has yet to see.
HasReached(w) == events[w] = <<mem>> \/ (events[w] = <<>> /\ view[w] = mem)

\* While a lone write is on its way no other command and no older event is, and
\* what it carries is what is in memory.
LoneWriteDelivers ==
    alone => /\ OneTask
             /\ \A t \in Tasks : /\ Owes(t) \/ At(t, "reply") => IsWrite(t)
                                 /\ Owes(t) => \A w \in Windows : events[w] = <<>>
                                 /\ Carrying(t) => task[t].val = mem
             /\ (\A t \in Tasks : ~Owes(t)) => \A w \in Windows : HasReached(w)

\* The host is behind the settings in what the answer on its way speaks for, at
\* most.
Behind(t) == task[t].pc \in {"payload", "host", "sync"}
HostFollows ==
    clean => /\ OneTask
             /\ \A t \in Tasks :
                  Behind(t) =>
                    /\ ~At(t, "payload") => task[t].val = mem
                    /\ ~Carries(t, "mode") => shape = mem["mode"] /\ tray.mode = mem["mode"]
                    /\ ~Carries(t, "theme") => tray.theme = mem["theme"]
                    /\ At(t, "sync") => shape = mem["mode"] /\ task[t].seen = shape
             /\ (\A t \in Tasks : ~Behind(t)) =>
                  /\ shape = mem["mode"] /\ tray.mode = mem["mode"]
                  /\ tray.theme = mem["theme"]

PutsAreWrites == \A t \in Tasks : At(t, "put") => IsWrite(t)

Inv == /\ Types /\ PutsAreWrites
       /\ MemoryIsStored /\ LoneWriteDelivers /\ HostFollows

------------------------------------------------------------------------------
(* Patches and settings.                                                        *)

\* The fields a patch reaches are valid ones of its own; an accepted patch reaches
\* them all.
LEMMA ReachedAreValid ==
    ASSUME NEW p \in Patches
    PROVE  /\ DOMAIN p \subseteq Fields
           /\ Reached(p) \subseteq DOMAIN p
           /\ \A f \in Reached(p) : p[f] \in Values[f]
           /\ Accepted(p) => \A f \in DOMAIN p : p[f] \in Values[f]
  <1>1. DOMAIN p \subseteq Fields
    BY SettingsAssumption
  <1>2. ASSUME NEW f \in Reached(p) PROVE f \in DOMAIN p /\ p[f] \in Values[f]
    <2> DEFINE bad == {i \in 1..Len(FieldOrder) : ~Valid(p, FieldOrder[i])}
    <2>1. Valid(p, "mode")
      BY <1>2 DEF Reached
    <2>2. f \in {FieldOrder[i] : i \in {j \in 1..Len(FieldOrder) : \A b \in bad : j < b}}
                  \cap DOMAIN p
      BY <1>2, <2>1 DEF Reached
    <2>3. PICK i \in 1..Len(FieldOrder) : f = FieldOrder[i] /\ \A b \in bad : i < b
      BY <2>2
    <2>4. i \notin bad
      BY <2>3
    <2>5. Valid(p, f)
      BY <2>3, <2>4
    <2> QED  BY <2>2, <2>5 DEF Valid
  <1>3. Accepted(p) => \A f \in DOMAIN p : p[f] \in Values[f]
    BY <1>1 DEF Accepted, Valid
  <1> QED  BY <1>1, <1>2, <1>3

\* Settings patched with valid fields are settings.
LEMMA PatchedAreSettings ==
    ASSUME NEW s \in Settings, NEW p \in Patches, NEW F \in SUBSET (DOMAIN p),
           \A f \in F : p[f] \in Values[f]
    PROVE  /\ Patched(s, p, F) \in Settings
           /\ \A f \in Fields \ F : Patched(s, p, F)[f] = s[f]
  <1>1. ASSUME NEW f \in Fields PROVE (IF f \in F THEN p[f] ELSE s[f]) \in STRING
    BY SettingsAssumption DEF Settings
  <1> QED  BY <1>1 DEF Patched, Settings

\* The settings a process starts with.
LEMMA LoadedAreSettings ==
    ASSUME NEW s \in Settings
    PROVE  OnLoad(s) \in Settings
  <1>1. "tz" \in Fields /\ Default["tz"] \in STRING
    BY SettingsAssumption DEF Fields
  <1> QED  BY <1>1 DEF OnLoad, Settings

------------------------------------------------------------------------------
(* What a step does to the tasks.                                               *)

\* The idle record.
LEMMA NoTaskIsTyped ==
    NoTask \in TaskRecords /\ NoTask.pc = "idle" /\ NoTask.patch = <<>>
  <1>1. Default \in Settings
    BY SettingsAssumption DEF Settings
  <1>2. "idle" \in PCs /\ Tray \in Windows \cup {Tray} /\ <<>> \in Patches \cup {<<>>}
    BY DEF PCs
  <1> QED  BY <1>1, <1>2 DEF NoTask, TaskRecords, Texts

\* One task's record is replaced.
OnlyTask(t, r) == /\ TaskTypes' /\ task'[t] = r
                  /\ \A s \in Tasks \ {t} : task'[s] = task[s]

\* A new record for one task leaves every other as it is.
LEMMA Replaced ==
    ASSUME TaskTypes, NEW t \in Tasks, NEW r \in TaskRecords, task' = [task EXCEPT ![t] = r]
    PROVE  OnlyTask(t, r)
  BY DEF OnlyTask, TaskTypes

\* A task that only moves on.
LEMMA GotoMoves ==
    ASSUME TaskTypes, NEW t \in Tasks, NEW pc \in PCs, Goto(t, pc)
    PROVE  \E r \in TaskRecords :
             /\ OnlyTask(t, r)
             /\ r.pc = pc /\ r.who = task[t].who /\ r.patch = task[t].patch
             /\ r.val = task[t].val /\ r.seen = task[t].seen
  <1> DEFINE r == [task[t] EXCEPT !.pc = pc]
  <1>1. task[t] \in TaskRecords
    BY DEF TaskTypes
  <1>2. /\ r \in TaskRecords /\ r.pc = pc /\ r.who = task[t].who /\ r.patch = task[t].patch
        /\ r.val = task[t].val /\ r.seen = task[t].seen
    BY <1>1 DEF TaskRecords
  <1>3. task' = [task EXCEPT ![t] = r]
    BY DEF Goto
  <1> HIDE DEF r
  <1> QED  BY <1>2, <1>3, Replaced

\* A task that has done its part.
LEMMA FinishMoves ==
    ASSUME TaskTypes, NEW t \in Tasks, Finish(t)
    PROVE  OnlyTask(t, NoTask)
  BY NoTaskIsTyped, Replaced DEF Finish

\* A task that has read the settings carries them.
LEMMA ReadMoves ==
    ASSUME TaskTypes, MemTypes, NEW t \in Tasks, ReadPayload(t)
    PROVE  \E r \in TaskRecords :
             /\ OnlyTask(t, r)
             /\ r.pc = "host" /\ r.patch = task[t].patch /\ r.val = mem
  <1> DEFINE r == [task[t] EXCEPT !.pc = "host", !.val = mem]
  <1>1. task[t] \in TaskRecords /\ mem \in Settings
    BY DEF TaskTypes, MemTypes
  <1>2. r \in TaskRecords /\ r.pc = "host" /\ r.patch = task[t].patch /\ r.val = mem
    BY <1>1 DEF TaskRecords, PCs
  <1>3. task' = [task EXCEPT ![t] = r]
    BY DEF ReadPayload, TaskTypes
  <1> HIDE DEF r
  <1> QED  BY <1>2, <1>3, Replaced

\* A task that has set the shape has seen it.
LEMMA ShapeMoves ==
    ASSUME TaskTypes, HostTypes, NEW t \in Tasks, SetShape(t)
    PROVE  /\ shape' \in Texts
           /\ \E r \in TaskRecords :
                /\ OnlyTask(t, r)
                /\ r.pc = "sync" /\ r.patch = task[t].patch /\ r.val = task[t].val
                /\ r.seen = shape'
  <1> DEFINE r == [task[t] EXCEPT !.pc = "sync", !.seen = shape']
  <1>1. task[t] \in TaskRecords /\ task[t].val["mode"] \in STRING
    BY DEF TaskTypes, TaskRecords, Settings, Fields
  <1>2. shape' \in Texts
    BY <1>1 DEF SetShape, HostTypes, Texts
  <1>3. /\ r \in TaskRecords /\ r.pc = "sync" /\ r.patch = task[t].patch
        /\ r.val = task[t].val /\ r.seen = shape'
    BY <1>1, <1>2 DEF TaskRecords, PCs
  <1>4. task' = [task EXCEPT ![t] = r]
    BY DEF SetShape, TaskTypes
  <1> HIDE DEF r
  <1> QED  BY <1>2, <1>3, <1>4, Replaced

\* A command that begins.
LEMMA BeginMoves ==
    ASSUME TaskTypes, NEW t \in Tasks, NEW who \in Windows \cup {Tray},
           NEW patch \in Patches \cup {<<>>}, Begin(t, who, patch)
    PROVE  \E r \in TaskRecords :
             /\ OnlyTask(t, r)
             /\ r.pc = (IF patch = <<>> THEN "payload" ELSE "put") /\ r.patch = patch
  <1> DEFINE pc == IF patch = <<>> THEN "payload" ELSE "put"
             r == [NoTask EXCEPT !.pc = pc, !.who = who, !.patch = patch]
  <1>1. pc \in PCs
    BY DEF PCs
  <1>2. task' = [task EXCEPT ![t] = r]
    BY DEF Begin
  <1> HIDE DEF pc
  <1>3. r \in TaskRecords /\ r.pc = pc /\ r.patch = patch
    BY <1>1, NoTaskIsTyped DEF TaskRecords
  <1> HIDE DEF r
  <1> QED  BY <1>2, <1>3, Replaced DEF pc

------------------------------------------------------------------------------
(* The steps.                                                                   *)

\* A command begins: alone if nothing was on its way, and then with a write.
LEMMA BeginKeepsInv ==
    ASSUME Inv, NEW t \in Tasks, NEW who \in Windows \cup {Tray},
           NEW patch \in Patches \cup {<<>>}, Begin(t, who, patch)
    PROVE  Inv'
  <1>1. PICK r \in TaskRecords :
          /\ OnlyTask(t, r)
          /\ r.pc = (IF patch = <<>> THEN "payload" ELSE "put") /\ r.patch = patch
    BY BeginMoves DEF Inv, Types
  <1>2. /\ task[t].pc = "idle" /\ alone' = (Settled /\ patch # <<>>)
        /\ clean' = (clean /\ Settled)
        /\ UNCHANGED <<mem, disk, unsaved, shape, tray, view, events, restarts>>
    BY DEF Begin, At, service, hostSide
  <1>3. task'[t] = r /\ \A s \in Tasks \ {t} : task'[s] = task[s]
    BY <1>1 DEF OnlyTask
  <1>4. Types'
    BY <1>1, <1>2 DEF OnlyTask, Inv, Types, MemTypes, HostTypes, ViewTypes,
                      FlagTypes, Settled, Busy
  <1>5. PutsAreWrites' /\ MemoryIsStored'
    BY <1>1, <1>2, <1>3 DEF Inv, PutsAreWrites, MemoryIsStored, At, IsWrite
  <1>6. Settled => /\ \A s \in Tasks : task[s].pc = "idle"
                   /\ \A w \in Windows : events[w] = <<>>
    BY DEF Settled, Busy, At
  <1>7. LoneWriteDelivers'
    BY <1>1, <1>2, <1>3, <1>6
       DEF LoneWriteDelivers, OneTask, Owes, Carrying, At, IsWrite
  <1>8. HostFollows'
    BY <1>1, <1>2, <1>3, <1>6 DEF Inv, HostFollows, OneTask, Behind, At, Carries, IsWrite
  <1> QED  BY <1>4, <1>5, <1>7, <1>8 DEF Inv

\* An accepted patch is in memory and on disk, and not yet anywhere else.
LEMMA ApplyKeepsInv == ASSUME Inv, NEW t \in Tasks, ApplyPatch(t) PROVE Inv'
  <1> DEFINE p == task[t].patch
  <1>1. /\ task[t].pc = "put" /\ Accepted(p) /\ mem' = Patched(mem, p, DOMAIN p)
        /\ disk' = mem' /\ unsaved' = {} /\ Goto(t, "payload")
        /\ UNCHANGED <<shape, tray, view, events, restarts, alone, clean>>
    BY DEF ApplyPatch, At, hostSide, history
  <1>2. p \in Patches /\ IsWrite(t)
    BY <1>1 DEF Inv, PutsAreWrites, At, IsWrite, Types, TaskTypes, TaskRecords
  <1>3. mem \in Settings /\ DOMAIN p \subseteq Fields
    BY <1>2, ReachedAreValid DEF Inv, Types, MemTypes
  <1>4. mem' \in Settings /\ \A f \in Fields \ (DOMAIN p) : mem'[f] = mem[f]
    BY <1>1, <1>2, <1>3, ReachedAreValid, PatchedAreSettings
  <1>5. PICK r \in TaskRecords : OnlyTask(t, r) /\ r.pc = "payload" /\ r.patch = p
    BY <1>1, GotoMoves DEF PCs, Inv, Types
  <1> HIDE DEF p
  <1>6. task'[t] = r /\ \A s \in Tasks \ {t} : task'[s] = task[s]
    BY <1>5 DEF OnlyTask
  <1>7. Types'
    BY <1>1, <1>4, <1>5 DEF OnlyTask, Inv, Types, MemTypes, HostTypes, ViewTypes,
                            FlagTypes
  <1>8. PutsAreWrites' /\ MemoryIsStored'
    BY <1>1, <1>5, <1>6 DEF Inv, PutsAreWrites, MemoryIsStored, At, IsWrite
  <1>9. LoneWriteDelivers'
    BY <1>1, <1>2, <1>5, <1>6
       DEF Inv, LoneWriteDelivers, OneTask, Owes, Carrying, At, IsWrite, p
  <1>10. HostFollows'
    <2>1. "mode" \in Fields /\ "theme" \in Fields
      BY DEF Fields
    <2> QED  BY <1>1, <1>2, <1>4, <1>5, <1>6, <2>1
                DEF Inv, HostFollows, OneTask, Behind, At, Carries, IsWrite, p
  <1> QED  BY <1>7, <1>8, <1>9, <1>10 DEF Inv

\* So is one that is not saved, but for the disk.
LEMMA SkipKeepsInv == ASSUME Inv, NEW t \in Tasks, SkipSave(t) PROVE Inv'
  <1> DEFINE p == task[t].patch
  <1>1. /\ task[t].pc = "put" /\ Accepted(p) /\ mem' = Patched(mem, p, DOMAIN p)
        /\ unsaved' = unsaved \cup DOMAIN p /\ Goto(t, "payload")
        /\ UNCHANGED <<disk, shape, tray, view, events, restarts, alone, clean>>
    BY DEF SkipSave, At, hostSide, history
  <1>2. p \in Patches /\ IsWrite(t)
    BY <1>1 DEF Inv, PutsAreWrites, At, IsWrite, Types, TaskTypes, TaskRecords
  <1>3. mem \in Settings /\ DOMAIN p \subseteq Fields
    BY <1>2, ReachedAreValid DEF Inv, Types, MemTypes
  <1>4. mem' \in Settings /\ \A f \in Fields \ (DOMAIN p) : mem'[f] = mem[f]
    BY <1>1, <1>2, <1>3, ReachedAreValid, PatchedAreSettings
  <1>5. PICK r \in TaskRecords : OnlyTask(t, r) /\ r.pc = "payload" /\ r.patch = p
    BY <1>1, GotoMoves DEF PCs, Inv, Types
  <1> HIDE DEF p
  <1>6. task'[t] = r /\ \A s \in Tasks \ {t} : task'[s] = task[s]
    BY <1>5 DEF OnlyTask
  <1>7. Types'
    BY <1>1, <1>4, <1>5 DEF OnlyTask, Inv, Types, MemTypes, HostTypes, ViewTypes,
                            FlagTypes
  <1>8. PutsAreWrites' /\ MemoryIsStored'
    BY <1>1, <1>4, <1>5, <1>6 DEF Inv, PutsAreWrites, MemoryIsStored, At, IsWrite
  <1>9. LoneWriteDelivers'
    BY <1>1, <1>2, <1>5, <1>6
       DEF Inv, LoneWriteDelivers, OneTask, Owes, Carrying, At, IsWrite, p
  <1>10. HostFollows'
    <2>1. "mode" \in Fields /\ "theme" \in Fields
      BY DEF Fields
    <2> QED  BY <1>1, <1>2, <1>4, <1>5, <1>6, <2>1
                DEF Inv, HostFollows, OneTask, Behind, At, Carries, IsWrite, p
  <1> QED  BY <1>7, <1>8, <1>9, <1>10 DEF Inv

\* A refused or failed write leaves in memory what it had reached.
LEMMA RefuseKeepsInv == ASSUME Inv, NEW t \in Tasks, RefusePatch(t) PROVE Inv'
  <1> DEFINE p == task[t].patch
             reached == IF Accepted(p) THEN DOMAIN p ELSE Reached(p)
  <1>1. /\ task[t].pc = "put" /\ mem' = Patched(mem, p, reached)
        /\ unsaved' = unsaved \cup reached /\ alone' = FALSE
        /\ clean' = (clean /\ mem' = mem)
        /\ Finish(t)
        /\ UNCHANGED <<disk, shape, tray, view, events, restarts, ops>>
    BY DEF RefusePatch, At, hostSide
  <1>2. p \in Patches /\ IsWrite(t)
    BY <1>1 DEF Inv, PutsAreWrites, At, IsWrite, Types, TaskTypes, TaskRecords
  <1>3. mem \in Settings /\ reached \subseteq DOMAIN p /\ \A f \in reached : p[f] \in Values[f]
    BY <1>2, ReachedAreValid DEF Inv, Types, MemTypes
  <1> HIDE DEF reached
  <1>4. mem' \in Settings /\ \A f \in Fields \ reached : mem'[f] = mem[f]
    BY <1>1, <1>2, <1>3, PatchedAreSettings
  <1> HIDE DEF p
  <1>5. OnlyTask(t, NoTask)
    BY <1>1, FinishMoves DEF Inv, Types
  <1>6. task'[t] = NoTask /\ \A s \in Tasks \ {t} : task'[s] = task[s]
    BY <1>5 DEF OnlyTask
  <1>7. Types'
    BY <1>1, <1>4, <1>5 DEF OnlyTask, Inv, Types, MemTypes, HostTypes, ViewTypes,
                            FlagTypes
  <1>8. MemoryIsStored'
    BY <1>1, <1>4 DEF Inv, MemoryIsStored
  <1>9. PutsAreWrites'
    BY <1>6, NoTaskIsTyped DEF Inv, PutsAreWrites, At, IsWrite
  <1>10. LoneWriteDelivers'
    BY <1>1 DEF LoneWriteDelivers
  <1>11. HostFollows'
    BY <1>1, <1>6, NoTaskIsTyped
       DEF Inv, HostFollows, OneTask, Behind, At, Carries, IsWrite
  <1> QED  BY <1>7, <1>8, <1>9, <1>10, <1>11 DEF Inv

\* A restart brings back what is stored; commands under way fail or ask again.
LEMMA RestartKeepsInv == ASSUME Inv, ServiceRestarts PROVE Inv'
  <1> DEFINE asked == {t \in Tasks : At(t, "put") \/ At(t, "payload")}
  <1>1. /\ mem' = OnLoad(disk) /\ unsaved' = {}
        /\ alone' = FALSE /\ clean' = FALSE
        /\ UNCHANGED <<disk, shape, tray, view, events>>
    BY DEF ServiceRestarts, hostSide
  <1>2. PICK lost \in SUBSET asked :
          task' = [t \in Tasks |->
                     IF t \in lost THEN NoTask
                     ELSE IF t \in asked /\ IsWrite(t) THEN [task[t] EXCEPT !.pc = "put"]
                     ELSE task[t]]
    BY DEF ServiceRestarts
  <1>3. ASSUME NEW t \in Tasks
        PROVE  /\ task'[t] \in TaskRecords
               /\ task'[t].pc = "put" => task'[t].patch # <<>>
    <2>1. task[t] \in TaskRecords /\ (task[t].pc = "put" => task[t].patch # <<>>)
      BY DEF Inv, Types, TaskTypes, PutsAreWrites, At, IsWrite
    <2> DEFINE again == [task[t] EXCEPT !.pc = "put"]
    <2>2. again \in TaskRecords /\ again.patch = task[t].patch
      BY <2>1 DEF TaskRecords, PCs
    <2>3. \/ task'[t] = NoTask
          \/ task'[t] = again /\ task[t].patch # <<>>
          \/ task'[t] = task[t]
      BY <1>2 DEF IsWrite
    <2> HIDE DEF again
    <2> QED  BY <2>1, <2>2, <2>3, NoTaskIsTyped
  <1>4. TaskTypes'
    BY <1>2, <1>3 DEF TaskTypes
  <1>5. mem' \in Settings
    BY <1>1, LoadedAreSettings DEF Inv, Types, MemTypes
  <1>6. Types' /\ PutsAreWrites'
    BY <1>1, <1>3, <1>4, <1>5 DEF Inv, Types, MemTypes, HostTypes, ViewTypes, FlagTypes,
                                  PutsAreWrites, At, IsWrite
  <1>7. MemoryIsStored' /\ LoneWriteDelivers' /\ HostFollows'
    BY <1>1 DEF MemoryIsStored, LoneWriteDelivers, HostFollows
  <1> QED  BY <1>6, <1>7 DEF Inv

\* The answer is read from memory.
LEMMA ReadKeepsInv == ASSUME Inv, NEW t \in Tasks, ReadPayload(t) PROVE Inv'
  <1>1. /\ task[t].pc = "payload"
        /\ UNCHANGED <<mem, disk, unsaved, shape, tray, view, events, restarts, ops, alone, clean>>
    BY DEF ReadPayload, At, service, hostSide, history
  <1>2. PICK r \in TaskRecords :
          OnlyTask(t, r) /\ r.pc = "host" /\ r.patch = task[t].patch /\ r.val = mem
    BY ReadMoves DEF Inv, Types
  <1>3. task'[t] = r /\ \A s \in Tasks \ {t} : task'[s] = task[s]
    BY <1>2 DEF OnlyTask
  <1>4. Types'
    BY <1>1, <1>2 DEF OnlyTask, Inv, Types, MemTypes, HostTypes, ViewTypes, FlagTypes
  <1>5. PutsAreWrites' /\ MemoryIsStored'
    BY <1>1, <1>2, <1>3 DEF Inv, PutsAreWrites, MemoryIsStored, At, IsWrite
  <1>6. LoneWriteDelivers'
    BY <1>1, <1>2, <1>3
       DEF Inv, LoneWriteDelivers, OneTask, Owes, Carrying, HasReached, At, IsWrite
  <1>7. HostFollows'
    BY <1>1, <1>2, <1>3 DEF Inv, HostFollows, OneTask, Behind, At, Carries, IsWrite
  <1> QED  BY <1>4, <1>5, <1>6, <1>7 DEF Inv

\* The host takes the shape of the answer.
LEMMA ShapeKeepsInv == ASSUME Inv, NEW t \in Tasks, SetShape(t) PROVE Inv'
  <1>1. /\ task[t].pc = "host"
        /\ shape' = IF Carries(t, "mode") THEN task[t].val["mode"] ELSE shape
        /\ UNCHANGED <<mem, disk, unsaved, tray, view, events, restarts, ops, alone, clean>>
    BY DEF SetShape, At, service, history
  <1>2. PICK r \in TaskRecords :
          /\ OnlyTask(t, r)
          /\ r.pc = "sync" /\ r.patch = task[t].patch /\ r.val = task[t].val /\ r.seen = shape'
    BY ShapeMoves DEF Inv, Types
  <1>3. task'[t] = r /\ \A s \in Tasks \ {t} : task'[s] = task[s]
    BY <1>2 DEF OnlyTask
  <1>s. shape' \in Texts
    BY ShapeMoves DEF Inv, Types
  <1>4. Types'
    BY <1>1, <1>2, <1>s
       DEF OnlyTask, Inv, Types, MemTypes, HostTypes, ViewTypes, FlagTypes
  <1>5. PutsAreWrites' /\ MemoryIsStored'
    BY <1>1, <1>2, <1>3 DEF Inv, PutsAreWrites, MemoryIsStored, At, IsWrite
  <1>6. LoneWriteDelivers'
    BY <1>1, <1>2, <1>3
       DEF Inv, LoneWriteDelivers, OneTask, Owes, Carrying, HasReached, At, IsWrite
  <1>7. HostFollows'
    BY <1>1, <1>2, <1>3 DEF Inv, HostFollows, OneTask, Behind, At, Carries, IsWrite
  <1> QED  BY <1>4, <1>5, <1>6, <1>7 DEF Inv

\* The tray's check marks follow the answer.
LEMMA SyncKeepsInv == ASSUME Inv, NEW t \in Tasks, SyncTray(t) PROVE Inv'
  <1>1. /\ task[t].pc = "sync"
        /\ tray' = [tray EXCEPT !.mode = IF Carries(t, "mode") THEN task[t].seen ELSE @,
                                !.theme = IF Carries(t, "theme") THEN task[t].val["theme"] ELSE @]
        /\ Goto(t, IF IsWrite(t) THEN "emit" ELSE "reply")
        /\ UNCHANGED <<mem, disk, unsaved, shape, view, events, restarts, ops, alone, clean>>
    BY DEF SyncTray, At, service, history
  <1>2. PICK r \in TaskRecords :
          /\ OnlyTask(t, r)
          /\ r.pc = (IF IsWrite(t) THEN "emit" ELSE "reply")
          /\ r.patch = task[t].patch /\ r.val = task[t].val
    BY <1>1, GotoMoves DEF PCs, Inv, Types
  <1>3. task'[t] = r /\ \A s \in Tasks \ {t} : task'[s] = task[s]
    BY <1>2 DEF OnlyTask
  <1>t. /\ DOMAIN tray = {"theme", "mode"}
        /\ tray'.mode = IF Carries(t, "mode") THEN task[t].seen ELSE tray.mode
        /\ tray'.theme = IF Carries(t, "theme") THEN task[t].val["theme"] ELSE tray.theme
    BY <1>1 DEF Inv, Types, HostTypes
  <1>s. tray' \in [theme : Texts, mode : Texts]
    <2>1. task[t].seen \in Texts /\ task[t].val["theme"] \in Texts
      BY DEF Inv, Types, TaskTypes, TaskRecords, Settings, Fields, Texts
    <2> QED  BY <1>1, <2>1 DEF Inv, Types, HostTypes
  <1>4. Types'
    BY <1>1, <1>2, <1>s
       DEF OnlyTask, Inv, Types, MemTypes, HostTypes, ViewTypes, FlagTypes
  <1>5. PutsAreWrites' /\ MemoryIsStored'
    BY <1>1, <1>2, <1>3 DEF Inv, PutsAreWrites, MemoryIsStored, At, IsWrite
  <1>6. LoneWriteDelivers'
    BY <1>1, <1>2, <1>3
       DEF Inv, LoneWriteDelivers, OneTask, Owes, Carrying, HasReached, At, IsWrite
  <1>7. HostFollows'
    BY <1>1, <1>2, <1>3, <1>t DEF Inv, HostFollows, OneTask, Behind, At, Carries, IsWrite
  <1> QED  BY <1>4, <1>5, <1>6, <1>7 DEF Inv

\* Every window is told, which is the end of a write of the tray's.
LEMMA EmitKeepsInv == ASSUME Inv, NEW t \in Tasks, Emit(t) PROVE Inv'
  <1>1. /\ task[t].pc = "emit"
        /\ events' = [w \in Windows |-> Append(events[w], task[t].val)]
        /\ Finish(t) \/ Goto(t, "reply")
        /\ UNCHANGED <<mem, disk, unsaved, shape, tray, view, restarts, ops, alone, clean>>
    BY DEF Emit, At, service, hostSide, history
  <1>2. PICK r \in TaskRecords :
          /\ OnlyTask(t, r)
          /\ \/ r.pc = "idle"
             \/ r.pc = "reply" /\ r.patch = task[t].patch /\ r.val = task[t].val
    <2>1. CASE Finish(t)
      BY <2>1, FinishMoves, NoTaskIsTyped DEF Inv, Types
    <2>2. CASE Goto(t, "reply")
      BY <2>2, GotoMoves DEF PCs, Inv, Types
    <2> QED  BY <1>1, <2>1, <2>2
  <1>3. task'[t] = r /\ \A s \in Tasks \ {t} : task'[s] = task[s]
    BY <1>2 DEF OnlyTask
  <1>s. task[t].val \in Settings /\ events' \in [Windows -> Seq(Settings)]
    <2>1. task[t].val \in Settings
      BY DEF Inv, Types, TaskTypes, TaskRecords
    <2> QED  BY <1>1, <2>1 DEF Inv, Types, ViewTypes
  <1>4. Types'
    BY <1>1, <1>2, <1>s
       DEF OnlyTask, Inv, Types, MemTypes, HostTypes, ViewTypes, FlagTypes
  <1>5. PutsAreWrites' /\ MemoryIsStored'
    BY <1>1, <1>2, <1>3 DEF Inv, PutsAreWrites, MemoryIsStored, At, IsWrite
  <1>6. LoneWriteDelivers'
    <2> SUFFICES ASSUME alone PROVE LoneWriteDelivers'
      BY <1>1 DEF LoneWriteDelivers
    <2>1. OneTask /\ task[t].val = mem /\ \A w \in Windows : events[w] = <<>>
      BY <1>1 DEF Inv, LoneWriteDelivers, Owes, Carrying
    <2>2. ASSUME NEW w \in Windows PROVE events'[w] = <<mem>>
      <3>1. events'[w] = Append(<<>>, mem)
        BY <1>1, <2>1
      <3>2. Append(<<>>, mem) = <<mem>>
        OBVIOUS
      <3> QED  BY <3>1, <3>2
    <2> QED  BY <1>1, <1>2, <1>3, <2>1, <2>2
                DEF Inv, LoneWriteDelivers, OneTask, Owes, Carrying, HasReached, At, IsWrite
  <1>7. HostFollows'
    BY <1>1, <1>2, <1>3 DEF Inv, HostFollows, OneTask, Behind, At, Carries, IsWrite
  <1> QED  BY <1>4, <1>5, <1>6, <1>7 DEF Inv

\* The window that asked adopts the answer.
LEMMA ReplyKeepsInv == ASSUME Inv, NEW t \in Tasks, AdoptReply(t) PROVE Inv'
  <1>1. /\ task[t].pc = "reply"
        /\ view' = [view EXCEPT ![task[t].who] = task[t].val]
        /\ Finish(t)
        /\ UNCHANGED <<mem, disk, unsaved, shape, tray, events, restarts, ops, alone, clean>>
    BY DEF AdoptReply, At, service, hostSide, history
  <1>2. PICK r \in TaskRecords : OnlyTask(t, r) /\ r.pc = "idle"
    BY <1>1, FinishMoves, NoTaskIsTyped DEF Inv, Types
  <1>3. task'[t] = r /\ \A s \in Tasks \ {t} : task'[s] = task[s]
    BY <1>2 DEF OnlyTask
  <1>s. /\ view' \in [Windows -> Settings]
        /\ \A w \in Windows : view'[w] = view[w] \/ view'[w] = task[t].val
    <2>1. task[t].val \in Settings /\ view \in [Windows -> Settings]
      BY DEF Inv, Types, TaskTypes, TaskRecords, ViewTypes
    <2> QED  BY <1>1, <2>1
  <1>4. Types'
    BY <1>1, <1>2, <1>s
       DEF OnlyTask, Inv, Types, MemTypes, HostTypes, ViewTypes, FlagTypes
  <1>5. PutsAreWrites' /\ MemoryIsStored'
    BY <1>1, <1>2, <1>3 DEF Inv, PutsAreWrites, MemoryIsStored, At, IsWrite
  <1>6. LoneWriteDelivers'
    <2> SUFFICES ASSUME alone PROVE LoneWriteDelivers'
      BY <1>1 DEF LoneWriteDelivers
    <2>1. OneTask /\ task[t].val = mem /\ IsWrite(t)
      BY <1>1 DEF Inv, LoneWriteDelivers, Carrying, At
    <2>2. \A w \in Windows : HasReached(w)
      BY <1>1, <2>1 DEF Inv, LoneWriteDelivers, OneTask, Owes, At
    <2>3. \A w \in Windows : HasReached(w)'
      BY <1>1, <1>s, <2>1, <2>2 DEF HasReached
    <2> QED  BY <1>1, <1>2, <1>3, <2>1, <2>3
                DEF Inv, LoneWriteDelivers, OneTask, Owes, Carrying, At, IsWrite
  <1>7. HostFollows'
    BY <1>1, <1>2, <1>3 DEF Inv, HostFollows, OneTask, Behind, At, Carries, IsWrite
  <1> QED  BY <1>4, <1>5, <1>6, <1>7 DEF Inv

\* A window sees its next event.
LEMMA EventKeepsInv == ASSUME Inv, NEW w \in Windows, AdoptEvent(w) PROVE Inv'
  <1>1. /\ events[w] # <<>>
        /\ view' = [view EXCEPT ![w] = Head(events[w])]
        /\ events' = [events EXCEPT ![w] = Tail(events[w])]
        /\ UNCHANGED <<mem, disk, unsaved, shape, tray, task, restarts, ops, alone, clean>>
    BY DEF AdoptEvent, service, hostSide, history
  <1>2. view \in [Windows -> Settings] /\ events \in [Windows -> Seq(Settings)]
    BY DEF Inv, Types, ViewTypes
  <1>3. Head(events[w]) \in Settings /\ Tail(events[w]) \in Seq(Settings)
    BY <1>1, <1>2
  <1>4. Types'
    BY <1>1, <1>2, <1>3
       DEF Inv, Types, MemTypes, TaskTypes, HostTypes, ViewTypes, FlagTypes
  <1>5. PutsAreWrites' /\ MemoryIsStored'
    BY <1>1 DEF Inv, PutsAreWrites, MemoryIsStored, At, IsWrite
  <1>6. LoneWriteDelivers'
    <2> SUFFICES ASSUME alone PROVE LoneWriteDelivers'
      BY <1>1 DEF LoneWriteDelivers
    <2>1. \A t \in Tasks : ~Owes(t)
      BY <1>1 DEF Inv, LoneWriteDelivers
    <2>2. \A v \in Windows : HasReached(v)
      BY <2>1 DEF Inv, LoneWriteDelivers
    <2>3. events[w] = <<mem>>
      BY <1>1, <2>2 DEF HasReached
    <2>4. view'[w] = mem /\ events'[w] = <<>>
      BY <1>1, <1>2, <2>3
    <2>5. \A v \in Windows : HasReached(v)'
      BY <1>1, <1>2, <2>2, <2>4 DEF HasReached
    <2> QED  BY <1>1, <2>1, <2>5
                DEF Inv, LoneWriteDelivers, OneTask, Owes, Carrying, At, IsWrite
  <1>7. HostFollows'
    BY <1>1 DEF Inv, HostFollows, OneTask, Behind, At, Carries, IsWrite
  <1> QED  BY <1>4, <1>5, <1>6, <1>7 DEF Inv

\* Every step keeps the invariant.
LEMMA InvStep == Inv /\ [Next]_vars => Inv'
  <1> SUFFICES ASSUME Inv, [Next]_vars PROVE Inv'
    OBVIOUS
  <1>1. ASSUME NEW t \in Tasks, BeginRead(t) \/ BeginWrite(t) PROVE Inv'
    BY <1>1, BeginKeepsInv DEF BeginRead, BeginWrite
  <1>2. ASSUME NEW t \in Tasks, TaskStep(t) PROVE Inv'
    BY <1>2, ApplyKeepsInv, SkipKeepsInv, RefuseKeepsInv, ReadKeepsInv, ShapeKeepsInv,
       SyncKeepsInv, EmitKeepsInv, ReplyKeepsInv DEF TaskStep
  <1>3. ASSUME NEW w \in Windows, AdoptEvent(w) PROVE Inv'
    BY <1>3, EventKeepsInv
  <1>4. CASE ServiceRestarts
    BY <1>4, RestartKeepsInv
  <1>5. CASE UNCHANGED vars
    <2>1. Types' /\ PutsAreWrites' /\ MemoryIsStored'
      BY <1>5 DEF vars, Inv, Types, MemTypes, TaskTypes, HostTypes, ViewTypes,
                  FlagTypes, PutsAreWrites, MemoryIsStored, At, IsWrite
    <2>2. LoneWriteDelivers' /\ HostFollows'
      BY <1>5 DEF vars, Inv, LoneWriteDelivers, OneTask, Owes, Carrying, HasReached, At,
                  IsWrite, HostFollows, Behind, Carries
    <2> QED  BY <2>1, <2>2 DEF Inv
  <1> QED  BY <1>1, <1>2, <1>3, <1>4, <1>5 DEF Next

\* The first state: windows, tray and shape have the defaults.
LEMMA InvInit == Init => Inv
  <1> SUFFICES ASSUME Init PROVE Inv
    OBVIOUS
  <1>1. Types
    <2>1. Default \in Settings
      BY SettingsAssumption DEF Settings
    <2>2. MemTypes /\ ViewTypes
      BY <2>1 DEF Init, MemTypes, ViewTypes
    <2>3. TaskTypes
      BY NoTaskIsTyped DEF Init, TaskTypes
    <2>4. HostTypes
      BY DEF Init, HostTypes, Texts
    <2>5. FlagTypes
      BY DEF Init, FlagTypes
    <2> QED  BY <2>2, <2>3, <2>4, <2>5 DEF Types
  <1>2. \A t \in Tasks : task[t].pc = "idle"
    BY NoTaskIsTyped DEF Init
  <1>3. PutsAreWrites /\ MemoryIsStored /\ LoneWriteDelivers
    BY <1>2 DEF Init, PutsAreWrites, MemoryIsStored, LoneWriteDelivers, At
  <1>4. HostFollows
    BY <1>2, DefaultAssumption DEF Init, HostFollows, OneTask, Behind, At
  <1> QED  BY <1>1, <1>3, <1>4 DEF Inv

------------------------------------------------------------------------------
(* What follows.                                                                *)

\* What every run keeps: wherever a command is, the newest settings are in memory,
\* in the answer it carries, or in an event.
THEOREM InductiveInvariant == Spec => []Inv
  BY InvInit, InvStep, PTL DEF Spec

\* Whatever commands overlap, are refused, fail to save or are cut short by a
\* restart, memory holds what is stored, a stored UTC being loaded as the system's
\* timezone, but in fields that a write without a save has touched since.
THEOREM MemoryStored == Spec => []MemoryIsStored
  <1>1. Inv => MemoryIsStored
    BY DEF Inv
  <1> QED  BY <1>1, InductiveInvariant, PTL

\* A write that overlaps no other command leaves every window with the service's
\* settings, however far apart earlier ones had pulled them.
THEOREM LoneWritesHeal == Spec => []LoneWriteHeals
  <1>1. Inv => LoneWriteHeals
    <2> SUFFICES ASSUME Inv, Settled, alone, NEW w \in Windows PROVE view[w] = mem
      BY DEF LoneWriteHeals
    <2>1. \A t \in Tasks : ~Owes(t)
      BY DEF Settled, Busy, At, Owes
    <2>2. HasReached(w) /\ events[w] = <<>>
      BY <2>1 DEF Inv, LoneWriteDelivers, Settled
    <2> QED  BY <2>2 DEF HasReached
  <1> QED  BY <1>1, InductiveInvariant, PTL

\* While commands do not overlap, check marks and shape are the settings' own.
THEOREM TrayAlwaysAgrees == Spec => []TrayAgrees
  <1>1. Inv => TrayAgrees
    BY DEF Inv, HostFollows, TrayAgrees, Settled, Busy, At, Behind
  <1> QED  BY <1>1, InductiveInvariant, PTL
================================================================================
