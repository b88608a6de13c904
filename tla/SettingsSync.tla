------------------------------ MODULE SettingsSync ------------------------------
(* One settings object and its copies.  The service holds it in memory and on   *)
(* disk (update_settings in crates/usage-service/src/api.rs, the settings rows  *)
(* of crates/usage-core/src/storage/mod.rs); the host keeps the panel shape and *)
(* the tray's check marks (write_settings and panel_settings in                 *)
(* src-tauri/src/lib.rs); each window keeps a store of its own                  *)
(* (src/desktop/settings/settings-store.ts).                                    *)
(*                                                                              *)
(* A settings value is a function of the fields that reach something besides    *)
(* the windows: the theme and the shape (the tray), the region (what is         *)
(* collected; module RegionCard follows it from there) and the timezone         *)
(* (defaulted on load).                                                         *)
EXTENDS Integers, Sequences, FiniteSets

CONSTANTS Windows,   \* webviews with a settings store
          Tray,      \* the tray's radio groups, as a writer of settings
          Tasks,     \* commands of the host that may overlap
          Patches,   \* the patches that are sent
          Values,    \* valid values of each field
          Default,   \* DesktopSettings::default()
          MaxOps,    \* reads and writes in all
          MaxRestarts \* restarts of the service in all

Fields == {"theme", "mode", "tz", "region"}

ASSUME SettingsAssumption ==
    /\ Tray \notin Windows
    /\ Values \in [Fields -> SUBSET STRING]
    /\ Default \in [Fields -> STRING]
    /\ \A f \in Fields : Default[f] \in Values[f]
    /\ \A p \in Patches : DOMAIN p \subseteq Fields /\ DOMAIN p # {}
    /\ MaxOps \in Nat /\ MaxRestarts \in Nat

\* The defaults are what the tray's menu and the panel are built with.
ASSUME DefaultAssumption == Default["theme"] = "dark" /\ Default["mode"] = "full"

VARIABLES mem,       \* AppState.settings
          disk,      \* the stored desktop.settings row
          shape,     \* PanelState.minimal_mode, as a mode
          tray,      \* the checked item of each radio group
          view,      \* each window's settings store
          events,    \* settings events on their way to each window
          task,      \* the host's commands
          ops, restarts, \* reads and writes begun, restarts of the service
          alone,     \* history: the last command was an accepted write that
                     \* overlapped no other
          clean,     \* history: no two commands have overlapped so far, no
                     \* refused or failed write has left a field behind, and
                     \* the service has not restarted
          unsaved    \* history: fields of memory that a write has touched and
                     \* no save has stored since

vars == <<mem, disk, shape, tray, view, events, task, ops, restarts, alone, clean, unsaved>>
service == <<mem, disk, restarts, unsaved>>
hostSide == <<shape, tray>>
history == <<ops, alone, clean>>

Settings == [Fields -> STRING]
NoTask == [pc |-> "idle", who |-> Tray, patch |-> <<>>, val |-> Default, seen |-> ""]

Init == /\ mem = Default /\ disk = Default
        /\ shape = "full"
        /\ tray = [theme |-> "dark", mode |-> "full"]
        /\ view = [w \in Windows |-> Default]
        /\ events = [w \in Windows |-> <<>>]
        /\ task = [t \in Tasks |-> NoTask]
        /\ ops = 0 /\ restarts = 0
        /\ alone = FALSE /\ clean = TRUE /\ unsaved = {}

------------------------------------------------------------------------------
(* The service: update_settings.                                                *)

\* The order the fields of a patch are looked at.
FieldOrder == <<"theme", "mode", "tz", "region">>
Valid(p, f) == f \in DOMAIN p => p[f] \in Values[f]

\* Fields written before the first invalid one; the shape is parsed before any.
Reached(p) ==
    IF ~Valid(p, "mode") THEN {}
    ELSE LET bad == {i \in 1..Len(FieldOrder) : ~Valid(p, FieldOrder[i])} IN
         {FieldOrder[i] : i \in {j \in 1..Len(FieldOrder) : \A b \in bad : j < b}}
           \cap DOMAIN p

Accepted(p) == \A f \in Fields : Valid(p, f)
Patched(s, p, F) == [f \in Fields |-> IF f \in F THEN p[f] ELSE s[f]]

At(t, pc) == task[t].pc = pc
Goto(t, pc) == task' = [task EXCEPT ![t].pc = pc]
Finish(t) == task' = [task EXCEPT ![t] = NoTask]
IsWrite(t) == task[t].patch # <<>>

\* Faulty variant: the save stores the patch's own fields.
SavesThePatchAlone(t) ==
    LET p == task[t].patch IN
    /\ At(t, "put")
    /\ Accepted(p)
    /\ mem' = Patched(mem, p, DOMAIN p)
    /\ disk' = Patched(disk, p, DOMAIN p)
    /\ unsaved' = {}
    /\ Goto(t, "payload")
    /\ UNCHANGED <<restarts, hostSide, view, events, history>>

\* The whole patch is applied under the write lock and the whole object saved.
ApplyPatch(t) ==
    LET p == task[t].patch IN
    /\ At(t, "put")
    /\ Accepted(p)
    /\ mem' = Patched(mem, p, DOMAIN p)
    /\ disk' = mem'
    /\ unsaved' = {}
    /\ Goto(t, "payload")
    /\ UNCHANGED <<restarts, hostSide, view, events, history>>

\* A poisoned lock on the store skips the save, and the write is answered all the
\* same.
SkipSave(t) ==
    LET p == task[t].patch IN
    /\ At(t, "put")
    /\ Accepted(p)
    /\ mem' = Patched(mem, p, DOMAIN p)
    /\ unsaved' = unsaved \cup DOMAIN p
    /\ Goto(t, "payload")
    /\ UNCHANGED <<disk, restarts, hostSide, view, events, history>>

\* An early return, or a failed save after the last field: the write is an
\* error, and what it had reached stays in memory.
RefusePatch(t) ==
    LET p == task[t].patch
        reached == IF Accepted(p) THEN DOMAIN p ELSE Reached(p) IN
    /\ At(t, "put")
    /\ mem' = Patched(mem, p, reached)
    /\ unsaved' = unsaved \cup reached
    /\ alone' = FALSE
    /\ clean' = (clean /\ mem' = mem)
    /\ Finish(t)
    /\ UNCHANGED <<disk, restarts, hostSide, view, events, ops>>

\* settings_payload: read back once the write lock is released, or by a GET.
ReadPayload(t) ==
    /\ At(t, "payload")
    /\ task' = [task EXCEPT ![t].pc = "host", ![t].val = mem]
    /\ UNCHANGED <<service, hostSide, view, events, history>>

\* desktop_settings on start: a stored UTC gives way to the system's timezone.
OnLoad(s) == [s EXCEPT !["tz"] = IF @ = "UTC" THEN Default["tz"] ELSE @]

\* The service dies at any moment and another takes its place.  A request it had
\* not answered is an error of its command, or is made again of the new service,
\* whether it had been carried out or not.
ServiceRestarts ==
    LET asked == {t \in Tasks : At(t, "put") \/ At(t, "payload")} IN
    /\ restarts < MaxRestarts
    /\ restarts' = restarts + 1
    /\ mem' = OnLoad(disk)
    /\ unsaved' = {}
    /\ alone' = FALSE
    /\ clean' = FALSE
    /\ \E lost \in SUBSET asked :
         task' = [t \in Tasks |->
                    IF t \in lost THEN NoTask
                    ELSE IF t \in asked /\ IsWrite(t) THEN [task[t] EXCEPT !.pc = "put"]
                    ELSE task[t]]
    /\ UNCHANGED <<disk, hostSide, view, events, ops>>

------------------------------------------------------------------------------
(* The host: write_settings and panel_settings.                                 *)

Busy == \E t \in Tasks : ~At(t, "idle")
Settled == ~Busy /\ \A w \in Windows : events[w] = <<>>

\* A command begins: a read of a window, or a write of a window or the tray.
Begin(t, who, patch) ==
    /\ At(t, "idle")
    /\ ops < MaxOps
    /\ ops' = ops + 1
    /\ alone' = (Settled /\ patch # <<>>)
    /\ clean' = (clean /\ Settled)
    /\ task' = [task EXCEPT ![t] = [NoTask EXCEPT !.pc = IF patch = <<>> THEN "payload" ELSE "put",
                                                  !.who = who, !.patch = patch]]
    /\ UNCHANGED <<service, hostSide, view, events>>

BeginRead(t) == \E w \in Windows : Begin(t, w, <<>>)
BeginWrite(t) == \E who \in Windows \cup {Tray}, p \in Patches : Begin(t, who, p)

Carries(t, f) == IsWrite(t) => f \in DOMAIN task[t].patch

\* The mode an answer carries becomes the host's, and sync_tray_mode reads it
\* back; an answer to a write of other fields leaves it alone.
SetShape(t) ==
    /\ At(t, "host")
    /\ shape' = IF Carries(t, "mode") THEN task[t].val["mode"] ELSE shape
    /\ task' = [task EXCEPT ![t].pc = "sync", ![t].seen = shape']
    /\ UNCHANGED <<service, tray, view, events, history>>

\* Faulty variant: the tray's theme follows the settings a window reads alone.
SyncThemeOnReads(t) ==
    /\ At(t, "sync")
    /\ tray' = [tray EXCEPT !.mode = IF Carries(t, "mode") THEN task[t].seen ELSE @,
                            !.theme = IF IsWrite(t) THEN @ ELSE task[t].val["theme"]]
    /\ Goto(t, IF IsWrite(t) THEN "emit" ELSE "reply")
    /\ UNCHANGED <<service, shape, view, events, history>>

\* sync_tray_radio checks one item of each group that the answer speaks for.
SyncTray(t) ==
    /\ At(t, "sync")
    /\ tray' = [tray EXCEPT !.mode = IF Carries(t, "mode") THEN task[t].seen ELSE @,
                            !.theme = IF Carries(t, "theme") THEN task[t].val["theme"] ELSE @]
    /\ Goto(t, IF IsWrite(t) THEN "emit" ELSE "reply")
    /\ UNCHANGED <<service, shape, view, events, history>>

\* Faulty variant: only the window that wrote is told.
EmitToWriter(t) ==
    /\ At(t, "emit")
    /\ events' = [w \in Windows |-> IF w = task[t].who THEN Append(events[w], task[t].val)
                                    ELSE events[w]]
    /\ IF task[t].who = Tray THEN Finish(t) ELSE Goto(t, "reply")
    /\ UNCHANGED <<service, hostSide, view, history>>

\* app.emit: every window is told.
Emit(t) ==
    /\ At(t, "emit")
    /\ events' = [w \in Windows |-> Append(events[w], task[t].val)]
    /\ IF task[t].who = Tray THEN Finish(t) ELSE Goto(t, "reply")
    /\ UNCHANGED <<service, hostSide, view, history>>

\* The command's own answer reaches the window that made it, whenever it does.
AdoptReply(t) ==
    /\ At(t, "reply")
    /\ view' = [view EXCEPT ![task[t].who] = task[t].val]
    /\ Finish(t)
    /\ UNCHANGED <<service, hostSide, events, history>>

AdoptEvent(w) ==
    /\ events[w] # <<>>
    /\ view' = [view EXCEPT ![w] = Head(events[w])]
    /\ events' = [events EXCEPT ![w] = Tail(@)]
    /\ UNCHANGED <<service, hostSide, task, history>>

------------------------------------------------------------------------------
TaskStep(t) == \/ ApplyPatch(t) \/ SkipSave(t) \/ RefusePatch(t) \/ ReadPayload(t)
               \/ SetShape(t) \/ SyncTray(t) \/ Emit(t) \/ AdoptReply(t)

Next == \/ \E t \in Tasks : BeginRead(t) \/ BeginWrite(t) \/ TaskStep(t)
        \/ \E w \in Windows : AdoptEvent(w)
        \/ ServiceRestarts

Spec == Init /\ [][Next]_vars

------------------------------------------------------------------------------
(* Properties.                                                                  *)

\* What the service holds is what is stored, a stored UTC counting as the
\* system's timezone once it has been loaded, except in fields that a refused,
\* failed or skipped save left in memory: and whatever such writes left behind,
\* the next save that succeeds stores it, though that write did not name it.
MemoryIsStored ==
    \A f \in Fields \ unsaved : mem[f] = disk[f] \/ mem[f] = OnLoad(disk)[f]

\* A write that overlaps no other command leaves every window with the
\* service's settings, however far earlier ones that overlapped had pulled the
\* windows apart: both show the same values without a re-open.
LoneWriteHeals ==
    Settled /\ alone => \A w \in Windows : view[w] = mem

\* While commands have not overlapped, the tray's check marks and the panel's
\* shape are the settings' own, whichever window or menu changed them.
TrayAgrees ==
    Settled /\ clean =>
        /\ tray.mode = shape
        /\ tray.mode = mem["mode"]
        /\ tray.theme = mem["theme"]
================================================================================
