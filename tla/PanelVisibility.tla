--------------------------- MODULE PanelVisibility ----------------------------
(***************************************************************************)
(* Showing and hiding the panel: show_panel, hide_panel, toggle_panel, the *)
(* delayed hides of the window and of its header, and the pointer poll of  *)
(* src-tauri/src/lib.rs, with the webview that plays the transitions       *)
(* (src/desktop/panel/main.tsx).                                           *)
(*                                                                         *)
(* Handlers run one at a time on the main thread; the delayed tasks and    *)
(* the poll run on other threads, and what they read under one lock may    *)
(* have changed when they act.  Events reach the webview later, in order.  *)
(***************************************************************************)
EXTENDS Integers, Sequences

CONSTANTS
  MaxGeneration,        \* bound: how often the panel is shown or hidden
  MaxHeaderGeneration   \* bound: how often the header is restored or scheduled

ASSUME BoundsAssumption == MaxGeneration \in Nat /\ MaxHeaderGeneration \in Nat

VARIABLES
  showing,           \* VisibilityState::showing, the intended visibility
  generation,        \* VisibilityState::generation
  window,            \* whether the panel's window is on screen
  hides,             \* the delayed hides in flight: their generation, and
                     \*   whether they have found it current
  headerGeneration,  \* PanelState::header_generation
  headerUp,          \* PanelState::minimal_header_visible
  headerHides,       \* the delayed header hides in flight, likewise
  pointer,           \* where the pointer is
  inside,            \* where the poll last saw it
  edge,              \* the crossing the poll has seen and not acted upon
  listening,         \* whether the webview has subscribed
  channel,           \* events emitted and not yet delivered
  believed,          \* main.tsx `visible`: the last visibility it was told
  anim,              \* the panel root's data-anim
  header             \* main.tsx `headerVisible`

hostVars == <<showing, generation, window, hides>>
headerVars == <<headerGeneration, headerUp, headerHides>>
pollVars == <<pointer, inside, edge>>
webviewVars == <<listening, channel, believed, anim, header>>
vars == <<hostVars, headerVars, pollVars, webviewVars>>

Event(about, value) == [about |-> about, visible |-> value]

(* An event emitted before the webview listens is lost.                    *)
Emit(events) == channel' = IF listening THEN channel \o events ELSE channel

Init ==
  /\ showing = FALSE /\ generation = 0 /\ window = FALSE /\ hides = {}
  /\ headerGeneration = 0 /\ headerUp = TRUE /\ headerHides = {}
  /\ pointer \in {"in", "out"} /\ inside = "unknown" /\ edge = "none"
  /\ listening = FALSE /\ channel = <<>>
  /\ believed = FALSE /\ anim = "none" /\ header = TRUE

-------------------------------------------------------------------------------
(* Handlers: a second launch or the tray's "show", the tray's "hide" and   *)
(* the panel's Escape.                                                     *)

(* show_panel on a window that is still on screen, be it that its exit     *)
(* animation is playing: a bring-to-front, not a transition.               *)
BringToFront ==
  /\ window
  /\ generation < MaxGeneration /\ headerGeneration < MaxHeaderGeneration
  /\ generation' = generation + 1
  /\ showing' = TRUE
  /\ headerGeneration' = headerGeneration + 1
  /\ headerUp' = TRUE
  /\ Emit(<<Event("header", TRUE)>>)
  /\ UNCHANGED <<window, hides, headerHides, pollVars, listening, believed, anim, header>>

(* show_panel on a hidden window: shown, announced, its header restored,   *)
(* and the header's hide scheduled when the pointer is elsewhere.          *)
Reveal ==
  /\ ~window
  /\ generation < MaxGeneration /\ headerGeneration < MaxHeaderGeneration
  /\ generation' = generation + 1
  /\ showing' = TRUE
  /\ window' = TRUE
  /\ headerUp' = TRUE
  /\ Emit(<<Event("panel", TRUE), Event("header", TRUE)>>)
  /\ \/ /\ pointer = "in"
        /\ headerGeneration' = headerGeneration + 1
        /\ UNCHANGED headerHides
     \/ /\ pointer = "out"
        /\ headerGeneration' = headerGeneration + 2
        /\ headerHides' =
             headerHides \union {[generation |-> headerGeneration + 2, due |-> FALSE]}
  /\ UNCHANGED <<hides, pollVars, listening, believed, anim, header>>

HideBeforeBump ==
  /\ showing \/ window
  /\ generation < MaxGeneration /\ headerGeneration < MaxHeaderGeneration
  /\ generation' = generation + 1
  /\ showing' = FALSE
  /\ headerGeneration' = headerGeneration + 1
  /\ hides' = hides \union {[generation |-> generation, due |-> FALSE]}
  /\ Emit(<<Event("panel", FALSE)>>)
  /\ UNCHANGED <<window, headerUp, headerHides, pollVars, listening, believed, anim, header>>

(* hide_panel: the webview is told to leave, the window goes later; any    *)
(* header hide still pending is retired.                                   *)
Hide ==
  /\ showing \/ window
  /\ generation < MaxGeneration /\ headerGeneration < MaxHeaderGeneration
  /\ generation' = generation + 1
  /\ showing' = FALSE
  /\ headerGeneration' = headerGeneration + 1
  /\ hides' = hides \union {[generation |-> generation + 1, due |-> FALSE]}
  /\ Emit(<<Event("panel", FALSE)>>)
  /\ UNCHANGED <<window, headerUp, headerHides, pollVars, listening, believed, anim, header>>

-------------------------------------------------------------------------------
(* The delayed hide of the window, once its animation time is over.        *)

(* It reads the generation under the lock, and ends if a newer show or     *)
(* hide has happened ...                                                   *)
WakeHide(h) ==
  /\ h \in hides /\ ~h.due
  /\ hides' = (hides \ {h}) \union
                {d \in {[h EXCEPT !.due = TRUE]} : d.generation = generation}
  /\ UNCHANGED <<showing, generation, window, headerVars, pollVars, webviewVars>>

(* ... and hides the window when the lock has long been released.          *)
HideWindow(h) ==
  /\ h \in hides /\ h.due
  /\ hides' = hides \ {h}
  /\ window' = FALSE
  /\ UNCHANGED <<showing, generation, headerVars, pollVars, webviewVars>>

-------------------------------------------------------------------------------
(* The header, the pointer and the poll.                                   *)

MovePointer ==
  /\ pointer' = IF pointer = "in" THEN "out" ELSE "in"
  /\ UNCHANGED <<hostVars, headerVars, inside, edge, webviewVars>>

(* header_tracking_transition: a hidden window forgets the pointer, and a  *)
(* crossing is reported once.                                              *)
Sample ==
  /\ edge = "none"
  /\ \/ /\ ~window
        /\ inside' = "unknown"
        /\ UNCHANGED edge
     \/ /\ window /\ inside # pointer
        /\ inside' = pointer
        /\ edge' = pointer
  /\ UNCHANGED <<hostVars, headerVars, pointer, webviewVars>>

(* restore_panel_header.                                                   *)
Entered ==
  /\ edge = "in" /\ headerGeneration < MaxHeaderGeneration
  /\ edge' = "none"
  /\ headerGeneration' = headerGeneration + 1
  /\ headerUp' = TRUE
  /\ Emit(<<Event("header", TRUE)>>)
  /\ UNCHANGED <<hostVars, headerHides, pointer, inside, listening, believed, anim, header>>

(* schedule_header_hide.                                                   *)
Left ==
  /\ edge = "out" /\ headerGeneration < MaxHeaderGeneration
  /\ edge' = "none"
  /\ headerGeneration' = headerGeneration + 1
  /\ headerHides' =
       headerHides \union {[generation |-> headerGeneration + 1, due |-> FALSE]}
  /\ UNCHANGED <<hostVars, headerUp, pointer, inside, webviewVars>>

(* The delayed header hide re-checks what it was scheduled for.  At        *)
(* startup it is five seconds away, which the webview needs not.           *)
WakeHeader(h) ==
  /\ h \in headerHides /\ ~h.due /\ listening
  /\ headerHides' = (headerHides \ {h}) \union
                      {d \in {[h EXCEPT !.due = TRUE]} : window /\ pointer = "out"}
  /\ UNCHANGED <<hostVars, headerGeneration, headerUp, pollVars, webviewVars>>

HideHeaderMarkingFirst(h) ==
  /\ h \in headerHides /\ h.due
  /\ headerHides' = headerHides \ {h}
  /\ headerUp' = FALSE
  /\ \/ h.generation = headerGeneration /\ Emit(<<Event("header", FALSE)>>)
     \/ h.generation # headerGeneration /\ UNCHANGED channel
  /\ UNCHANGED <<hostVars, headerGeneration, pollVars, listening, believed, anim, header>>

(* The generation lock is held from the comparison through the emission.   *)
HideHeader(h) ==
  /\ h \in headerHides /\ h.due
  /\ headerHides' = headerHides \ {h}
  /\ \/ /\ h.generation = headerGeneration
        /\ headerUp' = FALSE
        /\ Emit(<<Event("header", FALSE)>>)
     \/ /\ h.generation # headerGeneration
        /\ UNCHANGED <<headerUp, channel>>
  /\ UNCHANGED <<hostVars, headerGeneration, pollVars, listening, believed, anim, header>>

-------------------------------------------------------------------------------
(* The webview.                                                            *)

Subscribe ==
  /\ ~listening
  /\ listening' = TRUE
  /\ UNCHANGED <<hostVars, headerVars, pollVars, channel, believed, anim, header>>

(* A repeated value is dropped: only a real change animates.               *)
DeliverVisibility ==
  /\ channel # <<>> /\ Head(channel).about = "panel"
  /\ channel' = Tail(channel)
  /\ believed' = Head(channel).visible
  /\ anim' = IF believed' = believed THEN anim
             ELSE IF believed' THEN "enter" ELSE "leave"
  /\ UNCHANGED <<hostVars, headerVars, pollVars, listening, header>>

DeliverHeader ==
  /\ channel # <<>> /\ Head(channel).about = "header"
  /\ channel' = Tail(channel)
  /\ header' = Head(channel).visible
  /\ UNCHANGED <<hostVars, headerVars, pollVars, listening, believed, anim>>

(* Two frames after the enter state was painted, it is removed.            *)
EnterPainted ==
  /\ anim = "enter"
  /\ anim' = "none"
  /\ UNCHANGED <<hostVars, headerVars, pollVars, listening, channel, believed, header>>

-------------------------------------------------------------------------------
HideSteps == \E h \in hides : WakeHide(h) \/ HideWindow(h)
HeaderSteps == \E h \in headerHides : WakeHeader(h) \/ HideHeader(h)
PollSteps == Sample \/ Entered \/ Left
WebviewSteps == Subscribe \/ DeliverVisibility \/ DeliverHeader \/ EnterPainted

Next ==
  \/ BringToFront \/ Reveal \/ Hide
  \/ HideSteps \/ HeaderSteps
  \/ MovePointer \/ PollSteps
  \/ WebviewSteps

(* The runtime wakes its tasks, the poll loops, and the webview handles    *)
(* its events.                                                             *)
Fairness == WF_vars(HideSteps) /\ WF_vars(HeaderSteps) /\ WF_vars(PollSteps) /\ WF_vars(WebviewSteps)

Spec == Init /\ [][Next]_vars /\ Fairness

-------------------------------------------------------------------------------
(* Properties.                                                             *)

DelayedHides(max) == [generation : 0..max, due : BOOLEAN]

(* Every variable keeps its type.                                          *)
TypeOK ==
  /\ showing \in BOOLEAN /\ window \in BOOLEAN
  /\ generation \in 0..MaxGeneration
  /\ hides \subseteq DelayedHides(MaxGeneration)
  /\ headerGeneration \in 0..(MaxHeaderGeneration + 1) /\ headerUp \in BOOLEAN
  /\ headerHides \subseteq DelayedHides(MaxHeaderGeneration + 1)
  /\ pointer \in {"in", "out"}
  /\ inside \in {"unknown", "in", "out"} /\ edge \in {"none", "in", "out"}
  /\ listening \in BOOLEAN
  /\ channel \in Seq([about : {"panel", "header"}, visible : BOOLEAN])
  /\ believed \in BOOLEAN /\ anim \in {"none", "enter", "leave"} /\ header \in BOOLEAN

(* Hiding ends: unless the panel is asked for again, its window goes.      *)
HideCompletes == ~showing ~> (~window \/ showing)

(* Host and webview never end up disagreeing about the header: the events  *)
(* that a stale hide and a restore emit arrive in the order of the state   *)
(* they speak of.                                                          *)
HeaderAgrees == listening /\ channel = <<>> => header = headerUp

Settled == hides = {} /\ listening /\ channel = <<>> /\ anim # "enter"

(* hide_panel's own words: nothing can leave the window hidden while the   *)
(* panel believes it is visible.                                           *)
ShownStaysOnScreen == Settled /\ showing => window

(* show_panel's own words: it cancels any hide animation still in flight,  *)
(* so a panel that is shown is not left in the state it leaves with.       *)
ShownIsPainted == Settled /\ showing /\ window => anim # "leave"
===============================================================================
