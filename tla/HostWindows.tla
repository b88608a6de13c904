------------------------------ MODULE HostWindows -----------------------------
(***************************************************************************)
(* The panel's window, the rail it may shrink to, and the card beside the  *)
(* rail: src-tauri/src/lib.rs with the two documents it shows, the panel's *)
(* (src/desktop/panel/PanelApp.tsx) and the card's (MinimalDetailWindow).  *)
(*                                                                         *)
(* The rail owns the selection and tells the host; the host may dismiss it *)
(* and tells the rail; the card's document follows the host, and asks for  *)
(* its window once it knows its height.  Commands and native changes from  *)
(* every thread are handled in order by the main thread (mainQueue); the   *)
(* pointer poll, the boundary poll, a settings write and the delayed hides *)
(* of the card run on other threads.                                       *)
(*                                                                         *)
(* Where the pointer is is left out: the poll may find it outside of both  *)
(* windows whenever the card is up.  A drag owns the main thread from      *)
(* mouse down to mouse up, so it is one step.                              *)
(***************************************************************************)
EXTENDS WindowFrames

CONSTANTS
  RingOf,        \* the rings, each with its place on the rail from the top
  PanelHeights,  \* heights the full panel's content may have
  RailHeights,   \* heights the rail may have
  CardHeights,   \* heights the card of each ring may have
  DropPoints,    \* where a drag may leave the panel's top left corner
  TrayAnchors,   \* where the tray icon may be
  MaxInputs      \* bound: what users and contents do in one behaviour

ASSUME InputsAssumption ==
  /\ PanelHeights \subseteq Nat /\ RailHeights \subseteq Nat /\ RailHeights # {}
  /\ DropPoints \subseteq Points /\ TrayAnchors \subseteq Points
  /\ MaxInputs \in Nat

VARIABLES
  minimal,     \* PanelState::minimal_mode
  visible,     \* whether the panel's window is on screen
  leaving,     \* whether the panel's delayed hide is due
  panel,       \* the panel's frame
  grip,        \* PanelState::minimal_header_visible
  detail,      \* PanelState::minimal_detail: selection, generation, height
  hides,       \* the delayed hides of the card, by their generation
  card,        \* the card's frame
  cardShown,   \* whether the card's window is on screen
  laying,      \* where panel_detail_layout is: "idle", "placing" or "showing"
  dismissing,  \* the threads that found a selection and are dismissing it
  reframing,   \* whether a settings write has yet to give the panel its width
  mainQueue,   \* what the main thread has yet to handle
  rail,        \* the rail's document: its shape, what it takes to be selected
  toRail,      \* what the host has told it and it has not heard
  doc,         \* the card's document: its selection, and the height it has
               \*   reported for that
  toDoc,       \* the selections of the host since the one it has
  inputs       \* how many inputs there have been

frameVars == <<visible, leaving, panel, grip, card>>
hostVars == <<minimal, detail, hides, cardShown, laying, dismissing, reframing>>
railVars == <<rail, toRail>>
docVars == <<doc, toDoc>>
windowsVars == <<frameVars, hostVars, mainQueue, railVars, docVars, inputs>>

Rings == DOMAIN RingOf
Unknown == -1
NoFrame == Rect(0, 0, 0, 0)

Input == inputs < MaxInputs /\ inputs' = inputs + 1

(* A rail that has settled where it was first anchored.                    *)
WindowsInit ==
  /\ minimal = TRUE /\ visible = TRUE /\ leaving = FALSE
  /\ panel = MinimalPanelFrame(Displays[1], RailWidth, Min(RailHeights))
  /\ grip = FALSE
  /\ detail = [selection |-> None, generation |-> 0, height |-> 0]
  /\ hides = {} /\ card = NoFrame /\ cardShown = FALSE
  /\ laying = "idle" /\ dismissing = {} /\ reframing = FALSE
  /\ mainQueue = <<>>
  /\ rail = [minimal |-> TRUE, selected |-> None] /\ toRail = <<>>
  /\ doc = [selection |-> None, reported |-> Unknown]
  /\ toDoc = <<>>
  /\ inputs = 0

-------------------------------------------------------------------------------
(* What travels.                                                           *)

Select(s) == [do |-> "select", ring |-> s]
Layout(h) == [do |-> "layout", height |-> h]
RailLayout(h, anchor) == [do |-> "rail", height |-> h, anchor |-> anchor]
Height(h) == [do |-> "height", height |-> h]
Frame(shift, h) == [do |-> "frame", shift |-> shift, height |-> h]
MoveTo(at) == [do |-> "move", at |-> at]
Place(frame) == [do |-> "place", frame |-> frame]
HideCard == [do |-> "hide"]
Dismiss == [do |-> "dismiss"]

Queued(what) == \E i \in DOMAIN mainQueue : mainQueue[i].do = what
Post(messages) == mainQueue' = mainQueue \o messages

(* The main thread handles one thing at a time.                            *)
Handle(what) ==
  /\ laying = "idle" /\ mainQueue # <<>> /\ Head(mainQueue).do = what
  /\ mainQueue' = Tail(mainQueue)

-------------------------------------------------------------------------------
(* The selection.                                                          *)

SetDetailHidingShown(s) ==
  IF detail.selection = s THEN UNCHANGED <<detail, hides, toDoc>>
  ELSE /\ detail' = [detail EXCEPT !.selection = s, !.generation = @ + 1]
       /\ toDoc' = Append(toDoc, s)
       /\ hides' = hides \union {g \in {detail'.generation} : s = None /\ cardShown}

(* panel_set_minimal_detail: a selection that is new to the host is told   *)
(* to the card's document, and an empty one hides the card in a while.     *)
SetDetail(s) ==
  IF detail.selection = s THEN UNCHANGED <<detail, hides, toDoc>>
  ELSE /\ detail' = [detail EXCEPT !.selection = s, !.generation = @ + 1]
       /\ toDoc' = Append(toDoc, s)
       /\ hides' = hides \union {g \in {detail'.generation} : s = None}

(* dismiss_minimal_detail once it has found a selection: the rail is told  *)
(* twice, by a script and by an event.                                     *)
DismissDetail ==
  /\ SetDetail(None)
  /\ toRail' = toRail \o <<"dismiss", "dismiss">>

DismissIfActive ==
  IF detail.selection = None THEN UNCHANGED <<detail, hides, toDoc, toRail>> ELSE DismissDetail

(* The rail's word arrives.                                                *)
HandleSelect ==
  /\ Handle("select")
  /\ SetDetail(Head(mainQueue).ring)
  /\ UNCHANGED <<frameVars, minimal, cardShown, laying, dismissing, reframing, railVars, doc, inputs>>

(* panel_detail_dismiss, from the card's Escape.                           *)
HandleDismiss ==
  /\ Handle("dismiss")
  /\ DismissIfActive
  /\ UNCHANGED <<frameVars, minimal, cardShown, laying, dismissing, reframing, rail, doc, inputs>>

(* The pointer poll: outside of rail and card for 180 ms, in which the     *)
(* rail has heard of an earlier dismissal.                                 *)
PollFindsOutside ==
  /\ minimal /\ cardShown /\ detail.selection # None /\ toRail = <<>>
  /\ dismissing' = dismissing \union {"poll"}
  /\ UNCHANGED <<frameVars, minimal, detail, hides, cardShown, laying, reframing, mainQueue,
                 railVars, docVars, inputs>>

(* Whoever found a selection dismisses what is selected by now.            *)
FinishDismissal(thread) ==
  /\ thread \in dismissing
  /\ dismissing' = dismissing \ {thread}
  /\ DismissDetail
  /\ UNCHANGED <<frameVars, minimal, cardShown, laying, reframing, mainQueue, rail, doc, inputs>>

(* The delayed hide, 170 ms later, if nothing was selected or dismissed    *)
(* since.                                                                  *)
HideIsDue(g) ==
  /\ g \in hides
  /\ hides' = hides \ {g}
  /\ IF g = detail.generation /\ detail.selection = None THEN Post(<<HideCard>>)
     ELSE UNCHANGED mainQueue
  /\ UNCHANGED <<frameVars, minimal, detail, cardShown, laying, dismissing, reframing,
                 railVars, docVars, inputs>>

HandleHide ==
  /\ Handle("hide")
  /\ cardShown' = FALSE
  /\ UNCHANGED <<frameVars, minimal, detail, hides, laying, dismissing, reframing, railVars,
                 docVars, inputs>>

-------------------------------------------------------------------------------
(* The card's window.                                                      *)

(* panel_detail_layout: a height for a selection that is gone is refused.  *)
HandleLayout ==
  /\ Handle("layout")
  /\ IF detail.selection = None THEN UNCHANGED <<detail, laying>>
     ELSE /\ detail' = [detail EXCEPT !.height = Head(mainQueue).height]
          /\ laying' = "placing"
  /\ UNCHANGED <<frameVars, minimal, hides, cardShown, dismissing, reframing, railVars,
                 docVars, inputs>>

Placeable == detail.selection # None /\ detail.height > 0 /\ CurrentDisplay(panel) # None

(* place_minimal_detail.                                                   *)
CardFrame ==
  DetailFrame(panel, RingOf[detail.selection], detail.height, grip, CurrentDisplay(panel).work)

PlaceForLayout ==
  /\ laying = "placing"
  /\ IF Placeable THEN card' = CardFrame /\ laying' = "showing"
     ELSE laying' = "idle" /\ UNCHANGED card
  /\ UNCHANGED <<visible, leaving, panel, grip, minimal, detail, hides, cardShown, dismissing,
                 reframing, mainQueue, railVars, docVars, inputs>>

(* The selection may have gone in between; its delayed hide is behind.     *)
ShowCard ==
  /\ laying = "showing"
  /\ laying' = "idle"
  /\ cardShown' = TRUE
  /\ UNCHANGED <<frameVars, minimal, detail, hides, dismissing, reframing, mainQueue, railVars,
                 docVars, inputs>>

(* The boundary poll lets a card that is up follow the rail ...            *)
PollPlaces ==
  /\ cardShown /\ Placeable /\ card # CardFrame /\ ~Queued("place")
  /\ Post(<<Place(CardFrame)>>)
  /\ UNCHANGED <<frameVars, hostVars, railVars, docVars, inputs>>

HandlePlace ==
  /\ Handle("place")
  /\ card' = Head(mainQueue).frame
  /\ UNCHANGED <<visible, leaving, panel, grip, hostVars, railVars, docVars, inputs>>

(* ... and brings a panel back that left the displays.                     *)
PollClamps ==
  /\ visible /\ BoundaryClampTarget(panel) # None /\ ~Queued("move")
  /\ Post(<<MoveTo(BoundaryClampTarget(panel))>>)
  /\ UNCHANGED <<frameVars, hostVars, railVars, docVars, inputs>>

-------------------------------------------------------------------------------
(* The panel's window.                                                     *)

PanelBecomes(frame) ==
  /\ panel' = frame
  /\ UNCHANGED <<visible, leaving, grip, card, hostVars, railVars, docVars, inputs>>

HandleMove ==
  /\ Handle("move")
  /\ PanelBecomes([panel EXCEPT !.x = Head(mainQueue).at.x, !.y = Head(mainQueue).at.y])

HandleRail ==
  /\ Handle("rail")
  /\ PanelBecomes(AfterMinimalLayout(panel, Head(mainQueue).height, Head(mainQueue).anchor))

HandleHeight ==
  /\ Handle("height")
  /\ PanelBecomes(AfterSetHeight(panel, Head(mainQueue).height))

HandleFrame ==
  /\ Handle("frame")
  /\ PanelBecomes(AfterFullPanel(panel, Head(mainQueue).shift, Head(mainQueue).height))

(* A user drags the panel elsewhere.                                       *)
Drop ==
  /\ Input /\ visible /\ laying = "idle"
  /\ \E at \in DropPoints : panel' = [panel EXCEPT !.x = at.x, !.y = at.y]
  /\ UNCHANGED <<visible, leaving, grip, card, hostVars, mainQueue, railVars, docVars>>

(* The header, or the rail's grip, comes or goes with the pointer.         *)
ToggleGrip ==
  /\ Input /\ visible
  /\ grip' = ~grip
  /\ UNCHANGED <<visible, leaving, panel, card, hostVars, mainQueue, railVars, docVars>>

(* hide_panel: the card goes at once, the panel after its animation ...    *)
HidePanel ==
  /\ Input /\ visible /\ ~leaving /\ laying = "idle"
  /\ leaving' = TRUE
  /\ DismissIfActive
  /\ UNCHANGED <<visible, panel, grip, card, minimal, cardShown, laying, dismissing, reframing,
                 mainQueue, rail, doc>>

PanelGoes ==
  /\ leaving /\ laying = "idle"
  /\ leaving' = FALSE /\ visible' = FALSE
  /\ UNCHANGED <<panel, grip, card, hostVars, mainQueue, railVars, docVars, inputs>>

(* ... and show_panel: a bring-to-front if the panel is still there, else  *)
(* its frame is solved for its shape and its document is told.             *)
ShowPanel ==
  /\ Input /\ (leaving \/ ~visible) /\ laying = "idle"
  /\ leaving' = FALSE /\ visible' = TRUE /\ grip' = TRUE
  /\ IF visible THEN UNCHANGED <<panel, toRail>>
     ELSE /\ toRail' = Append(toRail, "reopened")
          /\ \/ minimal /\ panel' = AfterMinimalLayout(panel, panel.h, TRUE)
             \/ /\ ~minimal
                /\ \E anchor \in TrayAnchors \union {None} :
                     panel' = AfterFullPanel(panel, FullPanelShift(panel, anchor, panel.h), panel.h)
  /\ UNCHANGED <<card, hostVars, mainQueue, rail, docVars>>

(* write_settings on a mode: the host's flag, the dismissal of the card,   *)
(* the panel's full frame, the documents told.  What two writes at a time  *)
(* do is in SettingsSync; here one waits until the rail heard of the last. *)
SwitchToFull ==
  /\ Input /\ minimal /\ rail.minimal /\ ~reframing
  /\ minimal' = FALSE /\ reframing' = TRUE
  /\ dismissing' = dismissing \union {t \in {"settings"} : detail.selection # None}
  /\ UNCHANGED <<frameVars, detail, hides, cardShown, laying, mainQueue, railVars, docVars>>

SetFullLayout ==
  /\ reframing /\ "settings" \notin dismissing
  /\ reframing' = FALSE
  /\ IF visible THEN Post(<<Frame(FullPanelShift(panel, None, panel.h), panel.h)>>)
     ELSE UNCHANGED mainQueue
  /\ toRail' = Append(toRail, "full")
  /\ UNCHANGED <<frameVars, minimal, detail, hides, cardShown, laying, dismissing, rail, docVars, inputs>>

SwitchToMinimal ==
  /\ Input /\ ~minimal /\ ~rail.minimal
  /\ minimal' = TRUE
  /\ toRail' = Append(toRail, "minimal")
  /\ UNCHANGED <<frameVars, detail, hides, cardShown, laying, dismissing, reframing, mainQueue,
                 rail, docVars>>

-------------------------------------------------------------------------------
(* The panel's document.                                                   *)

RailSays(s, messages) ==
  /\ rail' = [rail EXCEPT !.selected = s]
  /\ Post(<<Select(s)>> \o messages)

RailUnchanged == UNCHANGED <<frameVars, hostVars, docVars>>

(* A ring under the pointer is asked for anew whatever was selected ...    *)
Point(s) ==
  /\ Input /\ visible /\ rail.minimal
  /\ RailSays(s, <<>>)
  /\ UNCHANGED toRail /\ RailUnchanged

(* ... and a pointer on a tool of the rail, or Escape, ends it.            *)
LeavePlatform ==
  /\ Input /\ rail.selected # None
  /\ RailSays(None, <<>>)
  /\ UNCHANGED toRail /\ RailUnchanged

(* The clock renders the panel every second, which says it all again.      *)
RailTicks ==
  /\ Input /\ ~Queued("select")
  /\ RailSays(rail.selected, <<>>)
  /\ UNCHANGED toRail /\ RailUnchanged

Hear(what) == toRail # <<>> /\ Head(toRail) = what /\ toRail' = Tail(toRail) /\ UNCHANGED inputs

(* An emptied selection is an effect only if there was one.                *)
HearDismissal ==
  /\ Hear("dismiss") \/ Hear("reopened")
  /\ IF rail.selected = None THEN UNCHANGED <<rail, mainQueue>> ELSE RailSays(None, <<>>)
  /\ RailUnchanged

(* The full panel measures itself as it mounts.                            *)
HearFull ==
  /\ Hear("full")
  /\ rail' = [minimal |-> FALSE, selected |-> None]
  /\ \E h \in PanelHeights : Post(<<Select(None), Height(h)>>)
  /\ RailUnchanged

(* The rail anchors itself as it mounts: at its own height, or at the      *)
(* window's and then travelling to its own.                                *)
HearMinimal ==
  /\ Hear("minimal")
  /\ rail' = [minimal |-> TRUE, selected |-> None]
  /\ \E h \in RailHeights :
       \/ Post(<<Select(None), RailLayout(h, TRUE)>>)
       \/ Post(<<Select(None), RailLayout(panel.h, TRUE), RailLayout(h, FALSE)>>)
  /\ RailUnchanged

(* What either shape shows takes more or less room.                        *)
ContentChanges ==
  /\ Input /\ visible
  /\ \/ rail.minimal /\ \E h \in RailHeights : Post(<<RailLayout(h, FALSE)>>)
     \/ ~rail.minimal /\ \E h \in PanelHeights : Post(<<Height(h)>>)
  /\ UNCHANGED railVars /\ RailUnchanged

-------------------------------------------------------------------------------
(* The card's document.                                                    *)

(* adopt, and what is rendered of it.  Selections are pushed, lost while   *)
(* the child is hidden on some versions of WebKit, read anew every 100 ms, *)
(* older ones than the one it has ignored, and what arrives between two    *)
(* frames is rendered as one: so the document goes on to any later one,    *)
(* and skips those before.  An emptied selection forgets the height        *)
(* reported, another one reports its own, and the same one none.           *)
AdoptSelection ==
  \E n \in DOMAIN toDoc :
    /\ toDoc' = SubSeq(toDoc, n + 1, Len(toDoc))
    /\ \/ /\ toDoc[n] = doc.selection
          /\ UNCHANGED <<doc, mainQueue>>
       \/ /\ toDoc[n] = None /\ doc.selection # None
          /\ doc' = [selection |-> None, reported |-> Unknown]
          /\ UNCHANGED mainQueue
       \/ /\ toDoc[n] \notin {None, doc.selection}
          /\ \E h \in CardHeights[toDoc[n]] :
               doc' = [selection |-> toDoc[n], reported |-> h] /\ Post(<<Layout(h)>>)
    /\ UNCHANGED <<frameVars, hostVars, railVars, inputs>>

(* The content of the card takes more or less room.                        *)
CardChanges ==
  /\ Input /\ doc.selection # None
  /\ \E h \in CardHeights[doc.selection] \ {doc.reported} :
       doc' = [doc EXCEPT !.reported = h] /\ Post(<<Layout(h)>>)
  /\ UNCHANGED <<frameVars, hostVars, railVars, toDoc>>

EscapeInCard ==
  /\ Input /\ doc.selection # None
  /\ Post(<<Dismiss>>)
  /\ UNCHANGED <<frameVars, hostVars, railVars, docVars>>

-------------------------------------------------------------------------------
MainThread ==
  \/ HandleSelect \/ HandleDismiss \/ HandleHide
  \/ HandleLayout \/ PlaceForLayout \/ ShowCard \/ HandlePlace
  \/ HandleMove \/ HandleRail \/ HandleHeight \/ HandleFrame
  \/ PanelGoes

Threads ==
  \/ PollFindsOutside \/ PollPlaces \/ PollClamps \/ SetFullLayout
  \/ (\E t \in dismissing : FinishDismissal(t))
  \/ (\E g \in hides : HideIsDue(g))

Inputs ==
  \/ Drop \/ ToggleGrip \/ HidePanel \/ ShowPanel
  \/ SwitchToFull \/ SwitchToMinimal
  \/ (\E s \in Rings : Point(s)) \/ LeavePlatform
  \/ ContentChanges \/ CardChanges \/ EscapeInCard

Documents ==
  \/ RailTicks \/ HearDismissal \/ HearFull \/ HearMinimal
  \/ AdoptSelection

WindowsNext == MainThread \/ Threads \/ Inputs \/ Documents

WindowsSpec == WindowsInit /\ [][WindowsNext]_windowsVars

-------------------------------------------------------------------------------
(* Properties.                                                             *)

Quiet ==
  /\ mainQueue = <<>> /\ laying = "idle" /\ dismissing = {} /\ ~reframing
  /\ toRail = <<>>

(* A card that is up for no selection is about to go: whoever emptied the  *)
(* selection, and however late the show that crossed it was.               *)
OrphanIsLeaving ==
  cardShown /\ detail.selection = None => detail.generation \in hides \/ Queued("hide")

(* The rail owns the selection: once nothing is under way, the host's is   *)
(* what the rail takes it to be, however dismissals and new selections     *)
(* crossed.                                                                *)
HostAgreesWithRail == Quiet => detail.selection = rail.selected

(* No card stays on screen but for a ring the rail takes to be selected.   *)
CardFollowsRail == OrphanIsLeaving /\ HostAgreesWithRail

FitsEverywhere == \A i \in Indices : panel.w <= Displays[i].bounds.w /\ panel.h <= Displays[i].bounds.h

(* One look of the boundary poll puts a panel wholly on one display, where *)
(* the next look leaves it alone, wherever drags, heights and a change of  *)
(* shape have left it.                                                     *)
ClampCovers ==
  LET at == BoundaryClampTarget(panel)
      moved == [panel EXCEPT !.x = at.x, !.y = at.y]
  IN FitsEverywhere /\ at # None =>
       /\ \E i \in Indices : Inside(moved, Displays[i].bounds)
       /\ BoundaryClampTarget(moved) = None

(* A change of shape leaves the window as wide as the shape, in whatever   *)
(* order the host's frame and the document's heights were handled.         *)
ShapeSettles == Quiet => (panel.w = PanelWidth <=> ~minimal)

(* A card that the boundary poll would leave alone is in the work area of  *)
(* the rail's display, and beside the rail.                                *)
CardIsBeside ==
  Quiet /\ cardShown /\ detail.selection # None /\ Placeable /\ card = CardFrame =>
    Inside(card, CurrentDisplay(panel).work) /\ Overlap(card, panel) = 0

(* Where windows come to rest they are in shape, and apart.                *)
WindowsSettle == ShapeSettles /\ CardIsBeside

(* lib.rs on panel_detail_current: a selection is not lost on a document   *)
(* that does not hear of it.                                               *)
SelectedIsShown ==
  Quiet /\ toDoc = <<>> /\ detail.selection # None => cardShown

(* lib.rs on the card: the rail stays 58 points wide.                      *)
RailKeepsItsWidth == Quiet /\ minimal => panel.w = RailWidth

(* lib.rs on apply_panel_frame: with a target the window is placed there.  *)
AnchoredWhereAimed ==
  \A h \in RailHeights :
    LET d == CurrentDisplay(panel)
    IN d # None => AnchoredRail(panel, h).y = MinimalPanelFrame(d, RailWidth, h).y
===============================================================================
