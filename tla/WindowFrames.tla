----------------------------- MODULE WindowFrames -----------------------------
(***************************************************************************)
(* Where the host's windows go: the arithmetic of src-tauri/src/lib.rs on  *)
(* the frames of the panel, of the rail it may shrink to and of the card   *)
(* beside the rail.                                                        *)
(*                                                                         *)
(* Frames are in whole points with the top edge first.  A display is its   *)
(* bounds and its work area; Displays is the order in which the window     *)
(* server lists them, the main display at its head.  What a display's      *)
(* scale factor does (every reading divided by it) is left out.            *)
(***************************************************************************)
EXTENDS Integers, Sequences, FiniteSetsExt

CONSTANTS
  Displays,     \* the displays, the main one first
  None          \* no display, no place, no selection

Rect(x, y, w, h) == [x |-> x, y |-> y, w |-> w, h |-> h]
Right(r) == r.x + r.w
Bottom(r) == r.y + r.h

Smaller(a, b) == IF a < b THEN a ELSE b
Larger(a, b) == IF a < b THEN b ELSE a
Clamp(v, low, high) == Larger(low, Smaller(v, high))

(* The area two frames share.                                              *)
Overlap(r, s) ==
  Larger(Smaller(Right(r), Right(s)) - Larger(r.x, s.x), 0)
    * Larger(Smaller(Bottom(r), Bottom(s)) - Larger(r.y, s.y), 0)

Inside(r, s) == r.x >= s.x /\ r.y >= s.y /\ Right(r) <= Right(s) /\ Bottom(r) <= Bottom(s)

Indices == 1..Len(Displays)
Points == [x : Int, y : Int]
Frames == [x : Int, y : Int, w : Nat, h : Nat]

ASSUME DisplaysAssumption ==
  Displays \in Seq([bounds : Frames, work : Frames]) \ {<<>>}

SpansX(d, x) == d.bounds.x <= x /\ x <= Right(d.bounds)

(* Displays never overlap, so what they show of a frame adds up.           *)
ShownArea(r) ==
  LET shown[i \in 0..Len(Displays)] ==
        IF i = 0 THEN 0 ELSE shown[i - 1] + Overlap(r, Displays[i].bounds)
  IN shown[Len(Displays)]

Covered(r) == ShownArea(r) >= r.w * r.h

(* The display most of a frame is on, if any of it is on one.              *)
CurrentDisplay(r) ==
  LET on == {i \in Indices : Overlap(r, Displays[i].bounds) > 0}
  IN IF on = {} THEN None
     ELSE Displays[CHOOSE i \in on : \A j \in on :
            LET a == Overlap(r, Displays[i].bounds)
                b == Overlap(r, Displays[j].bounds)
            IN a > b \/ (a = b /\ i <= j)]

-------------------------------------------------------------------------------
(* The poll that brings a dropped panel back.                              *)

(* The panel's top left corner alone is brought back.                      *)
NearestCorner(r, d) ==
  [x |-> Clamp(r.x, d.bounds.x, Right(d.bounds)), y |-> Clamp(r.y, d.bounds.y, Bottom(d.bounds))]

(* The nearest origin at which a display holds the whole of a frame, or    *)
(* its top left corner if the frame is too large for it.                   *)
Nearest(r, d) ==
  [x |-> Clamp(r.x, d.bounds.x, Larger(Right(d.bounds) - r.w, d.bounds.x)),
   y |-> Clamp(r.y, d.bounds.y, Larger(Bottom(d.bounds) - r.h, d.bounds.y))]

(* boundary_clamp_target: nothing to do for a panel the displays cover     *)
(* together, else the shortest way onto one of them, and of equal ways the *)
(* one to the display that shows more of the panel.                        *)
BoundaryClampTarget(r) ==
  LET way(i) == LET n == Nearest(r, Displays[i])
                IN (n.x - r.x) * (n.x - r.x) + (n.y - r.y) * (n.y - r.y)
      shows(i) == Overlap(r, Displays[i].bounds)
      before(i, j) ==
        \/ way(i) < way(j)
        \/ way(i) = way(j) /\ (shows(i) > shows(j) \/ (shows(i) = shows(j) /\ i <= j))
  IN IF Covered(r) THEN None
     ELSE Nearest(r, Displays[CHOOSE i \in Indices : \A j \in Indices : before(i, j)])

-------------------------------------------------------------------------------
(* Sizes and frames of the panel and the rail.                             *)

PanelWidth == 350
RailWidth == 58
Margin == 10
MinHeight == 40
MaxHeight == 900

(* set_panel_size keeps the top left corner.                               *)
Resized(r, w, h) == Rect(r.x, r.y, w, h)

(* apply_panel_frame without a target keeps the top right corner.          *)
ResizedFromRight(r, w, h) == Rect(Right(r) - w, r.y, w, h)

(* apply_panel_frame with a target moves the frame by a shift its caller   *)
(* worked out, and then changes its size about the bottom left corner,     *)
(* which is a native frame's origin.                                       *)
Shifted(r, shift, w, h) == Rect(r.x + shift.x, Bottom(r) + shift.y - h, w, h)

Shift(r, target) == [x |-> target.x - r.x, y |-> target.y - r.y]

(* clamp_panel_height, on no display or on one.                            *)
ClampPanelHeight(h, d) ==
  LET upper == IF d = None THEN MaxHeight
               ELSE Clamp(d.work.h - 2 * Margin, MinHeight, MaxHeight)
  IN Clamp(h, Smaller(MinHeight, upper), upper)

AfterSetHeightKeepingWidth(r, h) == Resized(r, r.w, ClampPanelHeight(h, CurrentDisplay(r)))

(* panel_set_height: the panel's own width, its height clamped by the      *)
(* display the window is on.                                               *)
AfterSetHeight(r, h) == Resized(r, PanelWidth, ClampPanelHeight(h, CurrentDisplay(r)))

(* minimal_panel_frame: the rail hangs 40 points below its display's top,  *)
(* flush with its right edge.                                              *)
MinimalPanelFrame(d, w, h) ==
  LET right == Clamp(Right(d.bounds), d.work.x, Right(d.work))
      width == Smaller(Larger(w, RailWidth), Larger(right - d.work.x, 1))
      y == Clamp(d.bounds.y + 40, d.work.y, Bottom(d.work))
  IN Rect(right - width, y, width, Smaller(Larger(h, 1), Larger(Bottom(d.work) - y, 1)))

(* The display of a rail that only changes its height: the first that      *)
(* spans its right edge.                                                   *)
RailDisplay(r) ==
  LET spanning == {i \in Indices : SpansX(Displays[i], Right(r))}
  IN IF spanning = {} THEN CurrentDisplay(r) ELSE Displays[Min(spanning)]

AnchoredRail(r, h) ==
  LET d == CurrentDisplay(r)
      at == MinimalPanelFrame(d, RailWidth, h)
  IN IF d = None THEN r ELSE Shifted(r, Shift(r, at), at.w, at.h)

GrownRail(r, h) ==
  LET d == RailDisplay(r)
  IN IF d = None THEN r
     ELSE ResizedFromRight(r, Smaller(RailWidth, Larger(Right(r) - d.work.x, 1)),
                              Smaller(Larger(h, 1), Larger(Bottom(d.work) - r.y, 1)))

(* panel_set_minimal_layout.                                               *)
AfterMinimalLayout(r, h, anchor) == IF anchor THEN AnchoredRail(r, h) ELSE GrownRail(r, h)

-------------------------------------------------------------------------------
(* The full panel under the tray icon.                                     *)

MenuBarHeight == Larger(Displays[1].work.y - Displays[1].bounds.y, 0)
PanelTop(d) == Larger(d.work.y, d.bounds.y + MenuBarHeight)

Abs(n) == IF n < 0 THEN -n ELSE n

(* display_for_anchor: of the displays that span the icon, the one whose   *)
(* top it is nearest to.                                                   *)
DisplayForAnchor(anchor) ==
  LET off(i) == Abs(anchor.y - Displays[i].bounds.y)
      spanning == {i \in Indices : SpansX(Displays[i], anchor.x)}
  IN IF spanning = {} THEN None
     ELSE Displays[CHOOSE i \in spanning : \A j \in spanning :
            off(i) < off(j) \/ (off(i) = off(j) /\ i <= j)]

(* target_monitor: the icon's display, else the window's own.              *)
TargetDisplay(r, anchor) ==
  IF anchor # None /\ DisplayForAnchor(anchor) # None THEN DisplayForAnchor(anchor)
  ELSE CurrentDisplay(r)

(* full_panel_target: below the menu bar, left-aligned with the icon or    *)
(* right-aligned without one, clear of the work area's edges.              *)
FullPanelTarget(d, anchor, h) ==
  LET rightmost == Right(d.work) - Margin - PanelWidth
      wanted == IF anchor = None THEN rightmost ELSE anchor.x
      lowest == Bottom(d.work) - Margin - h
  IN [x |-> Larger(Larger(Smaller(wanted, rightmost), d.work.x + Margin), d.work.x),
      y |-> Larger(Smaller(PanelTop(d) + Margin, lowest), d.work.y)]

(* show_full_panel solves the frame now; it is applied when the main       *)
(* thread comes to it.                                                     *)
FullPanelShift(r, anchor, h) ==
  LET d == TargetDisplay(r, anchor)
  IN IF d = None THEN None ELSE Shift(r, FullPanelTarget(d, anchor, h))

AfterFullPanel(r, shift, h) ==
  IF shift = None THEN ResizedFromRight(r, PanelWidth, h) ELSE Shifted(r, shift, PanelWidth, h)

-------------------------------------------------------------------------------
(* The card beside the rail.                                               *)

CardWidth == 339

(* minimal_detail_frame: level with its ring, left of the rail unless the  *)
(* work area ends too soon, and never above or below the work area.  The   *)
(* caret that points at the ring is left out.                              *)
DetailFrame(rail, index, h, grip, work) ==
  LET onRight == rail.x - work.x < CardWidth
      x == IF onRight THEN rail.x + RailWidth ELSE rail.x - CardWidth
      room == IF onRight THEN Right(work) - x ELSE rail.x - work.x
      height == Smaller(Larger(h, 1), work.h)
      itemTop == rail.y + 5 + (IF grip THEN 16 ELSE 0) + index * 68
  IN Rect(x, Clamp(itemTop, work.y, Larger(Bottom(work) - height, work.y)),
          Smaller(CardWidth, Larger(room, 1)), height)
===============================================================================
