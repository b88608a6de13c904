------------------------------ MODULE PanelProofs -----------------------------
(***************************************************************************)
(* What TLAPS proves of the panel: of its window and header, module        *)
(* PanelVisibility, for every number of shows and hides, and of the page   *)
(* in it, module PanelFeed, for every number of clicks, streams and        *)
(* attempts.                                                               *)
(*                                                                         *)
(* Host and webview agree about the header when nothing is on its way;     *)
(* what every step keeps is that the channel ends in the host's opinion,   *)
(* that a channel without a word of the header leaves the webview with the *)
(* host's opinion, and that nothing hides the header before the webview    *)
(* listens.                                                                *)
(*                                                                         *)
(* The answer that a click is judged by travels while attempts are stored, *)
(* streams deliver and the service dies.  What every step keeps is that a  *)
(* click's answer is only on its way once the click has been acknowledged  *)
(* or given up, that it knows of the attempt made for it, and that it      *)
(* knows of nothing that is not stored.                                    *)
(***************************************************************************)
EXTENDS PanelVisibility, PanelFeed, TLAPS


Events == [about : {"panel", "header"}, visible : BOOLEAN]

(* A webview whose header is hd, with ch on its way, ends with isUp.         *)
EndsWith(ch, hd, isUp) ==
  /\ \A i \in 1..Len(ch) :
       /\ ch[i].about = "header"
       /\ \A j \in 1..Len(ch) : j > i => ch[j].about # "header"
       => ch[i].visible = isUp
  /\ (\A i \in 1..Len(ch) : ch[i].about # "header") => hd = isUp

(* The webview will show the header as the host has it.                    *)
HeaderWillAgree == EndsWith(channel, header, headerUp)

(* Before the webview listens it is told nothing, and its header, which    *)
(* starts shown, is not hidden behind its back.                            *)
NothingBeforeListening ==
  ~listening => /\ channel = <<>>
                /\ headerUp = TRUE
                /\ \A h \in headerHides : ~h.due

(* The type invariant, by kind of variable.                                *)
Flags ==
  /\ showing \in BOOLEAN /\ window \in BOOLEAN /\ headerUp \in BOOLEAN
  /\ listening \in BOOLEAN /\ believed \in BOOLEAN /\ header \in BOOLEAN
Generations ==
  /\ generation \in 0..MaxGeneration
  /\ headerGeneration \in 0..(MaxHeaderGeneration + 1)
Delayed ==
  /\ hides \subseteq DelayedHides(MaxGeneration)
  /\ headerHides \subseteq DelayedHides(MaxHeaderGeneration + 1)
Places ==
  /\ pointer \in {"in", "out"} /\ inside \in {"unknown", "in", "out"}
  /\ edge \in {"none", "in", "out"} /\ anim \in {"none", "enter", "leave"}
Types == Flags /\ Generations /\ Delayed /\ Places /\ channel \in Seq(Events)

Inv == Types /\ HeaderWillAgree /\ NothingBeforeListening

-------------------------------------------------------------------------------
(* The channel.                                                            *)

(* The last word about the header decides.                                 *)
LEMMA HeaderEventDecides ==
  ASSUME NEW ch \in Seq(Events), NEW hd \in BOOLEAN, NEW v \in BOOLEAN
  PROVE  /\ ch \o <<Event("header", v)>> \in Seq(Events)
         /\ EndsWith(ch \o <<Event("header", v)>>, hd, v)
  <1> DEFINE e == Event("header", v)
             c == ch \o <<e>>
  <1>1. e \in Events /\ e.about = "header" /\ e.visible = v
    BY DEF Event, Events
  <1> HIDE DEF e
  <1>2. c \in Seq(Events) /\ Len(c) = Len(ch) + 1 /\ c[Len(c)] = e
    BY <1>1
  <1> HIDE DEF c
  <1>3. EndsWith(c, hd, v)
    BY <1>1, <1>2 DEF EndsWith
  <1> QED  BY <1>2, <1>3 DEF c, e

(* A word about the panel changes nothing for the header.                  *)
LEMMA PanelEventIsSilent ==
  ASSUME NEW ch \in Seq(Events), NEW hd \in BOOLEAN, NEW isUp \in BOOLEAN,
         NEW v \in BOOLEAN, EndsWith(ch, hd, isUp)
  PROVE  /\ ch \o <<Event("panel", v)>> \in Seq(Events)
         /\ EndsWith(ch \o <<Event("panel", v)>>, hd, isUp)
  <1> DEFINE e == Event("panel", v)
             c == ch \o <<e>>
  <1>1. e \in Events /\ e.about # "header"
    BY DEF Event, Events
  <1> HIDE DEF e
  <1>2. /\ c \in Seq(Events) /\ Len(c) = Len(ch) + 1 /\ c[Len(c)] = e
        /\ \A i \in 1..Len(ch) : c[i] = ch[i]
    BY <1>1
  <1> HIDE DEF c
  <1>3. Len(ch) \in Nat
    OBVIOUS
  <1>4. EndsWith(c, hd, isUp)
    <2>1. ASSUME NEW i \in 1..Len(c), c[i].about = "header",
                 \A j \in 1..Len(c) : j > i => c[j].about # "header"
          PROVE  c[i].visible = isUp
      <3>1. i \in 1..Len(ch) /\ c[i] = ch[i]
        BY <1>1, <1>2, <1>3, <2>1
      <3>2. \A j \in 1..Len(ch) : j > i => ch[j].about # "header"
        BY <1>2, <1>3, <2>1
      <3> QED  BY <2>1, <3>1, <3>2 DEF EndsWith
    <2>2. ASSUME \A i \in 1..Len(c) : c[i].about # "header"
          PROVE  hd = isUp
      <3>1. \A i \in 1..Len(ch) : ch[i].about # "header"
        BY <1>2, <1>3, <2>2
      <3> QED  BY <3>1 DEF EndsWith
    <2> QED  BY <2>1, <2>2 DEF EndsWith
  <1> QED  BY <1>2, <1>4 DEF c, e

(* Taking the first event, and applying it if it is about the header.      *)
LEMMA DeliveryKeepsTheEnd ==
  ASSUME NEW ch \in Seq(Events), ch # <<>>, NEW hd \in BOOLEAN, NEW isUp \in BOOLEAN,
         EndsWith(ch, hd, isUp)
  PROVE  /\ Tail(ch) \in Seq(Events) /\ Head(ch) \in Events
         /\ Head(ch).about = "panel" => EndsWith(Tail(ch), hd, isUp)
         /\ Head(ch).about = "header" => EndsWith(Tail(ch), Head(ch).visible, isUp)
  <1> DEFINE t == Tail(ch)
  <1>1. /\ t \in Seq(Events) /\ Head(ch) \in Events /\ Head(ch) = ch[1]
        /\ Len(t) \in Nat /\ Len(ch) = Len(t) + 1
        /\ \A i \in 1..Len(t) : t[i] = ch[i + 1]
    OBVIOUS
  <1> HIDE DEF t
  <1>2. ASSUME NEW i \in 1..Len(t), t[i].about = "header",
               \A j \in 1..Len(t) : j > i => t[j].about # "header"
        PROVE  t[i].visible = isUp
    <2>1. i + 1 \in 1..Len(ch) /\ ch[i + 1] = t[i]
      BY <1>1
    <2>2. ASSUME NEW j \in 1..Len(ch), j > i + 1
          PROVE  ch[j].about # "header"
      <3>1. j - 1 \in 1..Len(t) /\ j - 1 > i /\ ch[j] = t[j - 1]
        BY <1>1, <2>2
      <3> QED  BY <1>2, <3>1
    <2> QED  BY <1>2, <2>1, <2>2 DEF EndsWith
  <1>3. ASSUME \A i \in 1..Len(t) : t[i].about # "header"
        PROVE  \A j \in 1..Len(ch) : j > 1 => ch[j].about # "header"
    <2> SUFFICES ASSUME NEW j \in 1..Len(ch), j > 1
                 PROVE  ch[j].about # "header"
      OBVIOUS
    <2>1. j - 1 \in 1..Len(t) /\ ch[j] = t[j - 1]
      BY <1>1
    <2> QED  BY <1>3, <2>1
  <1>4. ASSUME Head(ch).about = "panel"
        PROVE  EndsWith(t, hd, isUp)
    <2>1. ASSUME \A i \in 1..Len(t) : t[i].about # "header"
          PROVE  hd = isUp
      <3>1. \A j \in 1..Len(ch) : ch[j].about # "header"
        <4> SUFFICES ASSUME NEW j \in 1..Len(ch)
                     PROVE  ch[j].about # "header"
          OBVIOUS
        <4>1. CASE j = 1
          BY <1>1, <1>4, <4>1
        <4>2. CASE j > 1
          BY <1>3, <2>1, <4>2
        <4> QED  BY <4>1, <4>2
      <3> QED  BY <3>1 DEF EndsWith
    <2> QED  BY <1>2, <2>1 DEF EndsWith
  <1>5. ASSUME Head(ch).about = "header"
        PROVE  EndsWith(t, Head(ch).visible, isUp)
    <2>1. ASSUME \A i \in 1..Len(t) : t[i].about # "header"
          PROVE  ch[1].visible = isUp
      <3>1. 1 \in 1..Len(ch) /\ ch[1].about = "header"
        BY <1>1, <1>5
      <3> QED  BY <1>3, <2>1, <3>1 DEF EndsWith
    <2> QED  BY <1>1, <1>2, <2>1 DEF EndsWith
  <1> QED  BY <1>1, <1>4, <1>5 DEF t

-------------------------------------------------------------------------------
(* The steps.                                                              *)

(* Emitting the header's new visibility: it is what the webview will show. *)
LEMMA EmitHeader ==
  ASSUME Inv, NEW v \in BOOLEAN, Emit(<<Event("header", v)>>),
         headerUp' = v, UNCHANGED header, listening \/ v
  PROVE  channel' \in Seq(Events) /\ HeaderWillAgree'
  <1>1. channel \in Seq(Events) /\ header \in BOOLEAN
    BY DEF Inv, Types, Flags
  <1>2. CASE listening
    BY <1>1, <1>2, HeaderEventDecides DEF Emit, HeaderWillAgree
  <1>3. CASE ~listening
    BY <1>1, <1>3 DEF Inv, NothingBeforeListening, Emit, HeaderWillAgree
  <1> QED  BY <1>2, <1>3

(* The other steps of the host leave the header's future alone.            *)
LEMMA HeaderUntouched ==
  ASSUME Inv, UNCHANGED <<channel, header, headerUp>>
  PROVE  channel' \in Seq(Events) /\ HeaderWillAgree'
  BY DEF Inv, Types, HeaderWillAgree

(* A hide scheduled within the bound is one of the delayed hides.          *)
LEMMA ScheduledHide ==
  ASSUME NEW max \in Nat, NEW S \in SUBSET DelayedHides(max), NEW g \in 0..max
  PROVE  /\ S \union {[generation |-> g, due |-> FALSE]} \subseteq DelayedHides(max)
         /\ \A h \in S : [h EXCEPT !.due = TRUE] \in DelayedHides(max)
  <1>1. [generation |-> g, due |-> FALSE] \in DelayedHides(max)
    BY DEF DelayedHides
  <1>2. \A h \in S : [h EXCEPT !.due = TRUE] \in DelayedHides(max)
    BY DEF DelayedHides
  <1> QED  BY <1>1, <1>2

(* Two events are emitted in order.                                        *)
LEMMA TwoEvents ==
  ASSUME NEW ch \in Seq(Events), NEW d \in Events, NEW e \in Events
  PROVE  ch \o <<d, e>> = (ch \o <<d>>) \o <<e>>
  <1> DEFINE a == ch \o <<d, e>>
             b == (ch \o <<d>>) \o <<e>>
  <1>1. a \in Seq(Events) /\ Len(a) = Len(ch) + 2
    OBVIOUS
  <1>2. b \in Seq(Events) /\ Len(b) = Len(ch) + 2
    OBVIOUS
  <1>3. ASSUME NEW i \in 1..(Len(ch) + 2) PROVE a[i] = b[i]
    <2>1. CASE i \in 1..Len(ch)
      BY <2>1
    <2>2. CASE i = Len(ch) + 1
      BY <2>2
    <2>3. CASE i = Len(ch) + 2
      BY <2>3
    <2> QED  BY <2>1, <2>2, <2>3
  <1> HIDE DEF a, b
  <1>4. a = b
    BY <1>1, <1>2, <1>3
  <1> QED  BY <1>4 DEF a, b

(* The first states agree: nothing was emitted and the header is shown.    *)
LEMMA InvInit == Init => Inv
  <1> SUFFICES ASSUME Init PROVE Inv
    OBVIOUS
  <1>1. Types
    <2>1. Flags
      BY DEF Init, Flags
    <2>2. Generations
      BY BoundsAssumption DEF Init, Generations
    <2>3. Delayed
      BY DEF Init, Delayed
    <2>4. Places
      BY DEF Init, Places
    <2>5. channel \in Seq(Events)
      BY DEF Init
    <2> QED  BY <2>1, <2>2, <2>3, <2>4, <2>5 DEF Types
  <1>2. HeaderWillAgree
    BY DEF Init, HeaderWillAgree, EndsWith
  <1>3. NothingBeforeListening
    BY DEF Init, NothingBeforeListening
  <1> QED  BY <1>1, <1>2, <1>3 DEF Inv

(* Every step keeps it.                                                    *)
LEMMA InvStep == Inv /\ [Next]_vars => Inv'
  <1> SUFFICES ASSUME Inv, [Next]_vars PROVE Inv'
    OBVIOUS
  <1> USE BoundsAssumption
  <1>t. Flags /\ Generations /\ Delayed /\ Places /\ channel \in Seq(Events)
    BY DEF Inv, Types
  <1>1. CASE BringToFront
    <2>1. channel' \in Seq(Events) /\ HeaderWillAgree'
      BY <1>1, EmitHeader DEF BringToFront
    <2>2. Flags'
      BY <1>1, <1>t DEF BringToFront, pollVars, Flags
    <2>3. Generations'
      BY <1>1, <1>t DEF BringToFront, pollVars, Generations
    <2>4. Delayed'
      BY <1>1, <1>t DEF BringToFront, pollVars, Delayed
    <2>5. Places'
      BY <1>1, <1>t DEF BringToFront, pollVars, Places
    <2>6. NothingBeforeListening'
      BY <1>1 DEF BringToFront, Emit, Inv, NothingBeforeListening
    <2> QED  BY <2>1, <2>2, <2>3, <2>4, <2>5, <2>6 DEF Inv, Types
  <1>2. CASE Reveal
    <2>1. channel' \in Seq(Events) /\ HeaderWillAgree'
      <3>1. header \in BOOLEAN /\ headerUp \in BOOLEAN
        BY <1>t DEF Flags
      <3>2. CASE listening
        <4> DEFINE c == channel \o <<Event("panel", TRUE)>>
        <4>1. c \in Seq(Events)
          BY <1>t, <3>1, PanelEventIsSilent DEF Inv, HeaderWillAgree
        <4>2. Event("panel", TRUE) \in Events /\ Event("header", TRUE) \in Events
          BY DEF Event, Events
        <4>3. channel \o <<Event("panel", TRUE), Event("header", TRUE)>>
                = c \o <<Event("header", TRUE)>>
          BY <1>t, <4>2, TwoEvents
        <4>4. channel' = c \o <<Event("header", TRUE)>> /\ headerUp' = TRUE /\ header' = header
          BY <1>2, <3>2, <4>3 DEF Reveal, Emit
        <4> HIDE DEF c
        <4> QED  BY <3>1, <4>1, <4>4, HeaderEventDecides DEF HeaderWillAgree
      <3>3. CASE ~listening
        BY <1>2, <1>t, <3>3 DEF Reveal, Emit, Inv, NothingBeforeListening, HeaderWillAgree
      <3> QED  BY <3>2, <3>3
    <2>2. Flags'
      BY <1>2, <1>t DEF Reveal, pollVars, Flags
    <2>3. Generations'
      <3>1. headerGeneration + 2 \in 0..(MaxHeaderGeneration + 1)
        BY <1>2, <1>t DEF Reveal, Generations
      <3>2. headerGeneration + 1 \in 0..(MaxHeaderGeneration + 1)
        BY <1>2, <1>t DEF Reveal, Generations
      <3>3. headerGeneration' \in {headerGeneration + 1, headerGeneration + 2}
        BY <1>2 DEF Reveal
      <3>4. generation' \in 0..MaxGeneration
        BY <1>2, <1>t DEF Reveal, Generations
      <3> QED  BY <3>1, <3>2, <3>3, <3>4 DEF Generations
    <2>4. Delayed'
      <3>1. headerGeneration + 2 \in 0..(MaxHeaderGeneration + 1)
        BY <1>2, <1>t DEF Reveal, Generations
      <3>2. CASE pointer = "in"
        BY <1>2, <1>t, <3>2 DEF Reveal, Delayed
      <3>3. CASE pointer = "out"
        <4>1. /\ hides' = hides
              /\ headerHides' = headerHides \union
                                  {[generation |-> headerGeneration + 2, due |-> FALSE]}
          BY <1>2, <3>3 DEF Reveal
        <4> QED  BY <1>t, <3>1, <4>1, ScheduledHide DEF Delayed
      <3> QED  BY <1>t, <3>2, <3>3 DEF Places
    <2>5. Places'
      BY <1>2, <1>t DEF Reveal, pollVars, Places
    <2>6. NothingBeforeListening'
      BY <1>2 DEF Reveal, Emit, Inv, NothingBeforeListening
    <2> QED  BY <2>1, <2>2, <2>3, <2>4, <2>5, <2>6 DEF Inv, Types
  <1>3. CASE Hide
    <2>1. channel' \in Seq(Events) /\ HeaderWillAgree'
      <3>1. header \in BOOLEAN /\ headerUp \in BOOLEAN /\ header' = header /\ headerUp' = headerUp
        BY <1>3, <1>t DEF Hide, Flags
      <3>2. CASE listening
        BY <1>3, <1>t, <3>1, <3>2, PanelEventIsSilent DEF Hide, Emit, Inv, HeaderWillAgree
      <3>3. CASE ~listening
        BY <1>3, <1>t, <3>1, <3>3 DEF Hide, Emit, Inv, HeaderWillAgree
      <3> QED  BY <3>2, <3>3
    <2>2. Flags'
      BY <1>3, <1>t DEF Hide, pollVars, Flags
    <2>3. Generations'
      BY <1>3, <1>t DEF Hide, pollVars, Generations
    <2>4. Delayed'
      <3>1. generation + 1 \in 0..MaxGeneration
        BY <1>3, <1>t DEF Hide, Generations
      <3>2. /\ hides' = hides \union {[generation |-> generation + 1, due |-> FALSE]}
            /\ headerHides' = headerHides
        BY <1>3 DEF Hide
      <3> QED  BY <1>t, <3>1, <3>2, ScheduledHide DEF Delayed
    <2>5. Places'
      BY <1>3, <1>t DEF Hide, pollVars, Places
    <2>6. NothingBeforeListening'
      BY <1>3 DEF Hide, Emit, Inv, NothingBeforeListening
    <2> QED  BY <2>1, <2>2, <2>3, <2>4, <2>5, <2>6 DEF Inv, Types
  <1>4. ASSUME NEW h \in hides, WakeHide(h) \/ HideWindow(h)
        PROVE  Inv'
    <2>1. channel' \in Seq(Events) /\ HeaderWillAgree'
      BY <1>4, HeaderUntouched DEF WakeHide, HideWindow, headerVars, webviewVars
    <2>2. Flags'
      BY <1>4, <1>t DEF WakeHide, HideWindow, headerVars, pollVars, webviewVars, Flags
    <2>3. Generations'
      BY <1>4, <1>t DEF WakeHide, HideWindow, headerVars, pollVars, webviewVars, Generations
    <2>4. Delayed'
      <3>1. [h EXCEPT !.due = TRUE] \in DelayedHides(MaxGeneration)
        BY <1>4, <1>t, ScheduledHide DEF Delayed, DelayedHides
      <3> QED  BY <1>4, <1>t, <3>1 DEF WakeHide, HideWindow, Delayed, headerVars
    <2>5. Places'
      BY <1>4, <1>t DEF WakeHide, HideWindow, headerVars, pollVars, webviewVars, Places
    <2>6. NothingBeforeListening'
      BY <1>4 DEF WakeHide, HideWindow, headerVars, pollVars, webviewVars, Inv, NothingBeforeListening
    <2> QED  BY <2>1, <2>2, <2>3, <2>4, <2>5, <2>6 DEF Inv, Types
  <1>5. ASSUME NEW h \in headerHides, WakeHeader(h)
        PROVE  Inv'
    <2>1. channel' \in Seq(Events) /\ HeaderWillAgree'
      BY <1>5, HeaderUntouched DEF WakeHeader, webviewVars
    <2>2. Flags'
      BY <1>5, <1>t DEF WakeHeader, hostVars, pollVars, webviewVars, Flags
    <2>3. Generations'
      BY <1>5, <1>t DEF WakeHeader, hostVars, pollVars, webviewVars, Generations
    <2>4. Delayed'
      <3>1. [h EXCEPT !.due = TRUE] \in DelayedHides(MaxHeaderGeneration + 1)
        BY <1>5, <1>t DEF Delayed, DelayedHides
      <3> QED  BY <1>5, <1>t, <3>1 DEF WakeHeader, Delayed, hostVars
    <2>5. Places'
      BY <1>5, <1>t DEF WakeHeader, hostVars, pollVars, webviewVars, Places
    <2>6. NothingBeforeListening'
      BY <1>5 DEF WakeHeader, NothingBeforeListening, webviewVars
    <2> QED  BY <2>1, <2>2, <2>3, <2>4, <2>5, <2>6 DEF Inv, Types
  <1>6. ASSUME NEW h \in headerHides, HideHeader(h)
        PROVE  Inv'
    <2>l. listening
      BY <1>6 DEF HideHeader, Inv, NothingBeforeListening
    <2>1. channel' \in Seq(Events) /\ HeaderWillAgree'
      <3>1. CASE h.generation = headerGeneration
        BY <1>6, <2>l, <3>1, EmitHeader DEF HideHeader
      <3>2. CASE h.generation # headerGeneration
        BY <1>6, <3>2, HeaderUntouched DEF HideHeader
      <3> QED  BY <3>1, <3>2
    <2>2. Flags'
      BY <1>6, <1>t DEF HideHeader, hostVars, pollVars, Flags
    <2>3. Generations'
      BY <1>6, <1>t DEF HideHeader, hostVars, pollVars, Generations
    <2>4. Delayed'
      BY <1>6, <1>t DEF HideHeader, hostVars, pollVars, Delayed
    <2>5. Places'
      BY <1>6, <1>t DEF HideHeader, hostVars, pollVars, Places
    <2>6. NothingBeforeListening'
      BY <1>6, <2>l DEF HideHeader, NothingBeforeListening
    <2> QED  BY <2>1, <2>2, <2>3, <2>4, <2>5, <2>6 DEF Inv, Types
  <1>7. CASE MovePointer
    <2>1. channel' \in Seq(Events) /\ HeaderWillAgree'
      BY <1>7, HeaderUntouched DEF MovePointer, headerVars, webviewVars
    <2>2. Flags'
      BY <1>7, <1>t DEF MovePointer, hostVars, headerVars, webviewVars, Flags
    <2>3. Generations'
      BY <1>7, <1>t DEF MovePointer, hostVars, headerVars, webviewVars, Generations
    <2>4. Delayed'
      BY <1>7, <1>t DEF MovePointer, hostVars, headerVars, webviewVars, Delayed
    <2>5. Places'
      BY <1>7, <1>t DEF MovePointer, hostVars, headerVars, webviewVars, Places
    <2>6. NothingBeforeListening'
      BY <1>7 DEF MovePointer, hostVars, headerVars, webviewVars, Inv, NothingBeforeListening
    <2> QED  BY <2>1, <2>2, <2>3, <2>4, <2>5, <2>6 DEF Inv, Types
  <1>8. CASE Sample
    <2>1. channel' \in Seq(Events) /\ HeaderWillAgree'
      BY <1>8, HeaderUntouched DEF Sample, headerVars, webviewVars
    <2>2. Flags'
      BY <1>8, <1>t DEF Sample, hostVars, headerVars, webviewVars, Flags
    <2>3. Generations'
      BY <1>8, <1>t DEF Sample, hostVars, headerVars, webviewVars, Generations
    <2>4. Delayed'
      BY <1>8, <1>t DEF Sample, hostVars, headerVars, webviewVars, Delayed
    <2>5. Places'
      BY <1>8, <1>t DEF Sample, hostVars, headerVars, webviewVars, Places
    <2>6. NothingBeforeListening'
      BY <1>8 DEF Sample, hostVars, headerVars, webviewVars, Inv, NothingBeforeListening
    <2> QED  BY <2>1, <2>2, <2>3, <2>4, <2>5, <2>6 DEF Inv, Types
  <1>9. CASE Entered
    <2>1. channel' \in Seq(Events) /\ HeaderWillAgree'
      BY <1>9, EmitHeader DEF Entered
    <2>2. Flags'
      BY <1>9, <1>t DEF Entered, hostVars, Flags
    <2>3. Generations'
      BY <1>9, <1>t DEF Entered, hostVars, Generations
    <2>4. Delayed'
      BY <1>9, <1>t DEF Entered, hostVars, Delayed
    <2>5. Places'
      BY <1>9, <1>t DEF Entered, hostVars, Places
    <2>6. NothingBeforeListening'
      BY <1>9 DEF Entered, Emit, Inv, NothingBeforeListening
    <2> QED  BY <2>1, <2>2, <2>3, <2>4, <2>5, <2>6 DEF Inv, Types
  <1>10. CASE Left
    <2>1. channel' \in Seq(Events) /\ HeaderWillAgree'
      BY <1>10, HeaderUntouched DEF Left, webviewVars
    <2>2. Flags'
      BY <1>10, <1>t DEF Left, hostVars, webviewVars, Flags
    <2>3. Generations'
      BY <1>10, <1>t DEF Left, hostVars, webviewVars, Generations
    <2>4. Delayed'
      <3>1. headerGeneration + 1 \in 0..(MaxHeaderGeneration + 1)
        BY <1>10, <1>t DEF Left, Generations
      <3>2. /\ hides' = hides
            /\ headerHides' = headerHides \union
                                {[generation |-> headerGeneration + 1, due |-> FALSE]}
        BY <1>10 DEF Left, hostVars
      <3>3. MaxHeaderGeneration + 1 \in Nat
        OBVIOUS
      <3>4. headerHides' \subseteq DelayedHides(MaxHeaderGeneration + 1)
        BY <1>t, <3>1, <3>2, <3>3, ScheduledHide DEF Delayed
      <3> QED  BY <1>t, <3>2, <3>4 DEF Delayed
    <2>5. Places'
      BY <1>10, <1>t DEF Left, hostVars, webviewVars, Places
    <2>6. NothingBeforeListening'
      BY <1>10 DEF Left, hostVars, webviewVars, Inv, NothingBeforeListening
    <2> QED  BY <2>1, <2>2, <2>3, <2>4, <2>5, <2>6 DEF Inv, Types
  <1>11. CASE Subscribe
    <2>1. channel' \in Seq(Events) /\ HeaderWillAgree'
      BY <1>11, HeaderUntouched DEF Subscribe, headerVars
    <2>2. Flags'
      BY <1>11, <1>t DEF Subscribe, hostVars, headerVars, pollVars, Flags
    <2>3. Generations'
      BY <1>11, <1>t DEF Subscribe, hostVars, headerVars, pollVars, Generations
    <2>4. Delayed'
      BY <1>11, <1>t DEF Subscribe, hostVars, headerVars, pollVars, Delayed
    <2>5. Places'
      BY <1>11, <1>t DEF Subscribe, hostVars, headerVars, pollVars, Places
    <2>6. NothingBeforeListening'
      BY <1>11 DEF Subscribe, NothingBeforeListening
    <2> QED  BY <2>1, <2>2, <2>3, <2>4, <2>5, <2>6 DEF Inv, Types
  <1>12. CASE DeliverVisibility
    <2>h. header \in BOOLEAN /\ headerUp \in BOOLEAN /\ header' = header /\ headerUp' = headerUp
      BY <1>12, <1>t DEF DeliverVisibility, Flags, headerVars
    <2>1. channel' \in Seq(Events) /\ HeaderWillAgree'
      BY <1>12, <1>t, <2>h, DeliveryKeepsTheEnd DEF DeliverVisibility, Inv, HeaderWillAgree
    <2>e. Head(channel).visible \in BOOLEAN
      <3>1. Head(channel) \in Events
        BY <1>12, <1>t DEF DeliverVisibility
      <3> QED  BY <3>1 DEF Events
    <2>2. Flags'
      BY <1>12, <1>t, <2>e DEF DeliverVisibility, Flags, hostVars, headerVars
    <2>3. Generations'
      BY <1>12, <1>t DEF DeliverVisibility, hostVars, headerVars, pollVars, Generations
    <2>4. Delayed'
      BY <1>12, <1>t DEF DeliverVisibility, hostVars, headerVars, pollVars, Delayed
    <2>5. Places'
      BY <1>12, <1>t DEF DeliverVisibility, hostVars, headerVars, pollVars, Places
    <2>6. NothingBeforeListening'
      BY <1>12 DEF DeliverVisibility, hostVars, headerVars, pollVars, Inv, NothingBeforeListening
    <2> QED  BY <2>1, <2>2, <2>3, <2>4, <2>5, <2>6 DEF Inv, Types
  <1>13. CASE DeliverHeader
    <2>h. header \in BOOLEAN /\ headerUp \in BOOLEAN /\ headerUp' = headerUp
      BY <1>13, <1>t DEF DeliverHeader, Flags, headerVars
    <2>1. channel' \in Seq(Events) /\ HeaderWillAgree'
      BY <1>13, <1>t, <2>h, DeliveryKeepsTheEnd DEF DeliverHeader, Inv, HeaderWillAgree
    <2>e. Head(channel).visible \in BOOLEAN
      <3>1. Head(channel) \in Events
        BY <1>13, <1>t DEF DeliverHeader
      <3> QED  BY <3>1 DEF Events
    <2>2. Flags'
      BY <1>13, <1>t, <2>e DEF DeliverHeader, Flags, hostVars, headerVars
    <2>3. Generations'
      BY <1>13, <1>t DEF DeliverHeader, hostVars, headerVars, pollVars, Generations
    <2>4. Delayed'
      BY <1>13, <1>t DEF DeliverHeader, hostVars, headerVars, pollVars, Delayed
    <2>5. Places'
      BY <1>13, <1>t DEF DeliverHeader, hostVars, headerVars, pollVars, Places
    <2>6. NothingBeforeListening'
      BY <1>13 DEF DeliverHeader, hostVars, headerVars, pollVars, Inv, NothingBeforeListening
    <2> QED  BY <2>1, <2>2, <2>3, <2>4, <2>5, <2>6 DEF Inv, Types
  <1>14. CASE EnterPainted
    <2>1. channel' \in Seq(Events) /\ HeaderWillAgree'
      BY <1>14, HeaderUntouched DEF EnterPainted, headerVars
    <2>2. Flags'
      BY <1>14, <1>t DEF EnterPainted, hostVars, headerVars, pollVars, Flags
    <2>3. Generations'
      BY <1>14, <1>t DEF EnterPainted, hostVars, headerVars, pollVars, Generations
    <2>4. Delayed'
      BY <1>14, <1>t DEF EnterPainted, hostVars, headerVars, pollVars, Delayed
    <2>5. Places'
      BY <1>14, <1>t DEF EnterPainted, hostVars, headerVars, pollVars, Places
    <2>6. NothingBeforeListening'
      BY <1>14 DEF EnterPainted, hostVars, headerVars, pollVars, Inv, NothingBeforeListening
    <2> QED  BY <2>1, <2>2, <2>3, <2>4, <2>5, <2>6 DEF Inv, Types
  <1>15. CASE UNCHANGED vars
    <2>1. channel' \in Seq(Events) /\ HeaderWillAgree'
      BY <1>15, HeaderUntouched DEF vars, headerVars, webviewVars
    <2>2. Flags'
      BY <1>15, <1>t DEF vars, hostVars, headerVars, pollVars, webviewVars, Flags
    <2>3. Generations'
      BY <1>15, <1>t DEF vars, hostVars, headerVars, pollVars, webviewVars, Generations
    <2>4. Delayed'
      BY <1>15, <1>t DEF vars, hostVars, headerVars, pollVars, webviewVars, Delayed
    <2>5. Places'
      BY <1>15, <1>t DEF vars, hostVars, headerVars, pollVars, webviewVars, Places
    <2>6. NothingBeforeListening'
      BY <1>15 DEF vars, hostVars, headerVars, pollVars, webviewVars, Inv, NothingBeforeListening
    <2> QED  BY <2>1, <2>2, <2>3, <2>4, <2>5, <2>6 DEF Inv, Types
  <1> QED
    BY <1>1, <1>2, <1>3, <1>4, <1>5, <1>6, <1>7, <1>8, <1>9, <1>10, <1>11, <1>12,
       <1>13, <1>14, <1>15
       DEF Next, HideSteps, HeaderSteps, PollSteps, WebviewSteps

(* What every run of the panel keeps: types, and a channel that ends in    *)
(* the host's opinion of the header.                                       *)
THEOREM InductiveInvariant == Spec => []Inv
  BY InvInit, InvStep, PTL DEF Spec

(* Every variable keeps its type, however often the panel is shown.        *)
THEOREM TypeCorrect == Spec => []TypeOK
  <1>1. Inv => TypeOK
    BY DEF Inv, Types, Flags, Generations, Delayed, Places, Events, TypeOK
  <1> QED  BY <1>1, InductiveInvariant, PTL

(* Once the webview has heard everything the host said, its header is the  *)
(* host's: restores, stale hides and toggles (lib.rs restore_panel_header, *)
(* schedule_header_hide) can not leave the two apart.                      *)
THEOREM HeadersAgree == Spec => []HeaderAgrees
  <1>1. Inv => HeaderAgrees
    <2> SUFFICES ASSUME Inv, channel = <<>> PROVE header = headerUp
      BY DEF HeaderAgrees
    <2> QED  BY DEF Inv, HeaderWillAgree, EndsWith
  <1> QED  BY <1>1, InductiveInvariant, PTL

-------------------------------------------------------------------------------
(* The verdict on a manual refresh.                                        *)


Stages == {"idle", "posted", "ran", "lost", "acknowledged", "unanswered", "judging",
           "guessing", "done"}
ClickRecords ==
  [at : Stages, tries : {0, 1}, ran : Nat \cup {None},
   told : {None, "failed", "replayed", "session"}]

FeedTypes == click \in [Clicks -> ClickRecords] /\ succeeded \in Seq(BOOLEAN)

(* An attempt that was made for a click is stored.                         *)
AttemptsAreStored == \A c \in Clicks : click[c].ran # None => click[c].ran <= Len(succeeded)

(* An answer to a click knows of its attempt, and of what is stored.       *)
AnswersKnowTheAttempt ==
  \A c \in Clicks, v \in Snapshots : Answer(c, v) \in answers =>
    /\ click[c].at \in {"judging", "guessing", "done"}
    /\ v <= Len(succeeded)
    /\ click[c].ran # None => v >= click[c].ran

FeedInv == FeedTypes /\ AttemptsAreStored /\ AnswersKnowTheAttempt

-------------------------------------------------------------------------------
(* Steps, by what they do to the clicks, the store and the answers.        *)

(* Nothing a click can be answered with is new, and nothing is unstored.   *)
NoNewAnswers ==
  \A c \in Clicks, v \in Snapshots : Answer(c, v) \in answers' => Answer(c, v) \in answers

(* What the page and the host read is no answer to a click.                *)
LEMMA OtherReaders ==
  ASSUME NEW v, NEW reader \in {"load", "page"}, Asked(reader, v)
  PROVE  NoNewAnswers
  BY ReadersAssumption DEF Asked, Answer, NoNewAnswers

(* An attempt is stored behind the others, of which nothing changes.       *)
LEMMA StoredBehind ==
  ASSUME FeedTypes, NEW ok \in BOOLEAN, Store(ok)
  PROVE  succeeded' \in Seq(BOOLEAN) /\ Len(succeeded') = Len(succeeded) + 1
  BY DEF FeedTypes, Store

(* The steps that touch no click.                                          *)
LEMMA ClicksUntouched ==
  ASSUME FeedInv, UNCHANGED click, NoNewAnswers,
         UNCHANGED succeeded \/ \E ok \in BOOLEAN : Store(ok)
  PROVE  FeedInv'
  <1>1. succeeded' \in Seq(BOOLEAN) /\ Len(succeeded) <= Len(succeeded')
        /\ Len(succeeded) \in Nat /\ Len(succeeded') \in Nat
    <2>0. succeeded \in Seq(BOOLEAN)
      BY DEF FeedInv, FeedTypes
    <2>1. CASE UNCHANGED succeeded
      BY <2>0, <2>1
    <2>2. ASSUME NEW ok \in BOOLEAN, Store(ok)
          PROVE  succeeded' \in Seq(BOOLEAN) /\ Len(succeeded) <= Len(succeeded')
                 /\ Len(succeeded) \in Nat /\ Len(succeeded') \in Nat
      BY <2>0, <2>2, StoredBehind DEF FeedInv
    <2> QED  BY <2>1, <2>2
  <1>2. FeedTypes' /\ \A c \in Clicks : click[c].ran \in Nat \cup {None}
    BY <1>1 DEF FeedInv, FeedTypes, ClickRecords
  <1>3. AttemptsAreStored'
    BY <1>1, <1>2 DEF FeedInv, AttemptsAreStored
  <1>4. AnswersKnowTheAttempt'
    BY <1>1 DEF FeedInv, AnswersKnowTheAttempt, NoNewAnswers, Snapshots
  <1> QED  BY <1>2, <1>3, <1>4 DEF FeedInv

(* One click's record changes, and the store is as it was.                 *)
LEMMA ClickMoves ==
  ASSUME FeedInv, NEW c \in Clicks, NEW r \in ClickRecords, click' = [click EXCEPT ![c] = r],
         UNCHANGED succeeded,
         r.ran # None => r.ran <= Len(succeeded),
         \A d \in Clicks \ {c}, v \in Snapshots : Answer(d, v) \in answers' => Answer(d, v) \in answers,
         \A v \in Snapshots : Answer(c, v) \in answers' =>
           /\ r.at \in {"judging", "guessing", "done"}
           /\ v <= Len(succeeded)
           /\ r.ran # None => v >= r.ran
  PROVE  FeedInv'
  <1>1. /\ click' \in [Clicks -> ClickRecords] /\ click'[c] = r
        /\ \A d \in Clicks \ {c} : click'[d] = click[d]
    BY DEF FeedInv, FeedTypes
  <1>2. FeedTypes'
    BY <1>1 DEF FeedInv, FeedTypes
  <1>3. AttemptsAreStored'
    BY <1>1 DEF FeedInv, AttemptsAreStored
  <1>4. AnswersKnowTheAttempt'
    BY <1>1 DEF FeedInv, AnswersKnowTheAttempt
  <1> QED  BY <1>2, <1>3, <1>4 DEF FeedInv

(* A click that only goes to another stage, before it has an answer.       *)
LEMMA ClickGoesOn ==
  ASSUME FeedInv, NEW c \in Clicks, NEW at \in Stages, NEW tries \in {0, 1},
         click[c].at \notin {"judging", "guessing", "done"},
         click' = [click EXCEPT ![c] = [click[c] EXCEPT !.at = at, !.tries = tries]],
         UNCHANGED succeeded, NoNewAnswers
  PROVE  FeedInv'
  <1> DEFINE r == [click[c] EXCEPT !.at = at, !.tries = tries]
  <1>1. click[c] \in ClickRecords
    BY DEF FeedInv, FeedTypes
  <1>2. r \in ClickRecords /\ r.at = at /\ r.ran = click[c].ran
    BY <1>1 DEF ClickRecords
  <1> HIDE DEF r
  <1>3. r.ran # None => r.ran <= Len(succeeded)
    BY <1>2 DEF FeedInv, AttemptsAreStored
  <1>4. \A v \in Snapshots : Answer(c, v) \notin answers'
    BY DEF FeedInv, AnswersKnowTheAttempt, NoNewAnswers
  <1>5. \A d \in Clicks \ {c}, v \in Snapshots : Answer(d, v) \in answers' => Answer(d, v) \in answers
    BY DEF NoNewAnswers
  <1>6. click' = [click EXCEPT ![c] = r]
    BY DEF r
  <1> QED  BY <1>2, <1>3, <1>4, <1>5, <1>6, ClickMoves

(* A click that is done has no attempt to be judged by any more.           *)
LEMMA ClickIsDone ==
  ASSUME FeedInv, NEW c \in Clicks, NEW told \in {None, "failed", "replayed", "session"},
         click' = [click EXCEPT ![c] = Done(told)],
         UNCHANGED succeeded, NoNewAnswers
  PROVE  FeedInv'
  <1> DEFINE r == Done(told)
  <1>1. r \in ClickRecords /\ r.at = "done" /\ r.ran = None
    BY DEF Done, NoClick, ClickRecords, Stages
  <1> HIDE DEF r
  <1>2. \A v \in Snapshots : Answer(c, v) \in answers' => v <= Len(succeeded)
    BY DEF FeedInv, AnswersKnowTheAttempt, NoNewAnswers
  <1>3. \A d \in Clicks \ {c}, v \in Snapshots : Answer(d, v) \in answers' => Answer(d, v) \in answers
    BY DEF NoNewAnswers
  <1>4. click' = [click EXCEPT ![c] = r]
    BY DEF r
  <1> QED  BY <1>1, <1>2, <1>3, <1>4, ClickMoves

-------------------------------------------------------------------------------
(* Every kind of step keeps the invariant.                                 *)

(* The page as it mounts has been asked for nothing.                       *)
LEMMA FeedInvInit == FeedInit => FeedInv
  <1> SUFFICES ASSUME FeedInit PROVE FeedInv
    OBVIOUS
  <1>1. NoClick \in ClickRecords /\ NoClick.ran = None
    BY DEF NoClick, ClickRecords, Stages
  <1>2. FeedTypes /\ AttemptsAreStored
    BY <1>1 DEF FeedInit, FeedTypes, AttemptsAreStored
  <1>3. AnswersKnowTheAttempt
    BY ReadersAssumption DEF FeedInit, AnswersKnowTheAttempt, Answer
  <1> QED  BY <1>2, <1>3 DEF FeedInv

(* The service's steps; when it dies, the refreshes it runs are lost.      *)
LEMMA ServiceStep == ASSUME FeedInv, Service PROVE FeedInv'
  <1> USE DEF NoNewAnswers
  <1>1. CASE Attempt
    BY <1>1, ClicksUntouched DEF Attempt
  <1>2. CASE Publish
    BY <1>2, ClicksUntouched DEF Publish, serviceVars
  <1>3. CASE Start
    BY <1>3, ClicksUntouched DEF Start
  <1>4. CASE Die
    <2>1. /\ UNCHANGED <<succeeded, answers>>
          /\ click' = [c \in Clicks |->
               IF click[c].at = "ran" THEN [click[c] EXCEPT !.at = "lost"] ELSE click[c]]
      BY <1>4 DEF Die
    <2>2. ASSUME NEW c \in Clicks
          PROVE  /\ click'[c] \in ClickRecords
                 /\ click'[c].ran = click[c].ran
                 /\ click'[c] = click[c] \/ click[c].at = "ran"
      <3>1. click[c] \in ClickRecords
        BY DEF FeedInv, FeedTypes
      <3> QED  BY <2>1, <3>1 DEF ClickRecords, Stages
    <2>3. FeedTypes' /\ AttemptsAreStored'
      BY <2>1, <2>2 DEF FeedInv, FeedTypes, AttemptsAreStored
    <2>4. AnswersKnowTheAttempt'
      BY <2>1, <2>2 DEF FeedInv, AnswersKnowTheAttempt
    <2> QED  BY <2>3, <2>4 DEF FeedInv
  <1> QED  BY <1>1, <1>2, <1>3, <1>4 DEF Service

(* What the page and the host read leaves the clicks as they are.          *)
LEMMA PageStep == ASSUME FeedInv, Page \/ HostReads PROVE FeedInv'
  <1> SUFFICES UNCHANGED <<click, succeeded>> /\ NoNewAnswers
    BY ClicksUntouched
  <1> USE DEF serviceVars
  <1>1. CASE HostReads
    BY <1>1, OtherReaders DEF HostReads
  <1>2. CASE Load
    BY <1>2, OtherReaders DEF Load
  <1>3. CASE Poll
    BY <1>3, OtherReaders DEF Poll
  <1>4. CASE ToastLeaves
    BY <1>4 DEF ToastLeaves, NoNewAnswers
  <1>5. ASSUME NEW v, LoadArrives(v) \/ SnapshotArrives(v)
        PROVE  UNCHANGED <<click, succeeded>> /\ NoNewAnswers
    BY <1>5 DEF LoadArrives, SnapshotArrives, AnswerTaken, NoNewAnswers
  <1>6. ASSUME NEW s \in Streams, Open(s) \/ Deliver(s) \/ StreamFails(s)
        PROVE  UNCHANGED <<click, succeeded>> /\ NoNewAnswers
    BY <1>6 DEF Open, Deliver, StreamFails, NoNewAnswers
  <1>7. ASSUME NEW s \in Streams, Recover(s)
        PROVE  UNCHANGED <<click, succeeded>> /\ NoNewAnswers
    <2>1. UNCHANGED <<click, succeeded>> /\ (Asked("page", stored) \/ UNCHANGED answers)
      BY <1>7 DEF Recover
    <2> QED  BY <2>1, OtherReaders DEF NoNewAnswers
  <1> QED  BY <1>1, <1>2, <1>3, <1>4, <1>5, <1>6, <1>7 DEF Page

(* The service runs a refresh: its attempt is the newest of the store.     *)
LEMMA RunStep == ASSUME FeedInv, NEW c \in Clicks, Run(c) PROVE FeedInv'
  <1>1. click[c].at = "posted" /\ UNCHANGED answers
    BY DEF Run
  <1>2. CASE UNCHANGED succeeded /\ click' = [click EXCEPT ![c].at = "ran"]
    <2>1. click[c] \in ClickRecords
      BY DEF FeedInv, FeedTypes
    <2>2. click' = [click EXCEPT ![c] = [click[c] EXCEPT !.at = "ran", !.tries = click[c].tries]]
      BY <1>2, <2>1 DEF ClickRecords
    <2>3. click[c].tries \in {0, 1} /\ "ran" \in Stages
      BY <2>1 DEF ClickRecords, Stages
    <2> QED  BY <1>1, <1>2, <2>2, <2>3, ClickGoesOn DEF NoNewAnswers
  <1>3. ASSUME NEW ok \in BOOLEAN, Store(ok),
               click' = [click EXCEPT ![c].at = "ran", ![c].ran = stored + 1]
        PROVE  FeedInv'
    <2>1. /\ succeeded' \in Seq(BOOLEAN) /\ Len(succeeded') = Len(succeeded) + 1
          /\ Len(succeeded) \in Nat
      BY <1>3, StoredBehind DEF FeedInv, FeedTypes
    <2>2. /\ click'[c] \in ClickRecords /\ click'[c].ran = Len(succeeded')
          /\ click' \in [Clicks -> ClickRecords]
          /\ \A d \in Clicks \ {c} : click'[d] = click[d]
      <3> DEFINE r == [click[c] EXCEPT !.at = "ran", !.ran = Len(succeeded')]
      <3>1. click \in [Clicks -> ClickRecords] /\ click' = [click EXCEPT ![c] = r]
        BY <1>3, <2>1 DEF FeedInv, FeedTypes, stored
      <3>2. r \in ClickRecords /\ r.ran = Len(succeeded')
        <4>1. click[c] \in ClickRecords /\ Len(succeeded') \in Nat
          BY <2>1, <3>1
        <4>2. \A q \in ClickRecords, n \in Nat :
                LET m == [q EXCEPT !.at = "ran", !.ran = n] IN m \in ClickRecords /\ m.ran = n
          BY DEF ClickRecords, Stages
        <4> QED  BY <4>1, <4>2
      <3> HIDE DEF r
      <3> QED  BY <3>1, <3>2
    <2>3. FeedTypes'
      BY <2>1, <2>2 DEF FeedTypes
    <2>4. AttemptsAreStored'
      <3> SUFFICES ASSUME NEW d \in Clicks, click'[d].ran # None
                   PROVE  click'[d].ran <= Len(succeeded')
        BY DEF AttemptsAreStored
      <3>1. click'[d].ran \in Nat
        BY <2>2 DEF ClickRecords
      <3> QED  BY <2>1, <2>2, <3>1 DEF FeedInv, AttemptsAreStored
    <2>5. AnswersKnowTheAttempt'
      <3> SUFFICES ASSUME NEW d \in Clicks, NEW v \in Snapshots, Answer(d, v) \in answers
                   PROVE  /\ click'[d].at \in {"judging", "guessing", "done"}
                          /\ v <= Len(succeeded')
                          /\ click'[d].ran # None => v >= click'[d].ran
        BY <1>1 DEF AnswersKnowTheAttempt
      <3>1. d # c
        BY <1>1 DEF FeedInv, AnswersKnowTheAttempt
      <3>2. v \in Int
        BY FeedAssumption DEF Snapshots
      <3> QED  BY <2>1, <2>2, <3>1, <3>2 DEF FeedInv, AnswersKnowTheAttempt
    <2> QED  BY <2>3, <2>4, <2>5 DEF FeedInv
  <1> QED  BY <1>2, <1>3 DEF Run

(* The page asks for its verdict: the store it is told of holds the        *)
(* attempt that was made.                                                  *)
LEMMA ReadVerdictStep == ASSUME FeedInv, NEW c \in Clicks, ReadVerdict(c) PROVE FeedInv'
  <1> DEFINE at == IF click[c].at = "acknowledged" THEN "judging" ELSE "guessing"
             r == [click[c] EXCEPT !.at = at]
             w == IF up THEN stored ELSE Failed
  <1>1. click[c] \in ClickRecords
    BY DEF FeedInv, FeedTypes
  <1>2. /\ r \in ClickRecords /\ r.at = at /\ r.ran = click[c].ran
        /\ at \in {"judging", "guessing"}
    BY <1>1 DEF ClickRecords, Stages
  <1>3. /\ click[c].at \in {"acknowledged", "unanswered"}
        /\ click' = [click EXCEPT ![c] = r] /\ UNCHANGED succeeded
        /\ answers' = answers \union {Answer(c, w)}
    BY <1>1 DEF ReadVerdict, Asked, FeedInv, FeedTypes
  <1>4. \A v \in Snapshots : Answer(c, v) \in answers' => v = Len(succeeded)
    <2> SUFFICES ASSUME NEW v \in Snapshots, Answer(c, v) \in answers'
                 PROVE  v = Len(succeeded)
      OBVIOUS
    <2>1. Answer(c, v) \notin answers
      BY <1>3 DEF FeedInv, AnswersKnowTheAttempt
    <2>2. v = w
      BY <1>3, <2>1 DEF Answer
    <2>3. v # Failed
      BY FeedAssumption, ReadersAssumption DEF Snapshots
    <2> QED  BY <2>2, <2>3 DEF stored
  <1>5. \A d \in Clicks \ {c}, v \in Snapshots : Answer(d, v) \in answers' => Answer(d, v) \in answers
    BY <1>3 DEF Answer
  <1>6. r.ran # None => r.ran <= Len(succeeded) /\ Len(succeeded) \in Nat /\ r.ran \in Nat
    BY <1>1, <1>2 DEF FeedInv, FeedTypes, AttemptsAreStored, ClickRecords
  <1>7. Len(succeeded) \in Nat
    BY DEF FeedInv, FeedTypes
  <1> HIDE DEF r, at, w
  <1>8. \A v \in Snapshots : Answer(c, v) \in answers' =>
          /\ r.at \in {"judging", "guessing", "done"}
          /\ v <= Len(succeeded)
          /\ r.ran # None => v >= r.ran
    BY <1>2, <1>4, <1>6, <1>7
  <1> QED  BY <1>2, <1>3, <1>5, <1>6, <1>8, ClickMoves

(* A refresh goes on, fails or is judged.                                  *)
LEMMA RefreshStep == ASSUME FeedInv, Refresh PROVE FeedInv'
  <1> SUFFICES ASSUME NEW c \in Clicks,
                      \/ Click(c) \/ Run(c) \/ Acknowledge(c) \/ PostFails(c)
                      \/ PostRefused(c) \/ ReadVerdict(c)
                      \/ \E v \in Snapshots \union {Failed} : VerdictArrives(c, v)
               PROVE  FeedInv'
    BY DEF Refresh
  <1> DEFINE GoesOn(at, tries) ==
               click' = [click EXCEPT ![c] = [click[c] EXCEPT !.at = at, !.tries = tries]]
  <1>0. /\ click \in [Clicks -> ClickRecords] /\ click[c] \in ClickRecords
        /\ click[c].tries \in {0, 1}
    BY DEF FeedInv, FeedTypes, ClickRecords
  <1>a. ASSUME NEW at \in Stages, click' = [click EXCEPT ![c].at = at]
        PROVE  GoesOn(at, click[c].tries)
    BY <1>0, <1>a DEF ClickRecords
  <1>b. ASSUME NEW verdict \in {"failed", "replayed"} PROVE Said(verdict) \in {None, "failed", "replayed", "session"}
    BY DEF Said
  <1>1. CASE Click(c)
    <2>1. PICK at \in {"posted", "lost"} : click' = [click EXCEPT ![c].at = at]
      BY <1>1 DEF Click
    <2>2. click[c].at = "idle" /\ UNCHANGED <<succeeded, answers>>
      BY <1>1 DEF Click
    <2>3. at \in Stages
      BY DEF Stages
    <2>4. GoesOn(at, click[c].tries)
      BY <2>1, <2>3, <1>a
    <2> QED  BY <1>0, <2>2, <2>3, <2>4, ClickGoesOn DEF NoNewAnswers
  <1>2. CASE Run(c)
    BY <1>2, RunStep
  <1>3. CASE Acknowledge(c)
    <2>1. click[c].at = "ran" /\ click' = [click EXCEPT ![c].at = "acknowledged"]
          /\ UNCHANGED <<succeeded, answers>>
      BY <1>3 DEF Acknowledge
    <2>2. "acknowledged" \in Stages
      BY DEF Stages
    <2>3. GoesOn("acknowledged", click[c].tries)
      BY <2>1, <2>2, <1>a
    <2> QED  BY <1>0, <2>1, <2>2, <2>3, ClickGoesOn DEF NoNewAnswers
  <1>4. CASE PostFails(c)
    <2>1. click[c].at \in {"lost", "posted"} /\ UNCHANGED <<succeeded, answers>>
      BY <1>4 DEF PostFails
    <2>2. CASE ~inApp
      <3>1. click' = [click EXCEPT ![c].at = "unanswered"]
        BY <1>0, <1>4, <2>2 DEF PostFails
      <3>2. "unanswered" \in Stages
        BY DEF Stages
      <3>3. GoesOn("unanswered", click[c].tries)
        BY <3>1, <3>2, <1>a
      <3> QED  BY <1>0, <2>1, <3>2, <3>3, ClickGoesOn DEF NoNewAnswers
    <2>3. CASE inApp /\ click[c].tries = 0
      <3>1. GoesOn("posted", 1)
        BY <1>0, <1>4, <2>3 DEF PostFails
      <3>2. "posted" \in Stages /\ 1 \in {0, 1}
        BY DEF Stages
      <3> QED  BY <1>0, <2>1, <3>1, <3>2, ClickGoesOn DEF NoNewAnswers
    <2>4. CASE inApp /\ click[c].tries # 0
      <3>1. click' = [click EXCEPT ![c] = Done(Said("failed"))]
        BY <1>0, <1>4, <2>4 DEF PostFails
      <3> QED  BY <2>1, <3>1, <1>b, ClickIsDone DEF NoNewAnswers
    <2> QED  BY <2>2, <2>3, <2>4
  <1>5. CASE PostRefused(c)
    <2>1. click' = [click EXCEPT ![c] = Done("session")] /\ UNCHANGED <<succeeded, answers>>
      BY <1>5 DEF PostRefused
    <2> QED  BY <2>1, ClickIsDone DEF NoNewAnswers
  <1>6. CASE ReadVerdict(c)
    BY <1>6, ReadVerdictStep
  <1>7. ASSUME NEW v \in Snapshots \union {Failed}, VerdictArrives(c, v) PROVE FeedInv'
    <2>1. PICK verdict \in {"failed", "replayed"} : click' = [click EXCEPT ![c] = Done(Said(verdict))]
      BY <1>7 DEF VerdictArrives
    <2>2. UNCHANGED succeeded /\ NoNewAnswers
      BY <1>7 DEF VerdictArrives, AnswerTaken, NoNewAnswers, serviceVars
    <2> QED  BY <2>1, <2>2, <1>b, ClickIsDone
  <1> QED  BY <1>1, <1>2, <1>3, <1>4, <1>5, <1>6, <1>7

(* Every step keeps the invariant.                                         *)
LEMMA FeedInvStep == FeedInv /\ [FeedNext]_feedVars => FeedInv'
  <1> SUFFICES ASSUME FeedInv, [FeedNext]_feedVars PROVE FeedInv'
    OBVIOUS
  <1>1. CASE UNCHANGED feedVars
    BY <1>1, ClicksUntouched DEF feedVars, serviceVars, NoNewAnswers
  <1> QED  BY <1>1, ServiceStep, PageStep, RefreshStep DEF FeedNext

(* What every run of the page, its clicks and the service keeps.           *)
THEOREM FeedInvariant == FeedSpec => []FeedInv
  BY FeedInvInit, FeedInvStep, PTL DEF FeedSpec

(* An acknowledged click is only ever done by the answer to its read.      *)
LEMMA JudgedByItsAnswer ==
  ASSUME FeedInv, FeedNext, NEW c \in Clicks, click[c].at = "judging", click'[c].at = "done"
  PROVE  \E v \in Snapshots \union {Failed} : VerdictArrives(c, v)
  <1>0. click \in [Clicks -> ClickRecords]
    BY DEF FeedInv, FeedTypes
  <1>1. ~Service
    BY <1>0 DEF Service, Attempt, Publish, Start, Die, ClickRecords
  <1>2. ~(Page \/ HostReads)
    BY DEF Page, HostReads, Load, Poll, ToastLeaves, LoadArrives, SnapshotArrives, Open, Deliver,
           StreamFails, Recover
  <1>3. PICK d \in Clicks :
          \/ Click(d) \/ Run(d) \/ Acknowledge(d) \/ PostFails(d) \/ PostRefused(d) \/ ReadVerdict(d)
          \/ \E v \in Snapshots \union {Failed} : VerdictArrives(d, v)
    BY <1>1, <1>2 DEF FeedNext, Refresh
  <1>4. PICK r : click' = [click EXCEPT ![d] = r]
    <2>1. ASSUME NEW at, click' = [click EXCEPT ![d].at = at] PROVE \E r : click' = [click EXCEPT ![d] = r]
      BY <2>1
    <2>2. CASE Click(d) \/ Acknowledge(d) \/ ReadVerdict(d)
      BY <2>1, <2>2 DEF Click, Acknowledge, ReadVerdict
    <2>3. CASE Run(d)
      BY <2>1, <2>3 DEF Run
    <2>4. CASE PostFails(d) \/ PostRefused(d)
      BY <2>4 DEF PostFails, PostRefused
    <2>5. CASE \E v \in Snapshots \union {Failed} : VerdictArrives(d, v)
      BY <2>5 DEF VerdictArrives
    <2> QED  BY <1>3, <2>2, <2>3, <2>4, <2>5
  <1>5. d = c
    BY <1>0, <1>4
  <1> QED  BY <1>3, <1>5 DEF Click, Run, Acknowledge, PostFails, PostRefused, ReadVerdict

(* The verdict on an acknowledged refresh is read from a snapshot that     *)
(* knows of the attempt made for it, and calls a success what is stored as *)
(* one, whatever else is read, stored or lost meanwhile.                   *)
THEOREM VerdictsAreOfTheClick == FeedSpec => VerdictIsOfTheClick
  <1>1. FeedInv /\ [FeedNext]_feedVars => [\A c \in Clicks : JudgedRightly(c)]_feedVars
    <2> SUFFICES ASSUME FeedInv, FeedNext, NEW c \in Clicks,
                        click[c].at = "judging", click'[c].at = "done",
                        Answer(c, Failed) \notin answers
                 PROVE  /\ click[c].ran # None => shown' # None /\ shown' >= click[c].ran
                        /\ click'[c].told = "replayed" => succeeded[shown']
      BY DEF JudgedRightly
    <2>1. PICK v \in Snapshots \union {Failed} : VerdictArrives(c, v)
      BY JudgedByItsAnswer
    <2>2. Answer(c, v) \in answers /\ v # Failed /\ v \in Snapshots
      BY <2>1 DEF VerdictArrives, AnswerTaken
    <2>3. shown' = v
      BY <2>1, <2>2 DEF VerdictArrives
    <2>4. v # None
      BY <2>2, ReadersAssumption, FeedAssumption DEF Snapshots
    <2>5. click'[c].told = "replayed" => ~LatestAttemptFailed(v)
      <3>1. click'[c] = Done(Said(IF v = Failed \/ LatestAttemptFailed(v) THEN "failed" ELSE "replayed"))
        BY <2>1 DEF VerdictArrives, FeedInv, FeedTypes
      <3>2. \A verdict : Done(verdict).told = verdict
        BY DEF Done, NoClick
      <3> QED  BY <3>1, <3>2, ReadersAssumption DEF Said
    <2> QED  BY <2>2, <2>3, <2>4, <2>5 DEF FeedInv, AnswersKnowTheAttempt, LatestAttemptFailed
  <1> QED  BY <1>1, FeedInvariant, PTL DEF FeedSpec, VerdictIsOfTheClick
===============================================================================
