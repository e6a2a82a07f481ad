------------------------- MODULE ShowWeatherProofs -------------------------
(* Proofs about ShowWeather, for any of the four painters, any pictures and *)
(* any hours.                                                               *)
EXTENDS ShowWeather, TLAPS

LEMMA NamesAre ==
  /\ Painters \subseteq {"UI", "asr", "key", "shell"}
  /\ UI = "UI" /\ Shell = "shell" /\ Time = "time" /\ None = "none"
  /\ Time \notin Painters /\ None \notin Painters /\ Shell # Time
  /\ Threads = Painters \cup {Time}
BY PaintersAssumption DEF UI, Asr, Key, Shell, Time, None, Threads

\* The shell is below the other painters and the time thread below them all.
LEMMA PrioritiesAre ==
  /\ Priority[Time] = 30 /\ (Shell \in Painters => Priority[Shell] = 20)
  /\ \A p \in Painters :
        Priority[p] \in Nat /\ Priority[p] < 30 /\ (p # Shell => Priority[p] < 20)
BY NamesAre DEF Priority, Asr, Key, UI, Shell, Time

LEMMA StepsAre ==
  /\ HeapSteps \subseteq PainterSteps
  /\ "idle" \in PainterSteps /\ "idle" \in TimeSteps
BY DEF HeapSteps, PainterSteps, TimeSteps

LEMMA PicturesAre ==
  /\ Len(Pictures) \in Nat \ {0} /\ DOMAIN Pictures = 1 .. Len(Pictures)
  /\ \A n \in DOMAIN Pictures : Pictures[n] \in Nat \ {0}
  /\ 1 \in DOMAIN Pictures
BY PicturesAssumption

\* Whoever sets the mode runs: every other painter sleeps or waits for the heap.
LEMMA OthersWait ==
  ASSUME NEW t \in Threads, t \in {Time, Shell}, Running(t), NEW p \in Painters, p # t
  PROVE  pc[p] = "idle" \/ \E i \in DOMAIN waiting : waiting[i] = p
<1>1. /\ p \in Threads /\ Priority[p] < Priority[t]
      /\ Priority[p] \in Nat /\ Priority[t] \in Nat
  BY NamesAre, PrioritiesAre
<1>2. ~Ready(p)
  BY <1>1 DEF Running
<1> QED
  BY <1>2 DEF Ready

\* The colours of a mode, or none, look like that mode or like no one.
LEMMA LookType ==
  ASSUME NEW c \in Colours
  PROVE  Look(c) \in Modes \cup {None}
BY DEF Look, Colours

\* The steps of show_weather that do not return from it.
LEMMA PaintIs ==
  ASSUME TypeOK, NEW p \in Painters, NEW l, NEW next \in PainterSteps, Paint(p, l, next)
  PROVE  /\ pc[p] = l /\ pc' = [pc EXCEPT ![p] = next]
         /\ pc' \in [Threads -> PainterSteps \cup TimeSteps] /\ pc'[Time] \in TimeSteps
         /\ pc'[p] = next
         /\ \A q \in Threads : q # p => pc'[q] = pc[q]
         /\ \A q \in Painters : pc'[q] \in PainterSteps
         /\ ~halted /\ Ready(p)
         /\ clean' = [q \in Painters |-> clean[q] /\ q = p]
         /\ granted' \in Painters \cup {None}
         /\ l \in HeapSteps =>
               granted' = None /\ (granted = p \/ (granted = None /\ waiting = <<>>))
         /\ l \notin HeapSteps => granted' = granted
         /\ UNCHANGED <<display_mode, waiting, hour, junk, read, due, calm, halted>>
BY NamesAre DEF Paint, At, Running, Goto, Allocates, TypeOK, clock

LEMMA InitIInv == Init => IInv
<1> SUFFICES ASSUME Init PROVE IInv
  OBVIOUS
<1> USE NamesAre, StepsAre, PicturesAre DEF Init
<1>0. DOMAIN waiting = {} /\ waiting \in Seq(Painters)
  OBVIOUS
<1>1. TypeOK
  <2>1. NoColours \in Colours
    BY DEF NoColours, Colours
  <2>2. Nothing \in PictureStates
    BY DEF Nothing, PictureStates
  <2>3. display_mode \in Modes /\ bmp \in Nat
    BY DEF Modes
  <2>4. /\ pc \in [Threads -> PainterSteps \cup TimeSteps]
        /\ pc[Time] \in TimeSteps /\ \A p \in Painters : pc[p] \in PainterSteps
    OBVIOUS
  <2>5. /\ screen \in [Elements -> Modes \cup {None}]
        /\ window \in [owner : Painters \cup {None}, on : Elements] /\ spoiled \in BOOLEAN
    BY DEF Elements
  <2>6. ink \in [Painters -> Colours] /\ curr \in Colours /\ lcd \in Colours
    BY <2>1
  <2>7. shown \in [Painters -> PictureStates]
    BY <2>2
  <2>8. forecast \in [Painters -> Modes \cup {None}] /\ granted \in Painters \cup {None}
    OBVIOUS
  <2>9. /\ hour \in 0 .. 23 /\ junk \in Junk \cup {NoDigit} /\ read \in 0 .. 255
        /\ due \in 0 .. Repaints
    BY DEF Repaints
  <2>10. halted \in BOOLEAN /\ calm \in BOOLEAN /\ clean \in [Painters -> BOOLEAN]
    OBVIOUS
  <2> QED
    BY <1>0, <2>3, <2>4, <2>5, <2>6, <2>7, <2>8, <2>9, <2>10 DEF TypeOK
<1>2. HeapInv /\ PictureInv
  BY <1>0 DEF HeapInv, PictureInv, Nothing, Showing
<1>3. ColourInv /\ ColoursAgree
  BY DEF ColourInv, ColoursAgree, NoColours
<1>4. GroundInv
  BY DEF GroundInv, NoColours, Elements, Clearing
<1>5. CleanInv
  BY DEF CleanInv
<1>6. ClockInv /\ ModeFollowsClock
  BY DEF ClockInv, ModeFollowsClock
<1> QED
  BY <1>1, <1>2, <1>3, <1>4, <1>5, <1>6 DEF IInv

\* The picture after the one that was shown, and where its showing leads.
LEMMA FollowingType ==
  ASSUME TypeOK, NEW p \in Painters
  PROVE  /\ Following(p) \in PictureStates
         /\ Following(p).number = (shown[p].number % Len(Pictures)) + 1
         /\ Following(p).row = 0 /\ ~Following(p).torn
         /\ Closed(p) \in PainterSteps
<1>1. shown[p].number \in 1 .. Len(Pictures) /\ Len(Pictures) \in Nat \ {0}
  BY PicturesAre DEF TypeOK, PictureStates
<1>2. (shown[p].number % Len(Pictures)) + 1 \in 1 .. Len(Pictures)
  BY <1>1
<1>3. Closed(p) \in PainterSteps
  BY DEF Closed, PainterSteps
<1> QED
  BY <1>2, <1>3, PicturesAre DEF Following, Nothing, PictureStates

LEMMA StateUpdate ==
  ASSUME NEW s \in PictureStates, NEW n \in Nat, NEW b \in BOOLEAN
  PROVE  /\ [s EXCEPT !.buffer = n] \in PictureStates
         /\ [s EXCEPT !.row = n, !.torn = b] \in PictureStates
         /\ [s EXCEPT !.row = n, !.torn = b] =
               [number |-> s.number, buffer |-> s.buffer, row |-> n, torn |-> b]
<1> USE DEF PictureStates
<1>1. s = [number |-> s.number, buffer |-> s.buffer, row |-> s.row, torn |-> s.torn]
  OBVIOUS
<1>2. [s EXCEPT !.buffer = n] =
         [number |-> s.number, buffer |-> n, row |-> s.row, torn |-> s.torn]
  BY <1>1
<1>3. [s EXCEPT !.row = n, !.torn = b] =
         [number |-> s.number, buffer |-> s.buffer, row |-> n, torn |-> b]
  <2> DEFINE r == [number |-> s.number, buffer |-> s.buffer, row |-> n, torn |-> s.torn]
  <2>1. [s EXCEPT !.row = n] = r
    BY <1>1
  <2>2. [r EXCEPT !.torn = b] =
           [number |-> s.number, buffer |-> s.buffer, row |-> n, torn |-> b]
    OBVIOUS
  <2> HIDE DEF r
  <2> QED
    BY <2>1, <2>2
<1>4. s.number \in DOMAIN Pictures /\ s.buffer \in Nat /\ s.row \in Nat /\ s.torn \in BOOLEAN
  OBVIOUS
<1> QED
  BY <1>2, <1>3, <1>4, Zenon

\* A painter's own step keeps the types of what Paint says.
LEMMA PaintType ==
  ASSUME TypeOK, NEW p \in Painters, NEW l, NEW next \in PainterSteps, Paint(p, l, next),
         curr' \in Colours, lcd' \in Colours, bmp' \in Nat,
         screen' \in [Elements -> Modes \cup {None}],
         window' \in [owner : Painters \cup {None}, on : Elements], spoiled' \in BOOLEAN,
         ink' \in [Painters -> Colours],
         shown' \in [Painters -> PictureStates],
         forecast' \in [Painters -> Modes \cup {None}]
  PROVE  TypeOK'
<1>1. clean' = [q \in Painters |-> clean[q] /\ q = p]
  BY PaintIs
<1>2. clean' \in [Painters -> BOOLEAN]
  BY <1>1, Zenon
<1> QED
  BY <1>2, PaintIs DEF TypeOK

\* Every step keeps every variable in its type.
LEMMA TypeStep ==
  ASSUME IInv, Next
  PROVE  TypeOK'
<1> USE NamesAre DEF look, panel, heap, clock
<1>t. TypeOK
  BY DEF IInv
<1>n. NoColours \in Colours /\ \A m \in Modes : [back |-> m, fore |-> m] \in Colours
  BY DEF NoColours, Colours
<1>2. CASE TimeWakes
  <2>1. hour' \in Hours /\ junk \in 0 .. 9 \cup {NoDigit}
    BY <1>t, <1>2, ClockAssumption DEF TypeOK, TimeWakes
  <2> DEFINE h == hour'
  <2>h. h \in 0 .. 23
    BY <2>1, ClockAssumption
  <2>3. read' = IF junk = NoDigit THEN h ELSE (10 * h + junk) % 256
    BY <1>2 DEF TimeWakes
  <2> HIDE DEF h
  <2>2. read' \in 0 .. 255
    BY <2>1, <2>h, <2>3 DEF NoDigit
  <2>4. hour' \in 0 .. 23
    BY <2>1, ClockAssumption
  <2>5. /\ pc' \in [Threads -> PainterSteps \cup TimeSteps]
        /\ pc'[Time] \in TimeSteps /\ \A p \in Painters : pc'[p] \in PainterSteps
    BY <1>t, <1>2 DEF TimeWakes, TypeOK, Goto, TimeSteps
  <2>6. calm' \in BOOLEAN
    BY <1>2 DEF TimeWakes
  <2>7. UNCHANGED <<look, bmp, heap, ink, shown, forecast, junk, due, halted, clean>>
    BY <1>2 DEF TimeWakes
  <2> QED
    BY <1>t, <2>2, <2>4, <2>5, <2>6, <2>7 DEF TypeOK
<1>3. CASE TestDawn \/ TestDusk
  <2>1. PICK l \in TimeSteps : Goto(Time, l)
    BY <1>3 DEF TestDawn, TestDusk, TimeTest, TimeSteps
  <2>2. UNCHANGED <<look, bmp, heap, ink, shown, forecast, clock, halted, clean>>
    BY <1>3 DEF TestDawn, TestDusk, TimeTest
  <2> QED
    BY <1>t, <2>1, <2>2 DEF TypeOK, Goto
<1>4. CASE SetLight \/ SetDark
  <2>1. PICK l \in TimeSteps, m \in Modes :
           Goto(Time, l) /\ SetMode(m, None) /\ UNCHANGED clock
    BY <1>4 DEF SetLight, SetDark, TimeSet, TimeSteps, Modes
  <2>2. clean' \in [Painters -> BOOLEAN]
    BY <1>t, <2>1 DEF SetMode, TypeOK
  <2> QED
    BY <1>t, <2>1, <2>2 DEF SetMode, TypeOK, Goto
<1>5. CASE TimeSleeps
  <2>1. /\ pc' \in [Threads -> PainterSteps \cup TimeSteps]
        /\ pc'[Time] \in TimeSteps /\ \A p \in Painters : pc'[p] \in PainterSteps
    BY <1>t, <1>5 DEF TimeSleeps, TypeOK, Goto, TimeSteps
  <2>2. hour' \in 0 .. 23 /\ read' \in 0 .. 255 /\ due' \in 0 .. Repaints
    BY <1>5 DEF TimeSleeps, Repaints
  <2>3. calm' \in BOOLEAN
    BY <1>5 DEF TimeSleeps
  <2>4. UNCHANGED <<look, bmp, heap, ink, shown, forecast, junk, halted, clean>>
    BY <1>5 DEF TimeSleeps
  <2> QED
    BY <1>t, <2>1, <2>2, <2>3, <2>4 DEF TypeOK
<1>6. CASE Shell \in Painters /\ ChangeDisplayMode
  <2>1. clean' \in [Painters -> BOOLEAN]
    BY <1>t, <1>6 DEF ChangeDisplayMode, SetMode, TypeOK
  <2> QED
    BY <1>t, <1>6, <2>1 DEF ChangeDisplayMode, SetMode, TypeOK, Goto, PainterSteps, Modes
<1>7. CASE Grant
  <2>1. waiting' \in Seq(Painters) /\ granted' \in Painters
    BY <1>t, <1>7 DEF Grant, TypeOK
  <2> QED
    BY <1>t, <1>7, <2>1 DEF Grant, TypeOK
<1>8. ASSUME NEW p \in Painters, Call(p) PROVE TypeOK'
  <2>1. clean' \in [Painters -> BOOLEAN]
    BY <1>t, <1>8 DEF Call, TypeOK
  <2> QED
    BY <1>t, <1>8, <2>1 DEF Call, TypeOK, Goto, PainterSteps
<1>9. ASSUME NEW p \in Painters, Suspend(p) PROVE TypeOK'
  BY <1>t, <1>9 DEF Suspend, TypeOK
<1>10. ASSUME NEW p \in Painters, Compare(p) PROVE TypeOK'
  BY <1>t, <1>10, PaintType DEF Compare, TypeOK, PainterSteps
<1>11. ASSUME NEW p \in Painters, CacheBack(p) PROVE TypeOK'
  <2>1. curr' \in Colours
    BY <1>t, <1>11 DEF CacheBack, TypeOK, Colours
  <2> QED
    BY <1>t, <1>11, <2>1, PaintType DEF CacheBack, TypeOK, PainterSteps
<1>12. ASSUME NEW p \in Painters, CacheFore(p) PROVE TypeOK'
  <2>1. curr' \in Colours
    BY <1>t, <1>12 DEF CacheFore, TypeOK, Colours
  <2> QED
    BY <1>t, <1>12, <2>1, PaintType DEF CacheFore, TypeOK, PainterSteps
<1>13. ASSUME NEW p \in Painters, SetColor(p) PROVE TypeOK'
  BY <1>t, <1>13, PaintType DEF SetColor, TypeOK, PainterSteps
<1>14. ASSUME NEW p \in Painters, NEW l, NEW n \in PainterSteps, Arguments(p, l, n)
       PROVE  TypeOK'
  BY <1>t, <1>14, PaintType DEF Arguments, TypeOK
<1>o. ASSUME NEW p \in Painters \cup {None}, NEW e \in Elements, Opens(p, e)
      PROVE  window' \in [owner : Painters \cup {None}, on : Elements]
  BY <1>o DEF Opens
<1>e. /\ Ground \in Elements /\ Text \in Elements
      /\ \A p \in Painters : shown[p].number \in Elements
  BY <1>t DEF Elements, TypeOK, PictureStates
<1>a. ASSUME Astray
      PROVE  /\ screen' \in [Elements -> Modes \cup {None}]
             /\ window' \in [owner : Painters \cup {None}, on : Elements]
  BY <1>t, <1>a DEF Astray, TypeOK
<1>w. ASSUME NEW p \in Painters, ClearWindow(p) PROVE TypeOK'
  BY <1>t, <1>o, <1>e, <1>w, PaintType DEF ClearWindow, TypeOK, PainterSteps
<1>15. ASSUME NEW p \in Painters, Fill(p) \/ ClearFree(p) PROVE TypeOK'
  <2>1. PICK l \in {"fill", "free"}, n \in PainterSteps : Paint(p, l, n)
    BY <1>15 DEF Fill, ClearFree, PainterSteps
  <2>2. UNCHANGED <<curr, lcd, screen, window, spoiled, bmp, ink, shown, forecast>>
    BY <1>15 DEF Fill, ClearFree
  <2> QED
    BY <1>t, <2>1, <2>2, PaintType DEF TypeOK
<1>c. ASSUME NEW p \in Painters, ClearBegins(p) \/ ClearEnds(p) PROVE TypeOK'
  <2>1. spoiled' \in BOOLEAN
    <3>1. spoiled' = (spoiled \/ window.owner # p) \/ spoiled' = (window.owner # p)
      BY <1>c DEF ClearBegins, ClearEnds
    <3> QED
      BY <3>1, Zenon
  <2>2. ink' \in [Painters -> Colours]
    BY <1>t, <1>n, <1>c DEF ClearBegins, ClearEnds, TypeOK
  <2>3. /\ \E l : \E n \in PainterSteps : Paint(p, l, n)
        /\ UNCHANGED <<curr, lcd, bmp, shown, forecast>>
    BY <1>c DEF ClearBegins, ClearEnds, ClearHalf, PainterSteps
  <2>4. [e \in Elements |-> IF e = Ground THEN ink[p].back ELSE None]
           \in [Elements -> Modes \cup {None}]
    BY <1>t DEF TypeOK, Colours
  <2>5. /\ screen' \in [Elements -> Modes \cup {None}]
        /\ window' \in [owner : Painters \cup {None}, on : Elements]
    <3>1. CASE Astray
      BY <1>a, <3>1
    <3>2. CASE ~Astray
      <4>1. /\ Opens(p, Ground) \/ Opens(None, Ground)
            /\ \/ screen' = [e \in Elements |-> None]
               \/ screen' = [e \in Elements |-> IF e = Ground THEN ink[p].back ELSE None]
        BY <1>c, <3>2 DEF ClearBegins, ClearEnds, ClearHalf
      <4> QED
        BY <1>o, <1>e, <2>4, <4>1
    <3> QED
      BY <3>1, <3>2
  <2> QED
    BY <1>t, <2>1, <2>2, <2>3, <2>5, PaintType DEF TypeOK
<1>16. ASSUME NEW p \in Painters, Draw(p) PROVE TypeOK'
  <2>1. screen' \in [Elements -> Modes \cup {None}]
    BY <1>t, <1>16, LookType DEF Draw, TypeOK
  <2> QED
    BY <1>t, <1>n, <1>o, <1>e, <1>16, <2>1, PaintType DEF Draw, TypeOK, PainterSteps
<1>17. ASSUME NEW p \in Painters, Draw2(p) PROVE TypeOK'
  <2>1. screen' \in [Elements -> Modes \cup {None}]
    BY <1>t, <1>17 DEF Draw2, TypeOK
  <2> QED
    BY <1>t, <1>n, <1>o, <1>e, <1>17, <2>1, PaintType DEF Draw2, TypeOK, PainterSteps
<1>18. ASSUME NEW p \in Painters, Path(p) PROVE TypeOK'
  <2>1. ink' \in [Painters -> Colours]
    BY <1>t, <1>18 DEF Path, TypeOK, Colours
  <2> QED
    BY <1>t, <1>18, <2>1, PaintType DEF Path, TypeOK, PainterSteps
<1>19. ASSUME NEW p \in Painters, Branch(p) PROVE TypeOK'
  BY <1>t, <1>19, PaintType DEF Branch, TypeOK, PainterSteps
<1>20. ASSUME NEW p \in Painters, Temperatures(p) PROVE TypeOK'
  <2>1. screen' \in [Elements -> Modes \cup {None}]
    BY <1>t, <1>20 DEF Temperatures, TypeOK
  <2> QED
    BY <1>t, <1>o, <1>e, <1>20, <2>1, PaintType DEF Temperatures, TypeOK, PainterSteps
<1>21. ASSUME NEW p \in Painters, Return(p) PROVE TypeOK'
  <2>1. clean' \in [Painters -> BOOLEAN]
    BY <1>t, <1>21 DEF Return, TypeOK
  <2>2. due' \in 0 .. Repaints
    BY <1>t, <1>21 DEF Return, TypeOK, Repaints
  <2> QED
    BY <1>t, <1>21, <2>1, <2>2 DEF Return, TypeOK, Goto, PainterSteps
<1>22. ASSUME NEW p \in Painters, Open(p) PROVE TypeOK'
  <2>1. bmp' \in Nat
    BY <1>t, <1>22, PicturesAre DEF Open, TypeOK, PictureStates
  <2> QED
    BY <1>t, <1>o, <1>e, <1>22, <2>1, PaintType DEF Open, TypeOK, PainterSteps
<1>23. ASSUME NEW p \in Painters, OpenFails(p) PROVE TypeOK'
  <2>1. clean' \in [Painters -> BOOLEAN] /\ ink' \in [Painters -> Colours]
    BY <1>t, <1>n, <1>23 DEF OpenFails, TypeOK
  <2>2. shown' \in [Painters -> PictureStates]
    BY <1>t, <1>23, FollowingType DEF OpenFails, TypeOK
  <2>3. /\ pc' \in [Threads -> PainterSteps \cup TimeSteps]
        /\ pc'[Time] \in TimeSteps /\ \A q \in Painters : pc'[q] \in PainterSteps
    BY <1>t, <1>23, FollowingType DEF OpenFails, Goto, TypeOK
  <2>4. granted' \in Painters \cup {None}
    BY <1>t, <1>23 DEF OpenFails, Allocates, TypeOK
  <2> QED
    BY <1>t, <1>23, <2>1, <2>2, <2>3, <2>4 DEF OpenFails, TypeOK
<1>24. ASSUME NEW p \in Painters, Malloc(p) PROVE TypeOK'
  <2>1. shown' \in [Painters -> PictureStates]
    <3>1. PICK n \in {0, bmp} : shown' = [shown EXCEPT ![p].buffer = n]
      BY <1>24 DEF Malloc
    <3>2. [shown[p] EXCEPT !.buffer = n] \in PictureStates
      BY <1>t, StateUpdate DEF TypeOK
    <3> QED
      BY <1>t, <3>1, <3>2 DEF TypeOK
  <2> QED
    BY <1>t, <1>24, <2>1, PaintType DEF Malloc, TypeOK, PainterSteps
<1>25. ASSUME NEW p \in Painters, Row(p) PROVE TypeOK'
  <2>1. shown' \in [Painters -> PictureStates]
    <3> DEFINE b == shown[p].torn \/ bmp # Pictures[shown[p].number] \/ window.owner # p
               s == [shown[p] EXCEPT !.row = @ + 1, !.torn = b]
    <3>1. shown[p] \in PictureStates /\ shown[p].row + 1 \in Nat /\ b \in BOOLEAN
      BY <1>t DEF TypeOK, PictureStates
    <3>2. s \in PictureStates
      BY <3>1, StateUpdate
    <3>3. shown' = shown \/ shown' = [shown EXCEPT ![p] = s]
      BY <1>t, <1>25 DEF Row, TypeOK
    <3> HIDE DEF s
    <3> QED
      BY <1>t, <3>2, <3>3 DEF TypeOK
  <2>2. clean' \in [Painters -> BOOLEAN] /\ halted' \in BOOLEAN /\ spoiled' \in BOOLEAN
    BY <1>t, <1>25 DEF Row, TypeOK
  <2>3. Look(ink[p]) \in Modes \cup {None}
    BY <1>t, LookType DEF TypeOK
  <2>4. /\ screen' \in [Elements -> Modes \cup {None}]
        /\ window' \in [owner : Painters \cup {None}, on : Elements]
    BY <1>t, <1>a, <1>25, <2>3 DEF Row, TypeOK
  <2> QED
    BY <1>t, <1>25, <2>1, <2>2, <2>4 DEF Row, TypeOK
<1>26. ASSUME NEW p \in Painters, Close(p) PROVE TypeOK'
  <2>1. window' \in [owner : Painters \cup {None}, on : Elements]
    BY <1>t, <1>26 DEF Close, TypeOK
  <2>2. shown' \in [Painters -> PictureStates]
    BY <1>t, <1>26, FollowingType DEF Close, TypeOK
  <2> QED
    BY <1>t, <1>n, <1>26, <2>1, <2>2, FollowingType, PaintType DEF Close, TypeOK
<1>27. "window" \in PainterSteps /\ "draw" \in PainterSteps /\ "draw2" \in PainterSteps
  BY DEF PainterSteps
<1> QED
  BY <1>2, <1>3, <1>4, <1>5, <1>6, <1>7, <1>8, <1>9, <1>10, <1>11, <1>12, <1>13,
     <1>14, <1>w, <1>15, <1>c, <1>16, <1>17, <1>18, <1>19, <1>20, <1>21, <1>22, <1>23, <1>24,
     <1>25, <1>26, <1>27
  DEF Next, Work, TimeWork, ClearCall, TextCall, Text2Call

-----------------------------------------------------------------------------
(* What the steps have in common.                                          *)

\* The time thread leaves the painters alone; the mode is set only by a
\* time thread that runs.
LEMMA TimeLeaves ==
  ASSUME TypeOK, TimeWakes \/ TimeWork
  PROVE  /\ \A p \in Painters : pc'[p] = pc[p]
         /\ UNCHANGED <<curr, lcd, screen, window, spoiled, bmp, waiting, granted, ink, shown,
                        forecast>>
         /\ display_mode' = display_mode \/ Running(Time)
         /\ \A p \in Painters : clean'[p] => clean[p] /\ display_mode' = display_mode
<1> USE NamesAre DEF TypeOK, look, panel, heap, Goto
<1>1. CASE TimeWakes \/ TimeSleeps
  BY <1>1 DEF TimeWakes, TimeSleeps
<1>2. CASE TestDawn \/ TestDusk
  BY <1>2 DEF TestDawn, TestDusk, TimeTest
<1>3. CASE SetLight \/ SetDark
  <2>1. PICK l, m : At(Time, l) /\ SetMode(m, None)
                    /\ \A p \in Painters : pc'[p] = pc[p]
    BY <1>3 DEF SetLight, SetDark, TimeSet
  <2> QED
    BY <2>1 DEF SetMode, At, panel
<1> QED
  BY <1>1, <1>2, <1>3 DEF TimeWork

\* The shell turns the mode over before its repaint, and disturbs all others.
LEMMA ShellTurns ==
  ASSUME TypeOK, Shell \in Painters, ChangeDisplayMode
  PROVE  /\ pc[Shell] = "toggle" /\ pc'[Shell] = "enter" /\ Running(Shell)
         /\ \A p \in Painters : p # Shell => pc'[p] = pc[p]
         /\ UNCHANGED <<curr, lcd, screen, window, spoiled, bmp, waiting, granted, ink, shown,
                        forecast>>
         /\ \A p \in Painters : clean'[p] => clean[p] /\ p = Shell
<1>1. IF display_mode = DARK THEN LIGHT # display_mode ELSE DARK # display_mode
  BY DEF LIGHT, DARK
<1> QED
  BY <1>1, NamesAre DEF ChangeDisplayMode, SetMode, At, Goto, TypeOK, heap, panel

\* A step of painter p from l to next: it has the processor, and the heap if it
\* needs it.
Moves(p, l, next) ==
    /\ pc[p] = l /\ ~\E i \in DOMAIN waiting : waiting[i] = p
    /\ pc' = [pc EXCEPT ![p] = next]
    /\ l \in HeapSteps => /\ granted' = None
                          /\ granted = p \/ (granted = None /\ waiting = <<>>)
    /\ l \notin HeapSteps => granted' = granted
    /\ UNCHANGED <<display_mode, waiting>>

LEMMA PainterMoves ==
  ASSUME NEW p \in Painters, TypeOK
  PROVE  /\ \A l, next : Paint(p, l, next) => Moves(p, l, next)
         /\ OpenFails(p) => Moves(p, "open", Closed(p))
         /\ Return(p) => Moves(p, "done", "idle")
         /\ Row(p) => Moves(p, "row", "row")
<1>1. ASSUME NEW l, NEW next, Paint(p, l, next) PROVE Moves(p, l, next)
  BY <1>1 DEF Paint, At, Running, Ready, Goto, Allocates, Moves
<1>2. ASSUME OpenFails(p) PROVE Moves(p, "open", Closed(p))
  BY <1>2 DEF OpenFails, At, Running, Ready, Goto, Allocates, Moves, look, panel, HeapSteps
<1>3. ASSUME Return(p) PROVE Moves(p, "done", "idle")
  BY <1>3 DEF Return, At, Running, Ready, Goto, Moves, look, panel, heap, HeapSteps
<1>4. ASSUME Row(p) PROVE Moves(p, "row", "row")
  <2>1. pc' = [pc EXCEPT ![p] = "row"]
    BY <1>4, NamesAre DEF Row, At, TypeOK
  <2> QED
    BY <1>4, <2>1 DEF Row, At, Running, Ready, Moves, look, panel, heap, HeapSteps
<1> QED
  BY <1>1, <1>2, <1>3, <1>4

-----------------------------------------------------------------------------
(* The heap.                                                               *)

LEMMA MovesHeap ==
  ASSUME TypeOK, HeapInv, NEW p \in Painters, NEW l, NEW next, Moves(p, l, next)
  PROVE  HeapInv'
<1>1. \A i \in DOMAIN waiting : waiting[i] \in Painters /\ waiting[i] # p
  BY DEF Moves, TypeOK
<1>2. \A q \in Painters : q # p => pc'[q] = pc[q]
  BY NamesAre DEF Moves, TypeOK
<1>3. granted' # None => granted' = granted /\ granted # p /\ granted \in Painters
  BY DEF Moves, HeapInv, TypeOK
<1> QED
  BY <1>1, <1>2, <1>3 DEF HeapInv, Moves

\* What Next makes of waiting and granted when it grants or suspends.
LEMMA GrantIs ==
  ASSUME TypeOK, Grant
  PROVE  /\ DOMAIN waiting' = 1 .. Len(waiting) - 1 /\ DOMAIN waiting = 1 .. Len(waiting)
         /\ Len(waiting) \in Nat \ {0}
         /\ \A i \in DOMAIN waiting' : waiting'[i] = waiting[i + 1] /\ i + 1 \in DOMAIN waiting
         /\ granted = None /\ granted' = waiting[1] /\ 1 \in DOMAIN waiting
         /\ UNCHANGED <<look, bmp, pc, ink, shown, forecast, clock, halted, clean>>
BY DEF Grant, TypeOK

LEMMA SuspendIs ==
  ASSUME TypeOK, NEW p \in Painters, Suspend(p)
  PROVE  /\ DOMAIN waiting' = 1 .. Len(waiting) + 1 /\ DOMAIN waiting = 1 .. Len(waiting)
         /\ Len(waiting) \in Nat
         /\ \A i \in DOMAIN waiting : waiting'[i] = waiting[i]
         /\ waiting'[Len(waiting) + 1] = p /\ pc[p] \in HeapSteps
         /\ UNCHANGED <<look, bmp, pc, granted, ink, shown, forecast, clock, halted, clean>>
BY DEF Suspend, TypeOK

LEMMA HeapStep ==
  ASSUME IInv, Next
  PROVE  HeapInv'
<1>t. TypeOK /\ HeapInv
  BY DEF IInv
<1>w. \A i \in DOMAIN waiting : waiting[i] \in Painters
  BY <1>t DEF TypeOK
<1>g. granted # None => granted \in Painters
  BY <1>t DEF TypeOK
<1>1. CASE TimeWakes \/ TimeWork
  BY <1>t, <1>w, <1>g, <1>1, TimeLeaves DEF HeapInv
<1>2. CASE Shell \in Painters /\ ChangeDisplayMode
  BY <1>t, <1>w, <1>g, <1>2, ShellTurns DEF HeapInv, HeapSteps
<1>3. CASE Grant
  <2>1. HeapInv /\ UNCHANGED pc
    BY <1>t, <1>3, GrantIs
  <2> QED
    BY <1>t, <1>3, <2>1, GrantIs DEF HeapInv
<1>4. ASSUME NEW p \in Painters, Call(p) PROVE HeapInv'
  BY <1>t, <1>w, <1>g, <1>4, NamesAre DEF Call, Goto, HeapInv, HeapSteps, TypeOK, heap
<1>5. ASSUME NEW p \in Painters, Suspend(p) PROVE HeapInv'
  <2>1. \A i \in DOMAIN waiting' : i \in DOMAIN waiting \/ i = Len(waiting) + 1
    BY <1>t, <1>5, SuspendIs
  <2> QED
    BY <1>t, <1>5, <2>1, SuspendIs DEF HeapInv
<1>6. ASSUME NEW p \in Painters, Work(p) PROVE HeapInv'
  <2>1. PICK l, next : Moves(p, l, next)
    BY <1>t, <1>6, PainterMoves
    DEF Work, Compare, CacheBack, CacheFore, SetColor, ClearCall, ClearWindow, Fill,
        ClearBegins, ClearEnds, ClearHalf, ClearFree, TextCall, Draw, Path, Open, Malloc,
        Close, Text2Call, Draw2, Branch, Temperatures, Arguments
  <2> QED
    BY <1>t, <2>1, MovesHeap
<1> QED
  BY <1>1, <1>2, <1>3, <1>4, <1>5, <1>6 DEF Next

-----------------------------------------------------------------------------
(* How far the pictures have come.                                         *)

LEMMA PictureStep ==
  ASSUME IInv, Next
  PROVE  PictureInv'
<1>t. TypeOK /\ PictureInv
  BY DEF IInv
<1> USE DEF PictureInv, Showing
<1>1. CASE TimeWakes \/ TimeWork
  BY <1>t, <1>1, TimeLeaves
<1>2. CASE Shell \in Painters /\ ChangeDisplayMode
  BY <1>t, <1>2, ShellTurns
<1>3. CASE Grant
  BY <1>t, <1>3 DEF Grant
<1>4. ASSUME NEW p \in Painters, Call(p) PROVE PictureInv'
  BY <1>t, <1>4, NamesAre DEF Call, Goto, TypeOK
<1>5. ASSUME NEW p \in Painters, Suspend(p) PROVE PictureInv'
  BY <1>t, <1>5 DEF Suspend
<1>m. ASSUME NEW p \in Painters, NEW l, NEW next, Moves(p, l, next),
             \A q \in Painters : q # p => shown'[q] = shown[q],
             next \in {"text2", "draw2", "branch"} =>
                shown'[p].number = (1 % Len(Pictures)) + 1,
             next \notin Showing \cup {"text2", "draw2", "branch"} => shown'[p].number = 1,
             next # "row" => shown'[p].row = 0 /\ ~shown'[p].torn
      PROVE  PictureInv'
  BY <1>t, <1>m, NamesAre DEF Moves, TypeOK
<1>6. ASSUME NEW p \in Painters, NEW l, NEW next, Paint(p, l, next), UNCHANGED shown,
             l # "row",
             \/ {l, next} \cap (Showing \cup {"text2", "draw2", "branch"}) = {}
             \/ {l, next} \subseteq {"text2", "draw2", "branch"}
             \/ l \in {"path", "open", "draw"} /\ next \in Showing
             \/ l = "branch" /\ next \in Showing
             \/ l = "branch" /\ next = "temps" /\ Len(Pictures) = 1
      PROVE  PictureInv'
  <2>1. Moves(p, l, next) /\ pc[p] = l
    BY <1>t, <1>6, PainterMoves DEF Moves
  <2>2. Len(Pictures) = 1 => (1 % Len(Pictures)) + 1 = 1
    OBVIOUS
  <2> QED
    BY <1>t, <1>6, <1>m, <2>1, <2>2
<1>7. ASSUME NEW p \in Painters,
             \/ Compare(p) \/ CacheBack(p) \/ CacheFore(p) \/ SetColor(p) \/ ClearCall(p)
             \/ ClearWindow(p) \/ Fill(p) \/ ClearBegins(p) \/ ClearEnds(p) \/ ClearFree(p)
             \/ TextCall(p)
      PROVE  PictureInv'
  BY <1>6, <1>7
  DEF Compare, CacheBack, CacheFore, SetColor, ClearCall, ClearWindow, Fill, ClearBegins,
      ClearEnds, ClearHalf, ClearFree, TextCall, Arguments
<1>8. ASSUME NEW p \in Painters,
             \/ Draw(p) \/ Path(p) \/ Open(p) \/ Text2Call(p) \/ Draw2(p) \/ Branch(p)
             \/ Temperatures(p)
      PROVE  PictureInv'
  BY <1>6, <1>8 DEF Draw, Path, Open, Text2Call, Draw2, Branch, Temperatures, Arguments
<1>9. ASSUME NEW p \in Painters, OpenFails(p) \/ Close(p) PROVE PictureInv'
  <2>1. PICK l : Moves(p, l, Closed(p))
    BY <1>t, <1>9, PainterMoves DEF Close
  <2>2. shown'[p] = Following(p) /\ \A q \in Painters : q # p => shown'[q] = shown[q]
    BY <1>t, <1>9 DEF OpenFails, Close, TypeOK
  <2>3. shown[p].number \in 1 .. Len(Pictures) /\ Len(Pictures) \in Nat \ {0}
    BY <1>t, PicturesAre DEF TypeOK, PictureStates
  <2>4. CASE shown[p].number = 1
    BY <1>t, <1>m, <2>1, <2>2, <2>4, FollowingType DEF Closed
  <2>5. CASE shown[p].number # 1 /\ shown[p].number = Len(Pictures)
    <3>1. shown[p].number % Len(Pictures) = 0
      BY <2>3, <2>5
    <3> QED
      BY <1>t, <1>m, <2>1, <2>2, <2>5, <3>1, FollowingType DEF Closed
  <2>6. CASE shown[p].number # 1 /\ shown[p].number # Len(Pictures)
    BY <1>t, <1>m, <2>1, <2>2, <2>6, FollowingType DEF Closed
  <2> QED
    BY <2>4, <2>5, <2>6
<1>10. ASSUME NEW p \in Painters, Malloc(p) PROVE PictureInv'
  <2>1. Moves(p, "malloc", "row")
    BY <1>t, <1>10, PainterMoves DEF Malloc
  <2>2. \A q \in Painters : q # p => shown'[q] = shown[q]
    BY <1>t, <1>10 DEF Malloc, TypeOK
  <2> QED
    BY <1>m, <2>1, <2>2
<1>11. ASSUME NEW p \in Painters, Row(p) PROVE PictureInv'
  <2>1. Moves(p, "row", "row")
    BY <1>t, <1>11, PainterMoves
  <2>2. \A q \in Painters : q # p => shown'[q] = shown[q]
    BY <1>t, <1>11 DEF Row, TypeOK
  <2> QED
    BY <1>m, <2>1, <2>2
<1>12. ASSUME NEW p \in Painters, Return(p) PROVE PictureInv'
  <2>1. Moves(p, "done", "idle") /\ UNCHANGED shown
    BY <1>t, <1>12, PainterMoves DEF Return
  <2>2. pc[p] = "done"
    BY <2>1 DEF Moves
  <2> QED
    BY <1>t, <1>m, <2>1, <2>2
<1> QED
  BY <1>1, <1>2, <1>3, <1>4, <1>5, <1>7, <1>8, <1>9, <1>10, <1>11, <1>12 DEF Next, Work

-----------------------------------------------------------------------------
(* The colours.                                                            *)

LEMMA ColourStep ==
  ASSUME IInv, Next
  PROVE  ColourInv' /\ ColoursAgree'
<1>t. TypeOK /\ HeapInv /\ ColourInv /\ ColoursAgree
  BY DEF IInv
<1> USE DEF ColourInv, ColoursAgree
<1>w. ASSUME NEW t \in {Time, Shell} \cap Threads, Running(t), NEW p \in Painters, p # t
      PROVE  pc[p] = "idle" \/ pc[p] \in HeapSteps
  BY <1>t, <1>w, OthersWait DEF HeapInv
<1>h. HeapSteps \cap {"fore", "set", "clear", "window"} = {}
  BY DEF HeapSteps
<1>1. CASE TimeWakes \/ TimeWork
  <2>1. CASE display_mode' = display_mode
    BY <1>t, <1>1, <2>1, TimeLeaves
  <2>2. CASE Running(Time)
    <3>1. \A p \in Painters : pc[p] \notin {"fore", "set", "clear", "window"}
      BY <1>w, <1>h, <2>2, NamesAre
    <3> QED
      BY <1>t, <1>1, <3>1, TimeLeaves
  <2> QED
    BY <1>t, <1>1, <2>1, <2>2, TimeLeaves
<1>2. CASE Shell \in Painters /\ ChangeDisplayMode
  <2>1. \A p \in Painters : pc[p] \notin {"fore", "set", "clear", "window"}
    BY <1>t, <1>w, <1>h, <1>2, NamesAre, ShellTurns
  <2> QED
    BY <1>t, <1>2, <2>1, ShellTurns
<1>3. CASE Grant
  BY <1>t, <1>3 DEF Grant, look, panel
<1>4. ASSUME NEW p \in Painters, Call(p) PROVE ColourInv' /\ ColoursAgree'
  BY <1>t, <1>4, NamesAre DEF Call, Goto, TypeOK, look, panel
<1>5. ASSUME NEW p \in Painters, Suspend(p) PROVE ColourInv' /\ ColoursAgree'
  BY <1>t, <1>5 DEF Suspend, look, panel
<1>6. ASSUME NEW p \in Painters, NEW l, NEW next, Moves(p, l, next), UNCHANGED <<curr, lcd>>,
             \A q \in Painters : q # p => ink'[q] = ink[q],
             l \notin {"fore", "set"}, next \notin {"fore", "set", "clear", "window"}
      PROVE  ColourInv' /\ ColoursAgree'
  BY <1>t, <1>6, NamesAre DEF Moves, TypeOK
<1>c. ASSUME NEW p \in Painters, ClearCall(p) PROVE ColourInv' /\ ColoursAgree'
  <2>1. Moves(p, "clear", "window") /\ UNCHANGED <<curr, lcd>>
    BY <1>t, <1>c, PainterMoves DEF ClearCall, Arguments
  <2>2. ink'[p] = curr /\ \A q \in Painters : q # p => ink'[q] = ink[q]
    BY <1>t, <1>c DEF ClearCall, Arguments, TypeOK
  <2> QED
    BY <1>t, <2>1, <2>2, NamesAre DEF Moves, TypeOK
<1>7. ASSUME NEW p \in Painters, CacheBack(p) PROVE ColourInv' /\ ColoursAgree'
  <2>1. Moves(p, "back", "fore")
    BY <1>t, <1>7, PainterMoves DEF CacheBack
  <2>2. curr'.back = display_mode /\ curr'.fore = curr.fore /\ UNCHANGED <<lcd, ink>>
    BY <1>t, <1>7 DEF CacheBack, TypeOK, Colours
  <2>3. \A q \in Painters : pc[q] = "clear" => curr' = curr
    BY <1>t, <1>7 DEF CacheBack, TypeOK, Colours
  <2> QED
    BY <1>t, <2>1, <2>2, <2>3, NamesAre DEF Moves, TypeOK
<1>8. ASSUME NEW p \in Painters, CacheFore(p) PROVE ColourInv' /\ ColoursAgree'
  <2>1. Moves(p, "fore", "set")
    BY <1>t, <1>8, PainterMoves DEF CacheFore
  <2>2. curr'.fore = display_mode /\ curr'.back = curr.back /\ UNCHANGED <<lcd, ink>>
    BY <1>t, <1>8 DEF CacheFore, TypeOK, Colours
  <2>3. \A q \in Painters : pc[q] = "clear" => curr' = curr
    BY <1>t, <1>8 DEF CacheFore, TypeOK, Colours
  <2> QED
    BY <1>t, <2>1, <2>2, <2>3, NamesAre DEF Moves, TypeOK
<1>9. ASSUME NEW p \in Painters, SetColor(p) PROVE ColourInv' /\ ColoursAgree'
  <2>1. Moves(p, "set", "clear") /\ lcd' = curr /\ UNCHANGED <<curr, ink>>
    BY <1>t, <1>9, PainterMoves DEF SetColor
  <2> QED
    BY <1>t, <2>1, NamesAre DEF Moves, TypeOK
<1>10. ASSUME NEW p \in Painters,
              \/ Compare(p) \/ ClearWindow(p) \/ Fill(p) \/ ClearBegins(p) \/ ClearEnds(p)
              \/ ClearFree(p) \/ TextCall(p) \/ Draw(p) \/ Path(p) \/ Open(p) \/ Malloc(p)
              \/ Text2Call(p) \/ Draw2(p) \/ Branch(p) \/ Temperatures(p)
       PROVE  ColourInv' /\ ColoursAgree'
  <2>1. UNCHANGED <<curr, lcd>> /\ \A q \in Painters : q # p => ink'[q] = ink[q]
    BY <1>t, <1>10
    DEF Compare, ClearWindow, Fill, ClearBegins, ClearEnds, ClearHalf, ClearFree, TextCall,
        Draw, Path, Open, Malloc, Text2Call, Draw2, Branch, Temperatures, Arguments, TypeOK
  <2>2. \E l, next : /\ Paint(p, l, next) /\ l \notin {"fore", "set"}
                     /\ next \notin {"fore", "set", "clear", "window"}
    BY <1>10
    DEF Compare, ClearWindow, Fill, ClearBegins, ClearEnds, ClearHalf, ClearFree, TextCall,
        Draw, Path, Open, Malloc, Text2Call, Draw2, Branch, Temperatures, Arguments
  <2> QED
    BY <1>t, <1>6, <2>1, <2>2, PainterMoves
<1>11. ASSUME NEW p \in Painters, OpenFails(p) \/ Close(p) \/ Row(p) \/ Return(p)
       PROVE  ColourInv' /\ ColoursAgree'
  <2>1. Closed(p) \in {"text2", "temps", "path"}
    BY DEF Closed
  <2>2. UNCHANGED <<curr, lcd>> /\ \A q \in Painters : q # p => ink'[q] = ink[q]
    BY <1>t, <1>11 DEF OpenFails, Close, Row, Return, look, TypeOK
  <2>3. PICK l \in {"open", "row", "done"}, next \in {"text2", "temps", "path", "row", "idle"} :
           Moves(p, l, next)
    BY <1>t, <1>11, <2>1, PainterMoves DEF Close
  <2> QED
    BY <1>6, <2>2, <2>3
<1> QED
  BY <1>1, <1>2, <1>3, <1>4, <1>5, <1>c, <1>7, <1>8, <1>9, <1>10, <1>11 DEF Next, Work

-----------------------------------------------------------------------------
(* The ground.                                                             *)

\* A step of p that leaves the cached colour and the ground alone and has nothing
\* to do with clearing the panel.
LEMMA MovesGround ==
  ASSUME IInv, NEW p \in Painters, NEW l, NEW next, Moves(p, l, next),
         l \notin Early \cup Clearing, next \notin Early \cup Clearing,
         UNCHANGED curr, spoiled' \in BOOLEAN,
         ~spoiled' => ~spoiled /\ screen'[Ground] = screen[Ground],
         \A q \in Painters : q # p => ink'[q] = ink[q],
         \A q \in Painters : q # p /\ window'.owner = q => window.owner = q
  PROVE  GroundInv'
<1>1. /\ \A q \in Painters : q # p => pc'[q] = pc[q]
      /\ pc'[p] = next /\ pc[p] = l
  BY NamesAre DEF IInv, TypeOK, Moves
<1> QED
  BY <1>1 DEF IInv, GroundInv

LEMMA GroundStep ==
  ASSUME IInv, Next
  PROVE  GroundInv'
<1>t. TypeOK /\ ColourInv /\ GroundInv
  BY DEF IInv
<1>e. /\ Ground \in Elements /\ Text \in Elements /\ Ground # Text
      /\ \A e \in DOMAIN Pictures : e \in Elements /\ e \in Nat /\ e # Ground /\ e # Text
  BY PicturesAre DEF Elements, Ground, Text
<1>1. CASE TimeWakes \/ TimeWork
  BY <1>t, <1>1, TimeLeaves DEF GroundInv
<1>2. CASE Shell \in Painters /\ ChangeDisplayMode
  BY <1>t, <1>2, ShellTurns DEF GroundInv, Early, Clearing
<1>3. CASE Grant
  BY <1>t, <1>3 DEF Grant, look, panel, GroundInv
<1>4. ASSUME NEW p \in Painters, Call(p) PROVE GroundInv'
  <2>1. /\ pc[p] = "idle" /\ pc'[p] \in {"toggle", "enter"}
        /\ \A q \in Painters : q # p => pc'[q] = pc[q]
        /\ UNCHANGED <<curr, screen, window, spoiled, ink>>
    BY <1>t, <1>4, NamesAre DEF Call, Goto, TypeOK, look, panel
  <2> QED
    BY <1>t, <2>1 DEF GroundInv, Early, Clearing
<1>5. ASSUME NEW p \in Painters, Suspend(p) PROVE GroundInv'
  BY <1>t, <1>5 DEF Suspend, look, panel, GroundInv
<1>m. ASSUME NEW p \in Painters, NEW l, NEW next, Paint(p, l, next)
      PROVE  /\ Moves(p, l, next) /\ pc[p] = l /\ pc'[p] = next
             /\ \A q \in Painters : q # p => pc'[q] = pc[q]
  BY <1>t, <1>m, PainterMoves, NamesAre DEF Moves, TypeOK
\* Changing the colours, up to the window.
<1>6. ASSUME NEW p \in Painters,
             CacheBack(p) \/ CacheFore(p) \/ SetColor(p) \/ ClearCall(p)
      PROVE  GroundInv'
  <2>1. PICK l, next : Paint(p, l, next) /\ next \in Early
    BY <1>6 DEF CacheBack, CacheFore, SetColor, ClearCall, Arguments, Early
  <2>2. pc'[p] \in Early
    BY <1>m, <2>1
  <2> QED
    BY <2>2 DEF GroundInv
<1>7. ASSUME NEW p \in Painters, ClearWindow(p) PROVE GroundInv'
  <2>1. /\ Paint(p, "window", "fill") /\ window'.owner = p
        /\ UNCHANGED <<curr, ink, spoiled>>
    BY <1>7 DEF ClearWindow, Opens
  <2>2. pc'[p] \in Clearing /\ ink'[p].back = curr'.back
    BY <1>t, <1>m, <2>1 DEF ColourInv, Clearing
  <2> QED
    BY <2>1, <2>2 DEF GroundInv
<1>8. ASSUME NEW p \in Painters, Fill(p) PROVE GroundInv'
  <2>1. Paint(p, "fill", "sends") /\ UNCHANGED <<curr, ink, window, spoiled>>
    BY <1>8 DEF Fill, panel
  <2> QED
    BY <1>t, <1>m, <2>1 DEF GroundInv, Clearing, Early
<1>9. ASSUME NEW p \in Painters, ClearBegins(p) PROVE GroundInv'
  <2>1. /\ Paint(p, "sends", "rest") /\ UNCHANGED <<curr, ink>>
        /\ window'.owner \in {window.owner, None}
    BY <1>t, <1>9 DEF ClearBegins, ClearHalf, Opens, Astray, TypeOK
  <2>2. spoiled' = (spoiled \/ window.owner # p)
    BY <1>9 DEF ClearBegins
  <2>3. ~spoiled' => ~spoiled /\ window.owner = p
    BY <2>2, Zenon
  <2> QED
    BY <1>t, <1>m, <2>1, <2>3, NamesAre DEF GroundInv, Clearing, Early
<1>10. ASSUME NEW p \in Painters, ClearEnds(p) PROVE GroundInv'
  <2>1. PICK next \in {"free", "text"} : Paint(p, "rest", next)
    BY <1>10 DEF ClearEnds, ClearHalf
  <2>2. spoiled' = (window.owner # p)
    BY <1>10 DEF ClearEnds
  <2>3. ~spoiled' => window.owner = p
    BY <2>2, Zenon
  <2>4. /\ UNCHANGED curr /\ window'.owner = None
        /\ window.owner = p => screen'[Ground] = ink[p].back
    BY <1>t, <1>e, <1>10 DEF ClearEnds, ClearHalf, Opens, Astray, TypeOK
  <2> SUFFICES ASSUME ~spoiled', \A q \in Painters : pc'[q] \notin Early
               PROVE  screen'[Ground] = curr'.back
    BY <2>4, NamesAre DEF GroundInv
  <2>5. \A q \in Painters : pc[q] \notin Early
    BY <1>m, <2>1 DEF Early
  <2> QED
    BY <1>t, <1>m, <2>1, <2>3, <2>4, <2>5, NamesAre DEF GroundInv, Clearing
<1>11. ASSUME NEW p \in Painters, Compare(p) \/ ClearFree(p) \/ TextCall(p) \/ Path(p)
                                  \/ Malloc(p) \/ Text2Call(p) \/ Branch(p)
       PROVE  GroundInv'
  <2>1. /\ UNCHANGED <<curr, screen, window, spoiled>>
        /\ \A q \in Painters : q # p => ink'[q] = ink[q]
    BY <1>t, <1>11
    DEF Compare, ClearFree, TextCall, Path, Malloc, Text2Call, Branch, Arguments, panel, TypeOK
  <2>2. PICK l, next : /\ Paint(p, l, next) /\ l \notin Early \cup Clearing
                       /\ next \notin Early \cup Clearing
    BY <1>11 DEF Compare, ClearFree, TextCall, Path, Malloc, Text2Call, Branch, Arguments,
                 Early, Clearing
  <2> QED
    BY <1>t, <1>m, <2>1, <2>2, MovesGround DEF TypeOK
<1>12. ASSUME NEW p \in Painters, Draw(p) \/ Draw2(p) \/ Temperatures(p) \/ Open(p)
       PROVE  GroundInv'
  <2>1. /\ UNCHANGED <<curr, spoiled>> /\ screen'[Ground] = screen[Ground]
        /\ \A q \in Painters : q # p => ink'[q] = ink[q]
        /\ window'.owner \in {p, None}
    BY <1>t, <1>e, <1>12 DEF Draw, Draw2, Temperatures, Open, Opens, TypeOK
  <2>2. PICK l, next : /\ Paint(p, l, next) /\ l \notin Early \cup Clearing
                       /\ next \notin Early \cup Clearing
    BY <1>12 DEF Draw, Draw2, Temperatures, Open, Early, Clearing
  <2> QED
    BY <1>t, <1>m, <2>1, <2>2, MovesGround, NamesAre DEF TypeOK
<1>13. ASSUME NEW p \in Painters, Close(p) \/ OpenFails(p) \/ Return(p) PROVE GroundInv'
  <2>1. /\ UNCHANGED <<curr, screen, spoiled>>
        /\ \A q \in Painters : q # p => ink'[q] = ink[q]
        /\ window'.owner \in {window.owner, None}
    BY <1>t, <1>13 DEF Close, OpenFails, Return, look, panel, TypeOK
  <2>2. Closed(p) \in {"text2", "temps", "path"}
    BY DEF Closed
  <2>3. PICK l \in {"open", "row", "done"}, next \in {"text2", "temps", "path", "idle"} :
           Moves(p, l, next)
    BY <1>t, <1>13, <2>2, PainterMoves DEF Close
  <2>4. l \notin Early \cup Clearing /\ next \notin Early \cup Clearing
    BY DEF Early, Clearing
  <2> QED
    BY <1>t, <2>1, <2>3, <2>4, MovesGround, NamesAre DEF TypeOK
<1>14. ASSUME NEW p \in Painters, Row(p) PROVE GroundInv'
  <2>1. Moves(p, "row", "row") /\ UNCHANGED <<curr, ink>>
    BY <1>t, <1>14, PainterMoves DEF Row
  <2>2. shown[p].number \in DOMAIN Pictures
    BY <1>t DEF TypeOK, PictureStates
  <2>3. /\ spoiled' \in BOOLEAN /\ window'.owner \in {window.owner, None}
        /\ ~spoiled' => ~spoiled /\ screen'[Ground] = screen[Ground]
    BY <1>t, <1>e, <1>14, <2>2 DEF Row, Astray, panel, TypeOK
  <2>4. "row" \notin Early \cup Clearing
    BY DEF Early, Clearing
  <2> QED
    BY <2>1, <2>3, <2>4, MovesGround, NamesAre
<1> QED
  BY <1>1, <1>2, <1>3, <1>4, <1>5, <1>6, <1>7, <1>8, <1>9, <1>10, <1>11, <1>12, <1>13,
     <1>14
  DEF Next, Work

-----------------------------------------------------------------------------
(* A repaint that nobody disturbs.                                         *)

\* A step of p disturbs the repaint of everybody else, and what is left to show
\* is that its own goes on.
LEMMA OwnRepaint ==
  ASSUME IInv, NEW p \in Painters, NEW l, NEW next, Moves(p, l, next),
         l \notin {"idle", "toggle"},
         \A q \in Painters : clean'[q] => clean[q],
         l = "enter" => \A q \in Painters : clean'[q] => q = p,
         clean'[p] /\ Undisturbed(p) => Undisturbed(p)'
  PROVE  CleanInv'
<1>t. TypeOK /\ CleanInv
  BY DEF IInv
<1> SUFFICES ASSUME NEW q \in Painters, clean'[q] PROVE Undisturbed(q)'
  BY DEF CleanInv
<1>1. Undisturbed(q)
  BY <1>t DEF CleanInv
<1>2. q = p
  BY <1>1 DEF Undisturbed, Moves
<1> QED
  BY <1>1, <1>2

\* The others are where they were.
LEMMA OthersStay ==
  ASSUME TypeOK, NEW p \in Painters, NEW l, NEW next, Moves(p, l, next), Undisturbed(p)
  PROVE  /\ pc[p] = l /\ pc'[p] = next /\ UNCHANGED display_mode
         /\ \A q \in Painters \ {p} : pc'[q] \in {"idle", "toggle", "enter"}
BY NamesAre DEF Moves, Undisturbed, TypeOK

\* When all the others are idle or about to begin, nobody is changing the
\* colours or clearing the panel: the ground has the colour cached, if not spoilt.
LEMMA BeginsInOrder ==
  ASSUME IInv, NEW p \in Painters, Undisturbed(p), pc[p] = "enter"
  PROVE  lcd = curr /\ curr.back = curr.fore /\ (spoiled \/ screen[Ground] = curr.back)
<1>1. \A q \in Painters : pc[q] \in {"idle", "toggle", "enter"}
  BY DEF Undisturbed
<1> QED
  BY <1>1 DEF IInv, ColoursAgree, GroundInv, Early, Clearing

LEMMA CleanStep ==
  ASSUME IInv, Next
  PROVE  CleanInv'
<1>t. TypeOK /\ HeapInv /\ PictureInv /\ CleanInv
  BY DEF IInv
<1>e. /\ Ground \in Elements /\ Text \in Elements /\ Ground # Text
      /\ \A e \in DOMAIN Pictures : e \in Elements /\ e \in Nat /\ e # Ground /\ e # Text
  BY PicturesAre DEF Elements, Ground, Text
<1>1. CASE TimeWakes \/ TimeWork
  <2>1. /\ \A p \in Painters : pc'[p] = pc[p]
        /\ UNCHANGED <<curr, lcd, screen, window, spoiled, bmp, ink, shown, forecast>>
        /\ \A p \in Painters : clean'[p] => clean[p] /\ display_mode' = display_mode
    BY <1>t, <1>1, TimeLeaves
  <2> QED
    BY <1>t, <2>1 DEF CleanInv, Undisturbed, Painted
<1>2. CASE Shell \in Painters /\ ChangeDisplayMode
  <2> SUFFICES ASSUME NEW p \in Painters, clean'[p] PROVE Undisturbed(p)'
    BY DEF CleanInv
  <2>1. p = Shell /\ Undisturbed(p) /\ pc'[p] = "enter"
    BY <1>t, <1>2, ShellTurns DEF CleanInv
  <2>2. \A q \in Painters \ {p} : pc'[q] \in {"idle", "toggle", "enter"}
    BY <1>t, <1>2, <2>1, ShellTurns DEF Undisturbed
  <2> QED
    BY <2>1, <2>2 DEF Undisturbed, Painted, Before, Showing, Clearing
<1>3. CASE Grant
  BY <1>t, <1>3 DEF Grant, look, panel, CleanInv, Undisturbed, Painted
<1>4. ASSUME NEW p \in Painters, Call(p) PROVE CleanInv'
  <2> SUFFICES ASSUME NEW q \in Painters, clean'[q] PROVE Undisturbed(q)'
    BY DEF CleanInv
  <2>1. /\ pc[p] = "idle" /\ pc'[p] \in {"toggle", "enter"}
        /\ \A r \in Painters : r # p => pc'[r] = pc[r]
        /\ UNCHANGED <<display_mode, curr, lcd, screen, window, spoiled, bmp, ink, shown,
                       forecast>>
    BY <1>t, <1>4, NamesAre DEF Call, Goto, TypeOK, look, panel
  <2>2. CASE q = p
    <3>1. \A r \in Painters \ {p} : pc'[r] = "idle"
      BY <1>t, <1>4, <2>1, <2>2 DEF Call, TypeOK
    <3> QED
      BY <2>1, <2>2, <3>1 DEF Undisturbed, Painted, Before, Showing, Clearing
  <2>3. CASE q # p
    <3>1. Undisturbed(q) /\ pc'[q] = pc[q]
      BY <1>t, <1>4, <2>1, <2>3 DEF Call, TypeOK, CleanInv
    <3>2. \A r \in Painters \ {q} : pc'[r] \in {"idle", "toggle", "enter"}
      BY <2>1, <3>1 DEF Undisturbed
    <3> QED
      BY <2>1, <3>1, <3>2 DEF Undisturbed, Painted
  <2> QED
    BY <2>2, <2>3
<1>5. ASSUME NEW p \in Painters, Suspend(p) PROVE CleanInv'
  BY <1>t, <1>5 DEF Suspend, look, panel, CleanInv, Undisturbed, Painted
\* A step of a painter: what it does to its own undisturbed repaint.
<1>6. ASSUME NEW p \in Painters, NEW l, NEW next, Paint(p, l, next),
             l \notin {"idle", "toggle"}, clean[p] /\ Undisturbed(p) => Undisturbed(p)'
      PROVE  CleanInv'
  <2>1. Moves(p, l, next)
    BY <1>t, <1>6, PainterMoves
  <2>2. \A q \in Painters : clean'[q] => clean[q] /\ q = p
    BY <1>6 DEF Paint
  <2> QED
    BY <1>6, <2>1, <2>2, OwnRepaint
<1>7. ASSUME NEW p \in Painters, NEW l, NEW next, Paint(p, l, next), Undisturbed(p)
      PROVE  /\ pc[p] = l /\ pc'[p] = next /\ UNCHANGED display_mode
             /\ \A q \in Painters \ {p} : pc'[q] \in {"idle", "toggle", "enter"}
  BY <1>t, <1>7, PainterMoves, OthersStay
<1> USE DEF Before, Showing, Clearing
<1>8. ASSUME NEW p \in Painters, Compare(p) PROVE CleanInv'
  <2> DEFINE next == IF curr.back # display_mode THEN "back" ELSE "text"
  <2>1. Paint(p, "enter", next) /\ UNCHANGED <<curr, lcd, screen, spoiled, shown>>
    BY <1>8 DEF Compare, panel
  <2>2. ASSUME Undisturbed(p) PROVE Undisturbed(p)'
    <3>1. /\ pc[p] = "enter" /\ pc'[p] = next /\ UNCHANGED display_mode
          /\ \A q \in Painters \ {p} : pc'[q] \in {"idle", "toggle", "enter"}
      BY <1>7, <2>1, <2>2
    <3>2. lcd = curr /\ curr.back = curr.fore /\ (spoiled \/ screen[Ground] = curr.back)
      BY <2>2, <3>1, BeginsInOrder
    <3> QED
      BY <2>1, <3>1, <3>2 DEF Undisturbed, Painted
  <2> HIDE DEF next
  <2> QED
    BY <1>6, <2>1, <2>2
<1>9. ASSUME NEW p \in Painters, CacheBack(p) \/ CacheFore(p) PROVE CleanInv'
  <2>1. PICK l \in {"back", "fore"}, next \in {"fore", "set"} : Paint(p, l, next)
    BY <1>9 DEF CacheBack, CacheFore
  <2>2. ASSUME Undisturbed(p) PROVE Undisturbed(p)'
    BY <1>7, <2>1, <2>2 DEF Undisturbed, Painted
  <2> QED
    BY <1>6, <2>1, <2>2
<1>10. ASSUME NEW p \in Painters, SetColor(p) PROVE CleanInv'
  <2>1. Paint(p, "set", "clear") /\ lcd' = curr /\ UNCHANGED curr
    BY <1>10 DEF SetColor
  <2>2. ASSUME Undisturbed(p) PROVE Undisturbed(p)'
    <3>1. curr.back = display_mode /\ curr.fore = display_mode
      BY <1>7, <2>1, <2>2 DEF IInv, ColourInv
    <3> QED
      BY <1>7, <2>1, <2>2, <3>1 DEF Undisturbed, Painted
  <2> QED
    BY <1>6, <2>1, <2>2
<1>11. ASSUME NEW p \in Painters, ClearCall(p) \/ TextCall(p) \/ Text2Call(p)
       PROVE  CleanInv'
  <2>1. PICK l \in {"clear", "text", "text2"}, next \in {"window", "draw", "draw2"} :
           /\ Paint(p, l, next)
           /\ (l = "clear" <=> next = "window") /\ (l = "text" <=> next = "draw")
    <3>1. CASE ClearCall(p)
      BY <3>1 DEF ClearCall, Arguments
    <3>2. CASE TextCall(p)
      BY <3>2 DEF TextCall, Arguments
    <3>3. CASE Text2Call(p)
      BY <3>3 DEF Text2Call, Arguments
    <3> QED
      BY <1>11, <3>1, <3>2, <3>3
  <2>2. ink'[p] = curr /\ UNCHANGED <<curr, lcd, screen, spoiled, bmp, shown, forecast>>
    BY <1>t, <1>11 DEF ClearCall, TextCall, Text2Call, Arguments, panel, TypeOK
  <2>3. ASSUME Undisturbed(p) PROVE Undisturbed(p)'
    BY <1>7, <2>1, <2>2, <2>3 DEF Undisturbed, Painted
  <2> QED
    BY <1>6, <2>1, <2>3
<1>12. ASSUME NEW p \in Painters, ClearWindow(p) \/ Fill(p) PROVE CleanInv'
  <2>1. PICK l \in {"window", "fill"}, next \in {"fill", "sends"} :
           Paint(p, l, next) /\ (l = "fill" => window' = window)
    BY <1>12 DEF ClearWindow, Fill, panel
  <2>2. UNCHANGED <<curr, lcd, ink, shown>> /\ (window'.owner = p \/ window' = window)
    BY <1>12 DEF ClearWindow, Fill, Opens, panel
  <2>3. ASSUME Undisturbed(p) PROVE Undisturbed(p)'
    <3>1. window'.owner = p
      BY <1>7, <1>12, <2>1, <2>2, <2>3 DEF ClearWindow, Fill, Opens, panel, Undisturbed
    <3> QED
      BY <1>7, <2>1, <2>2, <2>3, <3>1 DEF Undisturbed, Painted
  <2> QED
    BY <1>6, <2>1, <2>3
<1>23. ASSUME NEW p \in Painters, ClearBegins(p) PROVE CleanInv'
  <2>1. /\ Paint(p, "sends", "rest") /\ UNCHANGED <<curr, lcd, ink, shown>>
        /\ window.owner = p => window'.owner = p
    BY <1>23 DEF ClearBegins, ClearHalf, Opens
  <2>2. ASSUME Undisturbed(p) PROVE Undisturbed(p)'
    BY <1>7, <2>1, <2>2 DEF Undisturbed, Painted
  <2> QED
    BY <1>6, <2>1, <2>2
<1>24. ASSUME NEW p \in Painters, ClearEnds(p) PROVE CleanInv'
  <2>1. PICK next \in {"free", "text"} : Paint(p, "rest", next)
    BY <1>24 DEF ClearEnds, ClearHalf
  <2>2. /\ UNCHANGED <<curr, lcd, shown>>
        /\ window.owner = p => screen'[Ground] = ink[p].back
    BY <1>e, <1>24 DEF ClearEnds, ClearHalf
  <2>3. ASSUME Undisturbed(p) PROVE Undisturbed(p)'
    BY <1>7, <2>1, <2>2, <2>3 DEF Undisturbed, Painted
  <2> QED
    BY <1>6, <2>1, <2>3
<1>25. ASSUME NEW p \in Painters, ClearFree(p) PROVE CleanInv'
  <2>1. Paint(p, "free", "text") /\ UNCHANGED <<curr, lcd, screen, spoiled, shown>>
    BY <1>25 DEF ClearFree, panel
  <2>2. ASSUME Undisturbed(p) PROVE Undisturbed(p)'
    BY <1>7, <2>1, <2>2 DEF Undisturbed, Painted
  <2> QED
    BY <1>6, <2>1, <2>2
<1>13. ASSUME NEW p \in Painters, Draw(p) PROVE CleanInv'
  <2>1. /\ Paint(p, "draw", "path") /\ UNCHANGED <<curr, lcd, spoiled, shown>>
        /\ screen'[Ground] = screen[Ground]
        /\ screen'[Text] = IF lcd = ink[p] THEN Look(lcd) ELSE None
    BY <1>t, <1>e, <1>13 DEF Draw, TypeOK
  <2>2. ASSUME Undisturbed(p) PROVE Undisturbed(p)'
    <3>1. pc[p] = "draw"
      BY <1>7, <2>1, <2>2
    <3>2. lcd = ink[p] /\ Look(lcd) = display_mode
      BY <1>t, <2>2, <3>1 DEF Undisturbed, TypeOK, Colours, Look
    <3>3. shown[p].number = 1 /\ \A e \in DOMAIN Pictures : ~(e < 1)
      BY <1>t, <3>1, PicturesAre DEF PictureInv
    <3> QED
      BY <1>7, <2>1, <2>2, <3>2, <3>3 DEF Undisturbed, Painted
  <2> QED
    BY <1>6, <2>1, <2>2
<1>14. ASSUME NEW p \in Painters, Draw2(p) PROVE CleanInv'
  <2>1. /\ Paint(p, "draw2", "branch") /\ UNCHANGED <<curr, lcd, spoiled, shown>>
        /\ \A e \in DOMAIN Pictures \cup {Ground} : screen'[e] = screen[e]
        /\ screen'[Text] = IF screen[Text] = Look(ink[p]) THEN screen[Text] ELSE None
    BY <1>t, <1>e, <1>14 DEF Draw2, TypeOK
  <2>2. ASSUME Undisturbed(p) PROVE Undisturbed(p)'
    <3>1. pc[p] = "draw2"
      BY <1>7, <2>1, <2>2
    <3>2. Look(ink[p]) = display_mode
      BY <2>2, <3>1 DEF Undisturbed, Look
    <3> QED
      BY <1>7, <2>1, <2>2, <3>2 DEF Undisturbed, Painted
  <2> QED
    BY <1>6, <2>1, <2>2
<1>15. ASSUME NEW p \in Painters, Path(p) PROVE CleanInv'
  <2>1. /\ Paint(p, "path", "open")
        /\ UNCHANGED <<curr, lcd, screen, spoiled, bmp, shown, forecast>>
        /\ ink'[p].fore = display_mode
        /\ ink'[p].back = IF shown[p].number = 1 THEN display_mode ELSE forecast[p]
    BY <1>t, <1>15 DEF Path, panel, TypeOK
  <2>2. ASSUME Undisturbed(p) PROVE Undisturbed(p)'
    BY <1>7, <2>1, <2>2 DEF Undisturbed, Painted
  <2> QED
    BY <1>6, <2>1, <2>2
<1>16. ASSUME NEW p \in Painters, Branch(p) PROVE CleanInv'
  <2>1. /\ Paint(p, "branch", IF Len(Pictures) = 1 THEN "temps" ELSE "path")
        /\ UNCHANGED <<curr, lcd, screen, spoiled, bmp, ink, shown>>
        /\ forecast'[p] = display_mode
    BY <1>t, <1>16 DEF Branch, panel, TypeOK
  <2>2. ASSUME Undisturbed(p) PROVE Undisturbed(p)'
    <3>1. pc[p] = "branch"
      BY <1>7, <2>1, <2>2
    <3>2. shown[p].number = (1 % Len(Pictures)) + 1
      BY <1>t, <3>1 DEF PictureInv
    <3>3. Len(Pictures) # 1 => shown[p].number = 2
      BY <3>2, PicturesAre
    <3>4. \A e \in DOMAIN Pictures : (Len(Pictures) = 1 \/ e < 2) => e = 1
      BY PicturesAre
    <3>5. /\ pc'[p] = IF Len(Pictures) = 1 THEN "temps" ELSE "path"
          /\ UNCHANGED display_mode
          /\ \A q \in Painters \ {p} : pc'[q] \in {"idle", "toggle", "enter"}
      BY <1>7, <2>1, <2>2
    <3>6. CASE Len(Pictures) = 1
      BY <2>1, <2>2, <3>1, <3>4, <3>5, <3>6 DEF Undisturbed, Painted
    <3>7. CASE Len(Pictures) # 1
      BY <2>1, <2>2, <3>1, <3>3, <3>4, <3>5, <3>7 DEF Undisturbed, Painted
    <3> QED
      BY <3>6, <3>7
  <2> QED
    BY <1>6, <2>1, <2>2
<1>17. ASSUME NEW p \in Painters, Temperatures(p) PROVE CleanInv'
  <2>1. /\ Paint(p, "temps", "done") /\ UNCHANGED <<curr, lcd, spoiled, shown>>
        /\ \A e \in DOMAIN Pictures \cup {Ground} : screen'[e] = screen[e]
        /\ screen'[Text] = IF screen[Text] = Look(lcd) THEN screen[Text] ELSE None
    BY <1>t, <1>e, <1>17 DEF Temperatures, TypeOK
  <2>2. ASSUME Undisturbed(p) PROVE Undisturbed(p)'
    <3>1. pc[p] = "temps"
      BY <1>7, <2>1, <2>2
    <3>2. Look(lcd) = display_mode
      BY <2>2, <3>1 DEF Undisturbed, Look
    <3> QED
      BY <1>7, <2>1, <2>2, <3>2 DEF Undisturbed, Painted
  <2> QED
    BY <1>6, <2>1, <2>2
<1>18. ASSUME NEW p \in Painters, Return(p) \/ OpenFails(p) PROVE CleanInv'
  <2>1. ~clean'[p] /\ \A q \in Painters : clean'[q] => clean[q]
    BY <1>t, <1>18 DEF Return, OpenFails, TypeOK
  <2>2. PICK l, next : Moves(p, l, next) /\ l \in {"done", "open"}
    BY <1>t, <1>18, PainterMoves
  <2> QED
    BY <2>1, <2>2, OwnRepaint
<1>19. ASSUME NEW p \in Painters, Open(p) PROVE CleanInv'
  <2>1. /\ Paint(p, "open", "malloc") /\ bmp' = Pictures[shown[p].number]
        /\ window'.owner = p /\ UNCHANGED <<curr, lcd, screen, spoiled, ink, shown, forecast>>
    BY <1>19 DEF Open, Opens
  <2>2. ASSUME Undisturbed(p) PROVE Undisturbed(p)'
    BY <1>7, <2>1, <2>2 DEF Undisturbed, Painted
  <2> QED
    BY <1>6, <2>1, <2>2
<1>20. ASSUME NEW p \in Painters, Malloc(p) PROVE CleanInv'
  <2>1. /\ Paint(p, "malloc", "row")
        /\ UNCHANGED <<curr, lcd, screen, window, spoiled, bmp, ink, forecast>>
        /\ shown'[p].number = shown[p].number /\ shown'[p].row = shown[p].row
        /\ shown'[p].torn = shown[p].torn
    <3>1. PICK n \in {0, bmp} : shown' = [shown EXCEPT ![p].buffer = n]
      BY <1>20 DEF Malloc
    <3> QED
      BY <1>t, <1>20, <3>1 DEF Malloc, panel, TypeOK, PictureStates
  <2>2. ASSUME Undisturbed(p) PROVE Undisturbed(p)'
    <3>1. pc[p] = "malloc"
      BY <1>7, <2>1, <2>2
    <3>2. shown[p].row = 0 /\ ~shown[p].torn /\ 0 <= bmp /\ bmp # 0
      BY <1>t, <2>2, <3>1, PicturesAre DEF PictureInv, TypeOK, PictureStates, Undisturbed
    <3> QED
      BY <1>7, <2>1, <2>2, <3>1, <3>2 DEF Undisturbed, Painted
  <2> QED
    BY <1>6, <2>1, <2>2
<1>21. ASSUME NEW p \in Painters, Row(p) PROVE CleanInv'
  <2>1. Moves(p, "row", "row") /\ \A q \in Painters : clean'[q] => clean[q]
    BY <1>t, <1>21, PainterMoves DEF Row
  <2>2. UNCHANGED <<display_mode, curr, lcd, bmp, pc, ink, forecast>> /\ shown[p].row < bmp
    BY <1>21 DEF Row
  <2>3. ASSUME Undisturbed(p) PROVE Undisturbed(p)'
    <3> DEFINE n == shown[p].number
               b == shown[p].torn \/ bmp # Pictures[shown[p].number] \/ window.owner # p
               s == [shown[p] EXCEPT !.row = @ + 1, !.torn = b]
    <3>1. /\ pc[p] = "row" /\ shown[p].row \in Nat /\ bmp \in Nat
          /\ n \in DOMAIN Pictures /\ n \in Elements /\ n # Ground /\ n # Text
      BY <1>t, <1>e, <2>1 DEF Moves, TypeOK, PictureStates
    <3>2. /\ window.owner = p /\ ~shown[p].torn /\ bmp = Pictures[n]
          /\ Look(ink[p]) = display_mode
      BY <2>3, <3>1 DEF Undisturbed, Look
    <3>3. CASE UNCHANGED <<shown, panel>>
      BY <2>2, <2>3, <3>3 DEF Undisturbed, Painted, panel
    <3>4. CASE /\ shown' = [shown EXCEPT ![p] = s] /\ UNCHANGED <<window, spoiled>>
               /\ screen' = [screen EXCEPT ![n] = IF Completes(p) THEN Look(ink[p]) ELSE None]
      <4>1. shown[p] \in PictureStates /\ shown[p].row + 1 \in Nat /\ b \in BOOLEAN
        BY <1>t DEF TypeOK, PictureStates
      <4>2. s = [number |-> shown[p].number, buffer |-> shown[p].buffer,
                 row |-> shown[p].row + 1, torn |-> b]
        BY <4>1, StateUpdate
      <4>3. shown'[p] = s
        BY <1>t, <3>4 DEF TypeOK
      <4>4. shown'[p].number = n /\ shown'[p].row = shown[p].row + 1 /\ shown'[p].torn = b
        BY <4>2, <4>3
      <4>5. ~b
        BY <3>2
      <4> HIDE DEF s, b
      <4>6. shown'[p].row <= bmp /\ ~shown'[p].torn
        BY <2>2, <3>1, <4>4, <4>5
      <4>7. shown'[p].row = bmp => screen'[n] = display_mode
        BY <1>t, <3>1, <3>2, <3>4, <4>4 DEF Completes, TypeOK
      <4>8. \A e \in Elements : e # n => screen'[e] = screen[e]
        BY <1>t, <3>4 DEF TypeOK
      <4>9. screen'[Ground] = screen[Ground] /\ screen'[Text] = screen[Text]
        BY <1>e, <3>1, <4>8
      <4>10. \A e \in DOMAIN Pictures : e < n => screen'[e] = screen[e]
        BY <1>e, <3>1, <4>8
      <4> HIDE DEF n
      <4> QED
        BY <2>2, <2>3, <3>1, <3>2, <3>4, <4>4, <4>6, <4>7, <4>9, <4>10
        DEF Undisturbed, Painted, n
    <3>5. UNCHANGED <<shown, panel>> \/
          (/\ shown' = [shown EXCEPT ![p] = s] /\ UNCHANGED <<window, spoiled>>
           /\ screen' = [screen EXCEPT ![n] = IF Completes(p) THEN Look(ink[p]) ELSE None])
      BY <1>t, <1>21, <3>2 DEF Row, TypeOK
    <3> HIDE DEF s, n
    <3> QED
      BY <3>3, <3>4, <3>5
  <2> QED
    BY <2>1, <2>3, OwnRepaint
<1>22. ASSUME NEW p \in Painters, Close(p) PROVE CleanInv'
  <2> DEFINE n == shown[p].number
  <2>n. n \in 1 .. Len(Pictures) /\ n \in DOMAIN Pictures /\ Len(Pictures) \in Nat \ {0}
    BY <1>t, PicturesAre DEF TypeOK, PictureStates
  <2>1. /\ Paint(p, "row", Closed(p)) /\ UNCHANGED <<curr, lcd, screen, spoiled, bmp, forecast>>
        /\ shown[p].row >= bmp /\ shown'[p] = Following(p)
    BY <1>t, <1>e, <2>n, <1>22 DEF Close, TypeOK
  <2>2. ASSUME Undisturbed(p) PROVE Undisturbed(p)'
    <3>1. /\ pc[p] = "row" /\ pc'[p] = Closed(p) /\ UNCHANGED display_mode
          /\ \A q \in Painters \ {p} : pc'[q] \in {"idle", "toggle", "enter"}
      BY <1>7, <2>1, <2>2
    <3>2. shown[p].row = bmp
      BY <1>t, <2>1, <2>2, <3>1 DEF Undisturbed, TypeOK, PictureStates
    <3>3. screen'[n] = display_mode
      BY <2>1, <2>2, <3>1, <3>2 DEF Undisturbed
    <3>4. \A e \in DOMAIN Pictures : e < n \/ e = n => screen'[e] = display_mode
      BY <1>e, <2>1, <2>2, <3>1, <3>3 DEF Undisturbed, Painted
    <3>5. (spoiled' \/ screen'[Ground] = display_mode) /\ screen'[Text] = display_mode
      BY <1>e, <2>n, <2>1, <2>2, <3>1 DEF Undisturbed
    <3>6. CASE n = 1
      <4>1. Closed(p) = "text2"
        BY <3>6 DEF Closed
      <4>2. 1 \in DOMAIN Pictures /\ screen'[1] = display_mode
        BY <2>n, <3>3, <3>6
      <4> QED
        BY <2>1, <2>2, <3>1, <3>5, <4>1, <4>2 DEF Undisturbed, Painted
    <3>7. CASE n # 1 /\ n = Len(Pictures)
      <4>1. Closed(p) = "temps"
        BY <3>7 DEF Closed
      <4>2. \A e \in DOMAIN Pictures : screen'[e] = display_mode
        BY <3>4, <3>7, PicturesAre
      <4> QED
        BY <2>1, <2>2, <3>1, <3>5, <4>1, <4>2 DEF Undisturbed, Painted
    <3>8. CASE n # 1 /\ n # Len(Pictures)
      <4>1. Closed(p) = "path"
        BY <3>8 DEF Closed
      <4>2. n % Len(Pictures) = n
        BY <2>n, <3>8
      <4>3. shown'[p].number = n + 1
        BY <1>t, <2>1, <4>2, FollowingType
      <4>4. \A e \in DOMAIN Pictures : e < n + 1 => screen'[e] = display_mode
        BY <2>n, <3>4, PicturesAre
      <4>5. forecast[p] = display_mode
        BY <2>2, <3>1, <3>8 DEF Undisturbed
      <4> QED
        BY <2>1, <2>2, <3>1, <3>5, <4>1, <4>3, <4>4, <4>5 DEF Undisturbed, Painted
    <3> QED
      BY <3>6, <3>7, <3>8
  <2> QED
    BY <1>6, <2>1, <2>2
<1> QED
  BY <1>1, <1>2, <1>3, <1>4, <1>5, <1>8, <1>9, <1>10, <1>11, <1>12, <1>13, <1>14, <1>15,
     <1>16, <1>17, <1>18, <1>19, <1>20, <1>21, <1>22, <1>23, <1>24, <1>25
  DEF Next, Work

-----------------------------------------------------------------------------
(* The mode and the clock.                                                 *)

\* No painter touches what the time thread works on.
LEMMA ClockLeft ==
  ASSUME TypeOK,
         Grant \/ (\E p \in Painters : Call(p) \/ Suspend(p) \/ Work(p))
  PROVE  UNCHANGED <<display_mode, hour, junk, read, calm>> /\ pc'[Time] = pc[Time]
<1> USE NamesAre DEF look, clock, Goto, TypeOK
<1>1. CASE Grant
  BY <1>1 DEF Grant
<1>2. ASSUME NEW p \in Painters, Call(p) \/ Suspend(p)
      PROVE  UNCHANGED <<display_mode, hour, junk, read, calm>> /\ pc'[Time] = pc[Time]
  BY <1>2 DEF Call, Suspend
<1>3. ASSUME NEW p \in Painters, Return(p) \/ OpenFails(p) \/ Row(p)
      PROVE  UNCHANGED <<display_mode, hour, junk, read, calm>> /\ pc'[Time] = pc[Time]
  BY <1>3 DEF Return, OpenFails, Row
<1>4. ASSUME NEW p \in Painters, NEW l, NEW next, Paint(p, l, next)
      PROVE  UNCHANGED <<display_mode, hour, junk, read, calm>> /\ pc'[Time] = pc[Time]
  BY <1>4 DEF Paint
<1>5. ASSUME NEW p \in Painters, Work(p)
      PROVE  UNCHANGED <<display_mode, hour, junk, read, calm>> /\ pc'[Time] = pc[Time]
  <2>1. Return(p) \/ OpenFails(p) \/ Row(p) \/ \E l, next : Paint(p, l, next)
    BY <1>5 DEF Work, Compare, CacheBack, CacheFore, SetColor, ClearCall, TextCall,
                Text2Call, Arguments, ClearWindow, Fill, ClearBegins, ClearEnds, ClearHalf,
                ClearFree, Draw, Draw2, Path, Branch, Temperatures, Open, Malloc, Close
  <2> QED
    BY <1>3, <1>4, <2>1
<1> QED
  BY <1>1, <1>2, <1>5

LEMMA ClockStep ==
  ASSUME IInv, Next
  PROVE  ClockInv' /\ ModeFollowsClock'
<1>t. TypeOK /\ ClockInv /\ ModeFollowsClock
  BY DEF IInv
<1>h. hour \in 0 .. 23 /\ display_mode \in {LIGHT, DARK} /\ LIGHT # DARK
  BY <1>t DEF TypeOK, Modes, LIGHT, DARK
<1>1. CASE Shell \in Painters /\ ChangeDisplayMode
  <2>1. calm' = FALSE
    BY <1>1 DEF ChangeDisplayMode
  <2> QED
    BY <2>1 DEF ClockInv, ModeFollowsClock
<1>2. CASE TimeWakes
  <2>1. calm' = TRUE /\ pc'[Time] = "dawn?" /\ UNCHANGED junk
        /\ (junk = NoDigit => read' = hour')
    BY <1>t, <1>2, NamesAre DEF TimeWakes, Goto, TypeOK
  <2> QED
    BY <2>1 DEF ClockInv, ModeFollowsClock
<1>3. CASE TestDawn \/ TestDusk
  <2>1. /\ UNCHANGED <<display_mode, hour, junk, read, calm>>
        /\ \/ /\ pc[Time] = "dawn?"
              /\ IF display_mode = DARK /\ read > 5 THEN pc'[Time] = "dawn"
                 ELSE pc'[Time] = "dusk?"
           \/ /\ pc[Time] = "dusk?"
              /\ IF display_mode = LIGHT /\ read > 17 THEN pc'[Time] = "dusk"
                 ELSE pc'[Time] = "over"
    BY <1>t, <1>3, NamesAre
    DEF TestDawn, TestDusk, TimeTest, At, Goto, TypeOK, look, panel, clock
  <2> QED
    BY <1>t, <1>h, <2>1 DEF ClockInv, ModeFollowsClock
<1>4. CASE SetLight \/ SetDark
  <2>1. /\ UNCHANGED <<hour, junk, read, calm>>
        /\ \/ pc[Time] = "dawn" /\ pc'[Time] = "dusk?" /\ display_mode' = LIGHT
           \/ pc[Time] = "dusk" /\ pc'[Time] = "over" /\ display_mode' = DARK
    BY <1>t, <1>4, NamesAre
    DEF SetLight, SetDark, TimeSet, SetMode, At, Goto, TypeOK, clock
  <2> QED
    BY <1>t, <1>h, <2>1 DEF ClockInv, ModeFollowsClock
<1>5. CASE TimeSleeps
  <2>1. calm' = FALSE
    BY <1>5 DEF TimeSleeps
  <2> QED
    BY <2>1 DEF ClockInv, ModeFollowsClock
<1>6. CASE Grant \/ \E p \in Painters : Call(p) \/ Suspend(p) \/ Work(p)
  <2>1. UNCHANGED <<display_mode, hour, junk, read, calm>> /\ pc'[Time] = pc[Time]
    BY <1>t, <1>6, ClockLeft
  <2> QED
    BY <1>t, <2>1 DEF ClockInv, ModeFollowsClock
<1> QED
  BY <1>1, <1>2, <1>3, <1>4, <1>5, <1>6 DEF Next, TimeWork

-----------------------------------------------------------------------------
(* The theorems.                                                           *)

LEMMA InductiveInvariant == Spec => []IInv
<1>1. IInv /\ [Next]_vars => IInv'
  <2> SUFFICES ASSUME IInv, [Next]_vars PROVE IInv'
    OBVIOUS
  <2>1. CASE Next
    BY <2>1, TypeStep, HeapStep, PictureStep, ColourStep, GroundStep, CleanStep, ClockStep
    DEF IInv
  <2>2. CASE UNCHANGED vars
    <3> USE <2>2 DEF vars, look, panel, heap, clock, IInv
    <3>1. TypeOK' /\ HeapInv' /\ PictureInv'
      BY DEF TypeOK, HeapInv, PictureInv
    <3>2. ColourInv' /\ ColoursAgree' /\ ClockInv' /\ ModeFollowsClock'
      BY DEF ColourInv, ColoursAgree, ClockInv, ModeFollowsClock
    <3>3. GroundInv'
      BY DEF GroundInv
    <3>4. CleanInv'
      BY DEF CleanInv, Undisturbed, Painted
    <3> QED
      BY <3>1, <3>2, <3>3, <3>4
  <2> QED
    BY <2>1, <2>2
<1> QED
  BY <1>1, InitIInv, PTL DEF Spec

\* Every variable keeps its type, whoever calls show_weather and whatever the
\* pictures are: the number of the picture being shown never leaves the list,
\* the hour read from buf with junk behind it stays in its byte.
THEOREM TypeCorrect == Spec => []TypeOK
BY InductiveInvariant, PTL DEF IInv

\* show_weather, ui.c: back_color_curr, fore_color_curr and the driver's colours
\* are set in three steps without a lock, and yet are never left mixed: the
\* threads that set display_mode run only while every painter above them sleeps
\* or waits for the heap, and none of those is changing the colours.
THEOREM ColoursNeverMixed == Spec => []ColoursAgree
BY InductiveInvariant, PTL DEF IInv

\* show_weather, ui.c: a repaint that no other painter and no change of the mode
\* disturbs leaves the strings and every picture in the look of display_mode.  It
\* clears the panel only when the cached colour differs, and yet the ground has
\* the look too, except where an overlap spoilt it: when no lcd_clear was
\* interrupted and no pixels of others went into it, the ground is never of
\* another colour than the cache says.
THEOREM UndisturbedRepaintIsWhole == Spec => []UndisturbedRepaint
<1>1. IInv => UndisturbedRepaint
  <2> SUFFICES ASSUME CleanInv, NEW p \in Painters, pc[p] = "done", clean[p],
                      NEW e \in Elements
               PROVE  screen[e] = display_mode \/ (e = Ground /\ spoiled)
    BY DEF IInv, UndisturbedRepaint
  <2>1. Undisturbed(p)
    BY DEF CleanInv
  <2>2. CASE e \in {Ground, Text}
    BY <2>1, <2>2 DEF Undisturbed, Before, Clearing
  <2>3. CASE e \in DOMAIN Pictures
    BY <2>1, <2>3 DEF Undisturbed, Painted
  <2> QED
    BY <2>2, <2>3 DEF Elements
<1> QED
  BY <1>1, InductiveInvariant, PTL

\* time_thread_entry, ui.c: an iteration the shell does not overtake leaves
\* display_mode as the hour it read wants it, when the byte behind the hour is no
\* digit, although the test and the assignment are not atomic.
THEOREM ModeIsTheHours == Spec => []ModeFollowsClock
BY InductiveInvariant, PTL DEF IInv
=============================================================================
