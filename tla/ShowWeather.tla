---------------------------- MODULE ShowWeather ----------------------------
(***************************************************************************)
(* The look of the screen: display_mode, the colours, and the pictures.    *)
(*                                                                         *)
(* show_weather (ui.c) is called by four threads                           *)
(*   UI     priority  2   every 10 s                                       *)
(*   asr    priority 10   change_city, after a voice command               *)
(*   key    priority 10   change_city, after a press of the button         *)
(*   shell  priority 20   change_display_mode, which first flips the mode  *)
(* and the time thread (priority 30) sets display_mode by the hour.  They  *)
(* share, without a lock, display_mode, the cached colours, the colours of *)
(* the panel driver, the window of the panel and the header bmp of the     *)
(* picture being shown (bmp.c).                                            *)
(* The processor runs a ready thread of the highest priority and slices    *)
(* its time between equals; a painter is suspended where it allocates     *)
(* while another thread holds the heap, and lower threads run meanwhile.   *)
(*                                                                         *)
(* A colour or a picture is abstracted to the mode it belongs to, a        *)
(* picture to the extent (width and height are equal) in its header.       *)
(***************************************************************************)
EXTENDS Integers, Sequences

CONSTANTS
    Painters,  \* the threads that call show_weather
    Pictures,  \* the extents of the pictures it shows: 100 and three times 40
    Hours,     \* the hours of the day that come up
    Junk       \* the digits that can follow the hour in a buffer

UI    == "UI"
Asr   == "asr"
Key   == "key"
Shell == "shell"
Time  == "time"

ASSUME PaintersAssumption == Painters \subseteq {UI, Asr, Key, Shell}
ASSUME PicturesAssumption == Pictures \in Seq(Nat \ {0}) /\ Pictures # <<>>
ASSUME ClockAssumption    == Hours \subseteq 0 .. 23 /\ Junk \subseteq 0 .. 9

Threads  == Painters \cup {Time}
Priority == [t \in Threads |->
                CASE t = UI -> 2 [] t = Shell -> 20 [] t = Time -> 30 [] OTHER -> 10]

LIGHT == "light"
DARK  == "dark"
Modes == {LIGHT, DARK}
None  == "none"
NoDigit == -1
Repaints == 1

\* What show_weather paints: the cleared ground, the strings, the pictures.
Ground   == -1
Text     == 0
Elements == {Ground, Text} \cup DOMAIN Pictures

VARIABLES
    display_mode,
    curr,      \* back_color_curr and fore_color_curr of ui.c; None is -1
    lcd,       \* BACK_COLOR and FORE_COLOR of drv_lcd.c
    bmp,       \* the extent in the shared header
    screen,    \* the mode every element is shown in; None: mixed, torn or not at all
    window,    \* the panel's window: on which element, and who opened it to send
               \* more pixels, if nobody else has sent some
    pc,        \* where each thread is
    waiting,   \* the painters that wait for the heap, in order of arrival
    granted,   \* the one the heap's lock was passed to
    ink,       \* the colours a painter was given for what it is painting
    shown,     \* the picture it is showing: number, buffer (0: NULL), row, torn
    forecast,  \* the branch of show_weather it is in: by day or by night
    hour,      \* the hour of the day when this iteration of the time thread began
    junk,      \* the digit after the hour in time_thread_entry's buf, or NoDigit
    read,      \* its local hour
    due,       \* the repaints the UI thread begins before the time thread wakes
    halted     \* the hard fault handler runs

\* History variables.
VARIABLES
    clean,     \* this repaint was not disturbed and found its pictures
    spoiled,   \* since the panel was last cleared whole, pixels of lcd_clear went
               \* astray, or others into the ground
    calm       \* the shell has not set the mode in this iteration

clock == <<hour, junk, read, due, calm>>
panel == <<screen, window, spoiled>>
look  == <<display_mode, curr, lcd, panel>>
heap  == <<waiting, granted>>
vars  == <<look, bmp, pc, heap, ink, shown, forecast, clock, halted, clean>>

NoColours == [back |-> None, fore |-> None]
Nothing   == [number |-> 1, buffer |-> 0, row |-> 0, torn |-> FALSE]

Init ==
    /\ display_mode = LIGHT
    /\ curr = NoColours /\ lcd = NoColours
    /\ bmp = 0
    /\ screen = [e \in Elements |-> None]
    /\ window = [owner |-> None, on |-> Ground] /\ spoiled = FALSE
    /\ pc = [t \in Threads |-> "idle"]
    /\ waiting = <<>> /\ granted = None
    /\ ink = [p \in Painters |-> NoColours]
    /\ shown = [p \in Painters |-> Nothing]
    /\ forecast = [p \in Painters |-> None]
    /\ hour = 0 /\ junk \in Junk \cup {NoDigit} /\ read = 0 /\ due = 0
    /\ halted = FALSE
    /\ clean = [p \in Painters |-> FALSE]
    /\ calm = FALSE

-----------------------------------------------------------------------------
(* Scheduling.                                                             *)

Ready(t) == pc[t] # "idle" /\ ~\E i \in DOMAIN waiting : waiting[i] = t

\* rt_schedule: no thread of a higher priority is ready.
Running(t) ==
    /\ ~halted
    /\ Ready(t)
    /\ \A u \in Threads : Ready(u) => Priority[u] >= Priority[t]

At(t, l)   == pc[t] = l /\ Running(t)
Goto(t, l) == pc' = [pc EXCEPT ![t] = l]

\* The steps that begin with an allocation, or free a block: in lcd_clear, the
\* fonts and files of the strings, the file and the row of a picture.
HeapSteps == {"fill", "free", "draw", "open", "malloc", "draw2", "temps"}

\* rt_sem_take(&heap->lock) finds the lock taken: by a thread outside this
\* model, or by one that waited longer.
Suspend(p) ==
    /\ pc[p] \in HeapSteps /\ granted # p
    /\ Running(p)
    /\ waiting' = Append(waiting, p)
    /\ UNCHANGED <<look, bmp, pc, granted, ink, shown, forecast, clock, halted, clean>>

\* rt_sem_release(&heap->lock) passes it to the first that waits.
Grant ==
    /\ waiting # <<>> /\ granted = None /\ ~halted
    /\ granted' = Head(waiting)
    /\ waiting' = Tail(waiting)
    /\ UNCHANGED <<look, bmp, pc, ink, shown, forecast, clock, halted, clean>>

\* A step that allocates takes the lock when nobody waits for it, and has given
\* it back at its end.
Allocates(p, l) ==
    IF l \in HeapSteps
    THEN (granted = p \/ (granted = None /\ waiting = <<>>)) /\ granted' = None
    ELSE UNCHANGED granted

-----------------------------------------------------------------------------
(* display_mode.                                                           *)

\* A change of the mode disturbs the repaints in progress.
SetMode(m, undisturbed) ==
    /\ display_mode' = m
    /\ clean' = [p \in Painters |-> clean[p] /\ (m = display_mode \/ p = undisturbed)]
    /\ UNCHANGED <<curr, lcd, panel, bmp, heap, ink, shown, forecast, halted>>

\* change_display_mode; its call of show_weather follows.
ChangeDisplayMode ==
    /\ At(Shell, "toggle")
    /\ SetMode(IF display_mode = DARK THEN LIGHT ELSE DARK, Shell)
    /\ Goto(Shell, "enter")
    /\ calm' = FALSE
    /\ UNCHANGED <<hour, junk, read, due>>

\* time_thread_entry after rt_thread_mdelay(60000), six periods of the UI
\* thread, of which one is kept: two digits of ctime are copied into buf, whose
\* third byte was never written, and converted.
TimeWakes ==
    /\ pc[Time] = "idle" /\ due = 0 /\ ~halted
    /\ hour' \in Hours
    /\ read' = IF junk = NoDigit THEN hour' ELSE (10 * hour' + junk) % 256
    /\ calm' = TRUE
    /\ Goto(Time, "dawn?")
    /\ UNCHANGED <<look, bmp, heap, ink, shown, forecast, junk, due, halted,
                   clean>>

\* One if: the test, and the assignment another thread may come before.
TimeTest(l, holds, then, else) ==
    /\ At(Time, l)
    /\ Goto(Time, IF holds THEN then ELSE else)
    /\ UNCHANGED <<look, bmp, heap, ink, shown, forecast, clock, halted, clean>>

TimeSet(l, m, next) ==
    /\ At(Time, l)
    /\ SetMode(m, None)
    /\ Goto(Time, next)
    /\ UNCHANGED clock

\* A dusk an hour late.
TestDuskLate == TimeTest("dusk?", display_mode = LIGHT /\ read > 18, "dusk", "over")

\* if (display_mode == DARK && hour > 5) display_mode = LIGHT;
\* if (display_mode == LIGHT && hour > 17) display_mode = DARK;
TestDawn == TimeTest("dawn?", display_mode = DARK /\ read > 5, "dawn", "dusk?")
TestDusk == TimeTest("dusk?", display_mode = LIGHT /\ read > 17, "dusk", "over")
SetLight == TimeSet("dawn", LIGHT, "dusk?")
SetDark  == TimeSet("dusk", DARK, "over")

TimeSleeps ==
    /\ At(Time, "over")
    /\ Goto(Time, "idle")
    /\ hour' = 0 /\ read' = 0 /\ calm' = FALSE
    /\ due' = IF UI \in Painters THEN Repaints ELSE 0
    /\ UNCHANGED <<look, bmp, heap, ink, shown, forecast, junk, halted, clean>>

-----------------------------------------------------------------------------
(* show_weather.                                                           *)

\* ui_thread_entry, change_city, change_display_mode.
Call(p) ==
    /\ pc[p] = "idle" /\ ~halted
    /\ Goto(p, IF p = Shell THEN "toggle" ELSE "enter")
    /\ clean' = [clean EXCEPT ![p] = \A q \in Painters : pc[q] = "idle"]
    /\ UNCHANGED <<look, bmp, heap, ink, shown, forecast, clock, halted>>

\* A step of a repaint disturbs the repaints of the others.
Paint(p, l, next) ==
    /\ At(p, l)
    /\ Allocates(p, l)
    /\ Goto(p, next)
    /\ clean' = [q \in Painters |-> clean[q] /\ q = p]
    /\ UNCHANGED <<display_mode, waiting, clock, halted>>

\* A comparison that only looks whether the colours were ever set.
CompareOnce(p) ==
    /\ Paint(p, "enter", IF curr.back = None THEN "back" ELSE "text")
    /\ UNCHANGED <<curr, lcd, panel, bmp, ink, shown, forecast>>

\* if (back_color_curr != back_color[display_mode])
Compare(p) ==
    /\ Paint(p, "enter", IF curr.back # display_mode THEN "back" ELSE "text")
    /\ UNCHANGED <<curr, lcd, panel, bmp, ink, shown, forecast>>

\* back_color_curr = back_color[display_mode]
CacheBack(p) ==
    /\ Paint(p, "back", "fore")
    /\ curr' = [curr EXCEPT !.back = display_mode]
    /\ UNCHANGED <<lcd, panel, bmp, ink, shown, forecast>>

\* A foreground that is not cached.
CacheForeNot(p) ==
    /\ Paint(p, "fore", "set")
    /\ UNCHANGED <<curr, lcd, panel, bmp, ink, shown, forecast>>

\* fore_color_curr = fore_color[display_mode]
CacheFore(p) ==
    /\ Paint(p, "fore", "set")
    /\ curr' = [curr EXCEPT !.fore = display_mode]
    /\ UNCHANGED <<lcd, panel, bmp, ink, shown, forecast>>

\* lcd_set_color(back_color_curr, fore_color_curr)
SetColor(p) ==
    /\ Paint(p, "set", "clear")
    /\ lcd' = curr
    /\ UNCHANGED <<curr, panel, bmp, ink, shown, forecast>>

\* The arguments of lcd_clear, and of the strings: lcd_disp_str_ch and
\* lcd_disp_str_en_ch with back_color_curr and fore_color_curr.
Arguments(p, l, next) ==
    /\ Paint(p, l, next)
    /\ ink' = [ink EXCEPT ![p] = curr]
    /\ UNCHANGED <<curr, lcd, panel, bmp, shown, forecast>>

\* A look is the mode of both colours, if it is the same.
Look(c) == IF c.back = c.fore THEN c.back ELSE None

\* lcd_address_set: pixels go where the last window is, whoever opened it.
\* None opened it once all pixels of a draw are sent.
Opens(p, e) == window' = [owner |-> p, on |-> e]

\* Pixels into a window another painter opened: they spoil what is there, and
\* the rest of the other's pixels is out of place.
Astray ==
    /\ screen' = [screen EXCEPT ![window.on] = None]
    /\ window' = [window EXCEPT !.owner = None]

\* lcd_clear opens the whole panel,
ClearWindow(p) ==
    /\ Paint(p, "window", "fill")
    /\ Opens(p, Ground)
    /\ UNCHANGED <<curr, lcd, screen, spoiled, bmp, ink, shown, forecast>>

\* allocates a buffer of pixels, without which it sends them one by one,
Fill(p) ==
    /\ Paint(p, "fill", "sends")
    /\ UNCHANGED <<curr, lcd, panel, bmp, ink, shown, forecast>>

\* sends them in 20 transfers, of which others may come between any two: here
\* the first and the other half,
ClearHalf(p, l, next, result, owner) ==
    /\ Paint(p, l, next)
    /\ IF window.owner = p THEN screen' = result /\ Opens(owner, Ground) ELSE Astray
    /\ UNCHANGED <<curr, lcd, bmp, shown, forecast>>

ClearBegins(p) ==
    /\ ClearHalf(p, "sends", "rest", [e \in Elements |-> None], p)
    /\ spoiled' = (spoiled \/ window.owner # p)
    /\ UNCHANGED ink

ClearEnds(p) ==
    /\ \E next \in {"free", "text"} :
          ClearHalf(p, "rest", next,
                    [e \in Elements |-> IF e = Ground THEN ink[p].back ELSE None], None)
    /\ spoiled' = (window.owner # p)
    /\ ink' = [ink EXCEPT ![p] = NoColours]

\* and frees the buffer, if there is one.
ClearFree(p) ==
    /\ Paint(p, "free", "text")
    /\ UNCHANGED <<curr, lcd, panel, bmp, ink, shown, forecast>>

\* The line, the strings and the time; the line and the time (lcd_draw_line,
\* lcd_show_string) are in the colours of the driver.
Draw(p) ==
    /\ Paint(p, "draw", "path")
    /\ screen' = [screen EXCEPT ![Text] = IF lcd = ink[p] THEN Look(lcd) ELSE None]
    /\ Opens(None, Text)
    /\ ink' = [ink EXCEPT ![p] = NoColours]
    /\ UNCHANGED <<curr, lcd, spoiled, bmp, shown, forecast>>

\* After the large picture: the temperature and the humidity of the moment (the
\* air quality has colours of its own).
Draw2(p) ==
    /\ Paint(p, "draw2", "branch")
    /\ screen' = [screen EXCEPT ![Text] = IF @ = Look(ink[p]) THEN @ ELSE None]
    /\ Opens(None, Text)
    /\ ink' = [ink EXCEPT ![p] = NoColours]
    /\ UNCHANGED <<curr, lcd, spoiled, bmp, shown, forecast>>

\* A path that is always the one by day.
PathByDay(p) ==
    /\ Paint(p, "path", "open")
    /\ ink' = [ink EXCEPT ![p] = [back |-> LIGHT, fore |-> LIGHT]]
    /\ UNCHANGED <<curr, lcd, panel, bmp, shown, forecast>>

\* get_weather_icon_path: "day" or "night" by display_mode; a small picture is
\* of the forecast the branch has selected.
Path(p) ==
    /\ Paint(p, "path", "open")
    /\ ink' = [ink EXCEPT ![p] =
            [back |-> IF shown[p].number = 1 THEN display_mode ELSE forecast[p],
             fore |-> display_mode]]
    /\ UNCHANGED <<curr, lcd, panel, bmp, shown, forecast>>

\* if (display_mode == LIGHT): the small pictures are of D_wtId, or of N_wtId.
Branch(p) ==
    /\ Paint(p, "branch", IF Len(Pictures) = 1 THEN "temps" ELSE "path")
    /\ forecast' = [forecast EXCEPT ![p] = display_mode]
    /\ UNCHANGED <<curr, lcd, panel, bmp, ink, shown>>

\* After the large picture come two strings, after the last small one the
\* temperatures; FollowingOn forgets to begin again.
Closed(p) ==
    CASE shown[p].number = 1 -> "text2"
      [] shown[p].number # 1 /\ shown[p].number = Len(Pictures) -> "temps"
      [] OTHER -> "path"
FollowingOn(p) == [Nothing EXCEPT !.number = shown[p].number + 1]
Following(p)   == [Nothing EXCEPT !.number = (shown[p].number % Len(Pictures)) + 1]

\* lcd_show_string: the temperatures, in the driver's colours.
Temperatures(p) ==
    /\ Paint(p, "temps", "done")
    /\ screen' = [screen EXCEPT ![Text] = IF @ = Look(lcd) THEN @ ELSE None]
    /\ Opens(None, Text)
    /\ forecast' = [forecast EXCEPT ![p] = None]
    /\ UNCHANGED <<curr, lcd, spoiled, bmp, ink, shown>>

\* The thread sleeps, or returns to its loop.
Return(p) ==
    /\ At(p, "done")
    /\ Goto(p, "idle")
    /\ due' = IF p = UI /\ due > 0 THEN due - 1 ELSE due
    /\ clean' = [clean EXCEPT ![p] = FALSE]
    /\ UNCHANGED <<look, bmp, heap, ink, shown, forecast, hour, junk, read, calm, halted>>

-----------------------------------------------------------------------------
(* Show_BMP.                                                               *)

\* open, the header into the shared bmp, lseek and the window.
Open(p) ==
    /\ Paint(p, "open", "malloc")
    /\ bmp' = Pictures[shown[p].number]
    /\ Opens(p, shown[p].number)
    /\ UNCHANGED <<curr, lcd, screen, spoiled, ink, shown, forecast>>

\* open fails: the file is not on the card, or there is no card.
OpenFails(p) ==
    /\ At(p, "open")
    /\ Allocates(p, "open")
    /\ Goto(p, Closed(p))
    /\ shown' = [shown EXCEPT ![p] = Following(p)]
    /\ ink' = [ink EXCEPT ![p] = NoColours]
    /\ clean' = [clean EXCEPT ![p] = FALSE]
    /\ UNCHANGED <<look, bmp, waiting, forecast, clock, halted>>

\* buffer = rt_malloc(bmp.pic_w_l * 3), from what bmp says by now; NULL when
\* the heap is full.
Malloc(p) ==
    /\ Paint(p, "malloc", "row")
    /\ \E n \in {0, bmp} : shown' = [shown EXCEPT ![p].buffer = n]
    /\ UNCHANGED <<curr, lcd, panel, bmp, ink, forecast>>

\* With this row the picture is complete: all rows had its width.
Completes(p) ==
    LET extent == Pictures[shown[p].number] IN
    ~shown[p].torn /\ bmp = extent /\ shown[p].row + 1 = extent

\* A row of the width bmp gives now is read into the buffer and sent; through
\* NULL it is a hard fault.  The rows are the picture's if the width and the
\* window are.
Row(p) ==
    /\ At(p, "row")
    /\ shown[p].row < bmp
    /\ \/ shown[p].buffer = 0 /\ halted' = TRUE /\ UNCHANGED <<shown, panel>>
       \/ /\ shown[p].buffer # 0 /\ UNCHANGED halted
          /\ shown' = [shown EXCEPT ![p].row = @ + 1,
                ![p].torn = @ \/ bmp # Pictures[shown[p].number] \/ window.owner # p]
          /\ IF window.owner = p
             THEN /\ screen' = [screen EXCEPT ![shown[p].number] =
                                    IF Completes(p) THEN Look(ink[p]) ELSE None]
                  /\ UNCHANGED <<window, spoiled>>
             ELSE Astray /\ spoiled' = (spoiled \/ window.on = Ground)
    /\ clean' = [q \in Painters |-> clean[q] /\ q = p]
    /\ UNCHANGED <<display_mode, curr, lcd, bmp, pc, heap, ink, forecast, clock>>

\* The loop over bmp.pic_h_l rows ends: rt_free, close.
Close(p) ==
    /\ Paint(p, "row", Closed(p))
    /\ shown[p].row >= bmp
    /\ shown' = [shown EXCEPT ![p] = Following(p)]
    /\ ink' = [ink EXCEPT ![p] = NoColours]
    /\ window' = [window EXCEPT !.owner = IF @ = p THEN None ELSE @]
    /\ UNCHANGED <<curr, lcd, screen, spoiled, bmp, forecast>>

-----------------------------------------------------------------------------
ClearCall(p) == Arguments(p, "clear", "window")
TextCall(p)  == Arguments(p, "text", "draw")
Text2Call(p) == Arguments(p, "text2", "draw2")

Work(p) ==
    \/ Compare(p) \/ CacheBack(p) \/ CacheFore(p) \/ SetColor(p) \/ ClearCall(p)
    \/ ClearWindow(p) \/ Fill(p) \/ ClearBegins(p) \/ ClearEnds(p) \/ ClearFree(p)
    \/ TextCall(p) \/ Draw(p) \/ Path(p) \/ Open(p) \/ OpenFails(p) \/ Malloc(p)
    \/ Row(p) \/ Close(p) \/ Text2Call(p) \/ Draw2(p) \/ Branch(p)
    \/ Temperatures(p) \/ Return(p)

TimeWork == TestDawn \/ SetLight \/ TestDusk \/ SetDark \/ TimeSleeps

Next ==
    \/ TimeWakes \/ TimeWork
    \/ Shell \in Painters /\ ChangeDisplayMode
    \/ Grant
    \/ \E p \in Painters : Call(p) \/ Suspend(p) \/ Work(p)

\* Delays expire.  The time thread may never run and the heap's lock never come
\* free: the key thread, which polls without a delay, is above the time thread
\* and above threads that take the lock.
Fairness ==
    /\ WF_vars(TimeWakes)
    /\ UI \in Painters => WF_vars(Call(UI))

Spec == Init /\ [][Next]_vars /\ Fairness

-----------------------------------------------------------------------------
(* Properties.                                                             *)

Colours == [back : Modes \cup {None}, fore : Modes \cup {None}]

PictureStates ==
    [number : DOMAIN Pictures, buffer : Nat, row : Nat, torn : BOOLEAN]

PainterSteps == {"idle", "toggle", "enter", "back", "fore", "set", "clear", "window", "fill",
                 "sends", "rest", "free", "text", "draw", "path", "open", "malloc", "row", "text2", "draw2",
                 "branch", "temps", "done"}
TimeSteps    == {"idle", "dawn?", "dawn", "dusk?", "dusk", "over"}

\* Every variable has its type.
TypeOK ==
    /\ display_mode \in Modes
    /\ curr \in Colours /\ lcd \in Colours
    /\ bmp \in Nat
    /\ screen \in [Elements -> Modes \cup {None}]
    /\ window \in [owner : Painters \cup {None}, on : Elements] /\ spoiled \in BOOLEAN
    /\ pc \in [Threads -> PainterSteps \cup TimeSteps]
    /\ pc[Time] \in TimeSteps /\ \A p \in Painters : pc[p] \in PainterSteps
    /\ waiting \in Seq(Painters) /\ granted \in Painters \cup {None}
    /\ ink \in [Painters -> Colours]
    /\ shown \in [Painters -> PictureStates]
    /\ forecast \in [Painters -> Modes \cup {None}]
    /\ hour \in 0 .. 23 /\ junk \in Junk \cup {NoDigit} /\ read \in 0 .. 255
    /\ due \in 0 .. Repaints /\ halted \in BOOLEAN
    /\ clean \in [Painters -> BOOLEAN] /\ calm \in BOOLEAN

\* The cached colours and the driver's are the two colours of one mode, except
\* while a painter is changing them: no interleaving of the painters leaves
\* them mixed.
ColoursAgree ==
    (\A p \in Painters : pc[p] \notin {"fore", "set"}) =>
        lcd = curr /\ curr.back = curr.fore

\* A repaint that nobody disturbs, and that finds its files, leaves the strings
\* and the pictures in the look of display_mode, whatever it found there.  So
\* does the ground, although it is cleared only when the cached colour differs,
\* unless an earlier lcd_clear was interrupted or others sent pixels into it.
UndisturbedRepaint ==
    \A p \in Painters : pc[p] = "done" /\ clean[p] =>
        \A e \in Elements : screen[e] = display_mode \/ (e = Ground /\ spoiled)

\* When the time thread has been through an iteration that the shell did not
\* disturb, with no junk behind the hour, the mode is the one of the hour it
\* found: light from 6, dark from 18.
ModeFollowsClock ==
    pc[Time] = "over" /\ calm /\ junk = NoDigit =>
        /\ hour \in 6 .. 17 => display_mode = LIGHT
        /\ hour > 17 => display_mode = DARK

\* In the evening the screen gets dark: again and again it is all of it dark, but
\* for a ground an earlier overlap has spoilt, if the other painters are left
\* alone, no picture is missing and the mode does not flip during a repaint (as
\* the time thread makes it do at night), as long as the time thread and the UI
\* thread come to the end of what they do.
EveningGetsDark ==
    /\ <>[](/\ pc[Time] # "idle" => hour > 17
            /\ junk = NoDigit /\ ~halted
            /\ \A p \in Painters \ {UI} : pc[p] = "idle"
            /\ pc[UI] = "done" => clean[UI])
    /\ []<>(pc[Time] = "idle") /\ []<>(pc[UI] = "idle")
    => []<>(\A e \in Elements : screen[e] = DARK \/ (e = Ground /\ spoiled))

\* memheap.c: RT_ASSERT that the header after a freed block is intact.  So a
\* row never goes past the end of the buffer allocated for it.
RowFitsBuffer ==
    \A p \in Painters : pc[p] = "row" /\ shown[p].buffer > 0 /\ shown[p].row < bmp =>
        bmp <= shown[p].buffer

-----------------------------------------------------------------------------
(* The strengthening that makes the invariants inductive.                  *)

\* Who waits for the heap, or was given it, is where it allocates; how far the
\* pictures have come.
HeapInv ==
    /\ \A i \in DOMAIN waiting : pc[waiting[i]] \in HeapSteps
    /\ granted # None => pc[granted] \in HeapSteps

Showing == {"path", "open", "malloc", "row"}

PictureInv == \A p \in Painters :
    /\ pc[p] \in {"text2", "draw2", "branch"} =>
          shown[p].number = (1 % Len(Pictures)) + 1
    /\ pc[p] \notin Showing \cup {"text2", "draw2", "branch"} => shown[p].number = 1
    /\ pc[p] # "row" => shown[p].row = 0 /\ ~shown[p].torn

\* Nobody below them sets the mode while painters change the colours, and so
\* they all change them to the same.
ColourInv == \A p \in Painters :
    /\ pc[p] \in {"fore", "set", "clear", "window"} => curr.back = display_mode
    /\ pc[p] \in {"set", "clear"} => curr.fore = display_mode
    /\ pc[p] = "clear" => lcd = curr
    /\ pc[p] = "window" => ink[p].back = display_mode

\* Painters about to open the panel's window to clear it, and those that have.
Early    == {"fore", "set", "clear", "window"}
Clearing == {"fill", "sends", "rest"}

\* Who owns the window and clears the panel does it in the colour cached last;
\* when nobody clears it, the ground has that colour or is spoilt.
GroundInv ==
    (\A p \in Painters : pc[p] \notin Early) =>
        /\ \A p \in Painters : window.owner = p /\ pc[p] \in Clearing =>
              ink[p].back = curr.back
        /\ (\A p \in Painters : pc[p] \notin Clearing) =>
              spoiled \/ screen[Ground] = curr.back

\* What a repaint that nobody disturbed has done so far.
Before == {"toggle", "enter", "back", "fore", "set"}
Painted(p, e) ==
    \/ pc[p] \in Showing /\ e < shown[p].number
    \/ pc[p] \in {"text2", "draw2", "branch"} /\ e = 1
    \/ pc[p] \in {"temps", "done"}

Undisturbed(p) ==
    /\ pc[p] # "idle"
    /\ \A q \in Painters \ {p} : pc[q] \in {"idle", "toggle", "enter"}
    /\ pc[p] \notin Before =>
          lcd = curr /\ curr.back = display_mode /\ curr.fore = display_mode
    /\ pc[p] \in Clearing \cup {"window", "draw", "draw2", "open", "malloc", "row"} =>
          ink[p].back = display_mode /\ ink[p].fore = display_mode
    /\ pc[p] \in Clearing \cup {"malloc", "row"} => window.owner = p
    /\ pc[p] \in Showing /\ shown[p].number # 1 => forecast[p] = display_mode
    /\ pc[p] \in {"malloc", "row"} => bmp = Pictures[shown[p].number]
    /\ pc[p] = "row" =>
          /\ ~shown[p].torn /\ shown[p].row <= bmp
          /\ shown[p].row = bmp => screen[shown[p].number] = display_mode
    /\ pc[p] \notin Before \cup {"clear", "window"} \cup Clearing =>
          spoiled \/ screen[Ground] = display_mode
    /\ pc[p] \notin Before \cup {"clear", "window", "free", "text", "draw"} \cup Clearing =>
          screen[Text] = display_mode
    /\ \A e \in DOMAIN Pictures : Painted(p, e) => screen[e] = display_mode

CleanInv == \A p \in Painters : clean[p] => Undisturbed(p)

\* What an iteration of the time thread that nobody disturbed has established.
ClockInv ==
    calm /\ junk = NoDigit =>
        /\ pc[Time] # "idle" /\ read = hour
        /\ pc[Time] = "dawn" => hour > 5
        /\ pc[Time] = "dusk?" /\ hour > 5 => display_mode = LIGHT
        /\ pc[Time] = "dusk" => hour > 17

IInv == /\ TypeOK /\ HeapInv /\ PictureInv /\ ColourInv /\ ColoursAgree
        /\ GroundInv /\ CleanInv /\ ClockInv /\ ModeFollowsClock
=============================================================================
