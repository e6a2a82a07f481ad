---------------------------- MODULE WeatherFetch ----------------------------
(***************************************************************************)
(* applications/weather.c and the part of applications/ui.c that reads     *)
(* what it stores.                                                         *)
(*                                                                         *)
(* The globals area_id, rt and wt are shared, without any lock, by         *)
(*   - the "weather" thread, which calls fetch_weather() periodically;     *)
(*   - the "asr" and "key" threads, which call change_city(): assign       *)
(*     area_id, fetch_weather(), show_weather();                           *)
(*   - the "UI" thread and the shell's change_display_mode, which call     *)
(*     show_weather().                                                     *)
(*                                                                         *)
(* A field of rt / wt is abstracted to the city its value describes: that  *)
(* is what tells a consistent picture from a torn or a stale one.          *)
(* weather_data_parse stores NFields fields one after the other (19 in the *)
(* code); every store is a step of its own, and the text fields area_1,    *)
(* area_2 and wtNm are blanked first, in another step, so that any         *)
(* preemption between two of these is a behaviour of the model.  The day   *)
(* and the night icon of one day count as one field of the screen.         *)
(* Threads interleave freely, which includes every schedule the priorities *)
(* of RT-Thread allow.                                                     *)
(***************************************************************************)
EXTENDS Naturals

CONSTANTS
    Refreshers,   \* threads in weather_thread_entry
    Changers,     \* threads that call change_city (asr, key)
    Viewers,      \* threads that call show_weather only (UI, shell)
    Cities,       \* the area codes change_city is called with
    DefaultCity,  \* the initial area_id, 265
    NFields,      \* stores into rt and wt made by one weather_data_parse
    TextFields,   \* the fields blanked before they are stored
    Pictures,     \* the fields shown by Show_BMP as a picture from a file
    Blank,        \* the zero-initialised content of rt and wt
    Garbage       \* what a store through a missing JSON item leaves

Threads == Refreshers \cup Changers \cup Viewers

\* A thread that fetches is in one of the two loops.  A thread may stand for a
\* refresher and a viewer that take turns.
ASSUME ThreadsAssumption == Refreshers \cap Changers = {}

ASSUME DataAssumption ==
    /\ DefaultCity \in Cities
    /\ NFields \in Nat \ {0}
    /\ Blank \notin Cities
    /\ Garbage \notin Cities

Fields == 1 .. NFields

ASSUME KindsAssumption == TextFields \subseteq Fields /\ Pictures \subseteq Fields

Values == Cities \cup {Blank, Garbage}

\* The heap blocks one fetch_weather may own: its three locals and the cJSON
\* tree of weather_data_parse.
Blocks == {"url", "session", "buffer", "root"}

\* What cJSON and the checks of weather_data_parse can tell of a body:
\*   nojson     cJSON_Parse returns NULL (no JSON, or no memory for the tree)
\*   nosuccess  no "success" item: object->valuestring reads through NULL
\*   reject     success is not "1"
\*   partial    success is "1" but an item is missing (or a conversion found
\*              no memory): some store reads through NULL
\*   full       every item is there
Bodies == {"nojson", "nosuccess", "reject", "partial", "full"}

VARIABLES
    area_id,  \* the selected city
    data,     \* rt and wt: the city each field describes
    screen,   \* the city each painted field describes
    pc,       \* where each thread is
    live,     \* the heap blocks each thread's fetch has not given back
    url,      \* the city weather_url asks for
    body,     \* the response read into buffer
    pos,      \* the next field weather_data_parse stores
    todo,     \* the fields show_weather has still to paint
    drawing,  \* the <<field, value>> formatted and not painted yet
    halted    \* the hard fault handler runs: nothing else does

\* History variables: no action's guard reads them.
VARIABLES
    solo,     \* nobody disturbed this thread's fetch since it built its URL
    fresh,    \* the last store ended a fetch that ran undisturbed
    clean,    \* this thread's repaint began fresh and was not disturbed
    kept,     \* the pictures this thread's repaint could not load
    stale     \* the fields no undisturbed repaint has brought up to date

vars == <<area_id, data, screen, pc, live, url, body, pos, todo, drawing,
          halted, solo, fresh, clean, kept, stale>>

\* What a fetch leaves alone while it only moves along its own locals.
sharedVars == <<area_id, data, screen, todo, drawing, halted>>
history    == <<solo, fresh, clean, kept, stale>>

PCs == {"idle", "alloc_url", "build_url", "session", "get", "buffer", "read",
        "parse", "check", "store", "copy", "delete", "exit", "show", "draw"}

\* The globals are zero or statically initialised (weather.c) and nobody has
\* started a fetch.
Init ==
    /\ area_id = DefaultCity
    /\ data    = [f \in Fields |-> Blank]
    /\ screen  = [f \in Fields |-> Blank]
    /\ pc      = [t \in Threads |-> "idle"]
    /\ live    = [t \in Threads |-> {}]
    /\ url     = [t \in Threads |-> DefaultCity]
    /\ body    = [t \in Threads |-> "nojson"]
    /\ pos     = [t \in Threads |-> 1]
    /\ todo    = [t \in Threads |-> {}]
    /\ drawing = [t \in Threads |-> <<1, Blank>>]
    /\ halted  = FALSE
    /\ solo    = [t \in Threads |-> FALSE]
    /\ fresh   = FALSE
    /\ clean   = [t \in Threads |-> FALSE]
    /\ kept    = [t \in Threads |-> {}]
    /\ stale   = Fields

At(t, l)   == ~halted /\ pc[t] = l
Goto(t, l) == pc' = [pc EXCEPT ![t] = l]

-----------------------------------------------------------------------------
(* Entry points.                                                           *)

\* weather_thread_entry: one turn of its loop calls fetch_weather().
Refresh(t) ==
    /\ t \in Refreshers
    /\ At(t, "idle")
    /\ Goto(t, "alloc_url")
    /\ UNCHANGED <<sharedVars, live, url, body, pos, history>>

\* change_city: the assignment to area_id, before the calls that follow.
ChangeCity(t) ==
    /\ t \in Changers
    /\ At(t, "idle")
    /\ area_id' \in Cities
    /\ Goto(t, "alloc_url")
    /\ solo' = [u \in Threads |-> FALSE]
    /\ clean' = [u \in Threads |-> FALSE]
    /\ fresh' = FALSE
    /\ stale' = Fields
    /\ UNCHANGED <<data, screen, live, url, body, pos, todo, drawing, halted,
                   kept>>

\* ui_thread_entry, change_display_mode: a call of show_weather.
View(t) ==
    /\ t \in Viewers
    /\ At(t, "idle")
    /\ Goto(t, "show")
    /\ todo' = [todo EXCEPT ![t] = Fields]
    /\ clean' = [clean EXCEPT ![t] = fresh]
    /\ UNCHANGED <<area_id, data, screen, live, url, body, pos, drawing, halted,
                   solo, fresh, kept, stale>>

-----------------------------------------------------------------------------
(* fetch_weather.  Every failure jumps to __exit.                          *)

\* An allocation that gives the block b and goes on at l, or fails.
Alloc(t, from, b, l) ==
    /\ At(t, from)
    /\ \/ /\ live' = [live EXCEPT ![t] = @ \cup {b}]
          /\ Goto(t, l)
       \/ /\ Goto(t, "exit")
          /\ UNCHANGED live
    /\ UNCHANGED <<sharedVars, url, body, pos, history>>

\* rt_calloc of weather_url.
AllocUrl(t) == Alloc(t, "alloc_url", "url", "build_url")

\* rt_snprintf of GET_URI: area_id is read here and nowhere else.
BuildUrl(t) ==
    /\ At(t, "build_url")
    /\ url' = [url EXCEPT ![t] = area_id]
    /\ Goto(t, "session")
    /\ solo' = [solo EXCEPT ![t] = TRUE]
    /\ UNCHANGED <<sharedVars, live, body, pos, fresh, clean, kept, stale>>

\* webclient_session_create.
CreateSession(t) == Alloc(t, "session", "session", "get")

\* webclient_get: status 200, or any error, timeout or other status.
Get(t) ==
    /\ At(t, "get")
    /\ \E l \in {"buffer", "exit"} : Goto(t, l)
    /\ UNCHANGED <<sharedVars, live, url, body, pos, history>>

\* rt_calloc of buffer.
AllocBuffer(t) == Alloc(t, "buffer", "buffer", "read")

\* The read loops: whatever the server and the loops leave in buffer.
Read(t) ==
    /\ At(t, "read")
    /\ \E b \in Bodies : body' = [body EXCEPT ![t] = b]
    /\ Goto(t, "parse")
    /\ UNCHANGED <<sharedVars, live, url, pos, history>>

\* weather_data_parse: cJSON_Parse gives the tree or NULL.
Parse(t) ==
    /\ At(t, "parse")
    /\ IF body[t] = "nojson"
       THEN Goto(t, "exit") /\ UNCHANGED live
       ELSE Goto(t, "check") /\ live' = [live EXCEPT ![t] = @ \cup {"root"}]
    /\ UNCHANGED <<sharedVars, url, body, pos, history>>

\* A parse that forgets to look at "success".
CheckNothing(t) ==
    /\ At(t, "check")
    /\ Goto(t, "store")
    /\ UNCHANGED <<sharedVars, live, url, body, pos, history>>

\* The check of "success": unless it is "1" the parse jumps to its __exit.
\* Without a "success" item the pointer read through NULL finds the vector
\* table: a fault, or some text that is not "1".
Check(t) ==
    /\ At(t, "check")
    /\ \/ /\ body[t] \in {"nosuccess", "reject"}
          /\ Goto(t, "delete")
          /\ UNCHANGED halted
       \/ /\ body[t] = "nosuccess"
          /\ halted' = TRUE
          /\ UNCHANGED pc
       \/ /\ body[t] \in {"partial", "full"}
          /\ Goto(t, "store")
          /\ UNCHANGED halted
    /\ UNCHANGED <<area_id, data, screen, todo, drawing, live, url, body, pos,
                   history>>

\* A fault on a missing item: the hard fault handler never returns.
StoreFault(t) ==
    /\ At(t, "store") \/ At(t, "copy")
    /\ body[t] = "partial"
    /\ halted' = TRUE
    /\ UNCHANGED <<area_id, data, screen, pc, live, url, body, pos, todo,
                   drawing, history>>

\* rt_memset of a text field: until the conversion to GBK is done and copied
\* the field is blank for everybody.
Clear(t) ==
    /\ At(t, "store")
    /\ pos[t] \in TextFields
    /\ data' = [data EXCEPT ![pos[t]] = Blank]
    /\ Goto(t, "copy")
    /\ solo' = [u \in Threads |-> u = t /\ solo[t]]
    /\ fresh' = FALSE
    /\ clean' = [u \in Threads |-> FALSE]
    /\ UNCHANGED <<area_id, screen, live, url, body, pos, todo, drawing, halted,
                   kept, stale>>

\* What a store may leave: the city asked for; garbage, when the item may be
\* missing, or when rt_memcpy writes a text over another city's that was
\* copied since the rt_memset, and leaves its tail.
Stored(t) ==
    {url[t]} \cup
    IF body[t] = "full" /\ (pc[t] = "copy" => data[pos[t]] \in {Blank, url[t]})
    THEN {} ELSE {Garbage}

\* One store of weather_data_parse into rt or wt, the last one being last.
StoreUpTo(t, last) ==
    /\ At(t, IF pos[t] \in TextFields THEN "copy" ELSE "store")
    /\ \E v \in Stored(t) :
          /\ data' = [data EXCEPT ![pos[t]] = v]
          /\ solo' = [u \in Threads |-> u = t /\ solo[t] /\ v = url[t]]
          /\ fresh' = (solo[t] /\ v = url[t] /\ pos[t] = last)
    /\ clean' = [u \in Threads |-> FALSE]
    /\ IF pos[t] = last
       THEN Goto(t, "delete") /\ UNCHANGED pos
       ELSE Goto(t, "store") /\ pos' = [pos EXCEPT ![t] = @ + 1]
    /\ UNCHANGED <<area_id, screen, live, url, body, todo, drawing, halted,
                   kept, stale>>

\* A store loop that runs one field too far, and one that stops one short.
StoreOneMore(t) == StoreUpTo(t, NFields + 1)
StoreOneLess(t) == StoreUpTo(t, NFields - 1)

Store(t) == StoreUpTo(t, NFields)

\* The label __exit of weather_data_parse: cJSON_Delete of the tree.
DeleteRoot(t) ==
    /\ At(t, "delete")
    /\ live' = [live EXCEPT ![t] = @ \ {"root"}]
    /\ Goto(t, "exit")
    /\ UNCHANGED <<sharedVars, url, body, pos, history>>

\* fetch_weather's __exit frees what it is given and its locals go out of
\* scope; change_city then calls show_weather, the weather thread sleeps.
ExitFreeing(t, freed) ==
    /\ At(t, "exit")
    /\ live' = [live EXCEPT ![t] = @ \ freed]
    /\ url' = [url EXCEPT ![t] = DefaultCity]
    /\ body' = [body EXCEPT ![t] = "nojson"]
    /\ pos' = [pos EXCEPT ![t] = 1]
    /\ solo' = [solo EXCEPT ![t] = FALSE]
    /\ IF t \in Changers
       THEN /\ Goto(t, "show")
            /\ todo' = [todo EXCEPT ![t] = Fields]
            /\ clean' = [clean EXCEPT ![t] = fresh]
       ELSE /\ Goto(t, "idle")
            /\ UNCHANGED <<todo, clean>>
    /\ UNCHANGED <<area_id, data, screen, drawing, halted, fresh, kept, stale>>

\* An __exit that does not close the session.
ExitLeaksSession(t) == ExitFreeing(t, {"url", "buffer"})

Exit(t) == ExitFreeing(t, {"url", "session", "buffer"})

-----------------------------------------------------------------------------
(* show_weather.  A field is read and formatted, then painted; the order   *)
(* of the fields on the screen is left open.                               *)

\* rt_sprintf / get_weather_icon_path: read one field of rt or wt.
ShowRead(t) ==
    /\ At(t, "show")
    /\ \E f \in todo[t] : drawing' = [drawing EXCEPT ![t] = <<f, data[f]>>]
    /\ Goto(t, "draw")
    /\ UNCHANGED <<area_id, data, screen, live, url, body, pos, todo, halted,
                   history>>

\* The call that paints the field: it shows the value read, or leaves what
\* was there.  The call that is done is the last one of show_weather.
DrawThen(t, shown, done) ==
    LET f    == drawing[t][1]
        left == IF shown THEN kept[t] ELSE kept[t] \cup {f}
    IN
    /\ At(t, "draw")
    /\ screen' = IF shown THEN [screen EXCEPT ![f] = drawing[t][2]] ELSE screen
    /\ todo' = [todo EXCEPT ![t] = IF done THEN {} ELSE @ \ {f}]
    /\ drawing' = [drawing EXCEPT ![t] = <<1, Blank>>]
    /\ clean' = [u \in Threads |-> u = t /\ ~done /\ clean[t]]
    /\ kept' = [kept EXCEPT ![t] = IF done THEN {} ELSE left]
    /\ stale' = IF done /\ clean[t] THEN left ELSE Fields
    /\ Goto(t, IF done THEN "idle" ELSE "show")
    /\ UNCHANGED <<area_id, data, live, url, body, pos, halted, solo, fresh>>

\* A show_weather that returns after the first field.
DrawStopsEarly(t) == DrawThen(t, TRUE, TRUE)

\* lcd_disp_str_en_ch, lcd_show_string, or Show_BMP of a file that is there.
ShowDraw(t) == DrawThen(t, TRUE, todo[t] = {drawing[t][1]})

\* Show_BMP of a file that cannot be opened, such as unknow.bmp, or that is no
\* bitmap: it returns and the old picture stays.
DrawFails(t) ==
    /\ drawing[t][1] \in Pictures
    /\ DrawThen(t, FALSE, todo[t] = {drawing[t][1]})

-----------------------------------------------------------------------------
Step(t) ==
    \/ Refresh(t) \/ ChangeCity(t) \/ View(t)
    \/ AllocUrl(t) \/ BuildUrl(t) \/ CreateSession(t) \/ Get(t)
    \/ AllocBuffer(t) \/ Read(t) \/ Parse(t) \/ Check(t) \/ StoreFault(t)
    \/ Clear(t) \/ Store(t) \/ DeleteRoot(t) \/ Exit(t)
    \/ ShowRead(t) \/ ShowDraw(t) \/ DrawFails(t)

Next == \E t \in Threads : Step(t)

Spec == Init /\ [][Next]_vars

-----------------------------------------------------------------------------
(* Properties.                                                             *)

\* Every variable has its type.
TypeOK ==
    /\ area_id \in Cities
    /\ data \in [Fields -> Values]
    /\ screen \in [Fields -> Values]
    /\ pc \in [Threads -> PCs]
    /\ live \in [Threads -> SUBSET Blocks]
    /\ url \in [Threads -> Cities]
    /\ body \in [Threads -> Bodies]
    /\ pos \in [Threads -> Fields]
    /\ todo \in [Threads -> SUBSET Fields]
    /\ drawing \in [Threads -> Fields \X Values]
    /\ halted \in BOOLEAN
    /\ solo \in [Threads -> BOOLEAN]
    /\ fresh \in BOOLEAN
    /\ clean \in [Threads -> BOOLEAN]
    /\ kept \in [Threads -> SUBSET Fields]
    /\ stale \in SUBSET Fields

\* On every path through fetch_weather and weather_data_parse, failures at any
\* allocation, of the request, of the parse included, what was allocated is
\* given back: a thread outside fetch_weather owns no url, session, buffer or
\* cJSON tree.
NoLeak == \A t \in Threads :
    pc[t] \in {"idle", "alloc_url", "show", "draw"} => live[t] = {}

\* A fetch that nobody disturbed (no other thread stored a field or assigned
\* area_id between its rt_snprintf of the URL and its last store) leaves rt and
\* wt describing the selected city in every field: the data are torn or stale
\* only through an overlap of two fetches.
FreshIsConsistent == fresh => \A f \in Fields : data[f] = area_id

\* End to end: a repaint that began after such a fetch, and during which no
\* other thread blanked or stored a field, changed the city or painted, leaves
\* every field of the screen showing the selected city, but for the pictures
\* whose file it could not load: those keep what was there.
PaintedShowsCity == \A f \in Fields \ stale : screen[f] = area_id

\* A response that is no JSON, or that does not report success, never changes
\* a field of rt or wt: only a body with success = "1" is stored.
OnlyAcceptedBodiesStored ==
    [][data' # data => \E t \in Threads :
          pc[t] \in {"store", "copy"} /\ body[t] \in {"partial", "full"}]_vars

-----------------------------------------------------------------------------
(* The strengthening that makes the invariants above inductive.            *)

\* The labels between the rt_snprintf of the URL and the last store.
Window == {"session", "get", "buffer", "read", "parse", "check", "store",
           "copy"}

LiveInv == \A t \in Threads :
    live[t] \subseteq
        IF pc[t] \in {"idle", "alloc_url", "show", "draw"} THEN {}
        ELSE IF pc[t] \in {"check", "store", "copy", "delete"} THEN Blocks
        ELSE Blocks \ {"root"}

StoreInv == \A t \in Threads :
    pc[t] \in {"store", "copy"} => body[t] \in {"partial", "full"}

\* pos goes back to the first field before the next fetch.
PosInv == \A t \in Threads :
    pc[t] \notin {"store", "copy", "delete", "exit"} => pos[t] = 1

SoloInv == \A t \in Threads :
    solo[t] /\ pc[t] \in Window =>
        /\ url[t] = area_id
        /\ \A f \in Fields : f < pos[t] => data[f] = area_id

CleanInv == \A t \in Threads :
    clean[t] =>
        /\ fresh
        /\ pc[t] \in {"show", "draw"}
        /\ \A f \in Fields \ (todo[t] \cup kept[t]) : screen[f] = area_id
        /\ pc[t] = "draw" => drawing[t][2] = area_id

IInv == /\ TypeOK /\ LiveInv /\ StoreInv /\ PosInv /\ SoloInv /\ CleanInv
        /\ FreshIsConsistent /\ PaintedShowsCity
=============================================================================
