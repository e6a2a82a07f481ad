# Weather-Station: a TLA+ verification project

Weather-Station is the firmware of a weather display on an STM32L4 Pandora
board: RT-Thread, a WLAN module, lwIP, the `webclient` HTTP package, an LCD, an
SD card with icons, a voice module on I2C and two buttons. The application is
in `src/1. 源代码/applications/`; everything else in the repository is the
RT-Thread kernel, its components and packages, and vendor libraries.

Paths below are relative to `src/1. 源代码/`.

## 1. Inventory

| Component | State it keeps | Operations | Hard behaviour |
|---|---|---|---|
| weather data (`applications/weather.c`) | `area_id`, `rt`, `wt[3]` (globals, no lock); per call: URL, session, buffer, JSON tree | `fetch_weather`, `weather_data_parse`, `change_city`, the weather thread | three threads fetch and store at once; every step of a fetch can fail; a body arrives in pieces |
| network connection (`applications/wifi.c`) | `net_state`, `net_ready` (global semaphore) | `wifi_connect`, four callbacks, the wifi thread, the shell command `wifi_connect_test` | time-out against a late READY, retries, a callback in another thread, two overlapping calls |
| voice and key input (`applications/asr.c`) | I2C handle `hi2c1`, `id` of the key thread | `asr_init`, `asr_thread_entry`, `key_thread_entry`, `key_irq_entry` | polling without a delay, an interrupt that shares the I2C handle, a voice module that refuses or falls silent |
| user interface (`applications/ui.c`) | `display_mode`, the current colours | `show_weather`, UI thread, time thread, `change_display_mode` | readers of data that change under them, several painters, a mode that flips while it is read |
| bitmap display (`applications/bmp.c`) | shared BMP header and point | `Show_BMP` | header shared by all painters and read again after the buffer was sized |
| LED loop (`applications/main.c`) | a pin | `main` | none |
| panel driver (`drivers/drv_lcd.c`, `drivers/display_ch.c`) | window, DC pin, colours | `lcd_*` | no lock around window + pixels, the pin outside the lock of the bus |
| radio bring-up (`drivers/drv_wlan.c`), SD mount (`drivers/sdcard_port.c`) | initialisation flags | boot threads | none that the application meets |
| HTTP client (`packages/webclient-v2.1.2`) | session: socket, lengths, chunk | `webclient_get`, `webclient_read`, `webclient_close` | pieces, stalls, early close |
| board drivers (`drivers/`), STM32 HAL (`libraries/`) | tick, I2C handle, SPI bus | `SysTick_Handler`, `HAL_GetTick`, `HAL_I2C_Master_*`, `spixfer` | time-outs over a tick that wraps, a lock that is no atomic test-and-set |
| kernel and network stack (`rt-thread/`) | semaphores, ready queues, heap lock, WLAN state, transmit mailbox | `rt_sem_*`, `rt_schedule`, `rt_memheap_*`, `rt_wlan_*`, `eth_tx_thread_entry` | strict priorities, no priority inheritance on the heap's lock |

Interaction: the wifi thread sets `net_state`; the UI, time, asr, key and
weather threads poll it and then run their loops. The weather thread calls
`fetch_weather`; asr and key call `change_city`, which assigns `area_id`,
fetches and repaints; the UI thread and the shell repaint. All of them share
`area_id`, `rt`, `wt`, the panel, the heap and the network's transmit thread.

What makes each component correct:

- weather data: no path leaks; a rejected answer changes nothing; the data and
  the screen describe the selected city unless two activities overlapped; the
  buffer is never overrun and the loops end.
- network connection: the semaphore exists whenever it is used; success means a
  READY of this call; nothing but failed joins leaves a semaphore behind; no
  call hangs before the station is on line.
- threads: a key press is carried through; the others get on whenever the key
  thread lets them.
- voice input: the transfers of the thread and of the interrupt exclude each
  other, every path out of a transfer gives the handle back, what is taken for
  a result is one, and polls end.
- screen: the colours belong together, an undisturbed repaint is all of one
  mode (but for a ground an earlier overlap has spoilt), the mode follows the
  clock; a row fits the buffer it is read into; an undisturbed draw paints the
  pixels it sends and nothing else.

The hazards are listed, each at its line, in `PROJECT.json`.

## 2. Modules

| Module | Models | Runs | Proofs |
|---|---|---|---|
| `WeatherFetch` | `weather.c` and `show_weather` as reader of its globals | `FetchRace` | `WeatherFetchProofs` |
| `BodyRead` | the two read loops of `fetch_weather` over `webclient_read` and `webclient_next_chunk` | `BodyLoops`, `BodyOverwritten` | `BodyReadProofs` |
| `WifiConnect` | `wifi.c`, with `rt_wlan_connect`, the READY path of the WLAN manager and its lwIP glue, and the kernel's semaphores | `WifiSafety`, `WifiOverlap`, `WifiLostReady` | `WifiConnectProofs` |
| `Station` | the threads' loops under strict priorities, the heap's lock, the transmit thread | `StationLive`, `StationRefresh` | `StationProofs` |
| `AsrI2c` | the I2C half of `asr.c` over the HAL's blocking transfers, the KEY2 interrupt and the tick | `AsrPoll` | `AsrI2cProofs` |
| `Exclusive` | what a lock promises: the abstract specification `AsrI2c` implements | `AsrPoll` | `AsrI2cProofs` |
| `ShowWeather` | the look of the screen: `show_weather`, `Show_BMP`, the time thread, `change_display_mode` | `ShowMode`, `BmpOverrun` | `ShowWeatherProofs` |
| `LcdBus` | the panel's bus: `lcd_address_set` and the pixels of `drv_lcd.c`, byte by byte, and the panel's controller | `LcdDraws` | `LcdBusProofs` |

`MC*` modules instantiate them for TLC. The modules share no variables: each
cuts the system where the others' detail does not matter. `Station` reduces a
fetch to what it waits for; `WeatherFetch` reduces the network to its outcomes
and lets threads interleave freely; `BodyRead` refines the single step `Read` of
`WeatherFetch` to the loops it stands for; `ShowWeather` takes a string
or a row for one step and `LcdBus` takes a draw apart into bytes.

### WeatherFetch

A field of `rt`/`wt` is the city its value describes. `pc` walks each thread
through `fetch_weather`; `live` is the set of heap blocks it owns, so that every
`goto __exit` is a path. `weather_data_parse` allocates the JSON tree (`Parse`),
looks at `success` (`Check`), stores one field per step and deletes the tree on
either way out (`DeleteRoot`). A text field (`area_1`, `area_2`, `wtNm`) is
blanked in a step of its own before it is stored (`Clear`): a repaint in between
shows no city, and a text copied over another one leaves its tail.
`show_weather` reads and formats a field (`ShowRead`), then paints it
(`ShowDraw`); `Show_BMP` of a file that is not on the card, as for every `wtId`
it does not know, paints nothing and the old picture stays (`DrawFails`). What
the parse can tell of a body is one of five cases (`Bodies`); a missing item is
a read through a null pointer, which on this processor finds the vector table: a
fault (`halted`) or some garbage.

`solo`, `fresh`, `clean`, `kept`, `stale` are history variables: whether another
thread interfered with a fetch or a repaint, which pictures a repaint could not
load, and which fields of the screen are therefore not known to be up to date.
No guard reads them.

Threads interleave freely, a superset of what the priorities allow.

### BodyRead

The body is `1..sent`, a buffer cell holds the number of the byte stored there.
The response is delimited by a Content-Length, by chunks, or by the close of
the connection. `Call` is a turn of `fetch_weather`'s loop with the early
returns of `webclient_read`; `Recv` and `RecvFails` are the outcomes of
`webclient_recv`. An empty chunked body is left out: `webclient_read` then takes
the closing CRLF for data, which no JSON parser accepts. `cJSON_Parse` reads the
buffer as a string: `Terminated` says that it finds a NUL there unless as many
bytes came as the buffer holds, in which case nothing in the code guards it.

### WifiConnect

`pc` walks the wifi thread and the shell through `wifi_connect`. A thread moves
only when no thread above it is runnable (tshell 20, wlan_job 22, wifi_connect
30). `ReadyEvent` sets `RT_WLAN_STATE_READY` and fetches the handler;
`ReadyCallback` runs it later: between the two the wifi thread cannot move, and
that is what keeps the semaphore alive. `rt_sem_create` may fail in any call, as
the heap is shared with every other thread; nothing checks its result. A failed
`RT_ASSERT` (`asserted`) stops the kernel; `RT_DEBUG` is defined in
`rtconfig.h`.

### Station

`stage` says what each thread is doing: `alloc`, `send`, `answer`, `free` are a
fetch, `show` is a repaint, `poll` and `debounce` are the key thread's loop. The
`Helpers` are the threads outside the application's loops that allocate and free
(`tcpip` 10, `erx` 12, `tshell` 20, `wlan_job` 22, `sys_work` 23, `tidle` 31):
they work now and then, at any time (`work`). A stage that needs the heap takes
and gives back the heap's lock, a FIFO semaphore. While the pin is high the key
thread keeps reading it: no step of the model, but it is `Ready`, and that is
what starves the threads below. One exchange stands for the several of a real
request (name lookup, connection, request, response): each depends on the
transmit thread and ends by an answer or a time-out in the same way.

### AsrI2c and Exclusive

Two contexts, the asr thread and the handler of KEY2, walk through
`HAL_I2C_Master_Transmit` and `HAL_I2C_Master_Receive`: the test of `State`,
`__HAL_LOCK` in its two steps (a test, then an assignment), the wait for the
bus, one step per byte, every error path, `State = READY` and `__HAL_UNLOCK`.
The handler comes between any two steps of the thread and runs to its end.
SysTick has interrupt priority 0 and the handler 5, so the tick goes on in both;
a tick between steps of the handler that do not look at it is left out, being
the same as one before them. The value of a register does not matter, only
which register it came from; `sure` records a poll in which the number of the
register was sent and no key was written since. The voice module is external:
it may acknowledge, refuse, stop early, keep silent or hold the bus.
`change_city`, which follows a result (`Use`), is not taken apart here and owes
nothing: it waits for the network and the heap, and may never return while the
key thread polls (`Station`). `PollEnds` is about the transfers up to that point.

`Exclusive` says what a lock is: nobody or one user, who gives it back before
another has it. `OneTransferAtATime` is its specification with
`users <- {contexts between lock and unlock}`: the handle, made of two
unprotected assignments, implements it, because the handler never sees the
thread move.

`HAL_GetTick` multiplies the tick by 1000 in 32 bits: it falls back to 0 after
71 minutes, while the HAL subtracts modulo 2^32. A transfer in progress then is
given up at once. `GivenUpLate` states that this is the only way a transfer is
given up before its time.

### ShowWeather

Four threads repaint (UI 2, asr and key 10, the shell 20) and the time thread
(30) sets `display_mode`. The highest ready priority runs; asr and key are
time-sliced. A painter is suspended where it allocates (the lock of the heap is
FIFO, and the threads outside this model take it too), and then lower threads
come in. A colour is the mode it belongs to; a picture is its extent and the
mode and forecast its path was made from; the strings are one element that is
painted in three places. The air quality has colours of its own.

`lcd_clear` is not one step: it opens the window of the whole panel, allocates,
sends 20 transfers without a lock (two halves in the model) and frees. `Show_BMP`
opens its window and sends row by row. `window` is the panel's window: what it is
on, and which painter still has pixels for it. Pixels sent when another painter
has moved it land there (`Astray`). So a painter that comes into an `lcd_clear`
leaves the ground partly old, and as the cached colours are the new ones
already, no later repaint in that mode clears it: this really happens in the
model, and it is what `spoiled`, a history variable, records. The release of a
row's buffer is part of the step that ends the picture: no further point of
suspension, since an allocation follows soon.

`clean` and `calm` are history variables too: no other repaint, change of mode
(the time thread's flip at night included) or missing picture disturbed this
repaint; the shell has not set the mode in this iteration of the time thread.
`hour` is the hour the time thread found in this iteration. `junk` is a digit the
stack may hold behind the two digits of the hour; files found on the card are BMPs.

### LcdBus

A draw is the sequence of writes `lcd_address_set` and the pixels make, each a
level of the DC pin (or none: `lcd_clear` sets it once) and bytes. It has a window
and a number of pixels, which need not fill the window: a horizontal line sends
one fewer than its window has. Setting the
pin and shifting a byte are steps of their own, so that two painters interleave
at every one; the lock of the SPI bus is held from the first byte of a write to
the last. The panel's controller, which is external, keeps the command (`cmd`),
its bytes so far (`args`), the window (`cols`, `rows`), the `cursor` and the
pixels (`ram`); a command other than the three used has no effect in the model.
A pixel is its two bytes; pairs that are no painter's colour are one value,
"bad", and a window that is not within the panel is `Nowhere`. `before`
is history: the pixels when the draw began, until another painter touches the
pin or the bus.

## 3. Runs

Passing:

- `FetchRace` (the key thread and one that refreshes and repaints in turn, 2
  cities, 2 fields): no leak on any path, only accepted bodies stored, an
  undisturbed fetch is consistent, an undisturbed repaint after it shows the
  selected city everywhere but in the pictures it could not load.
- `BodyLoops` (buffer of 4, bodies up to 7): no receive leaves the buffer, a
  single read is stored exactly, an announced body that fits is stored exactly
  unless the server stalls, a NUL is left, the loops end.
- `WifiSafety` (room for 3 semaphores): no use after deletion, no leak but by a
  failed join, success belongs to this call; and, with fairness, no call hangs
  before the station is on line.
- `WifiOverlap` (shell command allowed): nobody stays suspended on a semaphore
  that the other call deleted.
- `StationLive` (4 application threads, the transmit thread and the shell as a
  helper): key presses are carried through; voice commands are if the key is
  used; refreshes are if the others block; repaints go on unless a thread below
  the key thread was preempted holding the heap's lock.
- `AsrPoll` (the asr thread against the interrupt): the handle is a lock and is
  free after every transfer; a key is refused only in the middle of a transfer;
  a result is genuine; the transfers of a poll end and the handler returns
  whatever the voice module does; transfers are given up early only when the tick wraps.
- `ShowMode` (UI, shell and time thread, one picture): the colours are never
  left mixed, an undisturbed repaint leaves strings and pictures in the mode
  selected, and the ground unless it was spoilt, the mode follows the clock, in
  the evening the screen gets dark again and again, as long as the time thread
  and the UI thread get on.
- `LcdDraws` (two painters of equal priority, two pixels): a draw left alone
  paints exactly the pixels it sends, whatever the interrupted ones left behind
  in the panel. What a draw that is interrupted paints is not promised.

Expected violations, each a disagreement between the code and what its comments
or assertions say (`findings` in `PROJECT.json`):

- `WifiLostReady`: a READY that comes while no handler is registered is lost for
  good, and every retry times out.
- `StationRefresh`: the once-a-minute refresh never happens while nobody touches
  the button.
- `BodyOverwritten`: a body that takes several reads overwrites its beginning.
- `BmpOverrun`: with asr and key painting at once, a row of the larger picture
  is read into the buffer sized for the smaller one.

Bounds. Two fields, one of them a text and one a picture, are enough for a torn
screen; the code makes 19 stores, and the proofs hold for any number. Two cities
tell "the selected one" from "another". In `FetchRace` one thread stands for the
weather and the UI thread, so that fetches and repaints overlap in every pair,
two fetches, two repaints and one of each; the theorems hold for any number of
threads. A buffer of 4 and bodies of up to 7 cover shorter, equal and longer
bodies with every way of cutting them. Three semaphores allow three failed
joins; `MaxTokens` stops READY at two tokens, more than a call can collect. Two
entries of `city_id` exercise the wrap. One helper below the key thread, the
shell, is enough for the inversion next to the weather thread's; the theorems
hold for any helpers. `AsrPoll`: a tick modulo 6 and a factor of 2 for 1000 make
the HAL's tick wrap at 3, so that time-outs of 1 expire with and without a wrap;
one of the four writes of `asr_init` is kept. `ShowMode`: the hour is 18, the
first one past the limit of the dusk, at which an iteration that finds the dark
mode goes through both assignments, light and then dark; for the other hours
there is the theorem. Of the six repaints the UI thread makes in a minute one is
kept (`Repaints`), which begins after the time thread has run; one picture of
extent 1, and two of extents 2 and 1 in `BmpOverrun`. Two halves of `lcd_clear`
are enough for an interruption before, between and after its transfers.
`LcdDraws`: the one painter clears the panel or draws a line, the other paints
points: they differ in coordinates, size, use of the pin, and in whether the
window is filled. `WeatherFetch`, `WifiConnect` and `ShowWeather` may stop (hard
fault, failed assertion), and `BodyRead` ends: their runs do not check for
deadlock; those of `Station`, `AsrI2c` and `LcdBus` do.

Fairness. `WifiConnect!FairSpec`: until `net_state` is set all other application
threads only sleep and poll it, so the wifi thread and the work queue get the
processor, and timers fire; the radio promises nothing. `AlwaysFairSpec`, used
to refute `AddressEndsWait`, grants the processor for ever, which can only
help the property. `Station!Fairness`: the timer a thread waits for expires
(weak fairness); a thread that can run again and again gets on (strong fairness:
time slices among equals, whole ticks below them). `Slack` says the periods of
10 s and 2 s are longer than the work they start, and packets rarer than `tcpip`
handles them: again and again everyone of the key thread's priority or above,
itself apart, sleeps or is blocked. Without it they could keep the processor busy
for ever. Nothing is promised of the button, the voice module, the server, the
access point or of what wakes the helpers. `BodyRead`: a receive returns, by its time-out.
`AsrI2c`: the tick goes on and each context makes its own steps (strong
fairness: a wait loop looks at the tick far more often than it changes, and the
thread goes on after each interrupt); nothing is promised of the voice module,
nor that `change_city` returns.
`ShowWeather`: delays expire (weak fairness). Neither the time thread nor whoever
holds the heap's lock is promised the processor: the polling key thread starves
both (`StationRefresh`, `RepaintsUnlessInversion`). `EveningGetsDark` names what it
needs instead: the time thread and the UI thread come to the end of what they do,
the shell is left alone, the pictures are found, and the mode does not flip
during a repaint.

## 4. Proofs

The theorems hold for every value of the constants that satisfies the named
assumptions (who fetches is in one of the two loops, special values outside the cities and
semaphores, positive bounds, windows within the panel).

`WeatherFetchProofs`, for any sets of threads and cities and any number of
fields: `[]TypeOK`, `[]NoLeak`, `[]FreshIsConsistent`, `[]PaintedShowsCity` and
`OnlyAcceptedBodiesStored`. The inductive invariant `IInv` adds: what each label
may own (`LiveInv`); that only accepted bodies reach the stores (`StoreInv`);
that the position goes back to the first field before the next fetch (`PosInv`);
that an undisturbed fetch asked for the current city and has stored it in every
field before its position (`SoloInv`); that an undisturbed repaint has fresh
data and every field not to do shows the city or is a picture it could not load
(`CleanInv`). Without the last two the consistency invariants are not inductive:
nothing would tie a fetch in flight to the city selected.

`BodyReadProofs`, for any buffer and any length of the body: `[]TypeOK`,
`[]InBounds`, `[]OneReadFaithful`, `[]AnnouncedBodyStored`, `[]Terminated`.
`IInv` adds what the three kinds of response differ in (`ModeInv`), how far a
receive can get, position and rest against both the buffer and the announced
length (`ReachInv`), that there are NULs behind what was received (`TailInv`),
and what is in the buffer during and after the first read (`FirstReadInv`,
`AnnouncedInv`): the stated properties speak only of the end of the loop.

`WifiConnectProofs`, for any number of semaphores: `[]TypeOK`,
`[]NoUseAfterDelete`, `[]LeakOnlyOnFailedJoin` and
`[]SuccessIsOfThisCall` under `UseShell = FALSE` (a shell command during the
thread's call makes one of them use a deleted semaphore), and
`[]NoOrphanWaiter` with shell commands too. `IInv` says that whoever may still
use `net_ready` (a registered handler, a fetched callback, a caller in the middle
of a call) finds it alive or null, and that handler and callback are gone before
it is deleted (`SemInv`); which semaphores exist (`LeakInv`); that a token or
a pending callback implies a READY of this call (`SignalInv`). `WaitInv` says
that whoever is suspended is suspended on a semaphore that exists.

`StationProofs`, for any table of area codes and any helpers: `[]TypeOK` and
`[]HeapLockSound`; together they are inductive (`LockInv`).

`AsrI2cProofs`, for any modulus of the tick, any time-outs and any number of
writes: `[]TypeOK`, `[]HandleSound`, `[]KeyRefusedOnlyInTransfer`,
`[]ResultGenuine`, and that the detailed specification implements `Exclusive`
(`HandleIsALock`): the initial state has no users, and every step acquires,
releases or leaves `users` alone. `IInv` adds `ExclusionInv` (a handler that has
found the handle unlocked has interrupted no transfer: this is what makes the
test and the assignment of `__HAL_LOCK` safe), `ProgressInv` (the byte count at
each step, no HAL_BUSY after a start) and `GenuineInv` (what the voice module's
register is while the poll is sure of it). `EarlyOnlyByWrap` proves the action
property `GivenUpLate`. It needs `WaitedInv`: while the wait is shorter than the
time-out and the HAL's tick has not wrapped, the tick is between the start and
the start plus what was waited, so that the HAL's subtraction modulo 2^32 does
not exceed it. `waited` alone says nothing about `tickstart`.

`ShowWeatherProofs`, whichever of the four threads repaint and for any pictures
and hours: `[]TypeOK`, `[]ColoursAgree`, `[]UndisturbedRepaint` and
`[]ModeFollowsClock`. `IInv` adds:

- `HeapInv`: who waits for the heap is at a step that allocates. Together with
  the priorities this gives the central fact: a painter that is changing the
  colours is not suspended, so no thread below it, and none that sets
  `display_mode`, moves.
- `ColourInv`: hence all painters that are changing the colours change them to
  those of the same mode, in whatever order they interleave.
- `GroundInv`: `show_weather` clears the panel only when the cached colour
  differs from the mode. Several painters may be clearing it, for different
  modes, suspended on the heap or between their transfers; the one whose window
  it still is clears it in the colour cached last, and when nobody clears it the
  ground has that colour or is spoilt. Without this a repaint that skips the
  clearing would not be known to find the right ground.
- `PictureInv`, `CleanInv`: how far an undisturbed repaint has come.
- `ClockInv`: what an undisturbed iteration of the time thread has established
  between its tests and its assignments.

`LcdBusProofs`, for a panel of any size, any painters, any windows within the
panel and any even split of the pixels into transfers: `[]TypeOK` (a painter
holds the bus exactly in the middle of a transfer) and
`[]UndisturbedDrawIsExact`. `DrawInv` says what a draw that nobody disturbed has
made of the panel when it is at write k (`Undisturbed`): before its first byte
the pin is low, so that the rest of another painter's transfer is taken for
commands and no pixel changes; in `lcd_address_set` the panel holds the bytes
that are out, then the columns and rows they carry (`Addressed`, which undoes
the split of a coordinate into bytes); in the pixels, the bytes out are the
pixels before the cursor in row order and half of the next (`Painting`), so that
the last byte of the last transfer completes the last pixel of the draw. The
lemmas count: the cursor passes each pixel of the window once (`WindowSteps`),
and the transfers add up to the pixels of the draw (`Shares`).

Model-checked only: everything temporal (`FirstCallEnds`, `LoopsEnd`,
`PollEnds`, `KeyHandlerReturns`, `EveningGetsDark`, the liveness properties of
`Station`), since the prover has no rule for fairness. Every safety property of
a passing run is proved.

## 5. Not modelled

- The text of URLs, JSON and the screen, with the buffers it is formatted into;
  GBK conversion (not in the repository); glyphs and the geometry of lines and
  circles.
- The LED loop: one thread, one pin. The bring-up of the radio and the mount of
  the SD card: straight sequences of one boot thread each, which meet the
  application only by `wlan0` being registered and by files being found.
- `ui_test` and the functions of `asr.c` that nobody calls.
- Third-party packages, kernel, network stack and vendor libraries, apart from
  the functions the modules name. They are most of the repository's lines.

## 6. Plan

1. Composition: `BodyRead` as a refinement of the step `Read` of `WeatherFetch`;
   an abstract specification "the screen follows the selected city" that
   `WeatherFetch` with a single active thread implements; `LcdBus` below the
   draws of `ShowWeather`.
2. Text: the lengths of the strings `ui.c` formats into its buffers.
