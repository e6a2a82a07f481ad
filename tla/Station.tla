------------------------------ MODULE Station ------------------------------
(***************************************************************************)
(* The threads of the station and what they wait for.                      *)
(*                                                                         *)
(* RT-Thread always runs a ready thread of the highest priority; threads   *)
(* of one priority share the processor in time slices.  The threads are    *)
(*   UI       priority  2   ui.c       repaints every 10 s                 *)
(*   asr      priority 10   asr.c      asks the voice module every 2 s     *)
(*   key      priority 10   asr.c      polls the button without a delay    *)
(*   etx      priority 12   lwIP glue  hands every packet to the driver    *)
(*   weather  priority 30   weather.c  refreshes every 60 s                *)
(* and the Helpers, which use the heap now and then: tcpip (10), erx (12), *)
(* tshell (20), wlan_job (22), sys_work (23), tidle (31) and the like.     *)
(* A fetch allocates, exchanges packets through etx, waits for the server  *)
(* or a time-out, and frees; change_city fetches and repaints; a repaint   *)
(* allocates and frees too.  Every allocation takes the heap's lock, a     *)
(* FIFO semaphore without priority inheritance.                            *)
(*                                                                         *)
(* What a fetch stores is WeatherFetch's subject; here a fetch is the      *)
(* sequence of things it waits for.                                        *)
(***************************************************************************)
EXTENDS Integers, Sequences

CONSTANTS
    FirstId,        \* the first entry of city_id the key selects, 10
    LastId,         \* the last one, 49
    Helpers,        \* the other threads that allocate or free
    HelperPriority  \* their priorities

ASSUME CityAssumption == FirstId \in Nat /\ LastId \in Nat /\ FirstId <= LastId
ASSUME HelpersAssumption ==
    /\ Helpers \cap {"UI", "asr", "key", "weather", "etx", "nobody"} = {}
    /\ HelperPriority \in [Helpers -> Nat]

UI      == "UI"
Asr     == "asr"
Key     == "key"
Weather == "weather"
Etx     == "etx"

Threads  == {UI, Asr, Key, Weather} \cup Helpers
Changers == {Asr, Key}
Nobody   == "nobody"

Priority == [t \in Threads \cup {Etx} |->
                CASE t = UI -> 2 [] t \in Changers -> 10 [] t = Etx -> 12
                  [] t = Weather -> 30 [] OTHER -> HelperPriority[t]]

VARIABLES
    net_state,  \* set by wifi_connect, polled by every thread at its start
    stage,      \* where each thread is in its loop
    holder,     \* who holds the heap's lock
    waiters,    \* who is suspended on it, in order of arrival
    id          \* key_thread_entry's local: the next entry of city_id

vars == <<net_state, stage, holder, waiters, id>>

\* The stages in which a thread needs the heap.
HeapStages == {"alloc", "free", "show", "work"}
Stages     == HeapStages \cup {"boot", "sleep", "poll", "debounce", "send",
                               "answer"}

Init ==
    /\ net_state = FALSE
    /\ stage = [t \in Threads |-> IF t \in Helpers THEN "sleep" ELSE "boot"]
    /\ holder = Nobody
    /\ waiters = <<>>
    /\ id = FirstId

-----------------------------------------------------------------------------
(* Scheduling.                                                             *)

Queued(t) == \E i \in DOMAIN waiters : waiters[i] = t

Ready(t) ==
    IF t = Etx THEN \E u \in Threads : stage[u] = "send"
    ELSE stage[t] = "poll" \/ (stage[t] \in HeapStages /\ ~Queued(t))

\* rt_schedule: no thread of a higher priority is ready.
Running(t) ==
    Ready(t) /\ \A u \in Threads \cup {Etx} : Ready(u) => Priority[u] >= Priority[t]

Enter(t, s) == stage' = [stage EXCEPT ![t] = s]

-----------------------------------------------------------------------------
(* The loops of the threads.                                               *)

\* wifi_connect sets net_state.
GoOnline ==
    /\ ~net_state
    /\ net_state' = TRUE
    /\ UNCHANGED <<stage, holder, waiters, id>>

\* while (net_state != RT_TRUE) rt_thread_mdelay(500): the thread's next wake-up
\* finds net_state set, and its own loop begins.
StartUp(t) ==
    /\ t \notin Helpers
    /\ stage[t] = "boot"
    /\ net_state
    /\ Enter(t, CASE t = UI -> "show" [] t = Asr -> "sleep"
                  [] t = Key -> "poll" [] t = Weather -> "alloc")
    /\ UNCHANGED <<net_state, holder, waiters, id>>

\* rt_thread_mdelay(10000) of the UI thread and rt_thread_mdelay(60000) of the
\* weather thread expire.
Wake(t) ==
    /\ t \in {UI, Weather}
    /\ stage[t] = "sleep"
    /\ Enter(t, IF t = UI THEN "show" ELSE "alloc")
    /\ UNCHANGED <<net_state, holder, waiters, id>>

\* A packet, a command, a job or a dead thread gives a helper something to
\* allocate or to free.
HelperWakes(t) ==
    /\ t \in Helpers
    /\ stage[t] = "sleep"
    /\ Enter(t, "work")
    /\ UNCHANGED <<net_state, holder, waiters, id>>

\* asr_get_result after rt_thread_mdelay(2000) returns a code from 10 to 49:
\* change_city.  With any other answer the thread sleeps again.
VoiceCommand ==
    /\ stage[Asr] = "sleep"
    /\ Enter(Asr, "alloc")
    /\ UNCHANGED <<net_state, holder, waiters, id>>

\* key_thread_entry reads the pin low and calls rt_thread_mdelay(20).  While
\* the pin is high it reads it again, and keeps the processor.
KeyLow ==
    /\ Running(Key)
    /\ stage[Key] = "poll"
    /\ Enter(Key, "debounce")
    /\ UNCHANGED <<net_state, holder, waiters, id>>

\* After the delay the pin is high again.
KeyBounce ==
    /\ stage[Key] = "debounce"
    /\ Enter(Key, "poll")
    /\ UNCHANGED <<net_state, holder, waiters, id>>

\* A wrap tested one too late.
KeyAcceptLateWrap ==
    /\ stage[Key] = "debounce"
    /\ id' = IF id + 1 > LastId + 1 THEN FirstId ELSE id + 1
    /\ Enter(Key, "alloc")
    /\ UNCHANGED <<net_state, holder, waiters>>

\* The pin is still low: change_city(city_id[id++]), the index wraps after 49.
KeyAccept ==
    /\ stage[Key] = "debounce"
    /\ id' = IF id + 1 > LastId THEN FirstId ELSE id + 1
    /\ Enter(Key, "alloc")
    /\ UNCHANGED <<net_state, holder, waiters>>

-----------------------------------------------------------------------------
(* The heap: rt_memheap_alloc and rt_memheap_free.                         *)

\* rt_sem_take(&heap->lock, RT_WAITING_FOREVER).
HeapTake(t) ==
    /\ Running(t)
    /\ stage[t] \in HeapStages
    /\ holder # t
    /\ IF holder = Nobody
       THEN holder' = t /\ UNCHANGED waiters
       ELSE waiters' = Append(waiters, t) /\ UNCHANGED holder
    /\ UNCHANGED <<net_state, stage, id>>

\* Where a thread goes after its work on the heap: an allocation that fails
\* skips the exchange, change_city ends with show_weather.
After(t) ==
    CASE stage[t] = "alloc" -> {"send", "free"}
      [] stage[t] = "free"  -> {IF t \in Changers THEN "show" ELSE "sleep"}
      [] stage[t] = "show"  -> {IF t = Key THEN "poll" ELSE "sleep"}
      [] stage[t] = "work"  -> {"sleep"}

\* The work is done and the lock passes on.
ReleaseTo(t, next, rest) ==
    /\ Running(t)
    /\ holder = t
    /\ holder' = next
    /\ waiters' = rest
    /\ \E s \in After(t) : Enter(t, s)
    /\ UNCHANGED <<net_state, id>>

\* A release that resumes nobody.
HeapReleaseLost(t) == ReleaseTo(t, Nobody, waiters)

\* rt_sem_release(&heap->lock) hands the lock to the first waiter.
HeapRelease(t) ==
    IF waiters = <<>> THEN ReleaseTo(t, Nobody, waiters)
    ELSE ReleaseTo(t, Head(waiters), Tail(waiters))

-----------------------------------------------------------------------------
(* The network.                                                            *)

\* A transmit thread that drops the message without the ACK.
TransmitNoAck(t) ==
    /\ Running(Etx)
    /\ stage[t] = "send"
    /\ UNCHANGED vars

\* eth_tx_thread_entry sends the packet and acknowledges it: until then
\* ethernetif_linkoutput, and the caller behind it, wait forever.
Transmit(t) ==
    /\ Running(Etx)
    /\ stage[t] = "send"
    /\ Enter(t, "answer")
    /\ UNCHANGED <<net_state, holder, waiters, id>>

\* The server answers.
Answer(t) ==
    /\ stage[t] = "answer"
    /\ Enter(t, "free")
    /\ UNCHANGED <<net_state, holder, waiters, id>>

\* A socket without a time-out.
WaitForever(t) == FALSE

\* The server does not: the time-out of the socket ends the wait.
TimeOut(t) ==
    /\ stage[t] = "answer"
    /\ Enter(t, "free")
    /\ UNCHANGED <<net_state, holder, waiters, id>>

-----------------------------------------------------------------------------
Heap(t) == HeapTake(t) \/ HeapRelease(t)

Next ==
    \/ GoOnline
    \/ VoiceCommand \/ KeyLow \/ KeyBounce \/ KeyAccept
    \/ \E t \in Threads :
          \/ StartUp(t) \/ Wake(t) \/ HelperWakes(t) \/ Heap(t)
          \/ Transmit(t) \/ Answer(t) \/ TimeOut(t)

\* What the timer of a thread ends: it has one, and waits for one thing at a
\* time.
Timer(t) ==
    StartUp(t) \/ Wake(t) \/ TimeOut(t) \/ (t = Key /\ (KeyBounce \/ KeyAccept))

\* Timers expire.  A thread that is given the processor again and again gets
\* on: the processor is shared in time slices among equals, and a thread below
\* them is given whole ticks when the others sleep.  Nothing is promised of the
\* button, of the voice module, of the server, of the access point or of what
\* wakes the helpers.
Fairness == \A t \in Threads :
    /\ t \notin Helpers => WF_vars(Timer(t))
    /\ SF_vars(Heap(t) \/ Transmit(t))

\* The periods of the UI thread (10 s) and of the asr thread (2 s) are longer
\* than the work they start, and a packet comes less often than tcpip handles
\* one: again and again all threads of the key thread's priority or above it,
\* itself apart, sleep or are blocked.
Slack == []<>(\A u \in Threads \ {Key} : Priority[u] <= Priority[Key] => ~Ready(u))

Spec == Init /\ [][Next]_vars /\ Fairness /\ Slack

-----------------------------------------------------------------------------
(* Properties.                                                             *)

\* Every variable has its type; id stays inside the part of city_id that holds
\* area codes.
TypeOK ==
    /\ net_state \in BOOLEAN
    /\ stage \in [Threads -> Stages]
    /\ holder \in Threads \cup {Nobody}
    /\ waiters \in Seq(Threads)
    /\ id \in FirstId .. LastId

\* The lock of the heap is held by a thread at work on the heap, never by one
\* that sleeps, polls or waits for the network, and whoever is suspended on it
\* is there once and finds it held.
HeapLockSound ==
    /\ holder # Nobody => stage[holder] \in HeapStages
    /\ holder = Nobody => waiters = <<>>
    /\ \A i \in DOMAIN waiters :
          /\ waiters[i] # holder
          /\ stage[waiters[i]] \in HeapStages
          /\ \A j \in DOMAIN waiters : waiters[i] = waiters[j] => i = j

\* An accepted press of the button is carried through: whatever the other
\* threads and the server do, change_city ends and the button is polled again.
KeyHandled == (stage[Key] = "alloc") ~> (stage[Key] = "poll")

\* A voice command is carried through if the button is used again and again:
\* while the key thread waits for its own packets the transmit thread, which
\* polling starves, serves the asr thread's too.
VoiceEndsIfKeyUsed ==
    []<>(stage[Key] = "send") => ((stage[Asr] = "alloc") ~> (stage[Asr] = "sleep"))

\* A refresh by the weather thread ends, whatever the server and the other
\* threads do, if every thread above it is blocked again and again.
RefreshEndsIfOthersBlock ==
    []<>(\A u \in Threads \cup {Etx} : Priority[u] < Priority[Weather] => ~Ready(u))
        => ((stage[Weather] = "alloc") ~> (stage[Weather] = "sleep"))

\* The screen is repainted for ever, with one exception: a thread below the key
\* thread was preempted while it held the heap's lock, and the key thread,
\* polling, never lets it give the lock back.
RepaintsUnlessInversion ==
    <>net_state =>
        \/ []<>(stage[UI] = "show" /\ holder = UI)
        \/ <>[](/\ stage[Key] = "poll"
                /\ holder # Nobody /\ Priority[holder] > Priority[Key])

\* weather.c: the data are updated once a minute.
RefreshGoesOn == <>net_state => []<>(stage[Weather] = "sleep")
=============================================================================
