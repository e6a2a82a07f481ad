---------------------------- MODULE WifiConnect ----------------------------
(***************************************************************************)
(* applications/wifi.c and what it uses of RT-Thread's WLAN manager        *)
(* (wlan_mgnt.c), of its lwIP glue (wlan_lwip.c) and of the kernel's       *)
(* semaphores (ipc.c).                                                     *)
(*                                                                         *)
(* The "wifi_connect" thread (priority 30) runs wifi_connect() until it    *)
(* returns RT_EOK.  Each call creates the semaphore net_ready, registers   *)
(* wifi_ready_callback, joins the access point and waits at most 15 s for  *)
(* the callback, which the "wlan_job" work queue thread (priority 22) runs *)
(* when the interface has its address.  The shell thread "tshell"          *)
(* (priority 20) can run the same function as the command                  *)
(* wifi_connect_test.                                                      *)
(*                                                                         *)
(* A thread moves only when no thread of a higher priority is runnable;    *)
(* time-outs and radio events come at any moment.                          *)
(***************************************************************************)
EXTENDS Naturals

CONSTANTS
    UseShell,  \* whether the shell command wifi_connect_test may be issued
    Sems,      \* the semaphore objects the heap has room for
    NoSem,     \* RT_NULL
    MaxTokens  \* bound: READY is not raised again at this semaphore value

ASSUME SemsAssumption == UseShell \in BOOLEAN /\ NoSem \notin Sems
ASSUME BoundAssumption == MaxTokens \in Nat \ {0}

Wifi    == "wifi_connect"
Shell   == "tshell"
Callers == {Wifi, Shell}

VARIABLES
    wlan0,      \* the device "wlan0" is registered
    connected,  \* RT_WLAN_STATE_CONNECT
    ready,      \* RT_WLAN_STATE_READY
    attempted,  \* a join has been handed to the radio
    ip,         \* the interface has an address
    handler,    \* event_tab[RT_WLAN_EVT_READY].handler is set
    callback,   \* wlan_job has fetched the handler and is about to run it
    net_ready,  \* the global net_ready
    alive,      \* the semaphore objects in existence
    value,      \* their values
    pc,         \* where each caller is in wifi_connect
    recved,     \* the CONNECT event reached this caller's completion
    waitsOn,    \* the semaphore a suspended caller is queued on
    result,     \* the local result: rt_sem_take returned RT_EOK
    net_state,  \* the global net_state
    asserted    \* the RT_ASSERT that failed: the kernel then stops

\* History variables.
VARIABLES
    signalled,  \* READY was raised since this caller created its semaphore
    abandoned   \* semaphores left behind by calls whose join failed

radio == <<wlan0, connected, ready, attempted, ip>>
sem   == <<net_ready, alive, value>>
vars  == <<radio, handler, callback, sem, pc, recved, waitsOn, result,
           net_state, asserted, signalled, abandoned>>

Labels == {"sleep", "create", "register", "connect", "joining", "take",
           "waiting", "unregister", "delete", "ntp", "online", "done"}

Init ==
    /\ wlan0 = FALSE /\ connected = FALSE /\ ready = FALSE
    /\ attempted = FALSE /\ ip = FALSE
    /\ handler = FALSE /\ callback = FALSE
    /\ net_ready = NoSem /\ alive = {} /\ value = [s \in Sems |-> 0]
    /\ pc = [t \in Callers |-> "sleep"]
    /\ recved = [t \in Callers |-> FALSE]
    /\ waitsOn = [t \in Callers |-> NoSem]
    /\ result = [t \in Callers |-> FALSE]
    /\ net_state = FALSE
    /\ asserted = "none"
    /\ signalled = [t \in Callers |-> FALSE]
    /\ abandoned = {}

-----------------------------------------------------------------------------
(* Scheduling.                                                             *)

Other(t) == IF t = Wifi THEN Shell ELSE Wifi

\* rt_wlan_connect keeps mgnt_mutex while it waits for the join; the calls
\* into the WLAN manager at these labels take the same mutex.
BlockedOnMgnt(t) ==
    /\ pc[Other(t)] = "joining"
    /\ pc[t] \in {"create", "register", "unregister"}
       \/ (pc[t] = "connect" /\ ~connected)

Runnable(t) ==
    /\ pc[t] \in {"create", "register", "connect", "take", "unregister",
                  "delete", "online"}
       \/ (pc[t] = "joining" /\ recved[t])
    /\ ~BlockedOnMgnt(t)

\* t has the processor: tshell (20) before wlan_job (22) before wifi_connect.
Running(t) ==
    /\ asserted = "none"
    /\ t = Wifi => ~callback /\ ~Runnable(Shell)

WlanJobRuns == asserted = "none" /\ ~Runnable(Shell)

Goto(t, l) == pc' = [pc EXCEPT ![t] = l]

-----------------------------------------------------------------------------
(* wifi_connect(), label by label.                                         *)

\* The loop of wifi_connect_thread_entry: after its delay, once the device is
\* found.
WakeUp ==
    /\ asserted = "none"
    /\ pc[Wifi] = "sleep"
    /\ wlan0
    /\ Goto(Wifi, "create")
    /\ UNCHANGED <<radio, handler, callback, sem, recved, waitsOn, result,
                   net_state, asserted, signalled, abandoned>>

\* The shell command wifi_connect_test.
ShellCommand ==
    /\ UseShell
    /\ asserted = "none"
    /\ pc[Shell] = "sleep"
    /\ Goto(Shell, "create")
    /\ UNCHANGED <<radio, handler, callback, sem, recved, waitsOn, result,
                   net_state, asserted, signalled, abandoned>>

\* rt_sem_create: a new object of value 0, or RT_NULL when the heap, which all
\* threads share, has no room at the moment.
CreateWith(t, v) ==
    /\ pc[t] = "create"
    /\ Running(t)
    /\ ~BlockedOnMgnt(t)
    /\ \/ \E s \in Sems \ alive :
             /\ net_ready' = s
             /\ alive' = alive \cup {s}
             /\ value' = [value EXCEPT ![s] = v]
       \/ /\ net_ready' = NoSem
          /\ UNCHANGED <<alive, value>>
    /\ signalled' = [signalled EXCEPT ![t] = FALSE]
    /\ Goto(t, "register")
    /\ UNCHANGED <<radio, handler, callback, recved, waitsOn, result,
                   net_state, asserted, abandoned>>

\* A semaphore created with a token in it.
CreateFull(t) == CreateWith(t, 1)

Create(t) == CreateWith(t, 0)

\* rt_wlan_register_event_handler for READY (the other three handlers print).
Register(t) ==
    /\ pc[t] = "register"
    /\ Running(t)
    /\ ~BlockedOnMgnt(t)
    /\ handler' = TRUE
    /\ Goto(t, "connect")
    /\ UNCHANGED <<radio, callback, sem, recved, waitsOn, result, net_state,
                   asserted, signalled, abandoned>>

\* rt_wlan_connect: RT_EOK at once when the station is already connected,
\* otherwise scan, hand the join to the radio (if there is a device) and wait
\* for its outcome.
Connect(t) ==
    /\ pc[t] = "connect"
    /\ Running(t)
    /\ ~BlockedOnMgnt(t)
    /\ IF connected
       THEN Goto(t, "take") /\ UNCHANGED <<attempted, recved>>
       ELSE /\ Goto(t, "joining")
            /\ attempted' = (attempted \/ wlan0)
            /\ recved' = [recved EXCEPT ![t] = FALSE]
    /\ UNCHANGED <<wlan0, connected, ready, ip, handler, callback, sem, waitsOn,
                   result, net_state, asserted, signalled, abandoned>>

\* rt_wlan_connect returns RT_EOK: the CONNECT event came in time.
Joined(t) ==
    /\ pc[t] = "joining"
    /\ recved[t]
    /\ Running(t)
    /\ Goto(t, "take")
    /\ UNCHANGED <<radio, handler, callback, sem, recved, waitsOn, result,
                   net_state, asserted, signalled, abandoned>>

\* rt_wlan_connect fails: no access point found, CONNECT_FAIL, or no event
\* within 10 s.  wifi_connect returns at once; the semaphore and the handlers
\* stay.
JoinFailed(t) ==
    /\ pc[t] = "joining"
    /\ ~recved[t]
    /\ Running(t)
    /\ Goto(t, "sleep")
    /\ abandoned' = abandoned \cup ({net_ready} \ {NoSem})
    /\ UNCHANGED <<radio, handler, callback, sem, recved, waitsOn, result,
                   net_state, asserted, signalled>>

\* What the RT_ASSERTs of rt_sem_take, rt_sem_delete and rt_sem_release find.
Checked(s) == IF s = NoSem THEN "null" ELSE IF s \in alive THEN "none" ELSE "type"

\* rt_sem_take(net_ready, 15 s): take a token if there is one, or be queued.
TakeIf(t, available) ==
    /\ pc[t] = "take"
    /\ Running(t)
    /\ asserted' = Checked(net_ready)
    /\ \/ /\ asserted' # "none"
          /\ UNCHANGED <<value, waitsOn, result, pc>>
       \/ /\ asserted' = "none" /\ available
          /\ value' = [value EXCEPT ![net_ready] = @ - 1]
          /\ result' = [result EXCEPT ![t] = TRUE]
          /\ Goto(t, "unregister")
          /\ UNCHANGED waitsOn
       \/ /\ asserted' = "none" /\ ~available
          /\ waitsOn' = [waitsOn EXCEPT ![t] = net_ready]
          /\ Goto(t, "waiting")
          /\ UNCHANGED <<value, result>>
    /\ UNCHANGED <<radio, handler, callback, net_ready, alive, recved,
                   net_state, signalled, abandoned>>

\* A take that does not look at the value.
TakeUnchecked(t) == TakeIf(t, TRUE)

Take(t) == TakeIf(t, net_ready \in Sems /\ value[net_ready] > 0)

\* A wait without a time-out (RT_WAITING_FOREVER).
NeverTimesOut(t) == FALSE

\* The thread timer fires: rt_sem_take returns -RT_ETIMEOUT.
TakeTimeout(t) ==
    /\ asserted = "none"
    /\ pc[t] = "waiting"
    /\ waitsOn' = [waitsOn EXCEPT ![t] = NoSem]
    /\ result' = [result EXCEPT ![t] = FALSE]
    /\ Goto(t, "unregister")
    /\ UNCHANGED <<radio, handler, callback, sem, recved, net_state, asserted,
                   signalled, abandoned>>

\* A clean-up that deletes the semaphore and leaves the handler registered.
UnregisterForgotten(t) ==
    /\ pc[t] = "unregister"
    /\ Running(t)
    /\ ~BlockedOnMgnt(t)
    /\ Goto(t, "delete")
    /\ UNCHANGED <<radio, handler, callback, sem, recved, waitsOn, result,
                   net_state, asserted, signalled, abandoned>>

\* rt_wlan_unregister_event_handler(READY).
Unregister(t) ==
    /\ pc[t] = "unregister"
    /\ Running(t)
    /\ ~BlockedOnMgnt(t)
    /\ handler' = FALSE
    /\ Goto(t, "delete")
    /\ UNCHANGED <<radio, callback, sem, recved, waitsOn, result, net_state,
                   asserted, signalled, abandoned>>

\* rt_sem_delete(net_ready): whoever is queued on it resumes with an error.
DeleteResuming(t, resumed) ==
    /\ pc[t] = "delete"
    /\ Running(t)
    /\ asserted' = Checked(net_ready)
    /\ \/ /\ asserted' # "none"
          /\ UNCHANGED <<alive, waitsOn, result, pc>>
       \/ /\ asserted' = "none"
          /\ alive' = alive \ {net_ready}
          /\ waitsOn' = [u \in Callers |-> IF u \in resumed THEN NoSem ELSE waitsOn[u]]
          /\ result' = [u \in Callers |-> u \notin resumed /\ result[u]]
          /\ pc' = [u \in Callers |->
                IF u = t THEN "ntp" ELSE IF u \in resumed THEN "unregister" ELSE pc[u]]
    /\ UNCHANGED <<radio, handler, callback, net_ready, value, recved,
                   net_state, signalled, abandoned>>

\* A delete that wakes nobody, and a clean-up that deletes the semaphore only
\* when the wait succeeded.
DeleteNoResume(t)  == DeleteResuming(t, {})
DeleteOnSuccess(t) ==
    \/ result[t] /\ DeleteResuming(t, {})
    \/ /\ pc[t] = "delete" /\ Running(t) /\ ~result[t]
       /\ Goto(t, "ntp")
       /\ UNCHANGED <<radio, handler, callback, sem, recved, waitsOn, result,
                      net_state, asserted, signalled, abandoned>>

Delete(t) == DeleteResuming(t, {u \in Callers : pc[u] = "waiting" /\ waitsOn[u] = net_ready})

\* ntp_sync_to_rtc: talks to the network and returns, whatever comes of it.
NtpReturns(t) ==
    /\ asserted = "none"
    /\ pc[t] = "ntp"
    /\ Goto(t, "online")
    /\ UNCHANGED <<radio, handler, callback, sem, recved, waitsOn, result,
                   net_state, asserted, signalled, abandoned>>

\* net_state = RT_TRUE and the return; the thread ends when the result is
\* RT_EOK and starts over otherwise.
GoOnline(t) ==
    /\ pc[t] = "online"
    /\ Running(t)
    /\ net_state' = TRUE
    /\ Goto(t, IF t = Wifi /\ result[t] THEN "done" ELSE "sleep")
    /\ result' = [result EXCEPT ![t] = FALSE]
    /\ UNCHANGED <<radio, handler, callback, sem, recved, waitsOn, asserted,
                   signalled, abandoned>>

-----------------------------------------------------------------------------
(* The radio, the interface and the work queue.                            *)

\* drv_wlan registers the device.
DeviceRegistered ==
    /\ asserted = "none"
    /\ ~wlan0
    /\ wlan0' = TRUE
    /\ UNCHANGED <<connected, ready, attempted, ip, handler, callback, sem, pc,
                   recved, waitsOn, result, net_state, asserted, signalled,
                   abandoned>>

\* rt_wlan_event_dispatch, CONNECT: at any time after a join was requested,
\* late or by the automatic reconnection included.
LinkUp ==
    /\ asserted = "none"
    /\ attempted /\ ~connected
    /\ connected' = TRUE
    /\ recved' = [t \in Callers |-> recved[t] \/ pc[t] = "joining"]
    /\ UNCHANGED <<wlan0, ready, attempted, ip, handler, callback, sem, pc,
                   waitsOn, result, net_state, asserted, signalled, abandoned>>

\* rt_wlan_event_dispatch, DISCONNECT.
LinkDown ==
    /\ asserted = "none"
    /\ connected
    /\ connected' = FALSE
    /\ ready' = FALSE
    /\ UNCHANGED <<wlan0, attempted, ip, handler, callback, sem, pc, recved,
                   waitsOn, result, net_state, asserted, signalled, abandoned>>

\* dhcp_start's exchange completes.
DhcpBound ==
    /\ asserted = "none"
    /\ connected /\ ~ip
    /\ ip' = TRUE
    /\ UNCHANGED <<wlan0, connected, ready, attempted, handler, callback, sem,
                   pc, recved, waitsOn, result, net_state, asserted, signalled,
                   abandoned>>

\* netif_set_connected after a disconnection clears the address.
NetifDown ==
    /\ WlanJobRuns
    /\ ~callback
    /\ ~connected /\ ip
    /\ ip' = FALSE
    /\ UNCHANGED <<wlan0, connected, ready, attempted, handler, callback, sem,
                   pc, recved, waitsOn, result, net_state, asserted, signalled,
                   abandoned>>

\* netif_is_ready, rt_wlan_prot_ready_event: raised once per connection; the
\* handler is fetched with the interrupts off.
ReadyEvent ==
    /\ WlanJobRuns
    /\ ~callback
    /\ connected /\ ip /\ ~ready
    /\ net_ready \in Sems => value[net_ready] < MaxTokens
    /\ ready' = TRUE
    /\ callback' = handler
    /\ signalled' = [t \in Callers |-> TRUE]
    /\ UNCHANGED <<wlan0, connected, attempted, ip, handler, sem, pc, recved,
                   waitsOn, result, net_state, asserted, abandoned>>

\* wifi_ready_callback: rt_sem_release(net_ready) resumes a queued thread or
\* leaves a token.
ReadyCallback ==
    /\ WlanJobRuns
    /\ callback
    /\ callback' = FALSE
    /\ asserted' = Checked(net_ready)
    /\ \/ /\ asserted' # "none"
          /\ UNCHANGED <<value, waitsOn, result, pc>>
       \/ /\ asserted' = "none"
          /\ \E t \in Callers :
                /\ waitsOn[t] = net_ready
                /\ waitsOn' = [waitsOn EXCEPT ![t] = NoSem]
                /\ result' = [result EXCEPT ![t] = TRUE]
                /\ Goto(t, "unregister")
          /\ UNCHANGED value
       \/ /\ asserted' = "none"
          /\ \A t \in Callers : waitsOn[t] # net_ready
          /\ value' = [value EXCEPT ![net_ready] = @ + 1]
          /\ UNCHANGED <<waitsOn, result, pc>>
    /\ UNCHANGED <<radio, handler, net_ready, alive, recved, net_state,
                   signalled, abandoned>>

-----------------------------------------------------------------------------
CallerStep(t) ==
    \/ Create(t) \/ Register(t) \/ Connect(t) \/ Joined(t) \/ JoinFailed(t)
    \/ Take(t) \/ TakeTimeout(t) \/ Unregister(t) \/ Delete(t)
    \/ NtpReturns(t) \/ GoOnline(t)

RadioStep == DeviceRegistered \/ LinkUp \/ LinkDown \/ DhcpBound

WlanJobStep == NetifDown \/ ReadyEvent \/ ReadyCallback

Next ==
    \/ WakeUp \/ ShellCommand
    \/ \E t \in Callers : CallerStep(t)
    \/ RadioStep
    \/ WlanJobStep

Spec == Init /\ [][Next]_vars

\* While net_state is FALSE every other thread of the application only sleeps
\* and polls it, so that the caller and the work queue get the processor and
\* the timers fire.  Nothing is promised for the radio.
FairSpec ==
    /\ Spec
    /\ WF_vars(~net_state /\ (WakeUp \/ CallerStep(Wifi)))
    /\ WF_vars(~net_state /\ WlanJobStep)

\* The same with the processor granted after net_state is TRUE too.
AlwaysFairSpec ==
    /\ Spec
    /\ WF_vars(WakeUp \/ CallerStep(Wifi))
    /\ WF_vars(WlanJobStep)

-----------------------------------------------------------------------------
(* Properties.                                                             *)

\* Every variable has its type.
TypeOK ==
    /\ wlan0 \in BOOLEAN /\ connected \in BOOLEAN /\ ready \in BOOLEAN
    /\ attempted \in BOOLEAN /\ ip \in BOOLEAN
    /\ handler \in BOOLEAN /\ callback \in BOOLEAN
    /\ net_ready \in Sems \cup {NoSem}
    /\ alive \in SUBSET Sems
    /\ value \in [Sems -> Nat]
    /\ pc \in [Callers -> Labels]
    /\ recved \in [Callers -> BOOLEAN]
    /\ waitsOn \in [Callers -> Sems \cup {NoSem}]
    /\ result \in [Callers -> BOOLEAN]
    /\ net_state \in BOOLEAN
    /\ asserted \in {"none", "null", "type"}
    /\ signalled \in [Callers -> BOOLEAN]
    /\ abandoned \in SUBSET Sems

\* RT_ASSERT(rt_object_get_type(...) == RT_Object_Class_Semaphore) in
\* rt_sem_take, rt_sem_delete and rt_sem_release: no semaphore is used after
\* it was deleted, by wifi_ready_callback in particular.
NoUseAfterDelete == asserted # "type"

\* Two overlapping calls delete each other's semaphore, but neither is left
\* suspended on a deleted one: rt_sem_delete resumes whoever is queued.
NoOrphanWaiter == \A t \in Callers : pc[t] = "waiting" => waitsOn[t] \in alive

\* Between calls, the only semaphores in existence are those of calls whose
\* join failed: a wait that times out leaves none behind.
LeakOnlyOnFailedJoin ==
    pc[Wifi] \in {"sleep", "done"} => alive = abandoned

\* wifi_connect returns RT_EOK to its thread only when READY was raised after
\* the call created its semaphore: no token of an earlier connection counts.
SuccessIsOfThisCall ==
    pc[Wifi] \in {"unregister", "delete", "ntp", "online"} /\ result[Wifi]
        => signalled[Wifi]

\* Until the station is declared on line, no call of wifi_connect hangs:
\* it fails, and is retried, or sets net_state.
FirstCallEnds ==
    (pc[Wifi] = "create" /\ ~net_state)
        ~> (pc[Wifi] = "sleep" \/ net_state \/ asserted # "none")

\* wifi.c: the thread waits for the address to be got.  Once the station is
\* connected with its address for good, the wait ends in success (or the kernel
\* has stopped on the assertion that the semaphore exists).
AddressEndsWait ==
    <>[](connected /\ ip) => <>(pc[Wifi] = "done" \/ asserted # "none")

-----------------------------------------------------------------------------
(* The strengthening that makes NoUseAfterDelete, LeakOnlyOnFailedJoin and  *)
(* SuccessIsOfThisCall inductive while no shell command is issued.          *)

InCall == {"register", "connect", "joining", "take", "waiting", "unregister",
           "delete"}

ShellInv == pc[Shell] = "sleep" /\ waitsOn[Shell] = NoSem

\* Whoever may still use net_ready finds a live object or RT_NULL.
SemInv ==
    /\ handler \/ callback \/ pc[Wifi] \in InCall
          => net_ready \in alive \cup {NoSem}
    /\ pc[Wifi] = "delete" => ~handler /\ ~callback
    /\ waitsOn[Wifi] # NoSem => pc[Wifi] = "waiting"

LeakInv ==
    IF pc[Wifi] \in InCall
    THEN alive = abandoned \cup ({net_ready} \ {NoSem}) /\ net_ready \notin abandoned
    ELSE alive = abandoned

SignalInv ==
    /\ callback => signalled[Wifi]
    /\ pc[Wifi] \in InCall /\ net_ready \in Sems /\ value[net_ready] > 0
          => signalled[Wifi]

IInv == /\ TypeOK /\ ShellInv /\ SemInv /\ LeakInv /\ SignalInv
        /\ NoUseAfterDelete /\ SuccessIsOfThisCall

\* With shell commands too: a caller is queued exactly while it waits, on a
\* semaphore that exists.
WaitInv ==
    /\ pc \in [Callers -> Labels]
    /\ waitsOn \in [Callers -> Sems \cup {NoSem}]
    /\ net_ready \in Sems \cup {NoSem}
    /\ alive \in SUBSET Sems
    /\ \A t \in Callers : waitsOn[t] \in (IF pc[t] = "waiting" THEN alive ELSE {NoSem})
=============================================================================
