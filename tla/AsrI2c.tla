------------------------------- MODULE AsrI2c -------------------------------
(***************************************************************************)
(* The voice module on I2C1: applications/asr.c over the blocking master   *)
(* transfers of stm32l4xx_hal_i2c.c and the tick of drivers/board.c.       *)
(*                                                                         *)
(* Two contexts use the one handle hi2c1.  The asr thread asks for the     *)
(* result every 2 s: it sends the number of a register, then reads a byte. *)
(* key_irq_entry, the handler of the second button, writes a register; it  *)
(* can strike between any two steps of the thread, which goes on only when *)
(* the handler has returned.  SysTick's interrupt (priority 0, drv_clock.c)*)
(* is above the handler's (EXTI, priority 5): the tick goes on in both.    *)
(*                                                                         *)
(* The value of a register does not matter, only which one it came from.   *)
(***************************************************************************)
EXTENDS Integers

CONSTANTS
    TickMod,      \* rt_tick_t and the HAL's ticks are counted modulo 2^32
    TickScale,    \* the factor 1000 of HAL_GetTick
    BusyTimeout,  \* I2C_TIMEOUT_BUSY, 25 ms
    Timeout,      \* the time-out of asr.c, 1000 ms
    InitWrites    \* calls of I2C_Write in asr_init, 4

ASSUME TickAssumption ==
    /\ TickMod \in Nat \ {0} /\ TickScale \in Nat \ {0}
    /\ BusyTimeout \in Nat \ {0} /\ Timeout \in Nat \ {0} /\ InitWrites \in Nat

Thread   == "thread"
Handler  == "handler"
Contexts == {Thread, Handler}

VARIABLES
    State,      \* hi2c1.State: "ready", or "busy" for BUSY_TX and BUSY_RX
    Lock,       \* hi2c1.Lock = HAL_LOCKED
    XferCount,  \* hi2c1.XferCount: the bytes not moved yet
    busy,       \* the BUSY flag of the peripheral
    pointer,    \* the register the voice module would send next
    rt_tick,    \* the kernel's tick
    pc,         \* where each context is
    job,        \* the transfer the thread makes
    tickstart,  \* its local; 0 outside a transfer
    status,     \* what the last transfer of each context returned
    res,        \* the local of asr_get_result: where its value comes from
    todo        \* the writes asr_init has still to make

\* History variables.
VARIABLES
    waited,     \* ticks since the thread read tickstart, up to Late
    sure        \* in this poll the number of the register was sent, and no key

\* More than the time-out, or the HAL's tick has wrapped meanwhile.
Late == Timeout + 1

handle  == <<State, Lock, XferCount>>
device  == <<busy, pointer>>
locals  == <<job, tickstart, status>>
history == <<waited, sure>>
vars    == <<handle, device, rt_tick, pc, locals, res, todo, history>>

\* What asr.c transfers: a write of asr_init, the register number of I2C_Read,
\* its answer, and the write of key_irq_entry.  RegisterWrong never asks for the
\* result.
Jobs     == {"setup", "point", "read", "key"}
RegisterWrong == [j \in Jobs \ {"read"} |-> IF j = "key" THEN "keyflag" ELSE "settings"]
Register == [j \in Jobs \ {"read"} |->
                CASE j = "point" -> "result" [] j = "key" -> "keyflag"
                  [] OTHER -> "settings"]
Size     == [j \in Jobs |-> IF j \in {"setup", "key"} THEN 2 ELSE 1]

\* The transfer a context makes.
Job(c) == IF c = Handler THEN "key" ELSE job

\* The steps of a transfer from __HAL_LOCK to __HAL_UNLOCK.
Inside == {"tick", "wait", "start", "data", "nacked", "stop", "ready", "unlock"}
PCs    == Inside \cup {"check", "test", "set", "sleep", "use", "off", "end"}

\* MX_I2C1_Init is done, asr_init is about to make its first write.
Init ==
    /\ State = "ready" /\ Lock = FALSE
    /\ busy = FALSE /\ pointer = "settings"
    /\ rt_tick = 0
    /\ pc = [c \in Contexts |-> IF c = Handler THEN "off"
                                ELSE IF InitWrites = 0 THEN "sleep" ELSE "check"]
    /\ job = "setup"
    /\ XferCount = 0
    /\ tickstart = [c \in Contexts |-> 0]
    /\ status = [c \in Contexts |-> "ok"]
    /\ res = "stack"
    /\ todo = InitWrites
    /\ waited = 0
    /\ sure = FALSE

-----------------------------------------------------------------------------
(* The processor and its tick.                                             *)

\* A tick of another unit.
HAL_GetTickScaled == (rt_tick * TickScale) % TickMod

\* HAL_GetTick of board.c: rt_tick_get() * 1000 / RT_TICK_PER_SECOND in 32 bits.
HAL_GetTick == ((rt_tick * TickScale) % TickMod) \div TickScale

\* (HAL_GetTick() - Tickstart) > Timeout, in unsigned arithmetic.
Expired(c, limit) == (HAL_GetTick - tickstart[c]) % TickMod > limit

\* The handler runs to its end before the thread goes on.
Runs(c) == c = Thread => pc[Handler] = "off"

At(c, l)   == Runs(c) /\ pc[c] = l
Goto(c, l) == pc' = [pc EXCEPT ![c] = l]

\* The handler is not running, or is in a loop that looks at the tick.  A tick
\* between two other of its steps is no different from one before them, and is
\* left out: neither those steps nor the suspended thread look at it.
TickSeen == pc[Handler] \in {"off", "wait", "data", "nacked", "stop"}

\* SysTick_Handler interrupts the thread and the handler of the button.
SysTick ==
    /\ TickSeen
    /\ rt_tick' = (rt_tick + 1) % TickMod
    /\ waited' = IF pc[Thread] \notin Inside \/ waited = Late THEN waited
                 ELSE IF HAL_GetTick' < HAL_GetTick THEN Late ELSE waited + 1
    /\ UNCHANGED <<handle, device, pc, locals, res, todo, sure>>

-----------------------------------------------------------------------------
(* The callers in asr.c.                                                   *)

\* The next transfer of the thread: the other writes of asr_init; after the
\* number of the register its value, whatever became of the number.
Return(c, s) ==
    /\ status' = [status EXCEPT ![c] = s]
    /\ \/ /\ c = Handler
          /\ Goto(c, "end")
          /\ UNCHANGED <<job, todo, sure>>
       \/ /\ c = Thread /\ job = "setup"
          /\ todo' = todo - 1
          /\ Goto(c, IF todo = 1 THEN "sleep" ELSE "check")
          /\ UNCHANGED <<job, sure>>
       \/ /\ c = Thread /\ job = "point"
          /\ Goto(c, "check")
          /\ job' = "read"
          /\ sure' = (s = "ok")
          /\ UNCHANGED todo
       \/ /\ c = Thread /\ job = "read"
          /\ Goto(c, "use")
          /\ UNCHANGED <<job, todo, sure>>

\* asr_thread_entry wakes up and calls asr_get_result; its local res is not
\* initialised: it holds what the stack held.
Poll ==
    /\ At(Thread, "sleep")
    /\ Goto(Thread, "check")
    /\ job' = "point"
    /\ sure' = FALSE
    /\ UNCHANGED <<handle, device, rt_tick, tickstart, status, res, todo, waited>>

\* The thread compares res, calls change_city for a code from 10 to 49, and
\* sleeps again; its local is gone.  change_city may keep it as long as it likes
\* (that is Station's subject): no fairness is asked for this step.
Use ==
    /\ At(Thread, "use")
    /\ Goto(Thread, "sleep")
    /\ res' = "stack"
    /\ UNCHANGED <<handle, device, rt_tick, locals, todo, history>>

\* The falling edge of KEY2 once asr_init has attached and enabled the handler.
KeyPress ==
    /\ todo = 0
    /\ At(Handler, "off")
    /\ Goto(Handler, "check")
    /\ UNCHANGED <<handle, device, rt_tick, locals, res, todo, history>>

\* key_irq_entry returns; nobody looks at the status.
HandlerReturns ==
    /\ At(Handler, "end")
    /\ Goto(Handler, "off")
    /\ status' = [status EXCEPT ![Handler] = "ok"]
    /\ UNCHANGED <<handle, device, rt_tick, job, tickstart, res, todo, history>>

-----------------------------------------------------------------------------
(* HAL_I2C_Master_Transmit and HAL_I2C_Master_Receive.                     *)

\* if (hi2c->State == HAL_I2C_STATE_READY), else HAL_BUSY.
CheckState(c) ==
    /\ At(c, "check")
    /\ IF State = "ready" THEN Goto(c, "test") /\ UNCHANGED <<job, status, todo, sure>>
       ELSE Return(c, "busy")
    /\ UNCHANGED <<handle, device, rt_tick, tickstart, res, waited>>

\* A lock that is not tested.
TestNothing(c) ==
    /\ At(c, "test")
    /\ Goto(c, "set")
    /\ UNCHANGED <<handle, device, rt_tick, locals, res, todo, history>>

\* A caller that tries again while the handle is locked.
TestLockRetries(c) ==
    /\ At(c, "test")
    /\ Goto(c, IF Lock THEN "check" ELSE "set")
    /\ UNCHANGED <<handle, device, rt_tick, locals, res, todo, history>>

\* __HAL_LOCK: the test, and HAL_BUSY.
TestLock(c) ==
    /\ At(c, "test")
    /\ IF ~Lock THEN Goto(c, "set") /\ UNCHANGED <<job, status, todo, sure>>
       ELSE Return(c, "busy")
    /\ UNCHANGED <<handle, device, rt_tick, tickstart, res, waited>>

\* __HAL_LOCK: the assignment.
SetLock(c) ==
    /\ At(c, "set")
    /\ Lock' = TRUE
    /\ Goto(c, "tick")
    /\ UNCHANGED <<State, XferCount, device, rt_tick, locals, res, todo, history>>

\* tickstart = HAL_GetTick().
ReadTick(c) ==
    /\ At(c, "tick")
    /\ tickstart' = [tickstart EXCEPT ![c] = HAL_GetTick]
    /\ waited' = IF c = Thread THEN 0 ELSE waited
    /\ Goto(c, "wait")
    /\ UNCHANGED <<handle, device, rt_tick, job, status, res, todo, sure>>

\* I2C_WaitOnFlagUntilTimeout finds the BUSY flag clear.
BusFree(c) ==
    /\ At(c, "wait")
    /\ ~busy
    /\ Goto(c, "start")
    /\ UNCHANGED <<handle, device, rt_tick, locals, res, todo, history>>

\* State = HAL_I2C_STATE_BUSY_TX or _RX; I2C_TransferConfig makes the START.
Start(c) ==
    /\ At(c, "start")
    /\ State' = "busy"
    /\ busy' = TRUE
    /\ XferCount' = Size[Job(c)]
    /\ Goto(c, "data")
    /\ UNCHANGED <<Lock, pointer, rt_tick, job, tickstart, status, res, todo, history>>

\* The module has acknowledged the bytes written so far: the first of them is
\* the number of a register.  A key that writes it makes the poll unsure.
Acknowledged(c) ==
    IF Job(c) # "read" /\ XferCount < Size[Job(c)]
    THEN /\ pointer' = Register[Job(c)]
         /\ sure' = (sure /\ c = Thread)
    ELSE UNCHANGED <<pointer, sure>>

\* TXIS or RXNE: the byte is written to TXDR or read from RXDR, and the loop
\* goes on unless last bytes were left.
MoveByteUntil(c, last) ==
    /\ At(c, "data")
    /\ Acknowledged(c)
    /\ XferCount' = XferCount - 1
    /\ res' = IF Job(c) = "read" THEN pointer ELSE res
    /\ Goto(c, IF XferCount = last THEN "stop" ELSE "data")
    /\ UNCHANGED <<State, Lock, busy, rt_tick, job, tickstart, status, todo, waited>>

\* A loop that moves one byte more than the transfer has.
MoveByteTooFar(c) == MoveByteUntil(c, 0)

\* while (XferCount > 0U): the one byte left is the last.
MoveByte(c) == MoveByteUntil(c, 1)

\* STOPF after the last byte: AUTOEND has made the STOP.
Stopped(c) ==
    /\ At(c, "stop")
    /\ Acknowledged(c)
    /\ busy' = FALSE
    /\ Goto(c, "ready")
    /\ status' = [status EXCEPT ![c] = "ok"]
    /\ UNCHANGED <<handle, rt_tick, job, tickstart, res, todo, waited>>

\* I2C_IsAcknowledgeFailed sees the NACK flag and waits for STOPF.
Nack(c) ==
    /\ At(c, "data") \/ (At(c, "stop") /\ Job(c) # "read")
    /\ Goto(c, "nacked")
    /\ UNCHANGED <<handle, device, rt_tick, locals, res, todo, history>>

\* STOPF after a NACK, or instead of RXNE (I2C_WaitOnRXNEFlagUntilTimeout):
\* the flags are cleared and the transfer has failed.
StoppedEarly(c) ==
    /\ At(c, "nacked") \/ (At(c, "data") /\ Job(c) = "read")
    /\ busy' = FALSE
    /\ status' = [status EXCEPT ![c] = "error"]
    /\ Goto(c, "ready")
    /\ UNCHANGED <<handle, pointer, rt_tick, job, tickstart, res, todo,
                   history>>

\* Only the wait for the bus gives up.
GiveUpBusyOnly(c) ==
    /\ At(c, "wait") /\ busy /\ Expired(c, BusyTimeout)
    /\ status' = [status EXCEPT ![c] = "timeout"]
    /\ Goto(c, "ready")
    /\ UNCHANGED <<handle, device, rt_tick, job, tickstart, res, todo, history>>

\* Any of the wait loops gives up.  Nothing ends the transfer on the bus.
GiveUp(c) ==
    /\ \/ At(c, "wait") /\ busy /\ Expired(c, BusyTimeout)
       \/ \E l \in {"data", "nacked", "stop"} : At(c, l) /\ Expired(c, Timeout)
    /\ status' = [status EXCEPT ![c] = "timeout"]
    /\ Goto(c, "ready")
    /\ UNCHANGED <<handle, device, rt_tick, job, tickstart, res, todo,
                   history>>

\* An end of the transfer that leaves the lock behind when it failed.
UnlockOnlyOnSuccess(c) ==
    /\ At(c, "unlock")
    /\ Lock' = (status[c] # "ok")
    /\ Return(c, status[c])
    /\ tickstart' = [tickstart EXCEPT ![c] = 0]
    /\ UNCHANGED <<State, XferCount, device, rt_tick, res, waited>>

\* State = HAL_I2C_STATE_READY, on success and on every error path.
SetReady(c) ==
    /\ At(c, "ready")
    /\ State' = "ready"
    /\ Goto(c, "unlock")
    /\ UNCHANGED <<Lock, XferCount, device, rt_tick, locals, res, todo, history>>

\* __HAL_UNLOCK, and the return.
Unlock(c) ==
    /\ At(c, "unlock")
    /\ Lock' = FALSE
    /\ Return(c, status[c])
    /\ tickstart' = [tickstart EXCEPT ![c] = 0]
    /\ UNCHANGED <<State, XferCount, device, rt_tick, res, waited>>

\* A transfer that was given up ends on the bus after all: the module lets the
\* lines go.
BusReleased ==
    /\ busy
    /\ \A c \in Contexts : pc[c] \notin {"data", "nacked", "stop"}
    /\ busy' = FALSE
    /\ UNCHANGED <<handle, pointer, rt_tick, pc, locals, res, todo, history>>

-----------------------------------------------------------------------------
\* The steps of the processor, and those that need an event on the bus.
Step(c) ==
    \/ CheckState(c) \/ TestLock(c) \/ SetLock(c) \/ ReadTick(c) \/ BusFree(c)
    \/ Start(c) \/ GiveUp(c) \/ SetReady(c) \/ Unlock(c)

BusEvent(c) == MoveByte(c) \/ Stopped(c) \/ Nack(c) \/ StoppedEarly(c)

Next ==
    \/ SysTick \/ Poll \/ Use \/ KeyPress \/ HandlerReturns \/ BusReleased
    \/ \E c \in Contexts : Step(c) \/ BusEvent(c)

\* The tick goes on, and each context makes the steps that are its own: a wait
\* loop looks at the tick many times before it changes; the asr thread shares its
\* priority with the key thread, in time slices, and only the UI thread is above
\* both.  The voice module owes nothing, and neither does change_city.
Fairness ==
    /\ SF_vars(SysTick)
    /\ SF_vars(Step(Thread) \/ Poll)
    /\ SF_vars(Step(Handler) \/ HandlerReturns)

Spec == Init /\ [][Next]_vars /\ Fairness

-----------------------------------------------------------------------------
(* Properties.                                                             *)

\* Every variable has its type.
TypeOK ==
    /\ State \in {"ready", "busy"} /\ Lock \in BOOLEAN
    /\ busy \in BOOLEAN /\ pointer \in {"settings", "result", "keyflag"}
    /\ rt_tick \in 0 .. TickMod - 1
    /\ pc \in [Contexts -> PCs]
    /\ job \in Jobs \ {"key"}
    /\ XferCount \in 0 .. 2
    /\ tickstart \in [Contexts -> 0 .. TickMod - 1]
    /\ status \in [Contexts -> {"ok", "busy", "error", "timeout"}]
    /\ res \in {"stack", "settings", "result", "keyflag"}
    /\ todo \in 0 .. InitWrites
    /\ waited \in 0 .. Late
    /\ sure \in BOOLEAN

\* The contexts between __HAL_LOCK and __HAL_UNLOCK.
users == {c \in Contexts : pc[c] \in Inside}

\* The handle follows the transfer in progress, on every path out of it: it is
\* locked exactly while one is in progress, and ready when none is.
HandleSound ==
    /\ Lock = (users # {})
    /\ State = "busy" => \E c \in users : pc[c] \in {"data", "nacked", "stop", "ready"}

\* The handle is a lock between the thread and the interrupt handler: no
\* transfer of the one ever runs into a transfer of the other.
Transfers == INSTANCE Exclusive WITH Users <- Contexts, users <- users
OneTransferAtATime == Transfers!Spec

\* A press of the key is refused only when it interrupts a transfer of the
\* thread; at any other time it is put on the bus.
KeyRefusedOnlyInTransfer ==
    pc[Handler] = "end" /\ status[Handler] = "busy" => pc[Thread] \in Inside

\* A result the thread uses was read from the result register, if both
\* transfers of the poll succeeded and no key was written between them.
ResultGenuine ==
    pc[Thread] = "use" /\ status[Thread] = "ok" /\ sure => res = "result"

\* The transfers of a poll, and the writes of asr_init, end, whatever the voice
\* module does, for however long it keeps silent and however often the key
\* interrupts them: the thread comes to use the result or to sleep.  What
\* change_city then makes of the result is not part of this.
PollEnds == (pc[Thread] = "check") ~> (pc[Thread] \in {"use", "sleep"})

\* The handler of the key returns, whatever the voice module does and whatever
\* transfer of the thread it has interrupted: it never waits for the thread.
KeyHandlerReturns == (pc[Handler] = "check") ~> (pc[Handler] = "off")

\* A transfer is given up before its time-out only if the HAL's tick wrapped
\* meanwhile: it does so at 2^32 / 1000 ticks, the subtraction at 2^32.
GivenUpLate ==
    [][pc[Thread] \in {"data", "nacked", "stop"} /\ GiveUp(Thread)
          => waited = Late]_vars

-----------------------------------------------------------------------------
(* The strengthening that makes the invariants inductive.                  *)

\* Never both in a transfer; a handler that has found the handle unlocked has
\* interrupted none.
ExclusionInv ==
    /\ ~(pc[Thread] \in Inside /\ pc[Handler] \in Inside)
    /\ pc[Handler] = "set" => pc[Thread] \notin Inside

\* Bytes are moved while there are some; a transfer that was begun does not end
\* in HAL_BUSY; asr_init's transfers are counted.
ProgressInv ==
    /\ \A c \in Contexts : pc[c] = "data" => XferCount \in 1 .. 2
    /\ \A c \in Contexts : pc[c] = "stop" => XferCount = 0
    /\ \A c \in Contexts : pc[c] \in {"ready", "unlock"} => status[c] # "busy"
    /\ job = "setup" /\ pc[Thread] \notin {"sleep", "use"} => todo > 0

\* While the thread can be sure of it, the voice module's register is the one of
\* the result, and so is the byte it has read.
GenuineInv ==
    /\ sure => job = "read" /\ pointer = "result"
    /\ job = "point" /\ pc[Thread] \in {"ready", "unlock"} /\ status[Thread] = "ok"
          => pointer = "result"
    /\ sure /\ pc[Thread] = "stop" => res = "result"
    /\ sure /\ pc[Thread] \in {"ready", "unlock"} /\ status[Thread] = "ok"
          => res = "result"

\* Since the thread read tickstart the HAL's tick has not fallen back, and has
\* not gone further than the kernel's, or the thread has waited for Late.
WaitedInv ==
    pc[Thread] \in Inside \ {"tick"} /\ waited < Late =>
        HAL_GetTick \in tickstart[Thread] .. tickstart[Thread] + waited

IInv == /\ TypeOK /\ ExclusionInv /\ ProgressInv /\ GenuineInv /\ HandleSound
        /\ KeyRefusedOnlyInTransfer /\ ResultGenuine
=============================================================================
