---------------------------- MODULE AsrI2cProofs ----------------------------
(* Proofs about AsrI2c, for every tick, every time-out and every number of  *)
(* transfers in asr_init.                                                   *)
EXTENDS AsrI2c, TLAPS

LEMMA ContextsAre ==
  /\ Contexts = {Thread, Handler} /\ Thread # Handler
  /\ Thread = "thread" /\ Handler = "handler"
BY DEF Contexts, Thread, Handler

LEMMA LabelsAre ==
  /\ PCs = {"tick", "wait", "start", "data", "nacked", "stop", "ready", "unlock",
            "check", "test", "set", "sleep", "use", "off", "end"}
  /\ Jobs = {"setup", "point", "read", "key"}
  /\ \A j \in Jobs \ {"read"} : Register[j] \in {"settings", "result", "keyflag"}
BY DEF PCs, Inside, Jobs, Register

LEMMA RegisterIs ==
  /\ Register["setup"] = "settings" /\ Register["point"] = "result"
  /\ Register["key"] = "keyflag"
  /\ Size["setup"] = 2 /\ Size["point"] = 1 /\ Size["key"] = 2 /\ Size["read"] = 1
BY LabelsAre DEF Register, Size

LEMMA SizeType == \A c \in Contexts : job \in Jobs => Size[Job(c)] \in 1 .. 2
BY DEF Size, Job, Jobs

\* No transfer is in progress when neither context is in one.
LEMMA NoUsers == users = {} <=> pc[Thread] \notin Inside /\ pc[Handler] \notin Inside
BY ContextsAre DEF users

\* HAL_GetTick returns a value of the HAL's tick.
LEMMA TickType ==
  ASSUME rt_tick \in 0 .. TickMod - 1
  PROVE  HAL_GetTick \in 0 .. TickMod - 1
<1> USE TickAssumption
<1>1. PICK x \in Int : x = rt_tick * TickScale
  OBVIOUS
<1>2. x % TickMod \in 0 .. TickMod - 1
  BY <1>1
<1>3. ASSUME NEW y \in 0 .. TickMod - 1 PROVE y \div TickScale \in 0 .. TickMod - 1
  OBVIOUS
<1> QED
  BY <1>1, <1>2, <1>3 DEF HAL_GetTick

\* The return of a transfer keeps the types.
LEMMA ReturnType ==
  ASSUME TypeOK, ProgressInv, NEW c \in Contexts,
         NEW s \in {"ok", "busy", "error", "timeout"},
         pc[c] \in PCs \ {"sleep", "use"}, Return(c, s)
  PROVE  /\ pc' \in [Contexts -> PCs] /\ job' \in Jobs \ {"key"}
         /\ status' \in [Contexts -> {"ok", "busy", "error", "timeout"}]
         /\ todo' \in 0 .. InitWrites /\ sure' \in BOOLEAN
<1> USE ContextsAre, LabelsAre, TickAssumption DEF TypeOK, Return, Goto
<1>1. status' \in [Contexts -> {"ok", "busy", "error", "timeout"}]
  OBVIOUS
<1>2. pc' \in [Contexts -> PCs] /\ job' \in Jobs \ {"key"}
  OBVIOUS
<1>3. todo' \in 0 .. InitWrites
  BY DEF ProgressInv
<1>4. sure' \in BOOLEAN
  OBVIOUS
<1> QED
  BY <1>1, <1>2, <1>3, <1>4

\* After MX_I2C1_Init the inductive invariant holds.
LEMMA InitIInv == Init => IInv
<1> SUFFICES ASSUME Init PROVE IInv
  OBVIOUS
<1> USE TickAssumption, ContextsAre DEF Init
<1>1. TypeOK
  <2>1. 0 \in 0 .. TickMod - 1 /\ 0 \in 0 .. Late
    BY DEF Late
  <2>2. pc \in [Contexts -> PCs]
    BY LabelsAre
  <2>3. tickstart \in [Contexts -> 0 .. TickMod - 1]
    BY <2>1
  <2>4. status \in [Contexts -> {"ok", "busy", "error", "timeout"}]
    OBVIOUS
  <2>5. /\ State \in {"ready", "busy"} /\ pointer \in {"settings", "result", "keyflag"}
        /\ XferCount \in 0 .. 2 /\ todo \in 0 .. InitWrites
        /\ job \in Jobs \ {"key"} /\ res \in {"stack", "settings", "result", "keyflag"}
    BY LabelsAre
  <2>6. Lock \in BOOLEAN /\ busy \in BOOLEAN /\ sure \in BOOLEAN
    OBVIOUS
  <2> QED
    BY <2>1, <2>2, <2>3, <2>4, <2>5, <2>6 DEF TypeOK
<1>2. ExclusionInv /\ ProgressInv
  BY DEF ExclusionInv, ProgressInv, Inside
<1>4. GenuineInv /\ ResultGenuine
  BY DEF GenuineInv, ResultGenuine
<1>3. HandleSound /\ KeyRefusedOnlyInTransfer
  BY DEF HandleSound, users, KeyRefusedOnlyInTransfer, Inside
<1> QED
  BY <1>1, <1>2, <1>3, <1>4 DEF IInv

\* Every step keeps every variable in its type.
LEMMA TypeStep ==
  ASSUME IInv, Next
  PROVE  TypeOK'
<1> USE ContextsAre, TickAssumption, LabelsAre DEF IInv, TypeOK, handle, device,
        locals, history
<1>1. CASE SysTick
  BY <1>1 DEF SysTick, Late
<1>2. CASE Poll
  BY <1>2 DEF Poll, At, Goto, Runs
<1>3. CASE Use
  BY <1>3 DEF Use, At, Goto, Runs
<1>4. CASE KeyPress
  BY <1>4 DEF KeyPress, At, Goto, Runs
<1>5. CASE HandlerReturns
  BY <1>5 DEF HandlerReturns, At, Goto, Runs
<1>6. CASE BusReleased
  BY <1>6 DEF BusReleased
<1>7. ASSUME NEW c \in Contexts, CheckState(c) PROVE TypeOK'
  <2>1. CASE State = "ready"
    BY <1>7, <2>1 DEF CheckState, At, Goto
  <2>2. CASE ~(State = "ready")
    <3>1. Return(c, "busy") /\ pc[c] \in PCs \ {"sleep", "use"}
      BY <1>7, <2>2 DEF CheckState, At
    <3> QED
      BY <1>7, <3>1, ReturnType DEF CheckState
  <2> QED
    BY <2>1, <2>2
<1>8. ASSUME NEW c \in Contexts, TestLock(c) PROVE TypeOK'
  <2>1. CASE ~Lock
    BY <1>8, <2>1 DEF TestLock, At, Goto
  <2>2. CASE ~(~Lock)
    <3>1. Return(c, "busy") /\ pc[c] \in PCs \ {"sleep", "use"}
      BY <1>8, <2>2 DEF TestLock, At
    <3> QED
      BY <1>8, <3>1, ReturnType DEF TestLock
  <2> QED
    BY <2>1, <2>2
<1>9. ASSUME NEW c \in Contexts, SetLock(c) PROVE TypeOK'
  BY <1>9 DEF SetLock, At, Runs, Goto
<1>10. ASSUME NEW c \in Contexts, ReadTick(c) PROVE TypeOK'
  BY <1>10, TickType DEF ReadTick, At, Runs, Goto, Late
<1>11. ASSUME NEW c \in Contexts, BusFree(c) PROVE TypeOK'
  BY <1>11 DEF BusFree, At, Runs, Goto
<1>12. ASSUME NEW c \in Contexts, Start(c) PROVE TypeOK'
  BY <1>12, SizeType DEF Start, At, Runs, Goto, Job
<1>13. ASSUME NEW c \in Contexts, GiveUp(c) PROVE TypeOK'
  BY <1>13 DEF GiveUp, At, Runs, Goto
<1>14. ASSUME NEW c \in Contexts, SetReady(c) PROVE TypeOK'
  BY <1>14 DEF SetReady, At, Runs, Goto
<1>15. ASSUME NEW c \in Contexts, Unlock(c) PROVE TypeOK'
  <2>1. Return(c, status[c]) /\ pc[c] \in PCs \ {"sleep", "use"}
    BY <1>15 DEF Unlock, At
  <2>2. tickstart' \in [Contexts -> 0 .. TickMod - 1]
    <3>1. 0 \in 0 .. TickMod - 1
      OBVIOUS
    <3> QED
      BY <1>15, <3>1 DEF Unlock
  <2>3. Lock' \in BOOLEAN
    BY <1>15 DEF Unlock
  <2> QED
    BY <1>15, <2>1, <2>2, <2>3, ReturnType DEF Unlock
<1>16. ASSUME NEW c \in Contexts, MoveByte(c) PROVE TypeOK'
  <2>1. XferCount' \in 0 .. 2 /\ pc' \in [Contexts -> PCs]
    BY <1>16 DEF MoveByte, MoveByteUntil, At, Goto, ProgressInv
  <2>2. pointer' \in {"settings", "result", "keyflag"} /\ sure' \in BOOLEAN
    BY <1>16 DEF MoveByte, MoveByteUntil, Acknowledged, Job
  <2>3. res' \in {"stack", "settings", "result", "keyflag"}
    BY <1>16 DEF MoveByte, MoveByteUntil
  <2> QED
    BY <1>16, <2>1, <2>2, <2>3 DEF MoveByte, MoveByteUntil
<1>17. ASSUME NEW c \in Contexts, Stopped(c) PROVE TypeOK'
  BY <1>17 DEF Stopped, At, Runs, Goto, Acknowledged, Job
<1>18. ASSUME NEW c \in Contexts, Nack(c) PROVE TypeOK'
  BY <1>18 DEF Nack, At, Runs, Goto, Job
<1>19. ASSUME NEW c \in Contexts, StoppedEarly(c) PROVE TypeOK'
  BY <1>19 DEF StoppedEarly, At, Runs, Goto, Job
<1> QED
  BY <1>1, <1>2, <1>3, <1>4, <1>5, <1>6, <1>7, <1>8, <1>9, <1>10,
     <1>11, <1>12, <1>13, <1>14, <1>15, <1>16, <1>17, <1>18, <1>19
  DEF Next, Step, BusEvent

\* No step brings both contexts into a transfer.
LEMMA ExclusionStep ==
  ASSUME IInv, Next
  PROVE  ExclusionInv'
<1> USE ContextsAre DEF IInv, TypeOK, ExclusionInv, HandleSound, users, Inside,
        handle, device, locals, history
<1>1. CASE SysTick
  BY <1>1 DEF SysTick
<1>2. CASE Poll
  BY <1>2 DEF Poll, At, Goto, Runs
<1>3. CASE Use
  BY <1>3 DEF Use, At, Goto, Runs
<1>4. CASE KeyPress
  BY <1>4 DEF KeyPress, At, Goto, Runs
<1>5. CASE HandlerReturns
  BY <1>5 DEF HandlerReturns, At, Goto, Runs
<1>6. CASE BusReleased
  BY <1>6 DEF BusReleased
<1>7. ASSUME NEW c \in Contexts, CheckState(c) PROVE ExclusionInv'
  BY <1>7 DEF CheckState, At, Runs, Goto, Return
<1>8. ASSUME NEW c \in Contexts, TestLock(c) PROVE ExclusionInv'
  <2>1. CASE c = Thread
    BY <1>8, <2>1 DEF TestLock, At, Runs, Goto, Return
  <2>2. CASE c = Handler /\ ~Lock
    BY <1>8, <2>2, NoUsers DEF TestLock, At, Goto
  <2>3. CASE c = Handler /\ Lock
    BY <1>8, <2>3 DEF TestLock, At, Goto, Return
  <2> QED
    BY <2>1, <2>2, <2>3
<1>9. ASSUME NEW c \in Contexts, SetLock(c) PROVE ExclusionInv'
  BY <1>9 DEF SetLock, At, Runs, Goto
<1>10. ASSUME NEW c \in Contexts, ReadTick(c) PROVE ExclusionInv'
  BY <1>10 DEF ReadTick, At, Runs, Goto
<1>11. ASSUME NEW c \in Contexts, BusFree(c) PROVE ExclusionInv'
  BY <1>11 DEF BusFree, At, Runs, Goto
<1>12. ASSUME NEW c \in Contexts, Start(c) PROVE ExclusionInv'
  BY <1>12 DEF Start, At, Runs, Goto, Job
<1>13. ASSUME NEW c \in Contexts, GiveUp(c) PROVE ExclusionInv'
  BY <1>13 DEF GiveUp, At, Runs, Goto
<1>14. ASSUME NEW c \in Contexts, SetReady(c) PROVE ExclusionInv'
  BY <1>14 DEF SetReady, At, Runs, Goto
<1>15. ASSUME NEW c \in Contexts, Unlock(c) PROVE ExclusionInv'
  BY <1>15 DEF Unlock, At, Runs, Goto, Return
<1>16. ASSUME NEW c \in Contexts, MoveByte(c) PROVE ExclusionInv'
  BY <1>16 DEF MoveByte, MoveByteUntil, At, Runs, Goto, Acknowledged, Job
<1>17. ASSUME NEW c \in Contexts, Stopped(c) PROVE ExclusionInv'
  BY <1>17 DEF Stopped, At, Runs, Goto, Acknowledged, Job
<1>18. ASSUME NEW c \in Contexts, Nack(c) PROVE ExclusionInv'
  BY <1>18 DEF Nack, At, Runs, Goto, Job
<1>19. ASSUME NEW c \in Contexts, StoppedEarly(c) PROVE ExclusionInv'
  BY <1>19 DEF StoppedEarly, At, Runs, Goto, Job
<1> QED
  BY <1>1, <1>2, <1>3, <1>4, <1>5, <1>6, <1>7, <1>8, <1>9, <1>10,
     <1>11, <1>12, <1>13, <1>14, <1>15, <1>16, <1>17, <1>18, <1>19
  DEF Next, Step, BusEvent

\* No step moves a byte too many, or a transfer of asr_init too many.
LEMMA ProgressStep ==
  ASSUME IInv, Next
  PROVE  ProgressInv'
<1> USE ContextsAre DEF IInv, TypeOK, ExclusionInv, ProgressInv, Inside, handle,
        device, locals, history
<1>1. CASE SysTick
  BY <1>1 DEF SysTick
<1>2. CASE Poll
  BY <1>2 DEF Poll, At, Goto, Runs
<1>3. CASE Use
  BY <1>3 DEF Use, At, Goto, Runs
<1>4. CASE KeyPress
  BY <1>4 DEF KeyPress, At, Goto, Runs
<1>5. CASE HandlerReturns
  BY <1>5 DEF HandlerReturns, At, Goto, Runs
<1>6. CASE BusReleased
  BY <1>6 DEF BusReleased
<1>7. ASSUME NEW c \in Contexts, CheckState(c) PROVE ProgressInv'
  BY <1>7 DEF CheckState, At, Runs, Goto, Return
<1>8. ASSUME NEW c \in Contexts, TestLock(c) PROVE ProgressInv'
  BY <1>8 DEF TestLock, At, Runs, Goto, Return
<1>9. ASSUME NEW c \in Contexts, SetLock(c) PROVE ProgressInv'
  BY <1>9 DEF SetLock, At, Runs, Goto
<1>10. ASSUME NEW c \in Contexts, ReadTick(c) PROVE ProgressInv'
  BY <1>10 DEF ReadTick, At, Runs, Goto
<1>11. ASSUME NEW c \in Contexts, BusFree(c) PROVE ProgressInv'
  BY <1>11 DEF BusFree, At, Runs, Goto
<1>12. ASSUME NEW c \in Contexts, Start(c) PROVE ProgressInv'
  BY <1>12, SizeType DEF Start, At, Runs, Goto, Job
<1>13. ASSUME NEW c \in Contexts, GiveUp(c) PROVE ProgressInv'
  BY <1>13 DEF GiveUp, At, Runs, Goto
<1>14. ASSUME NEW c \in Contexts, SetReady(c) PROVE ProgressInv'
  BY <1>14 DEF SetReady, At, Runs, Goto
<1>15. ASSUME NEW c \in Contexts, Unlock(c) PROVE ProgressInv'
  BY <1>15 DEF Unlock, At, Runs, Goto, Return
<1>16. ASSUME NEW c \in Contexts, MoveByte(c) PROVE ProgressInv'
  BY <1>16 DEF MoveByte, MoveByteUntil, At, Runs, Goto, Acknowledged, Job
<1>17. ASSUME NEW c \in Contexts, Stopped(c) PROVE ProgressInv'
  BY <1>17 DEF Stopped, At, Runs, Goto, Acknowledged, Job
<1>18. ASSUME NEW c \in Contexts, Nack(c) PROVE ProgressInv'
  BY <1>18 DEF Nack, At, Runs, Goto, Job
<1>19. ASSUME NEW c \in Contexts, StoppedEarly(c) PROVE ProgressInv'
  BY <1>19 DEF StoppedEarly, At, Runs, Goto, Job
<1> QED
  BY <1>1, <1>2, <1>3, <1>4, <1>5, <1>6, <1>7, <1>8, <1>9, <1>10,
     <1>11, <1>12, <1>13, <1>14, <1>15, <1>16, <1>17, <1>18, <1>19
  DEF Next, Step, BusEvent

\* Every step keeps the handle in agreement with the transfer in progress.
LEMMA HandleStep ==
  ASSUME IInv, Next
  PROVE  HandleSound'
<1> USE ContextsAre DEF IInv, TypeOK, ExclusionInv, HandleSound, users, Inside,
        handle, device, locals, history
<1>1. CASE SysTick
  BY <1>1 DEF SysTick
<1>2. CASE Poll
  BY <1>2 DEF Poll, At, Goto, Runs
<1>3. CASE Use
  BY <1>3 DEF Use, At, Goto, Runs
<1>4. CASE KeyPress
  BY <1>4 DEF KeyPress, At, Goto, Runs
<1>5. CASE HandlerReturns
  BY <1>5 DEF HandlerReturns, At, Goto, Runs
<1>6. CASE BusReleased
  BY <1>6 DEF BusReleased
<1>7. ASSUME NEW c \in Contexts, CheckState(c) PROVE HandleSound'
  BY <1>7 DEF CheckState, At, Runs, Goto, Return
<1>8. ASSUME NEW c \in Contexts, TestLock(c) PROVE HandleSound'
  BY <1>8 DEF TestLock, At, Runs, Goto, Return
<1>9. ASSUME NEW c \in Contexts, SetLock(c) PROVE HandleSound'
  BY <1>9 DEF SetLock, At, Runs, Goto
<1>10. ASSUME NEW c \in Contexts, ReadTick(c) PROVE HandleSound'
  BY <1>10 DEF ReadTick, At, Runs, Goto
<1>11. ASSUME NEW c \in Contexts, BusFree(c) PROVE HandleSound'
  BY <1>11 DEF BusFree, At, Runs, Goto
<1>12. ASSUME NEW c \in Contexts, Start(c) PROVE HandleSound'
  BY <1>12 DEF Start, At, Runs, Goto, Job
<1>13. ASSUME NEW c \in Contexts, GiveUp(c) PROVE HandleSound'
  BY <1>13 DEF GiveUp, At, Runs, Goto
<1>14. ASSUME NEW c \in Contexts, SetReady(c) PROVE HandleSound'
  BY <1>14 DEF SetReady, At, Runs, Goto
<1>15. ASSUME NEW c \in Contexts, Unlock(c) PROVE HandleSound'
  <2>1. pc[c] = "unlock" /\ Lock' = FALSE /\ State' = State
    BY <1>15 DEF Unlock, At
  <2>2. \A d \in Contexts : pc'[d] \notin Inside
    BY <1>15, <2>1 DEF Unlock, Return, Goto
  <2>3. State # "busy"
    BY <2>1
  <2> QED
    BY <2>1, <2>2, <2>3
<1>16. ASSUME NEW c \in Contexts, MoveByte(c) PROVE HandleSound'
  BY <1>16 DEF MoveByte, MoveByteUntil, At, Runs, Goto, Acknowledged, Job
<1>17. ASSUME NEW c \in Contexts, Stopped(c) PROVE HandleSound'
  BY <1>17 DEF Stopped, At, Runs, Goto, Acknowledged, Job
<1>18. ASSUME NEW c \in Contexts, Nack(c) PROVE HandleSound'
  BY <1>18 DEF Nack, At, Runs, Goto, Job
<1>19. ASSUME NEW c \in Contexts, StoppedEarly(c) PROVE HandleSound'
  BY <1>19 DEF StoppedEarly, At, Runs, Goto, Job
<1> QED
  BY <1>1, <1>2, <1>3, <1>4, <1>5, <1>6, <1>7, <1>8, <1>9, <1>10,
     <1>11, <1>12, <1>13, <1>14, <1>15, <1>16, <1>17, <1>18, <1>19
  DEF Next, Step, BusEvent

\* HAL_BUSY is for a key that interrupts a transfer.
LEMMA RefusalStep ==
  ASSUME IInv, Next
  PROVE  KeyRefusedOnlyInTransfer'
<1> USE ContextsAre DEF IInv, TypeOK, ExclusionInv, ProgressInv, HandleSound,
        KeyRefusedOnlyInTransfer, users, Inside, handle, device, locals, history
<1>1. CASE SysTick
  BY <1>1 DEF SysTick
<1>2. CASE Poll
  BY <1>2 DEF Poll, At, Goto, Runs
<1>3. CASE Use
  BY <1>3 DEF Use, At, Goto, Runs
<1>4. CASE KeyPress
  BY <1>4 DEF KeyPress, At, Goto, Runs
<1>5. CASE HandlerReturns
  BY <1>5 DEF HandlerReturns, At, Goto, Runs
<1>6. CASE BusReleased
  BY <1>6 DEF BusReleased
<1>7. ASSUME NEW c \in Contexts, CheckState(c) PROVE KeyRefusedOnlyInTransfer'
  BY <1>7 DEF CheckState, At, Runs, Goto, Return
<1>8. ASSUME NEW c \in Contexts, TestLock(c) PROVE KeyRefusedOnlyInTransfer'
  BY <1>8, NoUsers DEF TestLock, At, Runs, Goto, Return
<1>9. ASSUME NEW c \in Contexts, SetLock(c) PROVE KeyRefusedOnlyInTransfer'
  BY <1>9 DEF SetLock, At, Runs, Goto
<1>10. ASSUME NEW c \in Contexts, ReadTick(c) PROVE KeyRefusedOnlyInTransfer'
  BY <1>10 DEF ReadTick, At, Runs, Goto
<1>11. ASSUME NEW c \in Contexts, BusFree(c) PROVE KeyRefusedOnlyInTransfer'
  BY <1>11 DEF BusFree, At, Runs, Goto
<1>12. ASSUME NEW c \in Contexts, Start(c) PROVE KeyRefusedOnlyInTransfer'
  BY <1>12 DEF Start, At, Runs, Goto, Job
<1>13. ASSUME NEW c \in Contexts, GiveUp(c) PROVE KeyRefusedOnlyInTransfer'
  BY <1>13 DEF GiveUp, At, Runs, Goto
<1>14. ASSUME NEW c \in Contexts, SetReady(c) PROVE KeyRefusedOnlyInTransfer'
  BY <1>14 DEF SetReady, At, Runs, Goto
<1>15. ASSUME NEW c \in Contexts, Unlock(c) PROVE KeyRefusedOnlyInTransfer'
  BY <1>15 DEF Unlock, At, Runs, Goto, Return
<1>16. ASSUME NEW c \in Contexts, MoveByte(c) PROVE KeyRefusedOnlyInTransfer'
  BY <1>16 DEF MoveByte, MoveByteUntil, At, Runs, Goto, Acknowledged, Job
<1>17. ASSUME NEW c \in Contexts, Stopped(c) PROVE KeyRefusedOnlyInTransfer'
  BY <1>17 DEF Stopped, At, Runs, Goto, Acknowledged, Job
<1>18. ASSUME NEW c \in Contexts, Nack(c) PROVE KeyRefusedOnlyInTransfer'
  BY <1>18 DEF Nack, At, Runs, Goto, Job
<1>19. ASSUME NEW c \in Contexts, StoppedEarly(c) PROVE KeyRefusedOnlyInTransfer'
  BY <1>19 DEF StoppedEarly, At, Runs, Goto, Job
<1> QED
  BY <1>1, <1>2, <1>3, <1>4, <1>5, <1>6, <1>7, <1>8, <1>9, <1>10,
     <1>11, <1>12, <1>13, <1>14, <1>15, <1>16, <1>17, <1>18, <1>19
  DEF Next, Step, BusEvent

\* No step spoils the result the thread is sure of.
LEMMA GenuineStep ==
  ASSUME IInv, Next
  PROVE  GenuineInv' /\ ResultGenuine'
<1> USE ContextsAre, RegisterIs DEF IInv, TypeOK, ExclusionInv, ProgressInv,
        GenuineInv, ResultGenuine, Inside, handle, device, locals, history
<1>1. CASE SysTick
  BY <1>1 DEF SysTick
<1>2. CASE Poll
  BY <1>2 DEF Poll, At, Goto, Runs
<1>3. CASE Use
  BY <1>3 DEF Use, At, Goto, Runs
<1>4. CASE KeyPress
  BY <1>4 DEF KeyPress, At, Goto, Runs
<1>5. CASE HandlerReturns
  BY <1>5 DEF HandlerReturns, At, Goto, Runs
<1>6. CASE BusReleased
  BY <1>6 DEF BusReleased
<1>7. ASSUME NEW c \in Contexts, CheckState(c) PROVE GenuineInv' /\ ResultGenuine'
  BY <1>7 DEF CheckState, At, Runs, Goto, Return
<1>8. ASSUME NEW c \in Contexts, TestLock(c) PROVE GenuineInv' /\ ResultGenuine'
  BY <1>8 DEF TestLock, At, Runs, Goto, Return
<1>9. ASSUME NEW c \in Contexts, SetLock(c) PROVE GenuineInv' /\ ResultGenuine'
  BY <1>9 DEF SetLock, At, Runs, Goto
<1>10. ASSUME NEW c \in Contexts, ReadTick(c) PROVE GenuineInv' /\ ResultGenuine'
  BY <1>10 DEF ReadTick, At, Runs, Goto
<1>11. ASSUME NEW c \in Contexts, BusFree(c) PROVE GenuineInv' /\ ResultGenuine'
  BY <1>11 DEF BusFree, At, Runs, Goto
<1>12. ASSUME NEW c \in Contexts, Start(c) PROVE GenuineInv' /\ ResultGenuine'
  BY <1>12 DEF Start, At, Runs, Goto, Job
<1>13. ASSUME NEW c \in Contexts, GiveUp(c) PROVE GenuineInv' /\ ResultGenuine'
  BY <1>13 DEF GiveUp, At, Runs, Goto
<1>14. ASSUME NEW c \in Contexts, SetReady(c) PROVE GenuineInv' /\ ResultGenuine'
  BY <1>14 DEF SetReady, At, Runs, Goto
<1>15. ASSUME NEW c \in Contexts, Unlock(c) PROVE GenuineInv' /\ ResultGenuine'
  BY <1>15 DEF Unlock, At, Runs, Goto, Return
<1>16. ASSUME NEW c \in Contexts, MoveByte(c) PROVE GenuineInv' /\ ResultGenuine'
  BY <1>16 DEF MoveByte, MoveByteUntil, At, Runs, Goto, Acknowledged, Job
<1>17. ASSUME NEW c \in Contexts, Stopped(c) PROVE GenuineInv' /\ ResultGenuine'
  <2>1. CASE c = Handler
    BY <1>17, <2>1 DEF Stopped, At, Goto, Acknowledged, Job
  <2>2. CASE c = Thread /\ job = "read"
    BY <1>17, <2>2 DEF Stopped, At, Goto, Acknowledged, Job
  <2>3. CASE c = Thread /\ job # "read"
    <3>1. job \in {"setup", "point"} /\ ~sure /\ XferCount = 0 /\ pc'[Thread] = "ready"
      BY <1>17, <2>3, LabelsAre DEF Stopped, At, Goto
    <3>2. pointer' = Register[job] /\ ~sure' /\ job' = job
      BY <1>17, <2>3, <3>1 DEF Stopped, Acknowledged, Job
    <3> QED
      BY <3>1, <3>2
  <2> QED
    BY <2>1, <2>2, <2>3
<1>18. ASSUME NEW c \in Contexts, Nack(c) PROVE GenuineInv' /\ ResultGenuine'
  BY <1>18 DEF Nack, At, Runs, Goto, Job
<1>19. ASSUME NEW c \in Contexts, StoppedEarly(c) PROVE GenuineInv' /\ ResultGenuine'
  BY <1>19 DEF StoppedEarly, At, Runs, Goto, Job
<1> QED
  BY <1>1, <1>2, <1>3, <1>4, <1>5, <1>6, <1>7, <1>8, <1>9, <1>10,
     <1>11, <1>12, <1>13, <1>14, <1>15, <1>16, <1>17, <1>18, <1>19
  DEF Next, Step, BusEvent

\* Every step is a step of the abstract lock, or leaves it alone.
LEMMA ExclusiveStep ==
  ASSUME IInv, Next
  PROVE  [Transfers!Next]_users
<1> USE ContextsAre DEF IInv, TypeOK, ExclusionInv, HandleSound, users, Inside,
        handle, device, locals, history, Transfers!Next, Transfers!Acquire,
        Transfers!Release
<1>1. CASE SysTick
  BY <1>1 DEF SysTick
<1>2. CASE Poll
  BY <1>2 DEF Poll, At, Goto, Runs
<1>3. CASE Use
  BY <1>3 DEF Use, At, Goto, Runs
<1>4. CASE KeyPress
  BY <1>4 DEF KeyPress, At, Goto, Runs
<1>5. CASE HandlerReturns
  BY <1>5 DEF HandlerReturns, At, Goto, Runs
<1>6. CASE BusReleased
  BY <1>6 DEF BusReleased
<1>7. ASSUME NEW c \in Contexts, CheckState(c) PROVE [Transfers!Next]_users
  BY <1>7 DEF CheckState, At, Runs, Goto, Return
<1>8. ASSUME NEW c \in Contexts, TestLock(c) PROVE [Transfers!Next]_users
  BY <1>8 DEF TestLock, At, Runs, Goto, Return
<1>9. ASSUME NEW c \in Contexts, SetLock(c) PROVE [Transfers!Next]_users
  BY <1>9 DEF SetLock, At, Runs, Goto
<1>10. ASSUME NEW c \in Contexts, ReadTick(c) PROVE [Transfers!Next]_users
  BY <1>10 DEF ReadTick, At, Runs, Goto
<1>11. ASSUME NEW c \in Contexts, BusFree(c) PROVE [Transfers!Next]_users
  BY <1>11 DEF BusFree, At, Runs, Goto
<1>12. ASSUME NEW c \in Contexts, Start(c) PROVE [Transfers!Next]_users
  BY <1>12 DEF Start, At, Runs, Goto, Job
<1>13. ASSUME NEW c \in Contexts, GiveUp(c) PROVE [Transfers!Next]_users
  BY <1>13 DEF GiveUp, At, Runs, Goto
<1>14. ASSUME NEW c \in Contexts, SetReady(c) PROVE [Transfers!Next]_users
  BY <1>14 DEF SetReady, At, Runs, Goto
<1>15. ASSUME NEW c \in Contexts, Unlock(c) PROVE [Transfers!Next]_users
  BY <1>15 DEF Unlock, At, Runs, Goto, Return
<1>16. ASSUME NEW c \in Contexts, MoveByte(c) PROVE [Transfers!Next]_users
  BY <1>16 DEF MoveByte, MoveByteUntil, At, Runs, Goto, Acknowledged, Job
<1>17. ASSUME NEW c \in Contexts, Stopped(c) PROVE [Transfers!Next]_users
  BY <1>17 DEF Stopped, At, Runs, Goto, Acknowledged, Job
<1>18. ASSUME NEW c \in Contexts, Nack(c) PROVE [Transfers!Next]_users
  BY <1>18 DEF Nack, At, Runs, Goto, Job
<1>19. ASSUME NEW c \in Contexts, StoppedEarly(c) PROVE [Transfers!Next]_users
  BY <1>19 DEF StoppedEarly, At, Runs, Goto, Job
<1> QED
  BY <1>1, <1>2, <1>3, <1>4, <1>5, <1>6, <1>7, <1>8, <1>9, <1>10,
     <1>11, <1>12, <1>13, <1>14, <1>15, <1>16, <1>17, <1>18, <1>19
  DEF Next, Step, BusEvent

\* The inductive invariant holds in every behaviour.
THEOREM InductiveInvariant == Spec => []IInv
<1>1. IInv /\ [Next]_vars => IInv'
  <2> SUFFICES ASSUME IInv, [Next]_vars PROVE IInv'
    OBVIOUS
  <2>1. CASE Next
    BY <2>1, TypeStep, ExclusionStep, ProgressStep, HandleStep, RefusalStep,
       GenuineStep DEF IInv
  <2>2. CASE UNCHANGED vars
    BY <2>2 DEF vars, handle, device, locals, history, IInv, TypeOK, ExclusionInv,
                ProgressInv, GenuineInv, HandleSound, users, KeyRefusedOnlyInTransfer,
                ResultGenuine
  <2> QED
    BY <2>1, <2>2
<1> QED
  BY <1>1, InitIInv, PTL DEF Spec

\* Every variable of asr.c's model keeps its type.
THEOREM TypeCorrect == Spec => []TypeOK
<1>1. IInv => TypeOK
  BY DEF IInv
<1> QED
  BY <1>1, InductiveInvariant, PTL

\* hi2c1 is locked exactly while a transfer is in progress, on every path of
\* HAL_I2C_Master_Transmit and HAL_I2C_Master_Receive.
THEOREM HandleFollowsTransfer == Spec => []HandleSound
<1>1. IInv => HandleSound
  BY DEF IInv
<1> QED
  BY <1>1, InductiveInvariant, PTL

\* key_irq_entry's write is refused only in the middle of a transfer of the thread.
THEOREM KeyIsWritten == Spec => []KeyRefusedOnlyInTransfer
<1>1. IInv => KeyRefusedOnlyInTransfer
  BY DEF IInv
<1> QED
  BY <1>1, InductiveInvariant, PTL

\* A result read in a poll that nothing spoilt is the one of the result register.
THEOREM ResultIsGenuine == Spec => []ResultGenuine
<1>1. IInv => ResultGenuine
  BY DEF IInv
<1> QED
  BY <1>1, InductiveInvariant, PTL

\* The handle hi2c1 implements the abstract lock between the asr thread and the
\* handler of the key.
THEOREM HandleIsALock == Spec => OneTransferAtATime
<1>1. Init => Transfers!Init
  BY ContextsAre DEF Init, Transfers!Init, users, Inside
<1>2. IInv /\ [Next]_vars => [Transfers!Next]_users
  <2> SUFFICES ASSUME IInv, [Next]_vars PROVE [Transfers!Next]_users
    OBVIOUS
  <2>1. CASE Next
    BY <2>1, ExclusiveStep
  <2>2. CASE UNCHANGED vars
    BY <2>2 DEF vars, users
  <2> QED
    BY <2>1, <2>2
<1> QED
  BY <1>1, <1>2, InductiveInvariant, PTL DEF Spec, OneTransferAtATime, Transfers!Spec
-----------------------------------------------------------------------------
(* GivenUpLate.                                                            *)

\* The quotient does not fall when the dividend grows, and grows by one with the
\* divisor.
LEMMA Quotient ==
  ASSUME NEW d \in Nat \ {0}, NEW x \in Nat, NEW y \in Nat, y <= x + d
  PROVE  y \div d <= (x \div d) + 1
<1>1. PICK q \in Nat, r \in Nat : q = x \div d /\ x = d * q + r /\ r < d
  OBVIOUS
<1>2. PICK p \in Nat, s \in Nat : p = y \div d /\ y = d * p + s /\ s < d
  OBVIOUS
<1>3. d * p < d * (q + 2)
  BY <1>1, <1>2
<1>4. p < q + 2
  BY <1>1, <1>2, <1>3
<1> QED
  BY <1>1, <1>2, <1>4

\* A remainder is no larger than the number.
LEMMA Remainder ==
  ASSUME NEW m \in Nat \ {0}, NEW x \in Nat
  PROVE  x % m \in Nat /\ x % m <= x /\ x % m < m
OBVIOUS

\* Adding s adds at most s to a remainder.
LEMMA RemainderGrows ==
  ASSUME NEW m \in Nat \ {0}, NEW x \in Nat, NEW s \in Nat
  PROVE  (x + s) % m <= (x % m) + s
<1>0. ASSUME NEW y \in Nat
      PROVE  y \div m \in Nat /\ y % m \in 0 .. m - 1 /\ y = m * (y \div m) + (y % m)
  OBVIOUS
<1>1. PICK q \in Nat, r \in Nat : r = x % m /\ x = m * q + r /\ r < m
  BY <1>0
<1>2. PICK p \in Nat, t \in Nat : t = (x + s) % m /\ x + s = m * p + t /\ t < m
  <2> DEFINE z == x + s
  <2>1. z \in Nat
    OBVIOUS
  <2> HIDE DEF z
  <2>2. \E p \in Nat, t \in Nat : t = z % m /\ z = m * p + t /\ t < m
    BY <2>1, <1>0
  <2> QED
    BY <2>2 DEF z
<1>3. m * q < m * (p + 1)
  BY <1>1, <1>2
<1>4. q <= p
  BY <1>1, <1>2, <1>3
<1>5. m * q <= m * p
  BY <1>1, <1>2, <1>4
<1> QED
  BY <1>1, <1>2, <1>5

\* HAL_GetTick goes no faster than the kernel's tick.
LEMMA TickSlow ==
  ASSUME rt_tick \in 0 .. TickMod - 1, rt_tick' = (rt_tick + 1) % TickMod
  PROVE  HAL_GetTick' <= HAL_GetTick + 1
<1> USE TickAssumption
<1> DEFINE x == (rt_tick * TickScale) % TickMod
           y == (rt_tick' * TickScale) % TickMod
<1>1. rt_tick \in Nat /\ rt_tick * TickScale \in Nat /\ x \in Nat
  OBVIOUS
<1>2. y \in Nat /\ y <= x + TickScale
  <2>1. CASE rt_tick + 1 < TickMod
    <3>1. rt_tick' = rt_tick + 1
      BY <1>1, <2>1
    <3>2. rt_tick' * TickScale = rt_tick * TickScale + TickScale
      BY <1>1, <3>1
    <3>3. y <= x + TickScale
      BY <1>1, <3>2, RemainderGrows
    <3> QED
      BY <1>1, <3>2, <3>3, Remainder
  <2>2. CASE ~(rt_tick + 1 < TickMod)
    <3>1. rt_tick' = 0
      BY <2>2
    <3>2. y = 0
      BY <3>1
    <3> QED
      BY <1>1, <3>2
  <2> QED
    BY <2>1, <2>2
<1>3. HAL_GetTick = x \div TickScale /\ HAL_GetTick' = y \div TickScale
  BY DEF HAL_GetTick
<1> HIDE DEF x, y
<1> QED
  BY <1>1, <1>2, <1>3, Quotient

\* Nothing but a tick and a new transfer changes how long the thread has waited.
LEMMA WaitedStep ==
  ASSUME IInv, WaitedInv, Next
  PROVE  WaitedInv'
<1> USE ContextsAre DEF IInv, TypeOK, WaitedInv, Inside, handle, device, locals, history
<1>0. HAL_GetTick \in 0 .. TickMod - 1
  BY TickType
<1>1. CASE SysTick
  <2>1. rt_tick' \in 0 .. TickMod - 1 /\ rt_tick' = (rt_tick + 1) % TickMod
    BY <1>1, TickAssumption DEF SysTick
  <2>2. HAL_GetTick' \in Int /\ HAL_GetTick' <= HAL_GetTick + 1
    BY <2>1, TickSlow, TickAssumption DEF HAL_GetTick
  <2>3. UNCHANGED <<pc, tickstart>>
    BY <1>1 DEF SysTick
  <2> SUFFICES ASSUME pc[Thread] \in Inside \ {"tick"}, waited' < Late
               PROVE  HAL_GetTick' \in tickstart[Thread] .. tickstart[Thread] + waited'
    BY <2>3
  <2>4. waited \in Nat /\ waited # Late /\ Late \in Nat
    BY <1>1, TickAssumption DEF SysTick, Late
  <2>5. HAL_GetTick' >= HAL_GetTick /\ waited' = waited + 1
    BY <1>1, <1>0, <2>2, <2>4 DEF SysTick
  <2>6. HAL_GetTick \in tickstart[Thread] .. tickstart[Thread] + waited
    BY <2>4, <2>5
  <2>7. tickstart[Thread] \in Int
    OBVIOUS
  <2> QED
    BY <1>0, <2>2, <2>4, <2>5, <2>6, <2>7
<1>t. ASSUME rt_tick' = rt_tick PROVE HAL_GetTick' = HAL_GetTick
  BY <1>t DEF HAL_GetTick
<1> USE <1>t
<1>2. CASE Poll
  BY <1>2 DEF Poll, At, Goto, Runs
<1>3. CASE Use
  BY <1>3 DEF Use, At, Goto, Runs
<1>4. CASE KeyPress
  BY <1>4 DEF KeyPress, At, Goto, Runs
<1>5. CASE HandlerReturns
  BY <1>5 DEF HandlerReturns, At, Goto, Runs
<1>6. CASE BusReleased
  BY <1>6 DEF BusReleased
<1>7. ASSUME NEW c \in Contexts, CheckState(c) PROVE WaitedInv'
  BY <1>7 DEF CheckState, At, Runs, Goto, Return
<1>8. ASSUME NEW c \in Contexts, TestLock(c) PROVE WaitedInv'
  BY <1>8 DEF TestLock, At, Runs, Goto, Return
<1>9. ASSUME NEW c \in Contexts, SetLock(c) PROVE WaitedInv'
  BY <1>9 DEF SetLock, At, Runs, Goto
<1>10. ASSUME NEW c \in Contexts, ReadTick(c) PROVE WaitedInv'
  <2>1. CASE c = Thread
    <3>1. tickstart'[Thread] = HAL_GetTick /\ waited' = 0 /\ HAL_GetTick' = HAL_GetTick
      BY <1>10, <2>1 DEF ReadTick
    <3> QED
      BY <1>0, <3>1
  <2>2. CASE c = Handler
    BY <1>10, <2>2 DEF ReadTick, At, Goto
  <2> QED
    BY <2>1, <2>2
<1>11. ASSUME NEW c \in Contexts, BusFree(c) PROVE WaitedInv'
  BY <1>11 DEF BusFree, At, Runs, Goto
<1>12. ASSUME NEW c \in Contexts, Start(c) PROVE WaitedInv'
  BY <1>12 DEF Start, At, Runs, Goto, Job
<1>13. ASSUME NEW c \in Contexts, GiveUp(c) PROVE WaitedInv'
  BY <1>13 DEF GiveUp, At, Runs, Goto
<1>14. ASSUME NEW c \in Contexts, SetReady(c) PROVE WaitedInv'
  BY <1>14 DEF SetReady, At, Runs, Goto
<1>15. ASSUME NEW c \in Contexts, Unlock(c) PROVE WaitedInv'
  BY <1>15 DEF Unlock, At, Runs, Goto, Return
<1>16. ASSUME NEW c \in Contexts, MoveByte(c) PROVE WaitedInv'
  BY <1>16 DEF MoveByte, MoveByteUntil, At, Runs, Goto, Acknowledged, Job
<1>17. ASSUME NEW c \in Contexts, Stopped(c) PROVE WaitedInv'
  BY <1>17 DEF Stopped, At, Runs, Goto, Acknowledged, Job
<1>18. ASSUME NEW c \in Contexts, Nack(c) PROVE WaitedInv'
  BY <1>18 DEF Nack, At, Runs, Goto, Job
<1>19. ASSUME NEW c \in Contexts, StoppedEarly(c) PROVE WaitedInv'
  BY <1>19 DEF StoppedEarly, At, Runs, Goto, Job
<1> QED
  BY <1>1, <1>2, <1>3, <1>4, <1>5, <1>6, <1>7, <1>8, <1>9, <1>10, <1>11,
     <1>12, <1>13, <1>14, <1>15, <1>16, <1>17, <1>18, <1>19
  DEF Next, Step, BusEvent

\* The thread gives up early only because of a wrap of the HAL's tick, whatever
\* the modulus of the tick, its scale and the time-outs: the waits of
\* stm32l4xx_hal_i2c.c over HAL_GetTick of board.c.
THEOREM EarlyOnlyByWrap == Spec => GivenUpLate
<1> DEFINE Early == pc[Thread] \in {"data", "nacked", "stop"} /\ GiveUp(Thread)
<1>1. Init => WaitedInv
  BY ContextsAre DEF Init, WaitedInv, Inside
<1>2. IInv /\ WaitedInv /\ [Next]_vars => WaitedInv'
  <2> SUFFICES ASSUME IInv, WaitedInv, [Next]_vars PROVE WaitedInv'
    OBVIOUS
  <2>1. CASE Next
    BY <2>1, WaitedStep
  <2>2. CASE UNCHANGED vars
    BY <2>2 DEF vars, device, locals, history, WaitedInv, HAL_GetTick, Late
  <2> QED
    BY <2>1, <2>2
<1>3. IInv /\ WaitedInv => (Early => waited = Late)
  <2> SUFFICES ASSUME IInv, WaitedInv, Early, waited # Late PROVE FALSE
    OBVIOUS
  <2>1. /\ waited \in 0 .. Timeout /\ HAL_GetTick \in 0 .. TickMod - 1
        /\ tickstart[Thread] \in 0 .. TickMod - 1
    BY TickType, TickAssumption, ContextsAre DEF IInv, TypeOK, Late
  <2>2. HAL_GetTick \in tickstart[Thread] .. tickstart[Thread] + waited
    BY <2>1, TickAssumption DEF WaitedInv, Inside, Late
  <2>3. HAL_GetTick - tickstart[Thread] \in 0 .. TickMod - 1
    BY <2>1, <2>2, TickAssumption
  <2>4. (HAL_GetTick - tickstart[Thread]) % TickMod = HAL_GetTick - tickstart[Thread]
    BY <2>3, TickAssumption
  <2>5. ~Expired(Thread, Timeout)
    BY <2>1, <2>2, <2>4, TickAssumption DEF Expired
  <2> QED
    BY <2>5 DEF GiveUp, At
<1>4. IInv /\ WaitedInv /\ [Next]_vars => [Early => waited = Late]_vars
  BY <1>3
<1>5. Spec => []WaitedInv
  BY <1>1, <1>2, InductiveInvariant, PTL DEF Spec
<1> QED
  BY <1>4, <1>5, InductiveInvariant, PTL DEF Spec, GivenUpLate
=============================================================================
