------------------------- MODULE WifiConnectProofs -------------------------
(* Proofs about WifiConnect, for every number of semaphores and every bound *)
(* on their values; without shell commands unless a theorem says otherwise. *)
EXTENDS WifiConnect, TLAPS

\* A step of the system with the shell idle.
QuietNext == WakeUp \/ CallerStep(Wifi) \/ RadioStep \/ WlanJobStep

LEMMA CallersAre == Callers = {Wifi, Shell} /\ Wifi # Shell
BY DEF Callers, Wifi, Shell

\* Updates of a caller's flag or label keep the function's type.
LEMMA FlagUpdate ==
  ASSUME NEW f \in [Callers -> BOOLEAN], NEW t \in Callers, NEW b \in BOOLEAN
  PROVE  [f EXCEPT ![t] = b] \in [Callers -> BOOLEAN]
OBVIOUS

LEMMA LabelUpdate ==
  ASSUME NEW f \in [Callers -> Labels], NEW t \in Callers, NEW l \in Labels
  PROVE  [f EXCEPT ![t] = l] \in [Callers -> Labels]
OBVIOUS

\* The state at boot satisfies the inductive invariant.
LEMMA InitIInv == Init => IInv
<1> SUFFICES ASSUME Init PROVE IInv
  OBVIOUS
<1> USE SemsAssumption, CallersAre DEF Init
<1>1. TypeOK
  BY DEF TypeOK, Labels
<1>2. ShellInv /\ SemInv
  BY DEF ShellInv, SemInv, InCall
<1>3. LeakInv /\ SignalInv
  BY DEF LeakInv, SignalInv, InCall
<1>4. NoUseAfterDelete /\ SuccessIsOfThisCall
  BY DEF NoUseAfterDelete, SuccessIsOfThisCall
<1> QED
  BY <1>1, <1>2, <1>3, <1>4 DEF IInv

\* While the shell is idle its label enables nothing.
LEMMA ShellIsQuiet ==
  ASSUME UseShell = FALSE, ShellInv, Next
  PROVE  QuietNext
<1>1. ~CallerStep(Shell)
  BY DEF ShellInv, CallerStep, Create, CreateWith, Register, Connect, Joined,
         JoinFailed, Take, TakeIf, TakeTimeout, Unregister, Delete,
         DeleteResuming, NtpReturns, GoOnline
<1> QED
  BY <1>1, CallersAre DEF Next, QuietNext, ShellCommand, Callers

\* Every step keeps every variable in its type.
LEMMA TypeStep ==
  ASSUME TypeOK, ShellInv, QuietNext
  PROVE  TypeOK'
<1> USE SemsAssumption, CallersAre DEF QuietNext, TypeOK, Goto, radio, sem
<1>l. {"sleep", "create", "register", "connect", "joining", "take", "waiting",
       "unregister", "delete", "ntp", "online", "done"} \subseteq Labels
  BY DEF Labels
<1>c. Checked(net_ready) \in {"none", "null", "type"}
  BY DEF Checked
<1>w. Wifi \in Callers /\ Shell \in Callers
  OBVIOUS
<1>1. CASE WakeUp
  BY <1>1, <1>l DEF WakeUp
<1>2. CASE Create(Wifi)
  <2>1. net_ready' \in Sems \cup {NoSem} /\ alive' \in SUBSET Sems
    BY <1>2 DEF Create, CreateWith
  <2>2. value' \in [Sems -> Nat]
    BY <1>2 DEF Create, CreateWith
  <2>3. pc' \in [Callers -> Labels] /\ signalled' \in [Callers -> BOOLEAN]
    BY <1>2, <1>l DEF Create, CreateWith
  <2> QED
    BY <1>2, <2>1, <2>2, <2>3 DEF Create, CreateWith
<1>3. CASE Register(Wifi)
  BY <1>3, <1>l DEF Register
<1>4. CASE Connect(Wifi)
  <2>1. attempted' \in BOOLEAN
    <3>1. CASE connected
      BY <1>4, <3>1 DEF Connect
    <3>2. CASE ~connected
      <4>1. attempted' = (attempted \/ wlan0)
        BY <1>4, <3>2 DEF Connect
      <4> QED
        BY <4>1
    <3> QED
      BY <3>1, <3>2
  <2>2. pc' \in [Callers -> Labels]
    BY <1>4, <1>l, <1>w, LabelUpdate DEF Connect
  <2>3. recved' = recved \/ recved' = [recved EXCEPT ![Wifi] = FALSE]
    BY <1>4 DEF Connect
  <2>4. recved' \in [Callers -> BOOLEAN]
    BY <2>3, <1>w, FlagUpdate
  <2> QED
    BY <1>4, <2>1, <2>2, <2>4 DEF Connect
<1>5. CASE Joined(Wifi)
  BY <1>5, <1>l DEF Joined
<1>6. CASE JoinFailed(Wifi)
  BY <1>6, <1>l DEF JoinFailed
<1>7. CASE Take(Wifi)
  <2>1. asserted' \in {"none", "null", "type"}
    BY <1>7, <1>c DEF Take, TakeIf
  <2>2. CASE asserted' # "none"
    BY <1>7, <2>1, <2>2 DEF Take, TakeIf
  <2>3. CASE asserted' = "none" /\ net_ready \in Sems /\ value[net_ready] > 0
    <3>1. value' = [value EXCEPT ![net_ready] = @ - 1] /\ value[net_ready] - 1 \in Nat
      BY <1>7, <2>3 DEF Take, TakeIf
    <3>2. value' \in [Sems -> Nat]
      BY <3>1
    <3>3. pc' \in [Callers -> Labels]
      BY <1>7, <1>l, <1>w, <2>3, LabelUpdate DEF Take, TakeIf
    <3>4. result' = [result EXCEPT ![Wifi] = TRUE]
      BY <1>7, <2>3 DEF Take, TakeIf
    <3>5. result' \in [Callers -> BOOLEAN]
      BY <3>4, <1>w, FlagUpdate
    <3> QED
      BY <1>7, <2>1, <2>3, <3>2, <3>3, <3>5 DEF Take, TakeIf
  <2>4. CASE asserted' = "none" /\ ~(net_ready \in Sems /\ value[net_ready] > 0)
    BY <1>7, <1>l, <1>w, <2>1, <2>4 DEF Take, TakeIf
  <2> QED
    BY <2>2, <2>3, <2>4, <2>1
<1>8. CASE TakeTimeout(Wifi)
  BY <1>8, <1>l DEF TakeTimeout
<1>9. CASE Unregister(Wifi)
  BY <1>9, <1>l DEF Unregister
<1>10. CASE Delete(Wifi)
  <2> DEFINE R == {u \in Callers : pc[u] = "waiting" /\ waitsOn[u] = net_ready}
  <2>1. asserted' \in {"none", "null", "type"}
    BY <1>10, <1>c DEF Delete, DeleteResuming
  <2>2. DeleteResuming(Wifi, R)
    BY <1>10 DEF Delete
  <2> HIDE DEF R
  <2>3. CASE asserted' # "none"
    BY <2>1, <2>2, <2>3 DEF DeleteResuming
  <2>4. CASE asserted' = "none"
    <3>1. alive' \in SUBSET Sems /\ waitsOn' \in [Callers -> Sems \cup {NoSem}]
      BY <2>2, <2>4 DEF DeleteResuming
    <3>2. result' = [u \in Callers |-> u \notin R /\ result[u]]
      BY <2>2, <2>4 DEF DeleteResuming
    <3>3. result' \in [Callers -> BOOLEAN]
      BY <3>2, Zenon
    <3>4. pc' = [u \in Callers |-> IF u = Wifi THEN "ntp"
                                  ELSE IF u \in R THEN "unregister" ELSE pc[u]]
      BY <2>2, <2>4 DEF DeleteResuming
    <3>5. pc' \in [Callers -> Labels]
      BY <3>4, <1>l
    <3> QED
      BY <2>1, <2>2, <3>1, <3>3, <3>5 DEF DeleteResuming
  <2> QED
    BY <2>3, <2>4
<1>11. CASE NtpReturns(Wifi)
  BY <1>11, <1>l DEF NtpReturns
<1>12. CASE GoOnline(Wifi)
  BY <1>12, <1>l DEF GoOnline
<1>13. CASE DeviceRegistered
  BY <1>13, <1>l DEF DeviceRegistered
<1>14. CASE LinkUp
  BY <1>14, <1>l DEF LinkUp
<1>15. CASE LinkDown
  BY <1>15, <1>l DEF LinkDown
<1>16. CASE DhcpBound
  BY <1>16, <1>l DEF DhcpBound
<1>17. CASE NetifDown
  BY <1>17, <1>l DEF NetifDown
<1>18. CASE ReadyEvent
  BY <1>18, <1>l DEF ReadyEvent
<1>19. CASE ReadyCallback
  <2>1. asserted' \in {"none", "null", "type"}
    BY <1>19, <1>c DEF ReadyCallback
  <2>2. value' \in [Sems -> Nat]
    BY <1>19 DEF ReadyCallback
  <2>3. waitsOn' \in [Callers -> Sems \cup {NoSem}]
    BY <1>19 DEF ReadyCallback
  <2>4. pc' \in [Callers -> Labels]
    BY <1>19, <1>l, LabelUpdate DEF ReadyCallback
  <2>5. result' = result \/ \E t \in Callers : result' = [result EXCEPT ![t] = TRUE]
    BY <1>19 DEF ReadyCallback
  <2>6. result' \in [Callers -> BOOLEAN]
    BY <2>5, FlagUpdate
  <2> QED
    BY <1>19, <2>1, <2>2, <2>3, <2>4, <2>6 DEF ReadyCallback
<1> QED
  BY <1>1, <1>2, <1>3, <1>4, <1>5, <1>6, <1>7, <1>8, <1>9, <1>10,
     <1>11, <1>12, <1>13, <1>14, <1>15, <1>16, <1>17, <1>18, <1>19
  DEF CallerStep, RadioStep, WlanJobStep

\* The shell stays idle.
LEMMA ShellStep ==
  ASSUME TypeOK, ShellInv, QuietNext
  PROVE  ShellInv'
<1> USE SemsAssumption, CallersAre
    DEF QuietNext, TypeOK, ShellInv, Goto, radio, sem
<1>1. CASE WakeUp
  BY <1>1 DEF WakeUp
<1>2. CASE Create(Wifi)
  BY <1>2 DEF Create, CreateWith
<1>3. CASE Register(Wifi)
  BY <1>3 DEF Register
<1>4. CASE Connect(Wifi)
  <2>1. CASE connected
    BY <1>4, <2>1 DEF Connect
  <2>2. CASE ~connected
    BY <1>4, <2>2 DEF Connect
  <2> QED
    BY <2>1, <2>2
<1>5. CASE Joined(Wifi)
  BY <1>5 DEF Joined
<1>6. CASE JoinFailed(Wifi)
  BY <1>6 DEF JoinFailed
<1>7. CASE Take(Wifi)
  <2>1. pc' = pc \/ \E l \in Labels : pc' = [pc EXCEPT ![Wifi] = l]
    BY <1>7 DEF Take, TakeIf, Labels
  <2>2. waitsOn' = waitsOn \/ waitsOn' = [waitsOn EXCEPT ![Wifi] = net_ready]
    BY <1>7 DEF Take, TakeIf
  <2> QED
    BY <2>1, <2>2
<1>8. CASE TakeTimeout(Wifi)
  BY <1>8 DEF TakeTimeout
<1>9. CASE Unregister(Wifi)
  BY <1>9 DEF Unregister
<1>10. CASE Delete(Wifi)
  <2> DEFINE R == {u \in Callers : pc[u] = "waiting" /\ waitsOn[u] = net_ready}
  <2>1. DeleteResuming(Wifi, R) /\ Shell \notin R
    BY <1>10 DEF Delete
  <2> HIDE DEF R
  <2>2. CASE asserted' # "none"
    BY <2>1, <2>2 DEF DeleteResuming
  <2>3. CASE asserted' = "none"
    BY <2>1, <2>3 DEF DeleteResuming
  <2> QED
    BY <2>2, <2>3
<1>11. CASE NtpReturns(Wifi)
  BY <1>11 DEF NtpReturns
<1>12. CASE GoOnline(Wifi)
  BY <1>12 DEF GoOnline
<1>13. CASE DeviceRegistered
  BY <1>13 DEF DeviceRegistered
<1>14. CASE LinkUp
  BY <1>14 DEF LinkUp
<1>15. CASE LinkDown
  BY <1>15 DEF LinkDown
<1>16. CASE DhcpBound
  BY <1>16 DEF DhcpBound
<1>17. CASE NetifDown
  BY <1>17 DEF NetifDown
<1>18. CASE ReadyEvent
  BY <1>18 DEF ReadyEvent
<1>19. CASE ReadyCallback
  <2>1. CASE pc' = pc /\ waitsOn' = waitsOn
    BY <2>1
  <2>2. CASE ~(pc' = pc /\ waitsOn' = waitsOn)
    <3>1. PICK t \in Callers :
             /\ waitsOn[t] = net_ready
             /\ waitsOn' = [waitsOn EXCEPT ![t] = NoSem]
             /\ pc' = [pc EXCEPT ![t] = "unregister"]
      BY <1>19, <2>2 DEF ReadyCallback
    <3>2. net_ready # NoSem
      BY <1>19, <2>2 DEF ReadyCallback, Checked
    <3>3. t = Wifi
      BY <3>1, <3>2
    <3> QED
      BY <3>1, <3>3
  <2> QED
    BY <2>1, <2>2
<1> QED
  BY <1>1, <1>2, <1>3, <1>4, <1>5, <1>6, <1>7, <1>8, <1>9, <1>10,
     <1>11, <1>12, <1>13, <1>14, <1>15, <1>16, <1>17, <1>18, <1>19
  DEF CallerStep, RadioStep, WlanJobStep

\* wifi_ready_callback moves the waiting caller, or nobody.
LEMMA ReleaseResumes ==
  ASSUME IInv, ReadyCallback
  PROVE  \/ pc' = pc /\ result' = result
         \/ /\ pc[Wifi] = "waiting"
            /\ pc' = [pc EXCEPT ![Wifi] = "unregister"]
            /\ result' = [result EXCEPT ![Wifi] = TRUE]
<1> SUFFICES ASSUME ~(pc' = pc /\ result' = result)
             PROVE  /\ pc[Wifi] = "waiting"
                    /\ pc' = [pc EXCEPT ![Wifi] = "unregister"]
                    /\ result' = [result EXCEPT ![Wifi] = TRUE]
  OBVIOUS
<1>1. PICK t \in Callers : /\ waitsOn[t] = net_ready
                           /\ pc' = [pc EXCEPT ![t] = "unregister"]
                           /\ result' = [result EXCEPT ![t] = TRUE]
  BY DEF ReadyCallback, Goto
<1>2. net_ready # NoSem
  BY DEF ReadyCallback, Checked
<1>3. t = Wifi
  BY <1>1, <1>2, CallersAre DEF IInv, ShellInv
<1> QED
  BY <1>1, <1>2, <1>3 DEF IInv, SemInv

\* Whoever may still use net_ready finds a live object or RT_NULL.
LEMMA SemStep ==
  ASSUME IInv, QuietNext
  PROVE  SemInv'
<1> USE SemsAssumption, CallersAre
    DEF IInv, TypeOK, ShellInv, SemInv, InCall, Goto, sem, radio
<1>1. CASE WakeUp
  BY <1>1 DEF WakeUp
<1>2. CASE Register(Wifi)
  BY <1>2 DEF Register, Running
<1>3. CASE Connect(Wifi)
  BY <1>3 DEF Connect
<1>4. CASE Joined(Wifi)
  BY <1>4 DEF Joined
<1>5. CASE JoinFailed(Wifi)
  BY <1>5 DEF JoinFailed
<1>6. CASE TakeTimeout(Wifi)
  BY <1>6 DEF TakeTimeout
<1>7. CASE Unregister(Wifi)
  BY <1>7 DEF Unregister, Running
<1>8. CASE NtpReturns(Wifi)
  BY <1>8 DEF NtpReturns
<1>9. CASE GoOnline(Wifi)
  BY <1>9 DEF GoOnline
<1>10. CASE ReadyEvent
  BY <1>10 DEF ReadyEvent
<1>11. CASE Create(Wifi)
  BY <1>11 DEF Create, CreateWith, Running
<1>12. CASE Take(Wifi)
  BY <1>12 DEF Take, TakeIf, Running
<1>13. CASE Delete(Wifi)
  BY <1>13 DEF Delete, DeleteResuming, Running
<1>14. CASE ReadyCallback
  BY <1>14 DEF ReadyCallback
<1>15. CASE RadioStep \/ NetifDown
  BY <1>15 DEF RadioStep, DeviceRegistered, LinkUp, LinkDown, DhcpBound, NetifDown
<1> QED
  BY <1>1, <1>2, <1>3, <1>4, <1>5, <1>6, <1>7, <1>8,
     <1>9, <1>10, <1>11, <1>12, <1>13, <1>14, <1>15
  DEF QuietNext, CallerStep, WlanJobStep

\* No step uses a deleted semaphore.
LEMMA UseStep ==
  ASSUME IInv, QuietNext
  PROVE  NoUseAfterDelete'
<1> USE SemsAssumption, CallersAre
    DEF IInv, TypeOK, ShellInv, NoUseAfterDelete, InCall, Goto, sem, radio
<1>1. CASE WakeUp
  BY <1>1 DEF WakeUp
<1>2. CASE Register(Wifi)
  BY <1>2 DEF Register, Running
<1>3. CASE Connect(Wifi)
  BY <1>3 DEF Connect
<1>4. CASE Joined(Wifi)
  BY <1>4 DEF Joined
<1>5. CASE JoinFailed(Wifi)
  BY <1>5 DEF JoinFailed
<1>6. CASE TakeTimeout(Wifi)
  BY <1>6 DEF TakeTimeout
<1>7. CASE Unregister(Wifi)
  BY <1>7 DEF Unregister, Running
<1>8. CASE NtpReturns(Wifi)
  BY <1>8 DEF NtpReturns
<1>9. CASE GoOnline(Wifi)
  BY <1>9 DEF GoOnline
<1>10. CASE ReadyEvent
  BY <1>10 DEF ReadyEvent
<1>11. CASE Create(Wifi)
  BY <1>11 DEF Create, CreateWith, Running
<1>12. CASE Take(Wifi)
  BY <1>12 DEF Take, TakeIf, SemInv, Checked
<1>13. CASE Delete(Wifi)
  BY <1>13 DEF Delete, DeleteResuming, SemInv, Checked
<1>14. CASE ReadyCallback
  BY <1>14 DEF ReadyCallback, SemInv, Checked
<1>15. CASE RadioStep \/ NetifDown
  BY <1>15 DEF RadioStep, DeviceRegistered, LinkUp, LinkDown, DhcpBound, NetifDown
<1> QED
  BY <1>1, <1>2, <1>3, <1>4, <1>5, <1>6, <1>7, <1>8,
     <1>9, <1>10, <1>11, <1>12, <1>13, <1>14, <1>15
  DEF QuietNext, CallerStep, WlanJobStep

\* Only a failed join abandons a semaphore.
LEMMA LeakStep ==
  ASSUME IInv, QuietNext
  PROVE  LeakInv'
<1> USE SemsAssumption, CallersAre
    DEF IInv, TypeOK, ShellInv, LeakInv, InCall, Goto, sem, radio
<1>1. CASE WakeUp
  BY <1>1 DEF WakeUp
<1>2. CASE Register(Wifi)
  BY <1>2 DEF Register, Running
<1>3. CASE Connect(Wifi)
  BY <1>3 DEF Connect
<1>4. CASE Joined(Wifi)
  BY <1>4 DEF Joined
<1>5. CASE JoinFailed(Wifi)
  BY <1>5 DEF JoinFailed
<1>6. CASE TakeTimeout(Wifi)
  BY <1>6 DEF TakeTimeout
<1>7. CASE Unregister(Wifi)
  BY <1>7 DEF Unregister, Running
<1>8. CASE NtpReturns(Wifi)
  BY <1>8 DEF NtpReturns
<1>9. CASE GoOnline(Wifi)
  BY <1>9 DEF GoOnline
<1>10. CASE ReadyEvent
  BY <1>10 DEF ReadyEvent
<1>11. CASE Create(Wifi)
  BY <1>11 DEF Create, CreateWith, Running
<1>12. CASE Take(Wifi)
  BY <1>12 DEF Take, TakeIf, Running
<1>13. CASE Delete(Wifi)
  BY <1>13 DEF Delete, DeleteResuming, Running
<1>14. CASE ReadyCallback
  BY <1>14, ReleaseResumes DEF ReadyCallback
<1>15. CASE RadioStep \/ NetifDown
  BY <1>15 DEF RadioStep, DeviceRegistered, LinkUp, LinkDown, DhcpBound, NetifDown
<1> QED
  BY <1>1, <1>2, <1>3, <1>4, <1>5, <1>6, <1>7, <1>8,
     <1>9, <1>10, <1>11, <1>12, <1>13, <1>14, <1>15
  DEF QuietNext, CallerStep, WlanJobStep

\* A token of the current semaphore was released after its creation.
LEMMA SignalStep ==
  ASSUME IInv, QuietNext
  PROVE  SignalInv'
<1> USE SemsAssumption, CallersAre
    DEF IInv, TypeOK, ShellInv, SignalInv, InCall, Goto, sem, radio
<1>1. CASE WakeUp
  BY <1>1 DEF WakeUp
<1>2. CASE Register(Wifi)
  BY <1>2 DEF Register, Running
<1>3. CASE Connect(Wifi)
  BY <1>3 DEF Connect
<1>4. CASE Joined(Wifi)
  BY <1>4 DEF Joined
<1>5. CASE JoinFailed(Wifi)
  BY <1>5 DEF JoinFailed
<1>6. CASE TakeTimeout(Wifi)
  BY <1>6 DEF TakeTimeout
<1>7. CASE Unregister(Wifi)
  BY <1>7 DEF Unregister, Running
<1>8. CASE NtpReturns(Wifi)
  BY <1>8 DEF NtpReturns
<1>9. CASE GoOnline(Wifi)
  BY <1>9 DEF GoOnline
<1>10. CASE ReadyEvent
  BY <1>10 DEF ReadyEvent
<1>11. CASE Create(Wifi)
  BY <1>11 DEF Create, CreateWith, Running
<1>12. CASE Take(Wifi)
  BY <1>12 DEF Take, TakeIf, Running
<1>13. CASE Delete(Wifi)
  BY <1>13 DEF Delete, DeleteResuming, Running
<1>14. CASE ReadyCallback
  BY <1>14 DEF ReadyCallback
<1>15. CASE RadioStep \/ NetifDown
  BY <1>15 DEF RadioStep, DeviceRegistered, LinkUp, LinkDown, DhcpBound, NetifDown
<1> QED
  BY <1>1, <1>2, <1>3, <1>4, <1>5, <1>6, <1>7, <1>8,
     <1>9, <1>10, <1>11, <1>12, <1>13, <1>14, <1>15
  DEF QuietNext, CallerStep, WlanJobStep

\* A successful wait follows a READY of the same call.
LEMMA SuccessStep ==
  ASSUME IInv, QuietNext
  PROVE  SuccessIsOfThisCall'
<1> USE SemsAssumption, CallersAre
    DEF IInv, TypeOK, ShellInv, SuccessIsOfThisCall, InCall, Goto, sem, radio
<1>1. CASE WakeUp
  BY <1>1 DEF WakeUp
<1>2. CASE Register(Wifi)
  BY <1>2 DEF Register, Running
<1>3. CASE Connect(Wifi)
  BY <1>3 DEF Connect
<1>4. CASE Joined(Wifi)
  BY <1>4 DEF Joined
<1>5. CASE JoinFailed(Wifi)
  BY <1>5 DEF JoinFailed
<1>6. CASE TakeTimeout(Wifi)
  BY <1>6 DEF TakeTimeout
<1>7. CASE Unregister(Wifi)
  BY <1>7 DEF Unregister, Running
<1>8. CASE NtpReturns(Wifi)
  BY <1>8 DEF NtpReturns
<1>9. CASE GoOnline(Wifi)
  BY <1>9 DEF GoOnline
<1>10. CASE ReadyEvent
  BY <1>10 DEF ReadyEvent
<1>11. CASE Create(Wifi)
  BY <1>11 DEF Create, CreateWith, Running
<1>12. CASE Take(Wifi)
  BY <1>12 DEF Take, TakeIf, SignalInv
<1>13. CASE Delete(Wifi)
  BY <1>13 DEF Delete, DeleteResuming, Running
<1>14. CASE ReadyCallback
  BY <1>14, ReleaseResumes DEF ReadyCallback, SignalInv
<1>15. CASE RadioStep \/ NetifDown
  BY <1>15 DEF RadioStep, DeviceRegistered, LinkUp, LinkDown, DhcpBound, NetifDown
<1> QED
  BY <1>1, <1>2, <1>3, <1>4, <1>5, <1>6, <1>7, <1>8,
     <1>9, <1>10, <1>11, <1>12, <1>13, <1>14, <1>15
  DEF QuietNext, CallerStep, WlanJobStep

\* The inductive invariant holds in every behaviour without a shell command.
THEOREM InductiveInvariant ==
  ASSUME UseShell = FALSE
  PROVE  Spec => []IInv
<1>1. IInv /\ [Next]_vars => IInv'
  <2> SUFFICES ASSUME IInv, [Next]_vars PROVE IInv'
    OBVIOUS
  <2>1. CASE Next
    <3>1. QuietNext
      BY <2>1, ShellIsQuiet DEF IInv
    <3>2. TypeOK' /\ ShellInv'
      BY <3>1, TypeStep, ShellStep DEF IInv
    <3>3. SemInv' /\ LeakInv' /\ SignalInv'
      BY <3>1, SemStep, LeakStep, SignalStep
    <3>4. NoUseAfterDelete' /\ SuccessIsOfThisCall'
      BY <3>1, UseStep, SuccessStep
    <3> QED
      BY <3>2, <3>3, <3>4 DEF IInv
  <2>2. CASE UNCHANGED vars
    BY <2>2 DEF vars, radio, sem, IInv, TypeOK, ShellInv, SemInv, LeakInv,
                SignalInv, NoUseAfterDelete, SuccessIsOfThisCall
  <2> QED
    BY <2>1, <2>2
<1> QED
  BY <1>1, InitIInv, PTL DEF Spec

\* Every variable of wifi.c's model keeps its type.
THEOREM TypeCorrect ==
  ASSUME UseShell = FALSE
  PROVE  Spec => []TypeOK
<1>1. IInv => TypeOK
  BY DEF IInv
<1> QED
  BY <1>1, InductiveInvariant, PTL

\* wifi_ready_callback, rt_sem_take and rt_sem_delete never find a deleted
\* semaphore in net_ready, whatever the radio does and however many joins fail.
THEOREM SemaphoreIsAlive ==
  ASSUME UseShell = FALSE
  PROVE  Spec => []NoUseAfterDelete
<1>1. IInv => NoUseAfterDelete
  BY DEF IInv
<1> QED
  BY <1>1, InductiveInvariant, PTL

\* Between calls of wifi_connect the only semaphores in existence are those of
\* calls whose join failed.
THEOREM OnlyFailedJoinsLeak ==
  ASSUME UseShell = FALSE
  PROVE  Spec => []LeakOnlyOnFailedJoin
<1>1. IInv => LeakOnlyOnFailedJoin
  BY DEF IInv, LeakInv, InCall, LeakOnlyOnFailedJoin
<1> QED
  BY <1>1, InductiveInvariant, PTL

\* wifi_connect reports success only for a READY event of the same call.
THEOREM SuccessIsGenuine ==
  ASSUME UseShell = FALSE
  PROVE  Spec => []SuccessIsOfThisCall
<1>1. IInv => SuccessIsOfThisCall
  BY DEF IInv
<1> QED
  BY <1>1, InductiveInvariant, PTL

\* A caller that moves on without touching the queue or the semaphores.
LEMMA MovesOn ==
  ASSUME WaitInv, NEW t \in Callers, NEW l \in Labels, l # "waiting",
         pc[t] # "waiting", pc' = [pc EXCEPT ![t] = l],
         UNCHANGED <<waitsOn, alive, net_ready>>
  PROVE  WaitInv'
BY DEF WaitInv

\* A step of either caller.
LEMMA CallerWaits ==
  ASSUME WaitInv, NEW t \in Callers, CallerStep(t)
  PROVE  WaitInv'
<1> USE SemsAssumption DEF Goto, sem, radio
<1>l. {"sleep", "create", "register", "connect", "joining", "take", "waiting",
       "unregister", "delete", "ntp", "online", "done"} \subseteq Labels
  BY DEF Labels
<1>1. CASE Create(t)
  <2>1. /\ pc[t] = "create" /\ pc' = [pc EXCEPT ![t] = "register"]
        /\ waitsOn' = waitsOn
        /\ alive \subseteq alive' /\ alive' \in SUBSET Sems
        /\ net_ready' \in Sems \cup {NoSem}
    BY <1>1 DEF Create, CreateWith, WaitInv
  <2> QED
    BY <2>1, <1>l DEF WaitInv
<1>2. CASE Register(t) \/ Joined(t) \/ JoinFailed(t) \/ Unregister(t) \/ NtpReturns(t) \/ GoOnline(t)
  <2>1. PICK l \in Labels : l # "waiting" /\ pc' = [pc EXCEPT ![t] = l]
    BY <1>2, <1>l DEF Register, Joined, JoinFailed, Unregister, NtpReturns, GoOnline
  <2>2. pc[t] # "waiting" /\ UNCHANGED <<waitsOn, alive, net_ready>>
    BY <1>2 DEF Register, Joined, JoinFailed, Unregister, NtpReturns, GoOnline
  <2> QED
    BY <2>1, <2>2, MovesOn
<1>3. CASE Connect(t)
  <2>1. PICK l \in Labels : l # "waiting" /\ pc' = [pc EXCEPT ![t] = l]
    BY <1>3, <1>l DEF Connect
  <2>2. pc[t] # "waiting" /\ UNCHANGED <<waitsOn, alive, net_ready>>
    BY <1>3 DEF Connect
  <2> QED
    BY <2>1, <2>2, MovesOn
<1>4. CASE Take(t)
  <2>1. pc[t] = "take" /\ UNCHANGED <<alive, net_ready>>
    BY <1>4 DEF Take, TakeIf
  <2>2. \/ UNCHANGED <<pc, waitsOn>>
        \/ pc' = [pc EXCEPT ![t] = "unregister"] /\ waitsOn' = waitsOn
        \/ /\ net_ready \in alive
           /\ pc' = [pc EXCEPT ![t] = "waiting"]
           /\ waitsOn' = [waitsOn EXCEPT ![t] = net_ready]
    BY <1>4 DEF Take, TakeIf, Checked
  <2>3. CASE UNCHANGED <<pc, waitsOn>>
    BY <2>1, <2>3 DEF WaitInv
  <2>4. CASE pc' = [pc EXCEPT ![t] = "unregister"] /\ waitsOn' = waitsOn
    BY <2>1, <2>4, <1>l, MovesOn
  <2>5. CASE /\ net_ready \in alive
             /\ pc' = [pc EXCEPT ![t] = "waiting"]
             /\ waitsOn' = [waitsOn EXCEPT ![t] = net_ready]
    BY <2>1, <2>5, <1>l DEF WaitInv
  <2> QED
    BY <2>2, <2>3, <2>4, <2>5
<1>5. CASE TakeTimeout(t)
  <2>1. /\ pc' = [pc EXCEPT ![t] = "unregister"]
        /\ waitsOn' = [waitsOn EXCEPT ![t] = NoSem]
        /\ UNCHANGED <<alive, net_ready>>
    BY <1>5 DEF TakeTimeout
  <2> QED
    BY <2>1, <1>l DEF WaitInv
<1>6. CASE Delete(t)
  <2> DEFINE R == {u \in Callers : pc[u] = "waiting" /\ waitsOn[u] = net_ready}
  <2>1. pc[t] = "delete" /\ net_ready' = net_ready
    BY <1>6 DEF Delete, DeleteResuming
  <2>2. \/ UNCHANGED <<pc, waitsOn, alive>>
        \/ /\ alive' = alive \ {net_ready}
           /\ waitsOn' = [u \in Callers |-> IF u \in R THEN NoSem ELSE waitsOn[u]]
           /\ pc' = [u \in Callers |->
                 IF u = t THEN "ntp" ELSE IF u \in R THEN "unregister" ELSE pc[u]]
    BY <1>6 DEF Delete, DeleteResuming
  <2>3. CASE UNCHANGED <<pc, waitsOn, alive>>
    BY <2>1, <2>3 DEF WaitInv
  <2>4. CASE /\ alive' = alive \ {net_ready}
             /\ waitsOn' = [u \in Callers |-> IF u \in R THEN NoSem ELSE waitsOn[u]]
             /\ pc' = [u \in Callers |->
                   IF u = t THEN "ntp" ELSE IF u \in R THEN "unregister" ELSE pc[u]]
    <3>1. pc' \in [Callers -> Labels] /\ waitsOn' \in [Callers -> Sems \cup {NoSem}]
      BY <2>4, <1>l DEF WaitInv
    <3>2. \A u \in Callers : waitsOn'[u] \in (IF pc'[u] = "waiting" THEN alive' ELSE {NoSem})
      BY <2>1, <2>4 DEF WaitInv
    <3> QED
      BY <2>1, <2>4, <3>1, <3>2 DEF WaitInv
  <2> QED
    BY <2>2, <2>3, <2>4
<1> QED
  BY <1>1, <1>2, <1>3, <1>4, <1>5, <1>6 DEF CallerStep

\* wifi_ready_callback and everything else.
LEMMA OthersWait ==
  ASSUME WaitInv, WakeUp \/ ShellCommand \/ RadioStep \/ WlanJobStep
  PROVE  WaitInv'
<1> USE SemsAssumption, CallersAre DEF Goto, sem, radio
<1>l. {"create", "unregister"} \subseteq Labels
  BY DEF Labels
<1>1. CASE WakeUp
  BY <1>1, <1>l, MovesOn DEF WakeUp
<1>2. CASE ShellCommand
  BY <1>2, <1>l, MovesOn DEF ShellCommand
<1>3. CASE RadioStep \/ NetifDown \/ ReadyEvent
  <2>1. UNCHANGED <<pc, waitsOn, alive, net_ready>>
    BY <1>3 DEF RadioStep, DeviceRegistered, LinkUp, LinkDown, DhcpBound, NetifDown,
                ReadyEvent
  <2> QED
    BY <2>1 DEF WaitInv
<1>4. CASE ReadyCallback
  <2>1. UNCHANGED <<alive, net_ready>>
    BY <1>4 DEF ReadyCallback
  <2>2. CASE UNCHANGED <<pc, waitsOn>>
    BY <2>1, <2>2 DEF WaitInv
  <2>3. CASE ~UNCHANGED <<pc, waitsOn>>
    <3>1. PICK t \in Callers : /\ waitsOn' = [waitsOn EXCEPT ![t] = NoSem]
                               /\ pc' = [pc EXCEPT ![t] = "unregister"]
      BY <1>4, <2>3 DEF ReadyCallback
    <3> QED
      BY <2>1, <3>1, <1>l DEF WaitInv
  <2> QED
    BY <2>2, <2>3
<1> QED
  BY <1>1, <1>2, <1>3, <1>4 DEF WlanJobStep

\* With shell commands or without: no caller of wifi_connect stays suspended on a
\* semaphore that another deleted.
THEOREM NobodyIsOrphaned == Spec => []NoOrphanWaiter
<1>1. Init => WaitInv
  BY SemsAssumption DEF Init, WaitInv, Labels
<1>2. WaitInv /\ [Next]_vars => WaitInv'
  <2> SUFFICES ASSUME WaitInv, [Next]_vars PROVE WaitInv'
    OBVIOUS
  <2>1. CASE Next
    BY <2>1, CallerWaits, OthersWait DEF Next
  <2>2. CASE UNCHANGED vars
    BY <2>2 DEF vars, sem, WaitInv
  <2> QED
    BY <2>1, <2>2
<1>3. WaitInv => NoOrphanWaiter
  BY DEF WaitInv, NoOrphanWaiter
<1> QED
  BY <1>1, <1>2, <1>3, PTL DEF Spec
=============================================================================
