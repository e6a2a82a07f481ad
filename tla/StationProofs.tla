--------------------------- MODULE StationProofs ---------------------------
(* Proofs about Station, for every range of city_id the key selects from    *)
(* and any helpers of any priorities.                                       *)
EXTENDS Station, TLAPS

\* HeapLockSound needs no strengthening but the types.
LockInv == TypeOK /\ HeapLockSound

LEMMA Names ==
  /\ Threads = {"UI", "asr", "key", "weather"} \cup Helpers
  /\ Etx \notin Threads /\ Nobody \notin Threads
  /\ UI \in Threads /\ Asr \in Threads /\ Key \in Threads /\ Weather \in Threads
BY HelpersAssumption DEF Threads, UI, Asr, Key, Weather, Etx, Nobody

LEMMA StageNames ==
  /\ HeapStages \subseteq Stages
  /\ {"alloc", "free", "show", "work", "boot", "sleep", "poll", "debounce", "send", "answer"} \subseteq Stages
  /\ "boot" \notin HeapStages /\ "sleep" \notin HeapStages /\ "poll" \notin HeapStages
  /\ "debounce" \notin HeapStages /\ "send" \notin HeapStages /\ "answer" \notin HeapStages
BY DEF HeapStages, Stages

LEMMA InitLock == Init => LockInv
<1> SUFFICES ASSUME Init PROVE LockInv
  OBVIOUS
<1> USE Names, StageNames, CityAssumption DEF Init
<1>1. stage \in [Threads -> Stages]
  OBVIOUS
<1>2. waiters \in Seq(Threads) /\ DOMAIN waiters = {}
  OBVIOUS
<1>3. net_state \in BOOLEAN
  OBVIOUS
<1>4. id \in FirstId .. LastId
  OBVIOUS
<1> QED
  BY <1>1, <1>2, <1>3, <1>4 DEF LockInv, TypeOK, HeapLockSound

\* A thread that needs no heap neither holds the lock nor waits for it: what it
\* does next does not matter to the lock.
LEMMA LeavesLock ==
  ASSUME LockInv, NEW t \in Threads, stage[t] \notin HeapStages,
         NEW s \in Stages, Enter(t, s), UNCHANGED <<holder, waiters>>,
         net_state' \in BOOLEAN, id' \in FirstId .. LastId
  PROVE  LockInv'
<1>1. TypeOK'
  BY DEF LockInv, TypeOK, Enter
<1>2. \A u \in Threads : u # t => stage'[u] = stage[u]
  BY DEF LockInv, TypeOK, Enter
<1>3. holder # t
  BY Names DEF LockInv, TypeOK, HeapLockSound
<1>4. \A i \in DOMAIN waiters : waiters[i] \in Threads /\ waiters[i] # t
  BY DEF LockInv, TypeOK, HeapLockSound
<1>5. holder' # Nobody => stage'[holder'] \in HeapStages
  BY <1>2, <1>3 DEF LockInv, TypeOK, HeapLockSound
<1>6. \A i \in DOMAIN waiters' : stage'[waiters'[i]] \in HeapStages
  BY <1>2, <1>4 DEF LockInv, HeapLockSound
<1>7. HeapLockSound'
  BY <1>5, <1>6 DEF LockInv, HeapLockSound
<1> QED
  BY <1>1, <1>7 DEF LockInv

\* The loops of the threads and the network.
LEMMA OtherSteps ==
  ASSUME LockInv,
         \/ GoOnline \/ VoiceCommand \/ KeyLow \/ KeyBounce \/ KeyAccept
         \/ \E t \in Threads :
               \/ StartUp(t) \/ Wake(t) \/ HelperWakes(t)
               \/ Transmit(t) \/ Answer(t) \/ TimeOut(t)
  PROVE  LockInv'
<1> USE Names, StageNames
<1>t. net_state \in BOOLEAN /\ id \in FirstId .. LastId
  BY DEF LockInv, TypeOK
<1>1. CASE GoOnline
  <2>1. net_state' \in BOOLEAN /\ UNCHANGED <<stage, holder, waiters, id>>
    BY <1>1 DEF GoOnline
  <2> QED
    BY <2>1 DEF LockInv, TypeOK, HeapLockSound
<1>2. CASE VoiceCommand
  BY <1>2, <1>t, LeavesLock DEF VoiceCommand
<1>3. CASE KeyLow
  BY <1>3, <1>t, LeavesLock DEF KeyLow
<1>4. CASE KeyBounce
  BY <1>4, <1>t, LeavesLock DEF KeyBounce
<1>5. CASE KeyAccept
  <2>1. id' \in FirstId .. LastId
    BY <1>5, <1>t, CityAssumption DEF KeyAccept
  <2> QED
    BY <1>5, <1>t, <2>1, LeavesLock DEF KeyAccept
<1>6. ASSUME NEW t \in Threads,
             \/ StartUp(t) \/ Wake(t) \/ HelperWakes(t)
             \/ Transmit(t) \/ Answer(t) \/ TimeOut(t)
      PROVE  LockInv'
  <2>1. /\ stage[t] \notin HeapStages
        /\ UNCHANGED <<net_state, holder, waiters, id>>
    BY <1>6 DEF StartUp, Wake, HelperWakes, Transmit, Answer, TimeOut
  <2>2. PICK s \in Stages : Enter(t, s)
    BY <1>6 DEF StartUp, Wake, HelperWakes, Transmit, Answer, TimeOut, UI, Asr, Key, Weather
  <2> QED
    BY <1>t, <2>1, <2>2, LeavesLock
<1> QED
  BY <1>1, <1>2, <1>3, <1>4, <1>5, <1>6

\* rt_sem_take on the heap's lock.
LEMMA TakeKeeps ==
  ASSUME LockInv, NEW t \in Threads, HeapTake(t)
  PROVE  LockInv'
<1> USE Names
<1>1. /\ stage[t] \in HeapStages /\ holder # t
      /\ UNCHANGED <<net_state, stage, id>>
  BY DEF HeapTake
<1>2. CASE holder = Nobody
  BY <1>1, <1>2 DEF HeapTake, LockInv, TypeOK, HeapLockSound
<1>3. CASE holder # Nobody
  <2>1. waiters' = Append(waiters, t) /\ holder' = holder /\ waiters \in Seq(Threads)
    BY <1>3 DEF HeapTake, LockInv, TypeOK
  <2>2. \A i \in DOMAIN waiters : waiters[i] # t
    BY StageNames, <1>1 DEF HeapTake, Running, Ready, Queued
  <2>3. waiters' \in Seq(Threads) /\ Len(waiters') = Len(waiters) + 1
    BY <2>1
  <2>4. \A i \in DOMAIN waiters' : 
           \/ i \in DOMAIN waiters /\ waiters'[i] = waiters[i]
           \/ i = Len(waiters) + 1 /\ waiters'[i] = t
    BY <2>1
  <2>5. TypeOK'
    BY <1>1, <2>1, <2>3 DEF LockInv, TypeOK
  <2>6. \A i \in DOMAIN waiters' : waiters'[i] # holder' /\ stage'[waiters'[i]] \in HeapStages
    BY <1>1, <2>1, <2>4 DEF LockInv, HeapLockSound
  <2>7. \A i, j \in DOMAIN waiters' : waiters'[i] = waiters'[j] => i = j
    BY <2>2, <2>4 DEF LockInv, HeapLockSound
  <2>8. HeapLockSound'
    BY <1>1, <1>3, <2>1, <2>6, <2>7 DEF LockInv, HeapLockSound
  <2> QED
    BY <2>5, <2>8 DEF LockInv
<1> QED
  BY <1>2, <1>3

\* rt_sem_release on it.
LEMMA ReleaseKeeps ==
  ASSUME LockInv, NEW t \in Threads, HeapRelease(t)
  PROVE  LockInv'
<1>0. Nobody \notin Threads
  BY Names
<1>1. holder = t /\ stage[t] \in HeapStages /\ UNCHANGED <<net_state, id>>
  BY <1>0 DEF HeapRelease, ReleaseTo, LockInv, HeapLockSound
<1>2. PICK s \in After(t) : Enter(t, s)
  BY DEF HeapRelease, ReleaseTo
<1>3. s \in Stages
  BY <1>1, <1>2, StageNames DEF After, HeapStages
<1>4. stage' \in [Threads -> Stages] /\ \A u \in Threads : u # t => stage'[u] = stage[u]
  BY <1>2, <1>3 DEF LockInv, TypeOK, Enter
<1>5. CASE waiters = <<>>
  <2>1. holder' = Nobody /\ waiters' = <<>>
    BY <1>5 DEF HeapRelease, ReleaseTo
  <2> QED
    BY <1>1, <1>4, <2>1 DEF LockInv, TypeOK, HeapLockSound
<1>6. CASE waiters # <<>>
  <2>1. holder' = Head(waiters) /\ waiters' = Tail(waiters) /\ waiters \in Seq(Threads)
    BY <1>6 DEF HeapRelease, ReleaseTo, LockInv, TypeOK
  <2>2. /\ Head(waiters) = waiters[1] /\ 1 \in DOMAIN waiters
        /\ Tail(waiters) \in Seq(Threads)
        /\ \A i \in DOMAIN Tail(waiters) :
              i \in Nat \ {0} /\ i + 1 \in DOMAIN waiters /\ Tail(waiters)[i] = waiters[i + 1]
    BY <1>6, <2>1
  <2>3. \A i \in DOMAIN waiters :
           waiters[i] \in Threads /\ waiters[i] # t /\ stage'[waiters[i]] \in HeapStages
    <3>1. \A i \in DOMAIN waiters : waiters[i] \in Threads
      BY <2>1
    <3>2. \A i \in DOMAIN waiters : waiters[i] # t /\ stage[waiters[i]] \in HeapStages
      BY <1>1 DEF LockInv, HeapLockSound
    <3> QED
      BY <1>4, <3>1, <3>2
  <2>4. TypeOK'
    BY <1>1, <1>4, <2>1, <2>2, <2>3 DEF LockInv, TypeOK
  <2>5. \A i, j \in DOMAIN waiters : waiters[i] = waiters[j] => i = j
    BY DEF LockInv, HeapLockSound
  <2>6. \A i \in DOMAIN waiters' :
           /\ waiters'[i] # holder' /\ stage'[waiters'[i]] \in HeapStages
           /\ \A j \in DOMAIN waiters' : waiters'[i] = waiters'[j] => i = j
    BY <2>1, <2>2, <2>3, <2>5
  <2>7. HeapLockSound'
    BY <1>0, <2>1, <2>2, <2>3, <2>6 DEF HeapLockSound
  <2> QED
    BY <2>4, <2>7 DEF LockInv
<1> QED
  BY <1>5, <1>6

\* Types and the heap's lock together are an inductive invariant.
THEOREM InductiveInvariant == Spec => []LockInv
<1>1. LockInv /\ [Next]_vars => LockInv'
  <2> SUFFICES ASSUME LockInv, [Next]_vars PROVE LockInv'
    OBVIOUS
  <2>1. CASE Next
    BY <2>1, OtherSteps, TakeKeeps, ReleaseKeeps DEF Next, Heap
  <2>2. CASE UNCHANGED vars
    BY <2>2 DEF vars, LockInv, TypeOK, HeapLockSound
  <2> QED
    BY <2>1, <2>2
<1> QED
  BY <1>1, InitLock, PTL DEF Spec

\* Every variable keeps its type; the index into city_id stays in its range,
\* however often the button is pressed.
THEOREM TypeCorrect == Spec => []TypeOK
<1>1. LockInv => TypeOK
  BY DEF LockInv
<1> QED
  BY <1>1, InductiveInvariant, PTL

\* The heap's lock is held by a thread at work on the heap and queued for once
\* by each that waits.
THEOREM HeapLockCorrect == Spec => []HeapLockSound
<1>1. LockInv => HeapLockSound
  BY DEF LockInv
<1> QED
  BY <1>1, InductiveInvariant, PTL
=============================================================================
