------------------------- MODULE WeatherFetchProofs -------------------------
(* Proofs about WeatherFetch, for every set of threads, every set of cities *)
(* and every number of fields.                                              *)
EXTENDS WeatherFetch, TLAPS

\* The initial state of weather.c's globals satisfies the inductive invariant.
LEMMA InitIInv == Init => IInv
<1> SUFFICES ASSUME Init PROVE IInv
  OBVIOUS
<1> USE DataAssumption DEF Init
<1>1. TypeOK
  <2>1. 1 \in Fields /\ Blank \in Values
    BY DEF Fields, Values
  <2>2. area_id \in Cities /\ url \in [Threads -> Cities]
    OBVIOUS
  <2>3. data \in [Fields -> Values] /\ screen \in [Fields -> Values]
    BY <2>1
  <2>4. pc \in [Threads -> PCs] /\ body \in [Threads -> Bodies]
    BY DEF PCs, Bodies
  <2>5. live \in [Threads -> SUBSET Blocks] /\ todo \in [Threads -> SUBSET Fields]
    OBVIOUS
  <2>6. pos \in [Threads -> Fields] /\ drawing \in [Threads -> Fields \X Values]
    BY <2>1
  <2>7. /\ halted \in BOOLEAN /\ fresh \in BOOLEAN /\ stale \in SUBSET Fields
        /\ kept \in [Threads -> SUBSET Fields]
        /\ solo \in [Threads -> BOOLEAN] /\ clean \in [Threads -> BOOLEAN]
    OBVIOUS
  <2> QED
    BY <2>2, <2>3, <2>4, <2>5, <2>6, <2>7 DEF TypeOK
<1>2. LiveInv /\ StoreInv /\ PosInv /\ SoloInv /\ CleanInv
  BY DEF LiveInv, StoreInv, PosInv, SoloInv, CleanInv, Window
<1>3. FreshIsConsistent /\ PaintedShowsCity
  BY DEF FreshIsConsistent, PaintedShowsCity
<1> QED
  BY <1>1, <1>2, <1>3 DEF IInv

\* An allocation of a block keeps the types.
LEMMA AllocType ==
  ASSUME TypeOK, NEW t \in Threads, NEW from \in PCs, NEW b \in Blocks,
         NEW l \in PCs, Alloc(t, from, b, l)
  PROVE  TypeOK'
<1>1. pc' \in [Threads -> PCs]
  BY DEF TypeOK, Alloc, Goto, PCs
<1>2. live' \in [Threads -> SUBSET Blocks]
  BY DEF TypeOK, Alloc
<1> QED
  BY <1>1, <1>2 DEF TypeOK, Alloc, sharedVars, history

\* The call that paints a field, or fails to, keeps the types.
LEMMA DrawType ==
  ASSUME TypeOK, NEW t \in Threads, NEW shown \in BOOLEAN, NEW done \in BOOLEAN,
         DrawThen(t, shown, done)
  PROVE  TypeOK'
<1> USE DEF TypeOK, Goto
<1>1. screen' \in [Fields -> Values]
  BY DEF DrawThen
<1>2. pc' \in [Threads -> PCs]
  BY DEF DrawThen, PCs
<1>3. todo' \in [Threads -> SUBSET Fields]
  BY DEF DrawThen
<1>4. drawing' \in [Threads -> Fields \X Values]
  <2>1. 1 \in Fields /\ Blank \in Values
    BY DataAssumption DEF Fields, Values
  <2> QED
    BY <2>1 DEF DrawThen
<1>5. clean' \in [Threads -> BOOLEAN]
  BY DEF DrawThen
<1>6. kept' \in [Threads -> SUBSET Fields] /\ stale' \in SUBSET Fields
  <2>1. drawing[t][1] \in Fields
    OBVIOUS
  <2> QED
    BY <2>1 DEF DrawThen
<1> QED
  BY <1>1, <1>2, <1>3, <1>4, <1>5, <1>6 DEF DrawThen

\* Every step of every thread keeps every variable in its type.
LEMMA TypeStep ==
  ASSUME TypeOK, NEW t \in Threads, Step(t)
  PROVE  TypeOK'
<1> USE DEF TypeOK, At, Goto, sharedVars, history
<1>0. /\ PCs = {"idle", "alloc_url", "build_url", "session", "get", "buffer",
                 "read", "parse", "check", "store", "copy", "delete", "exit",
                 "show", "draw"}
      /\ {"url", "session", "buffer", "root"} \subseteq Blocks
      /\ Cities \subseteq Values /\ Blank \in Values /\ Garbage \in Values
      /\ 1 \in Fields /\ DefaultCity \in Cities /\ "nojson" \in Bodies
      /\ \A i \in Fields : i # NFields => i + 1 \in Fields
  BY DataAssumption DEF PCs, Blocks, Values, Fields, Bodies
<1>1. CASE Refresh(t)
  BY <1>0, <1>1 DEF Refresh
<1>2. CASE ChangeCity(t)
  BY <1>0, <1>2 DEF ChangeCity
<1>3. CASE View(t)
  BY <1>0, <1>3 DEF View
<1>4. CASE AllocUrl(t)
  <2>1. "alloc_url" \in PCs /\ "url" \in Blocks /\ "build_url" \in PCs
    BY <1>0
  <2> HIDE DEF TypeOK
  <2> QED
    BY <1>4, <2>1, AllocType DEF AllocUrl
<1>5. CASE BuildUrl(t)
  BY <1>0, <1>5 DEF BuildUrl
<1>6. CASE CreateSession(t)
  <2>1. "session" \in PCs /\ "session" \in Blocks /\ "get" \in PCs
    BY <1>0
  <2> HIDE DEF TypeOK
  <2> QED
    BY <1>6, <2>1, AllocType DEF CreateSession
<1>7. CASE Get(t)
  BY <1>0, <1>7 DEF Get
<1>8. CASE AllocBuffer(t)
  <2>1. "buffer" \in PCs /\ "buffer" \in Blocks /\ "read" \in PCs
    BY <1>0
  <2> HIDE DEF TypeOK
  <2> QED
    BY <1>8, <2>1, AllocType DEF AllocBuffer
<1>9. CASE Read(t)
  <2>1. body' \in [Threads -> Bodies]
    BY <1>0, <1>9 DEF Read
  <2> QED
    BY <1>0, <1>9, <2>1 DEF Read
<1>10. CASE Parse(t)
  <2>1. pc' \in [Threads -> PCs]
    BY <1>0, <1>10 DEF Parse
  <2>2. live' \in [Threads -> SUBSET Blocks]
    BY <1>0, <1>10 DEF Parse
  <2> QED
    BY <1>10, <2>1, <2>2 DEF Parse
<1>11. CASE Check(t)
  <2>1. pc' \in [Threads -> PCs] /\ halted' \in BOOLEAN
    BY <1>0, <1>11 DEF Check
  <2> QED
    BY <1>11, <2>1 DEF Check
<1>12. CASE StoreFault(t)
  BY <1>12 DEF StoreFault
<1>13. CASE Clear(t)
  <2>1. data' \in [Fields -> Values] /\ pc' \in [Threads -> PCs]
    BY <1>0, <1>13 DEF Clear
  <2>2. /\ solo' \in [Threads -> BOOLEAN] /\ fresh' \in BOOLEAN
        /\ clean' \in [Threads -> BOOLEAN]
    BY <1>13 DEF Clear
  <2> QED
    BY <1>13, <2>1, <2>2 DEF Clear
<1>14. CASE Store(t)
  <2>1. data' \in [Fields -> Values]
    <3>1. Stored(t) \subseteq Values
      BY <1>0 DEF Stored
    <3> QED
      BY <1>14, <3>1 DEF Store, StoreUpTo
  <2>2. pc' \in [Threads -> PCs] /\ pos' \in [Threads -> Fields]
    <3>1. pc' \in [Threads -> PCs]
      BY <1>0, <1>14 DEF Store, StoreUpTo
    <3>2. CASE pos[t] = NFields
      <4>1. pos' = pos
        BY <1>14, <3>2 DEF Store, StoreUpTo
      <4> QED
        BY <3>1, <4>1
    <3>3. CASE pos[t] # NFields
      <4>1. pos' = [pos EXCEPT ![t] = @ + 1]
        BY <1>14, <3>3 DEF Store, StoreUpTo
      <4>2. pos[t] + 1 \in Fields
        BY <1>0, <3>3
      <4> QED
        BY <3>1, <4>1, <4>2
    <3> QED
      BY <3>2, <3>3
  <2>3. /\ solo' \in [Threads -> BOOLEAN] /\ fresh' \in BOOLEAN
        /\ clean' \in [Threads -> BOOLEAN]
    BY <1>14 DEF Store, StoreUpTo
  <2> QED
    BY <1>14, <2>1, <2>2, <2>3 DEF Store, StoreUpTo
<1>15. CASE DeleteRoot(t)
  <2>1. pc' \in [Threads -> PCs]
    BY <1>0, <1>15 DEF DeleteRoot
  <2>2. live' \in [Threads -> SUBSET Blocks]
    BY <1>15 DEF DeleteRoot
  <2> QED
    BY <1>15, <2>1, <2>2 DEF DeleteRoot
<1>16. CASE Exit(t)
  <2>1. pc' \in [Threads -> PCs] /\ todo' \in [Threads -> SUBSET Fields]
    BY <1>0, <1>16 DEF Exit, ExitFreeing
  <2>2. live' \in [Threads -> SUBSET Blocks]
    BY <1>0, <1>16 DEF Exit, ExitFreeing
  <2>3. clean' \in [Threads -> BOOLEAN] /\ solo' \in [Threads -> BOOLEAN]
    <3>1. clean' = clean \/ clean' = [clean EXCEPT ![t] = fresh]
      BY <1>16 DEF Exit, ExitFreeing
    <3>2. solo' = [solo EXCEPT ![t] = FALSE]
      BY <1>16 DEF Exit, ExitFreeing
    <3> QED
      BY <3>1, <3>2
  <2>4. /\ url' \in [Threads -> Cities] /\ body' \in [Threads -> Bodies]
        /\ pos' \in [Threads -> Fields]
    BY <1>0, <1>16 DEF Exit, ExitFreeing
  <2> QED
    BY <1>0, <1>16, <2>1, <2>2, <2>3, <2>4 DEF Exit, ExitFreeing
<1>17. CASE ShowRead(t)
  BY <1>0, <1>17 DEF ShowRead
<1>18. CASE ShowDraw(t)
  BY <1>0, <1>18, DrawType DEF ShowDraw
<1>19. CASE DrawFails(t)
  BY <1>0, <1>19, DrawType DEF DrawFails
<1> QED
  BY <1>1, <1>2, <1>3, <1>4, <1>5, <1>6, <1>7, <1>8, <1>9, <1>10, <1>11,
     <1>12, <1>13, <1>14, <1>15, <1>16, <1>17, <1>18, <1>19 DEF Step

\* An allocation inside fetch_weather adds one of its three blocks.
LEMMA AllocLive ==
  ASSUME TypeOK, LiveInv, NEW t \in Threads,
         NEW from \in {"alloc_url", "session", "buffer"},
         NEW b \in {"url", "session", "buffer"},
         NEW l \in {"build_url", "get", "read"}, Alloc(t, from, b, l)
  PROVE  LiveInv'
<1> SUFFICES ASSUME NEW u \in Threads
             PROVE  live'[u] \subseteq
                      IF pc'[u] \in {"idle", "alloc_url", "show", "draw"} THEN {}
                      ELSE IF pc'[u] \in {"check", "store", "copy", "delete"}
                      THEN Blocks ELSE Blocks \ {"root"}
  BY DEF LiveInv
<1>1. CASE u = t
  <2>1. live[t] \subseteq Blocks \ {"root"}
    BY DEF LiveInv, Alloc, At, Blocks
  <2>2. pc'[t] = l \/ pc'[t] = "exit"
    BY DEF Alloc, Goto, TypeOK
  <2>3. live'[t] \subseteq live[t] \cup {b}
    BY DEF Alloc, TypeOK
  <2> QED
    BY <1>1, <2>1, <2>2, <2>3 DEF Blocks
<1>2. CASE u # t
  <2>1. live'[u] = live[u] /\ pc'[u] = pc[u]
    BY <1>2 DEF Alloc, Goto, TypeOK
  <2> QED
    BY <2>1 DEF LiveInv
<1> QED
  BY <1>1, <1>2

\* Every path of fetch_weather keeps track of what it owns.
LEMMA LiveStep ==
  ASSUME TypeOK, LiveInv, NEW t \in Threads, Step(t)
  PROVE  LiveInv'
<1> USE DEF TypeOK, LiveInv, At, Goto, sharedVars, history, Blocks
<1>1. CASE Refresh(t)
  BY <1>1 DEF Refresh
<1>2. CASE ChangeCity(t)
  BY <1>2 DEF ChangeCity
<1>3. CASE View(t)
  BY <1>3 DEF View
<1>4. CASE AllocUrl(t)
  <2> HIDE DEF TypeOK, LiveInv, Blocks
  <2> QED
    BY <1>4, AllocLive DEF AllocUrl
<1>5. CASE BuildUrl(t)
  BY <1>5 DEF BuildUrl
<1>6. CASE CreateSession(t)
  <2> HIDE DEF TypeOK, LiveInv, Blocks
  <2> QED
    BY <1>6, AllocLive DEF CreateSession
<1>7. CASE Get(t)
  BY <1>7 DEF Get
<1>8. CASE AllocBuffer(t)
  <2> HIDE DEF TypeOK, LiveInv, Blocks
  <2> QED
    BY <1>8, AllocLive DEF AllocBuffer
<1>9. CASE Read(t)
  BY <1>9 DEF Read
<1>10. CASE Parse(t)
  <2>1. \A u \in Threads : u # t => live'[u] = live[u] /\ pc'[u] = pc[u]
    BY <1>10 DEF Parse
  <2>2. \/ pc'[t] = "exit" /\ live'[t] = live[t]
        \/ pc'[t] = "check" /\ live'[t] = live[t] \cup {"root"}
    BY <1>10 DEF Parse
  <2>3. live[t] \subseteq Blocks \ {"root"}
    BY <1>10 DEF Parse
  <2> QED
    BY <2>1, <2>2, <2>3
<1>11. CASE Check(t)
  BY <1>11 DEF Check
<1>12. CASE StoreFault(t)
  BY <1>12 DEF StoreFault
<1>13. CASE Clear(t)
  BY <1>13 DEF Clear
<1>14. CASE Store(t)
  <2>1. \A u \in Threads : u # t => live'[u] = live[u] /\ pc'[u] = pc[u]
    BY <1>14 DEF Store, StoreUpTo
  <2>2. pc'[t] \in {"store", "delete"} /\ live'[t] = live[t]
    BY <1>14 DEF Store, StoreUpTo
  <2> QED
    BY <2>1, <2>2
<1>15. CASE DeleteRoot(t)
  BY <1>15 DEF DeleteRoot
<1>16. CASE Exit(t)
  BY <1>16 DEF Exit, ExitFreeing
<1>17. CASE ShowRead(t)
  BY <1>17 DEF ShowRead
<1>18. CASE ShowDraw(t)
  BY <1>18 DEF ShowDraw, DrawThen
<1>19. CASE DrawFails(t)
  BY <1>19 DEF DrawFails, DrawThen
<1> QED
  BY <1>1, <1>2, <1>3, <1>4, <1>5, <1>6, <1>7, <1>8, <1>9, <1>10, <1>11,
     <1>12, <1>13, <1>14, <1>15, <1>16, <1>17, <1>18, <1>19 DEF Step

\* Only an accepted body reaches the stores.
LEMMA StoreStep ==
  ASSUME TypeOK, StoreInv, NEW t \in Threads, Step(t)
  PROVE  StoreInv'
<1> USE DEF TypeOK, StoreInv, At, Goto, sharedVars, history
<1>1. CASE Refresh(t)
  BY <1>1 DEF Refresh
<1>2. CASE ChangeCity(t)
  BY <1>2 DEF ChangeCity
<1>3. CASE View(t)
  BY <1>3 DEF View
<1>4. CASE AllocUrl(t)
  BY <1>4 DEF AllocUrl, Alloc
<1>5. CASE BuildUrl(t)
  BY <1>5 DEF BuildUrl
<1>6. CASE CreateSession(t)
  BY <1>6 DEF CreateSession, Alloc
<1>7. CASE Get(t)
  BY <1>7 DEF Get
<1>8. CASE AllocBuffer(t)
  BY <1>8 DEF AllocBuffer, Alloc
<1>9. CASE Read(t)
  BY <1>9 DEF Read
<1>10. CASE Parse(t)
  BY <1>10 DEF Parse
<1>11. CASE Check(t)
  BY <1>11 DEF Check
<1>12. CASE StoreFault(t)
  BY <1>12 DEF StoreFault
<1>13. CASE Clear(t)
  BY <1>13 DEF Clear
<1>14. CASE Store(t)
  BY <1>14 DEF Store, StoreUpTo
<1>15. CASE DeleteRoot(t)
  BY <1>15 DEF DeleteRoot
<1>16. CASE Exit(t)
  BY <1>16 DEF Exit, ExitFreeing
<1>17. CASE ShowRead(t)
  BY <1>17 DEF ShowRead
<1>18. CASE ShowDraw(t)
  BY <1>18 DEF ShowDraw, DrawThen
<1>19. CASE DrawFails(t)
  BY <1>19 DEF DrawFails, DrawThen
<1> QED
  BY <1>1, <1>2, <1>3, <1>4, <1>5, <1>6, <1>7, <1>8, <1>9, <1>10, <1>11,
     <1>12, <1>13, <1>14, <1>15, <1>16, <1>17, <1>18, <1>19 DEF Step

\* The next fetch begins with the first field.
LEMMA PosStep ==
  ASSUME TypeOK, PosInv, NEW t \in Threads, Step(t)
  PROVE  PosInv'
<1> USE DEF TypeOK, PosInv, At, Goto, sharedVars, history
<1>1. CASE Refresh(t)
  BY <1>1 DEF Refresh
<1>2. CASE ChangeCity(t)
  BY <1>2 DEF ChangeCity
<1>3. CASE View(t)
  BY <1>3 DEF View
<1>4. CASE AllocUrl(t)
  BY <1>4 DEF AllocUrl, Alloc
<1>5. CASE BuildUrl(t)
  BY <1>5 DEF BuildUrl
<1>6. CASE CreateSession(t)
  BY <1>6 DEF CreateSession, Alloc
<1>7. CASE Get(t)
  BY <1>7 DEF Get
<1>8. CASE AllocBuffer(t)
  BY <1>8 DEF AllocBuffer, Alloc
<1>9. CASE Read(t)
  BY <1>9 DEF Read
<1>10. CASE Parse(t)
  BY <1>10 DEF Parse
<1>11. CASE Check(t)
  BY <1>11 DEF Check
<1>12. CASE StoreFault(t)
  BY <1>12 DEF StoreFault
<1>13. CASE Clear(t)
  BY <1>13 DEF Clear
<1>14. CASE Store(t)
  BY <1>14 DEF Store, StoreUpTo
<1>15. CASE DeleteRoot(t)
  BY <1>15 DEF DeleteRoot
<1>16. CASE Exit(t)
  BY <1>16 DEF Exit, ExitFreeing
<1>17. CASE ShowRead(t)
  BY <1>17 DEF ShowRead
<1>18. CASE ShowDraw(t)
  BY <1>18 DEF ShowDraw, DrawThen
<1>19. CASE DrawFails(t)
  BY <1>19 DEF DrawFails, DrawThen
<1> QED
  BY <1>1, <1>2, <1>3, <1>4, <1>5, <1>6, <1>7, <1>8, <1>9, <1>10, <1>11,
     <1>12, <1>13, <1>14, <1>15, <1>16, <1>17, <1>18, <1>19 DEF Step

\* An undisturbed fetch keeps the fields it has stored in agreement with
\* area_id, and ends with all of them so.
LEMMA SoloStep ==
  ASSUME TypeOK, PosInv, SoloInv, FreshIsConsistent, NEW t \in Threads, Step(t)
  PROVE  SoloInv' /\ FreshIsConsistent'
<1> USE DataAssumption DEF TypeOK, PosInv, SoloInv, FreshIsConsistent, At, Goto, sharedVars, history, Window, Fields
<1>1. CASE Refresh(t)
  BY <1>1 DEF Refresh
<1>2. CASE ChangeCity(t)
  BY <1>2 DEF ChangeCity
<1>3. CASE View(t)
  BY <1>3 DEF View
<1>4. CASE AllocUrl(t)
  BY <1>4 DEF AllocUrl, Alloc
<1>5. CASE BuildUrl(t)
  <2>1. pos[t] = 1 /\ pos' = pos /\ data' = data /\ area_id' = area_id
    BY <1>5 DEF BuildUrl
  <2>2. \A f \in Fields : ~(f < pos'[t])
    BY <2>1
  <2> QED
    BY <1>5, <2>1, <2>2 DEF BuildUrl
<1>6. CASE CreateSession(t)
  BY <1>6 DEF CreateSession, Alloc
<1>7. CASE Get(t)
  BY <1>7 DEF Get
<1>8. CASE AllocBuffer(t)
  BY <1>8 DEF AllocBuffer, Alloc
<1>9. CASE Read(t)
  BY <1>9 DEF Read
<1>10. CASE Parse(t)
  BY <1>10 DEF Parse
<1>11. CASE Check(t)
  BY <1>11 DEF Check
<1>12. CASE StoreFault(t)
  BY <1>12 DEF StoreFault
<1>13. CASE Clear(t)
  BY <1>13 DEF Clear
<1>14. CASE Store(t)
  <2>1. PICK v : /\ data' = [data EXCEPT ![pos[t]] = v]
                 /\ solo' = [u \in Threads |-> u = t /\ solo[t] /\ v = url[t]]
                 /\ fresh' = (solo[t] /\ v = url[t] /\ pos[t] = NFields)
    BY <1>14 DEF Store, StoreUpTo
  <2>2. pc[t] \in Window /\ url' = url /\ area_id' = area_id
    BY <1>14 DEF Store, StoreUpTo
  <2>3. solo[t] /\ v = url[t] =>
          \A f \in Fields : f < pos[t] + 1 => data'[f] = area_id
    BY <2>1, <2>2
  <2>4. FreshIsConsistent'
    <3> SUFFICES ASSUME fresh', NEW f \in Fields PROVE data'[f] = area_id
      BY <2>2
    <3>1. solo[t] /\ v = url[t] /\ pos[t] = NFields
      BY <2>1
    <3> QED
      BY <2>3, <3>1
  <2>5. pos'[t] = pos[t] + 1 \/ pc'[t] = "delete"
    BY <1>14 DEF Store, StoreUpTo
  <2>6. SoloInv'
    <3> SUFFICES ASSUME NEW u \in Threads, solo'[u], pc'[u] \in Window
                 PROVE  /\ url'[u] = area_id'
                        /\ \A f \in Fields : f < pos'[u] => data'[f] = area_id'
      BY DEF SoloInv
    <3>1. u = t /\ solo[t] /\ v = url[t]
      BY <2>1
    <3>2. url[t] = area_id
      BY <2>2, <3>1
    <3> QED
      BY <2>2, <2>3, <2>5, <3>1, <3>2
  <2> QED
    BY <2>4, <2>6
<1>15. CASE DeleteRoot(t)
  BY <1>15 DEF DeleteRoot
<1>16. CASE Exit(t)
  BY <1>16 DEF Exit, ExitFreeing
<1>17. CASE ShowRead(t)
  BY <1>17 DEF ShowRead
<1>18. CASE ShowDraw(t)
  BY <1>18 DEF ShowDraw, DrawThen
<1>19. CASE DrawFails(t)
  BY <1>19 DEF DrawFails, DrawThen
<1> QED
  BY <1>1, <1>2, <1>3, <1>4, <1>5, <1>6, <1>7, <1>8, <1>9, <1>10, <1>11,
     <1>12, <1>13, <1>14, <1>15, <1>16, <1>17, <1>18, <1>19 DEF Step

\* A clean repaint keeps the fields it has painted in agreement with area_id,
\* and ends with all of them so.
LEMMA CleanStep ==
  ASSUME TypeOK, CleanInv, FreshIsConsistent, PaintedShowsCity,
         NEW t \in Threads, Step(t)
  PROVE  CleanInv' /\ PaintedShowsCity'
<1> USE DEF TypeOK, CleanInv, FreshIsConsistent, PaintedShowsCity, At, Goto, sharedVars, history
<1>1. CASE Refresh(t)
  BY <1>1 DEF Refresh
<1>2. CASE ChangeCity(t)
  BY <1>2 DEF ChangeCity
<1>3. CASE View(t)
  BY <1>3 DEF View
<1>4. CASE AllocUrl(t)
  BY <1>4 DEF AllocUrl, Alloc
<1>5. CASE BuildUrl(t)
  BY <1>5 DEF BuildUrl
<1>6. CASE CreateSession(t)
  BY <1>6 DEF CreateSession, Alloc
<1>7. CASE Get(t)
  BY <1>7 DEF Get
<1>8. CASE AllocBuffer(t)
  BY <1>8 DEF AllocBuffer, Alloc
<1>9. CASE Read(t)
  BY <1>9 DEF Read
<1>10. CASE Parse(t)
  BY <1>10 DEF Parse
<1>11. CASE Check(t)
  BY <1>11 DEF Check
<1>12. CASE StoreFault(t)
  BY <1>12 DEF StoreFault
<1>13. CASE Clear(t)
  BY <1>13 DEF Clear
<1>14. CASE Store(t)
  BY <1>14 DEF Store, StoreUpTo
<1>15. CASE DeleteRoot(t)
  BY <1>15 DEF DeleteRoot
<1>16. CASE Exit(t)
  BY <1>16 DEF Exit, ExitFreeing
<1>17. CASE ShowRead(t)
  BY <1>17 DEF ShowRead
<1>18. CASE ShowDraw(t)
  BY <1>18 DEF ShowDraw, DrawThen
<1>19. CASE DrawFails(t)
  BY <1>19 DEF DrawFails, DrawThen
<1> QED
  BY <1>1, <1>2, <1>3, <1>4, <1>5, <1>6, <1>7, <1>8, <1>9, <1>10, <1>11,
     <1>12, <1>13, <1>14, <1>15, <1>16, <1>17, <1>18, <1>19 DEF Step

\* Steps that change nothing keep every part of the invariant.
LEMMA StutterIInv == IInv /\ UNCHANGED vars => IInv'
BY DEF IInv, vars, TypeOK, LiveInv, StoreInv, PosInv, SoloInv, CleanInv,
       FreshIsConsistent, PaintedShowsCity

\* The conjunction IInv is an invariant of the fetch and repaint protocol.
THEOREM InductiveInvariant == Spec => []IInv
<1>1. IInv /\ Next => IInv'
  <2> SUFFICES ASSUME IInv, NEW t \in Threads, Step(t) PROVE IInv'
    BY DEF Next
  <2> QED
    BY TypeStep, LiveStep, StoreStep, PosStep, SoloStep, CleanStep DEF IInv
<1>2. IInv /\ [Next]_vars => IInv'
  BY <1>1, StutterIInv
<1> QED
  BY InitIInv, <1>2, PTL DEF Spec

\* weather.c, ui.c: every variable keeps its type on every schedule.
THEOREM TypeCorrect == Spec => []TypeOK
<1>1. IInv => TypeOK
  BY DEF IInv
<1> QED
  BY InductiveInvariant, <1>1, PTL

\* fetch_weather gives back every block on every path, whatever fails and
\* however many threads fetch at the same time.
THEOREM FetchDoesNotLeak == Spec => []NoLeak
<1>1. IInv => NoLeak
  BY DEF IInv, LiveInv, NoLeak
<1> QED
  BY InductiveInvariant, <1>1, PTL

\* A fetch that nobody disturbed leaves rt and wt describing area_id, for any
\* number of threads, cities and fields.
THEOREM FetchConsistent == Spec => []FreshIsConsistent
<1>1. IInv => FreshIsConsistent
  BY DEF IInv
<1> QED
  BY InductiveInvariant, <1>1, PTL

\* The same, end to end: a clean repaint after such a fetch shows area_id in
\* every field but the pictures Show_BMP could not load.
THEOREM ScreenConsistent == Spec => []PaintedShowsCity
<1>1. IInv => PaintedShowsCity
  BY DEF IInv
<1> QED
  BY InductiveInvariant, <1>1, PTL

\* A body without success = "1" never reaches rt or wt.
THEOREM RejectedBodiesIgnored == Spec => OnlyAcceptedBodiesStored
<1> DEFINE A == data' # data => \E t \in Threads :
                    pc[t] \in {"store", "copy"} /\ body[t] \in {"partial", "full"}
<1>1. IInv /\ [Next]_vars => [A]_vars
  <2> SUFFICES ASSUME IInv, NEW t \in Threads, Step(t), data' # data
               PROVE  pc[t] \in {"store", "copy"} /\ body[t] \in {"partial", "full"}
    BY DEF Next
  <2>1. Clear(t) \/ Store(t)
    BY DEF Step, Refresh, ChangeCity, View, AllocUrl, Alloc, BuildUrl,
           CreateSession, Get, AllocBuffer, Read, Parse, Check, StoreFault,
           DeleteRoot, Exit, ExitFreeing, ShowRead, ShowDraw, DrawFails,
           DrawThen, sharedVars
  <2>2. At(t, "store") \/ At(t, "copy")
    BY <2>1 DEF Clear, Store, StoreUpTo
  <2> QED
    BY <2>2 DEF IInv, StoreInv, At
<1> QED
  BY InductiveInvariant, <1>1, PTL DEF Spec, OnlyAcceptedBodiesStored
=============================================================================
