------------------------ MODULE RefreshServiceProofs ------------------------
(***************************************************************************)
(* Proofs about RefreshService, for every set of requests, handlers and    *)
(* rows, with SQLite and with MySQL.                                       *)
(***************************************************************************)
EXTENDS RefreshService, TLAPS

-----------------------------------------------------------------------------
(* What a step may not touch keeps its type and its turn.                   *)

\* Types of variables that a step leaves alone stay, group by group.
LEMMA RequestTypesStable ==
    RequestTypes /\ UNCHANGED <<requestVars, activeRefreshes>> => RequestTypes'
BY DEF RequestTypes, requestVars

\* The variables of handlers.
LEMMA HandlerTypesStable == HandlerTypes /\ UNCHANGED handlerVars => HandlerTypes'
BY DEF HandlerTypes, handlerVars

\* Those of refreshes under way.
LEMMA FlightTypesStable == FlightTypes /\ UNCHANGED flightVars => FlightTypes'
BY DEF FlightTypes, flightVars

\* Those of the cache.
LEMMA CacheTypesStable ==
    CacheTypes /\ UNCHANGED <<server, pcs, db, invalidTcbs, listed>> => CacheTypes'
BY DEF CacheTypes

\* Those of the write queue and the transaction.
LEMMA WriteTypesStable ==
    WriteTypes /\ UNCHANGED <<wrote, sqliteWriteQueue>> => WriteTypes'
BY DEF WriteTypes

\* A stamp of 0 is a stamp.
LEMMA StampTypes == 0 \in 0..MaxStamp /\ 1..MaxStamp \subseteq 0..MaxStamp /\ 1 \in 1..MaxStamp
BY ConstantsAssumption

\* Nothing fetched is a function of the rows.
LEMMA NoneGot == [x \in Rows |-> 0] \in [Rows -> 0..MaxStamp]
BY StampTypes

\* A flight asks for rows of the cache only.
LEMMA RowsOfInRows == \A k : RowsOf(k) \subseteq Rows
BY DEF RowsOf, Rows

\* The first fetch of a flight is of rows of its key.
LEMMA FirstRowsOfKey == \A k : FirstRows(k) \subseteq RowsOf(k)
BY DEF FirstRows, RowsOf, Covered

\* The CRLs that are fetched by URI are covered.
LEMMA UrlRows == {RootCrl} \cup {x \in CachedCrls : db[x] # 0} \subseteq Covered
BY DEF Covered

\* A refresh that settles leaves its variables typed.
LEMMA SettleTypes ==
    ASSUME NEW o \in Requests, NEW result \in {"ok", "failed"},
           Settle(o, result), FlightTypes, WriteTypes
    PROVE  /\ FlightTypes'
           /\ wrote' \in [Writers -> SUBSET (Rows \cup {Chain})]
<1>1. got' \in [Requests -> [Rows -> 0..MaxStamp]]
  BY NoneGot, Zenon DEF Settle, FlightTypes
<1>2. wrote' \in [Writers -> SUBSET (Rows \cup {Chain})]
  BY DEF Settle, WriteTypes, Writers
<1>3. phase' \in [Requests -> Phases]
  BY DEF Settle, FlightTypes, Phases
<1>4. want' \in [Requests -> SUBSET Rows] /\ todo' \in [Requests -> SUBSET Rows]
  BY DEF Settle, FlightTypes
<1>5. outcome' \in [Requests -> {"none", "ok", "failed"}]
  BY DEF Settle, FlightTypes
<1> QED BY <1>1, <1>2, <1>3, <1>4, <1>5 DEF Settle, FlightTypes

\* A flight that takes its place in the queue does not take the place of one
\* whose turn it is.
LEMMA EnqueueKeepsTurns ==
    ASSUME NEW o \in Requests, WriteTypes
    PROVE  /\ Enqueued(o) \in Seq(Requests)
           /\ sqliteWriteQueue # <<>> =>
                  Enqueued(o) # <<>> /\ Head(Enqueued(o)) = Head(sqliteWriteQueue)
BY DEF WriteTypes, Enqueued

\* The queue of refreshes moves on to one of refreshes.
LEMMA DequeueTypes ==
    ASSUME WriteTypes, Sqlite => sqliteWriteQueue # <<>>
    PROVE  Dequeued \in Seq(Requests)
BY DEF WriteTypes, Dequeued

-----------------------------------------------------------------------------
\* The first state has its types, and an empty queue.
LEMMA InitTypeOK == Init => TypeOK /\ TurnsInQueue
<1> SUFFICES ASSUME Init PROVE TypeOK /\ TurnsInQueue
  OBVIOUS
<1> USE StampTypes DEF Init
<1>1. CacheTypes
  BY DEF CacheTypes
<1>2. RequestTypes
  BY DEF RequestTypes
<1>3. FlightTypes
  BY NoneGot DEF FlightTypes, Phases
<1>4. WriteTypes
  BY DEF WriteTypes
<1>5. HandlerTypes
  BY DEF HandlerTypes
<1>6. TurnsInQueue
  BY DEF TurnsInQueue
<1> QED BY <1>1, <1>2, <1>3, <1>4, <1>5, <1>6 DEF TypeOK
\* Types and turns are kept by every step of a flight.
LEMMA FlightStepTypes ==
    ASSUME TypeOK, TurnsInQueue, NEW o \in Requests, FlightStep(o)
    PROVE  TypeOK' /\ TurnsInQueue'
<1> USE DEF TypeOK
<1>1. CASE Cleanup(o)
  <2>1. FlightTypes'
    BY <1>1 DEF Cleanup, FlightTypes, Phases
  <2>2. WriteTypes'
    BY <1>1, DequeueTypes DEF Cleanup, MayWrite, WriteTypes
  <2>3. CacheTypes'
    BY <1>1 DEF Cleanup, CacheTypes
  <2>4. TurnsInQueue'
    BY <1>1 DEF Cleanup, TurnsInQueue, MayWrite, FlightTypes
  <2> QED BY <1>1, <2>1, <2>2, <2>3, <2>4, RequestTypesStable, HandlerTypesStable DEF Cleanup
<1>2. CASE CleanupFails(o)
  <2>1. FlightTypes' /\ wrote' \in [Writers -> SUBSET (Rows \cup {Chain})]
    BY <1>2, SettleTypes DEF CleanupFails
  <2>2. WriteTypes'
    BY <1>2, <2>1, DequeueTypes DEF CleanupFails, MayWrite, WriteTypes
  <2>3. TurnsInQueue'
    BY <1>2 DEF CleanupFails, Settle, TurnsInQueue, MayWrite, FlightTypes
  <2> QED BY <1>2, <2>1, <2>2, <2>3, CacheTypesStable, RequestTypesStable, HandlerTypesStable
          DEF CleanupFails
<1>3. CASE StartFetch(o)
  <2>1. FirstRows(asked[o]) \subseteq Rows
    BY RowsOfInRows, FirstRowsOfKey, Zenon
  <2>2. {x \in RowsOf(asked[o]) \cap Sure : db[x] # 0} \subseteq Rows
    BY RowsOfInRows, Zenon
  <2>4. FlightTypes'
    BY <1>3, <2>1, <2>2 DEF StartFetch, FlightTypes, Phases
  <2>3. TurnsInQueue'
    BY <1>3 DEF StartFetch, TurnsInQueue, FlightTypes
  <2> QED BY <1>3, <2>4, <2>3, CacheTypesStable, RequestTypesStable, WriteTypesStable,
             HandlerTypesStable DEF StartFetch
<1>4. CASE EndFetch(o)
  <2>1. phase' \in [Requests -> Phases]
    BY <1>4 DEF EndFetch, FlightTypes, Phases
  <2>2. want' \in [Requests -> SUBSET Rows]
    <3>1. {RootCrl} \cup {x \in CachedCrls : db[x] # 0} \subseteq Rows
      BY UrlRows DEF Rows
    <3> QED BY <1>4, <3>1 DEF EndFetch, FlightTypes
  <2>3. FlightTypes'
    BY <1>4, <2>1, <2>2 DEF EndFetch, FlightTypes
  <2>4. WriteTypes'
    BY <1>4, EnqueueKeepsTurns DEF EndFetch, WriteTypes
  <2>5. TurnsInQueue'
    BY <1>4, EnqueueKeepsTurns DEF EndFetch, TurnsInQueue, FlightTypes
  <2> QED BY <1>4, <2>3, <2>4, <2>5, CacheTypesStable, RequestTypesStable, HandlerTypesStable
          DEF EndFetch
<1>5. CASE FetchFails(o)
  <2>1. FlightTypes' /\ WriteTypes'
    BY <1>5, SettleTypes DEF FetchFails, WriteTypes
  <2>2. TurnsInQueue'
    BY <1>5 DEF FetchFails, Settle, TurnsInQueue, FlightTypes
  <2> QED BY <1>5, <2>1, <2>2, CacheTypesStable, RequestTypesStable, HandlerTypesStable
          DEF FetchFails
<1>6. ASSUME NEW x \in Rows, FetchRow(o, x) PROVE TypeOK' /\ TurnsInQueue'
  <2>1. pcs \in 0..MaxStamp
    BY StampTypes DEF CacheTypes
  <2>2. FlightTypes'
    BY <1>6, <2>1 DEF FetchRow, FlightTypes
  <2>3. TurnsInQueue'
    BY <1>6 DEF FetchRow, TurnsInQueue
  <2> QED BY <1>6, <2>2, <2>3, CacheTypesStable, RequestTypesStable, WriteTypesStable,
             HandlerTypesStable DEF FetchRow
<1>7. ASSUME NEW x \in Rows, FetchUnusable(o, x) PROVE TypeOK' /\ TurnsInQueue'
  <2>1. FlightTypes'
    BY <1>7 DEF FetchUnusable, FlightTypes
  <2>2. TurnsInQueue'
    BY <1>7 DEF FetchUnusable, TurnsInQueue
  <2> QED BY <1>7, <2>1, <2>2, CacheTypesStable, RequestTypesStable, WriteTypesStable,
             HandlerTypesStable DEF FetchUnusable
<1>8. ASSUME NEW x \in Rows, PersistRow(o, x) PROVE TypeOK' /\ TurnsInQueue'
  <2>1. FlightTypes'
    BY <1>8 DEF PersistRow, FlightTypes
  <2>2. WriteTypes'
    BY <1>8 DEF PersistRow, WriteTypes, Writers
  <2>3. TurnsInQueue'
    BY <1>8 DEF PersistRow, TurnsInQueue
  <2> QED BY <1>8, <2>1, <2>2, <2>3, CacheTypesStable, RequestTypesStable, HandlerTypesStable
          DEF PersistRow
<1>9. CASE BeginTransaction(o)
  <2>1. FlightTypes'
    BY <1>9 DEF BeginTransaction, FlightTypes, Phases
  <2>2. TurnsInQueue'
    BY <1>9 DEF BeginTransaction, TurnsInQueue, MayWrite, FlightTypes
  <2> QED BY <1>9, <2>1, <2>2, CacheTypesStable, RequestTypesStable, WriteTypesStable,
             HandlerTypesStable DEF BeginTransaction
<1>10. CASE PersistChain(o)
  <2>1. WriteTypes'
    BY <1>10 DEF PersistChain, WriteTypes, Writers
  <2>2. TurnsInQueue'
    BY <1>10 DEF PersistChain, TurnsInQueue, flightVars
  <2> QED BY <1>10, <2>1, <2>2, CacheTypesStable, RequestTypesStable, FlightTypesStable,
             HandlerTypesStable DEF PersistChain
<1>11. CASE Commit(o)
  <2>1. FlightTypes' /\ wrote' \in [Writers -> SUBSET (Rows \cup {Chain})]
    BY <1>11, SettleTypes DEF Commit
  <2>2. WriteTypes'
    BY <1>11, <2>1, DequeueTypes DEF Commit, TurnsInQueue, WriteTypes
  <2>3. CacheTypes'
    BY <1>11 DEF Commit, CacheTypes, FlightTypes
  <2>4. TurnsInQueue'
    BY <1>11 DEF Commit, Settle, TurnsInQueue, FlightTypes
  <2> QED BY <1>11, <2>1, <2>2, <2>3, <2>4, RequestTypesStable, HandlerTypesStable
          DEF Commit
<1>12. CASE Rollback(o)
  <2>1. FlightTypes' /\ wrote' \in [Writers -> SUBSET (Rows \cup {Chain})]
    BY <1>12, SettleTypes DEF Rollback
  <2>2. WriteTypes'
    BY <1>12, <2>1, DequeueTypes DEF Rollback, TurnsInQueue, WriteTypes
  <2>3. TurnsInQueue'
    BY <1>12 DEF Rollback, Settle, TurnsInQueue, FlightTypes
  <2> QED BY <1>12, <2>1, <2>2, <2>3, CacheTypesStable, RequestTypesStable, HandlerTypesStable
          DEF Rollback
<1>13. CASE Land(o)
  <2>1. FlightTypes'
    BY <1>13 DEF Land, Released, FlightTypes, Phases
  <2>2. RequestTypes'
    BY <1>13 DEF Land, Released, RequestTypes, requestVars
  <2>3. TurnsInQueue'
    BY <1>13 DEF Land, Released, TurnsInQueue, FlightTypes
  <2> QED BY <1>13, <2>1, <2>2, <2>3, CacheTypesStable, WriteTypesStable, HandlerTypesStable
          DEF Land, Released
<1> QED BY <1>1, <1>2, <1>3, <1>4, <1>5, <1>6, <1>7, <1>8, <1>9, <1>10, <1>11,
           <1>12, <1>13 DEF FlightStep

\* And by calls, answers and handlers.
LEMMA StepTypes ==
    ASSUME TypeOK, TurnsInQueue, FlightsRegistered, [Next]_vars
    PROVE  TypeOK' /\ TurnsInQueue'
<1> USE DEF TypeOK
<1>1. CASE Publish
  <2>1. CacheTypes'
    BY <1>1, ConstantsAssumption DEF Publish, CacheTypes
  <2>2. TurnsInQueue'
    BY <1>1 DEF Publish, TurnsInQueue, flightVars
  <2> QED BY <1>1, <2>1, <2>2, RequestTypesStable, FlightTypesStable, WriteTypesStable,
             HandlerTypesStable DEF Publish
<1>2. ASSUME NEW r \in Requests, NEW ask \in Asks, Refused(r, ask)
      PROVE  TypeOK' /\ TurnsInQueue'
  <2>1. RequestTypes'
    BY <1>2 DEF Refused, RequestTypes
  <2>2. TurnsInQueue'
    BY <1>2 DEF Refused, TurnsInQueue, flightVars
  <2> QED BY <1>2, <2>1, <2>2, CacheTypesStable, FlightTypesStable, WriteTypesStable,
             HandlerTypesStable DEF Refused
<1>3. ASSUME NEW r \in Requests, NEW k \in Keys, Join(r, k)
      PROVE  TypeOK' /\ TurnsInQueue'
  <2>1. RequestTypes'
    BY <1>3 DEF Join, ActiveFlight, RequestTypes, Asks
  <2>2. TurnsInQueue'
    BY <1>3 DEF Join, ActiveFlight, TurnsInQueue, flightVars
  <2> QED BY <1>3, <2>1, <2>2, CacheTypesStable, FlightTypesStable, WriteTypesStable,
             HandlerTypesStable DEF Join, ActiveFlight
<1>4. ASSUME NEW r \in Requests, NEW k \in Keys, Launch(r, k)
      PROVE  TypeOK' /\ TurnsInQueue'
  <2>1. RequestTypes'
    BY <1>4 DEF Launch, ActiveFlight, RequestTypes, Asks
  <2>2. FlightTypes'
    <3>2. began' \in [Requests -> 0..MaxStamp]
      <4>1. pcs \in 0..MaxStamp
        BY StampTypes DEF CacheTypes
      <4> QED BY <1>4, <4>1 DEF Launch, ActiveFlight, FlightTypes
    <3>4. phase' \in [Requests -> Phases]
      BY <1>4 DEF Launch, ActiveFlight, FlightTypes, Phases
    <3>5. outcome' \in [Requests -> {"none", "ok", "failed"}]
      BY <1>4 DEF Launch, ActiveFlight, FlightTypes
    <3> QED BY <1>4, <3>2, <3>4, <3>5 DEF Launch, ActiveFlight, FlightTypes
  <2>3. WriteTypes'
    BY <1>4, EnqueueKeepsTurns DEF Launch, ActiveFlight, WriteTypes
  <2>4. TurnsInQueue'
    <3>1. \A o \in Requests : phase'[o] = "persist" => phase[o] = "persist"
      BY <1>4 DEF Launch, ActiveFlight, FlightTypes
    <3>2. sqliteWriteQueue # <<>> =>
             sqliteWriteQueue' # <<>> /\ Head(sqliteWriteQueue') = Head(sqliteWriteQueue)
      BY <1>4, EnqueueKeepsTurns DEF Launch, ActiveFlight
    <3> QED BY <3>1, <3>2 DEF TurnsInQueue
  <2> QED BY <1>4, <2>1, <2>2, <2>3, <2>4, CacheTypesStable, HandlerTypesStable
          DEF Launch, ActiveFlight
<1>5. ASSUME NEW o \in Requests, FlightStep(o) PROVE TypeOK' /\ TurnsInQueue'
  BY <1>5, FlightStepTypes
<1>6. ASSUME NEW o \in Requests, Answer(o) PROVE TypeOK' /\ TurnsInQueue'
  <2>1. outcome[flight[o]] \in {"ok", "failed"}
    BY <1>6 DEF Answer, HasSettled, FlightsRegistered, FlightTypes
  <2>2. RequestTypes'
    BY <1>6, <2>1 DEF Answer, HasSettled, RequestTypes
  <2>3. TurnsInQueue'
    BY <1>6 DEF Answer, HasSettled, TurnsInQueue, flightVars
  <2> QED BY <1>6, <2>2, <2>3, CacheTypesStable, FlightTypesStable, WriteTypesStable,
             HandlerTypesStable DEF Answer, HasSettled
<1>7. ASSUME NEW h \in Handlers, NEW x \in Rows, Miss(h, x)
      PROVE  TypeOK' /\ TurnsInQueue'
  <2>1. HandlerTypes'
    <3>1. ~hlisted[h] /\ x # None
      BY <1>7, ConstantsAssumption DEF Miss, HandlerTypes, Rows
    <3> QED BY <1>7, <3>1 DEF Miss, HandlerTypes
  <2>2. TurnsInQueue'
    BY <1>7 DEF Miss, TurnsInQueue, flightVars
  <2> QED BY <1>7, <2>1, <2>2, CacheTypesStable, RequestTypesStable, FlightTypesStable,
             WriteTypesStable DEF Miss
<1>8. ASSUME NEW h \in Handlers, HandlerStep(h) PROVE TypeOK' /\ TurnsInQueue'
  <2>1. TurnsInQueue'
    BY <1>8 DEF HandlerStep, HandlerFetch, HandlerWrite, HandlerCommit, HandlerEnters, HandlerFails,
                HandlerEnds, TurnsInQueue, flightVars
  <2>2. CASE HandlerFetch(h)
    <3>1. pcs \in 0..MaxStamp
      BY StampTypes DEF CacheTypes
    <3>2. HandlerTypes'
      BY <2>2, <3>1 DEF HandlerFetch, HandlerTypes, CacheTypes
    <3> QED BY <2>1, <2>2, <3>2, CacheTypesStable, RequestTypesStable, FlightTypesStable,
               WriteTypesStable DEF HandlerFetch
  <2>3. CASE HandlerWrite(h)
    <3>1. HandlerNext(h) \in Rows \cup {Chain}
      BY <2>3 DEF HandlerWrite, HandlerNext, HandlerTypes
    <3>2. WriteTypes'
      BY <2>3, <3>1 DEF HandlerWrite, WriteTypes, Writers
    <3> QED BY <2>1, <2>3, <3>2, CacheTypesStable, RequestTypesStable, FlightTypesStable,
               HandlerTypesStable DEF HandlerWrite
  <2>4. ASSUME NEW next \in {"entering", "done"}, handler[h] # "idle", HandlerEnds(h, next),
               next = "entering" => hrow[h] \in Platforms
        PROVE  HandlerTypes' /\ WriteTypes'
    <3>1. HandlerTypes'
      BY <2>4, StampTypes DEF HandlerEnds, HandlerTypes
    <3>2. WriteTypes'
      BY <2>4 DEF HandlerEnds, WriteTypes, Writers
    <3> QED BY <3>1, <3>2
  <2>5. CASE HandlerCommit(h)
    <3>1. CacheTypes'
      BY <2>5 DEF HandlerCommit, HandlerEnds, CacheTypes, HandlerTypes
    <3>2. HandlerTypes' /\ WriteTypes'
      BY <2>4, <2>5 DEF HandlerCommit
    <3> QED BY <2>1, <2>5, <3>1, <3>2, RequestTypesStable, FlightTypesStable
            DEF HandlerCommit, HandlerEnds
  <2>6. CASE HandlerEnters(h)
    <3>1. CacheTypes'
      BY <2>6 DEF HandlerEnters, HandlerEnds, CacheTypes, HandlerTypes
    <3>2. HandlerTypes' /\ WriteTypes'
      BY <2>4, <2>6 DEF HandlerEnters
    <3> QED BY <2>1, <2>6, <3>1, <3>2, RequestTypesStable, FlightTypesStable
            DEF HandlerEnters, HandlerEnds
  <2>7. CASE HandlerFails(h)
    <3>1. HandlerTypes' /\ WriteTypes'
      BY <2>4, <2>7 DEF HandlerFails
    <3> QED BY <2>1, <2>7, <3>1, CacheTypesStable, RequestTypesStable, FlightTypesStable
            DEF HandlerFails, HandlerEnds
  <2> QED BY <1>8, <2>2, <2>3, <2>5, <2>6, <2>7 DEF HandlerStep
<1>9. CASE Rest \/ UNCHANGED vars
  <2>1. UNCHANGED <<server, pcs, db, invalidTcbs, listed, requestVars, activeRefreshes,
                    sqliteWriteQueue, flightVars, wrote, handlerVars>>
    BY <1>9 DEF Rest, vars
  <2>2. TurnsInQueue'
    BY <2>1 DEF TurnsInQueue, flightVars
  <2> QED BY <2>1, <2>2, CacheTypesStable, RequestTypesStable, FlightTypesStable,
             WriteTypesStable, HandlerTypesStable
<1> QED BY <1>1, <1>2, <1>3, <1>4, <1>5, <1>6, <1>7, <1>8, <1>9 DEF Next

-----------------------------------------------------------------------------
(* Coalescing.                                                              *)

\* A step of a flight in the air other than its landing keeps it in the air.
LEMMA InnerStep ==
    ASSUME TypeOK, NEW o \in Requests, FlightStep(o), ~Land(o)
    PROVE  /\ Flying(o) /\ phase[o] # "settled"
           /\ phase'[o] \notin {"none", "landed"}
           /\ phase'[o] = "settled" => outcome'[o] # "none"
           /\ \A p \in Requests \ {o} : phase'[p] = phase[p] /\ outcome'[p] = outcome[p]
           /\ UNCHANGED <<asked, status, flight, activeRefreshes>>
<1> USE DEF TypeOK, FlightTypes, Flying, requestVars
<1>1. CASE Cleanup(o)
  BY <1>1 DEF Cleanup
<1>2. CASE CleanupFails(o)
  BY <1>2 DEF CleanupFails, Settle
<1>3. CASE StartFetch(o)
  BY <1>3 DEF StartFetch
<1>4. CASE EndFetch(o)
  BY <1>4 DEF EndFetch, Fetching
<1>5. CASE FetchFails(o)
  BY <1>5 DEF FetchFails, Fetching, Settle
<1>6. ASSUME NEW x \in Rows, FetchRow(o, x) \/ FetchUnusable(o, x) \/ PersistRow(o, x)
      PROVE  phase[o] \in {"fetch", "fetchUrls", "persist"} /\ UNCHANGED <<phase, outcome, requestVars, activeRefreshes>>
  BY <1>6 DEF FetchRow, FetchUnusable, PersistRow, Fetching
<1>7. CASE BeginTransaction(o)
  BY <1>7 DEF BeginTransaction
<1>8. CASE PersistChain(o)
  BY <1>8 DEF PersistChain, flightVars
<1>9. CASE Commit(o)
  BY <1>9 DEF Commit, Settle
<1>10. CASE Rollback(o)
  BY <1>10 DEF Rollback, Settle
<1> QED BY <1>1, <1>2, <1>3, <1>4, <1>5, <1>6, <1>7, <1>8, <1>9, <1>10 DEF FlightStep

\* Every step keeps a call registered with the refresh it waits for.
LEMMA StepRegistered ==
    ASSUME TypeOK, FlightsRegistered, [Next]_vars
    PROVE  FlightsRegistered'
<1> USE DEF TypeOK, FlightTypes, RequestTypes, FlightsRegistered, Flying
<1>1. ASSUME NEW r \in Requests, NEW ask \in Asks, Refused(r, ask)
      PROVE  FlightsRegistered'
  BY <1>1 DEF Refused, flightVars
<1>2. ASSUME NEW r \in Requests, NEW k \in Keys, Join(r, k)
      PROVE  FlightsRegistered'
  BY <1>2 DEF Join, ActiveFlight, flightVars
<1>3. ASSUME NEW r \in Requests, NEW k \in Keys, Launch(r, k)
      PROVE  FlightsRegistered'
  <2>1. /\ phase[r] = "none" /\ phase'[r] \in {"cleanup", "start", "settled"}
        /\ phase'[r] = "settled" => outcome'[r] # "none"
        /\ \A p \in Requests \ {r} : phase'[p] = phase[p] /\ outcome'[p] = outcome[p]
    BY <1>3 DEF Launch, ActiveFlight
  <2>2. asked'[r] = k /\ activeRefreshes[k] = None /\ activeRefreshes'[k] = r
    BY <1>3 DEF Launch, ActiveFlight
  <2>3. /\ \A p \in Requests \ {r} : asked'[p] = asked[p]
        /\ \A j \in Keys \ {k} : activeRefreshes'[j] = activeRefreshes[j]
    BY <1>3 DEF Launch, ActiveFlight
  <2>4. /\ status'[r] = "waiting" /\ flight'[r] = r
        /\ \A p \in Requests \ {r} : status'[p] = status[p] /\ flight'[p] = flight[p]
    BY <1>3 DEF Launch, ActiveFlight
  <2>5. None \notin Requests
    BY ConstantsAssumption
  <2>6. \A o1 \in Requests :
           Flying(o1)' => asked'[o1] \in Keys /\ activeRefreshes'[asked'[o1]] = o1
    BY <2>1, <2>2, <2>3, <2>4, <2>5
  <2>7. \A j \in Keys :
           activeRefreshes'[j] # None =>
               Flying(activeRefreshes[j])' /\ asked'[activeRefreshes'[j]] = j
    BY <2>1, <2>2, <2>3, <2>4, <2>5
  <2>8. \A q \in Requests : status'[q] = "idle" => phase'[q] = "none"
    BY <2>1, <2>2, <2>3, <2>4, <2>5
  <2>9. \A q \in Requests :
           status'[q] = "waiting" => flight'[q] \in Requests /\ phase'[flight'[q]] # "none"
    BY <2>1, <2>2, <2>3, <2>4, <2>5
  <2>10. \A q \in Requests : phase'[q] \in {"settled", "landed"} => outcome'[q] # "none"
    BY <2>1, <2>2, <2>3, <2>4, <2>5
  <2> QED BY <2>6, <2>7, <2>8, <2>9, <2>10
<1>4. ASSUME NEW o \in Requests, FlightStep(o), ~Land(o) PROVE FlightsRegistered'
  <2>1. /\ Flying(o) /\ phase[o] # "settled"
        /\ phase'[o] \notin {"none", "landed"}
        /\ phase'[o] = "settled" => outcome'[o] # "none"
        /\ \A p \in Requests \ {o} : phase'[p] = phase[p] /\ outcome'[p] = outcome[p]
        /\ UNCHANGED <<asked, status, flight, activeRefreshes>>
    BY <1>4, InnerStep
  <2>2. \A o1 \in Requests :
           Flying(o1)' => asked'[o1] \in Keys /\ activeRefreshes'[asked'[o1]] = o1
    BY <2>1
  <2>3. \A j \in Keys :
           activeRefreshes'[j] # None =>
               Flying(activeRefreshes[j])' /\ asked'[activeRefreshes'[j]] = j
    BY <2>1
  <2>4. \A q \in Requests : status'[q] = "idle" => phase'[q] = "none"
    BY <2>1
  <2>5. \A q \in Requests :
           status'[q] = "waiting" => flight'[q] \in Requests /\ phase'[flight'[q]] # "none"
    BY <2>1
  <2>6. \A q \in Requests : phase'[q] \in {"settled", "landed"} => outcome'[q] # "none"
    BY <2>1
  <2> QED BY <2>2, <2>3, <2>4, <2>5, <2>6
<1>5. ASSUME NEW o \in Requests, Land(o) PROVE FlightsRegistered'
  BY <1>5 DEF Land, Released, requestVars
<1>6. ASSUME NEW o \in Requests, Answer(o) PROVE FlightsRegistered'
  BY <1>6 DEF Answer, HasSettled, flightVars
<1>7. CASE UNCHANGED <<asked, status, flight, activeRefreshes, phase, outcome>>
  BY <1>7
<1>8. ASSUME NEW h \in Handlers, (\E x \in Rows : Miss(h, x)) \/ HandlerStep(h)
      PROVE  UNCHANGED <<asked, status, flight, activeRefreshes, phase, outcome>>
  BY <1>8 DEF Miss, HandlerStep, HandlerFetch, HandlerWrite, HandlerCommit, HandlerEnters, HandlerFails,
              HandlerEnds, requestVars, flightVars
<1>9. ASSUME Publish \/ Rest \/ UNCHANGED vars
      PROVE  UNCHANGED <<asked, status, flight, activeRefreshes, phase, outcome>>
  BY <1>9 DEF Publish, Rest, vars, requestVars, flightVars
<1> QED BY <1>1, <1>2, <1>3, <1>4, <1>5, <1>6, <1>7, <1>8, <1>9 DEF Next

-----------------------------------------------------------------------------
(* No refresh brings back older collateral.                                 *)

\* The rows of different keys are different.
LEMMA KeysShareNoRow ==
    ASSUME NEW j \in Keys, NEW k \in Keys, NEW x,
           x \in RowsOf(j), x \in RowsOf(k)
    PROVE  j = k
BY ConstantsAssumption DEF Keys, RowsOf

\* Only these parts of the state matter to NewestOf.
LEMMA NewestStable ==
    ASSUME NEW S \in SUBSET Rows, NewestOf(S),
           UNCHANGED <<pcs, db, asked, phase, got, want, wrote>>
    PROVE  NewestOf(S)'
BY DEF NewestOf, RowsOf

\* A flight that settles has given up all it fetched.
LEMMA SettleNewest ==
    ASSUME NEW S \in SUBSET Rows, TypeOK, NewestOf(S), NEW o \in Requests, NEW result, Settle(o, result),
           UNCHANGED <<pcs, asked>>,
           \A x \in S : /\ db'[x] <= pcs
                        /\ \A p \in Requests \ {o} : got[p][x] # 0 => db'[x] <= got[p][x]
    PROVE  NewestOf(S)'
<1>1. /\ got'[o] = [x \in Rows |-> 0] /\ want'[o] = {} /\ wrote'[o] = {}
      /\ \A p \in Requests \ {o} : /\ got'[p] = got[p] /\ want'[p] = want[p]
                                    /\ wrote'[p] = wrote[p] /\ phase'[p] = phase[p]
  BY DEF Settle, TypeOK, FlightTypes, WriteTypes, Writers
<1> QED BY <1>1 DEF NewestOf, RowsOf

\* No step of a refresh sets a row back, or fetches behind the cache.
LEMMA FlightStepNewest ==
    ASSUME NEW S \in SUBSET Rows, TypeOK, FlightsRegistered, NewestOf(S),
           NEW o \in Requests, FlightStep(o)
    PROVE  NewestOf(S)' /\ \A x \in S : db'[x] >= db[x]
<1>0. \A x \in S : db[x] \in Nat /\ db[x] <= pcs /\ pcs \in Nat
  BY DEF TypeOK, CacheTypes, NewestOf
<1>1. ASSUME UNCHANGED db PROVE \A x \in S : db'[x] >= db[x]
  BY <1>0, <1>1
<1>2. CASE CleanupFails(o) \/ FetchFails(o) \/ Rollback(o)
  <2>1. Settle(o, "failed") /\ UNCHANGED <<pcs, db, asked>>
    BY <1>2 DEF CleanupFails, FetchFails, Rollback, requestVars
  <2>2. NewestOf(S)'
    BY <2>1, SettleNewest DEF NewestOf
  <2> QED BY <1>1, <2>1, <2>2
<1>3. CASE Commit(o)
  <2>1. Settle(o, "ok") /\ UNCHANGED <<pcs, asked>>
    BY <1>3 DEF Commit, requestVars
  <2>2. \A x \in S : db'[x] = IF x \in wrote[o] THEN got[o][x] ELSE db[x]
    BY <1>3 DEF Commit
  <2>3. \A x \in S : db'[x] >= db[x] /\ db'[x] <= pcs
    BY <1>0, <2>2 DEF NewestOf, TypeOK, FlightTypes
  <2>4. ASSUME NEW x \in S, NEW p \in Requests \ {o}, got[p][x] # 0
        PROVE  db'[x] <= got[p][x]
    <3>1. CASE x \notin wrote[o]
      BY <2>2, <2>4, <3>1 DEF NewestOf
    <3>2. CASE x \in wrote[o]
      <4>1. x \in RowsOf(asked[o]) /\ x \in RowsOf(asked[p])
        BY <2>4, <3>2 DEF NewestOf
      <4>2. Flying(o) /\ Flying(p)
        BY <2>4, <3>2 DEF NewestOf, Flying
      <4>3. asked[o] \in Keys /\ asked[p] \in Keys
        BY <4>2 DEF FlightsRegistered
      <4>4. asked[o] = asked[p]
        BY <4>1, <4>3, KeysShareNoRow
      <4> QED BY <4>2, <4>4 DEF FlightsRegistered
    <3> QED BY <3>1, <3>2
  <2> QED BY <2>1, <2>3, <2>4, SettleNewest
<1>4. CASE StartFetch(o)
  <2>1. FirstRows(asked[o]) \subseteq RowsOf(asked[o])
    BY FirstRowsOfKey
  <2>2. NewestOf(S)'
    BY <1>4, <2>1 DEF StartFetch, NewestOf, TypeOK, FlightTypes, requestVars, RowsOf
  <2> QED BY <1>1, <1>4, <2>2 DEF StartFetch
<1>5. CASE EndFetch(o)
  <2>1. asked[o] = Collateral => {RootCrl} \cup {x \in CachedCrls : db[x] # 0} \subseteq RowsOf(asked[o])
    BY UrlRows DEF RowsOf
  <2>2. NewestOf(S)'
    BY <1>5, <2>1 DEF EndFetch, Fetching, NewestOf, TypeOK, FlightTypes, requestVars, RowsOf
  <2> QED BY <1>1, <1>5, <2>2 DEF EndFetch
<1>6. ASSUME NEW x \in Rows, FetchRow(o, x)
      PROVE  NewestOf(S)' /\ UNCHANGED db
  <2>1. /\ got'[o][x] = pcs /\ x \in want[o]
        /\ \A y \in Rows \ {x} : got'[o][y] = got[o][y]
        /\ \A p \in Requests \ {o} : got'[p] = got[p] /\ want'[p] = want[p]
        /\ want'[o] \subseteq want[o]
        /\ UNCHANGED <<pcs, db, asked, phase, wrote>>
    BY <1>6 DEF FetchRow, TypeOK, FlightTypes, requestVars
  <2>3. (x \in S => db[x] <= pcs) /\ x \in RowsOf(asked[o]) /\ phase[o] \notin {"none", "settled", "landed"}
    BY <2>1 DEF NewestOf
  <2>4. pcs # 0
    BY ConstantsAssumption DEF TypeOK, CacheTypes
  <2>5. \A p \in Requests, y \in S :
           got'[p][y] # 0 =>
               /\ phase'[p] \notin {"none", "settled", "landed"}
               /\ y \in RowsOf(asked'[p])
               /\ db'[y] <= got'[p][y] /\ got'[p][y] <= pcs'
    BY <1>0, <2>1, <2>3 DEF NewestOf
  <2>6. \A p \in Requests, y \in S : y \in wrote'[p] => got'[p][y] # 0
    BY <2>1, <2>4 DEF NewestOf
  <2>7. \A p \in Requests :
           want'[p] # {} =>
               /\ phase'[p] \notin {"none", "settled", "landed"}
               /\ want'[p] \subseteq RowsOf(asked'[p])
    BY <2>1, <2>3 DEF NewestOf
  <2> QED BY <2>1, <2>5, <2>6, <2>7 DEF NewestOf, RowsOf
<1>7. ASSUME NEW x \in Rows, FetchUnusable(o, x)
      PROVE  NewestOf(S)' /\ UNCHANGED db
  BY <1>7 DEF FetchUnusable, Fetching, NewestOf, TypeOK, FlightTypes, requestVars, RowsOf
<1>8. ASSUME NEW x \in Rows, PersistRow(o, x)
      PROVE  NewestOf(S)' /\ UNCHANGED db
  BY <1>8 DEF PersistRow, NewestOf, TypeOK, WriteTypes, Writers, requestVars, RowsOf
<1>9. CASE PersistChain(o)
  <2>1. Chain \notin Rows
    BY ConstantsAssumption
  <2>2. NewestOf(S)'
    BY <1>9, <2>1 DEF PersistChain, NewestOf, TypeOK, WriteTypes, Writers,
                      requestVars, flightVars, RowsOf
  <2> QED BY <1>1, <1>9, <2>2 DEF PersistChain
<1>10. CASE Cleanup(o) \/ BeginTransaction(o) \/ Land(o)
  <2>1. /\ UNCHANGED <<pcs, db, asked, want, got, wrote>>
        /\ \A p \in Requests \ {o} : phase'[p] = phase[p]
        /\ \/ phase[o] = "settled"
           \/ phase'[o] \notin {"none", "settled", "landed"}
    BY <1>10 DEF Cleanup, BeginTransaction, Land, TypeOK, FlightTypes, requestVars
  <2>2. NewestOf(S)'
    BY <2>1 DEF NewestOf, RowsOf
  <2> QED BY <1>1, <2>1, <2>2
<1> QED BY <1>1, <1>2, <1>3, <1>4, <1>5, <1>6, <1>7, <1>8, <1>9, <1>10 DEF FlightStep

\* Nor does any other step, where no handler fills the row.
LEMMA StepNewest ==
    ASSUME TypeOK, FlightsRegistered, FetchedIsNewest, [Next]_vars
    PROVE  /\ FetchedIsNewest' /\ Unfilled' \subseteq Unfilled
           /\ \A x \in Unfilled : db'[x] >= db[x]
<1>0. PICK S \in SUBSET Rows : S = Unfilled
  BY DEF Unfilled
<1>1. NewestOf(S)
  BY <1>0 DEF FetchedIsNewest
<1>2. \A x \in S : db[x] \in Nat /\ db[x] <= pcs /\ pcs \in Nat
  BY <1>1 DEF TypeOK, CacheTypes, NewestOf
<1>3. SUFFICES Unfilled' \subseteq S /\ NewestOf(S)' /\ \A x \in S : db'[x] >= db[x]
  <2>1. ASSUME Unfilled' \subseteq S, NewestOf(S)'
        PROVE  FetchedIsNewest'
    BY <2>1 DEF FetchedIsNewest, NewestOf
  <2> QED BY <1>0, <2>1
<1>4. ASSUME UNCHANGED hrow PROVE Unfilled' \subseteq S
  BY <1>0, <1>4 DEF Unfilled
<1>5. ASSUME UNCHANGED db PROVE \A x \in S : db'[x] >= db[x]
  BY <1>2, <1>5
<1>6. CASE Publish
  <2>1. NewestOf(S)'
    BY <1>1, <1>2, <1>6 DEF Publish, NewestOf, TypeOK, FlightTypes, requestVars, flightVars,
                            RowsOf
  <2> QED BY <1>4, <1>5, <1>6, <2>1 DEF Publish, handlerVars
<1>7. ASSUME NEW r \in Requests, NEW ask \in Asks,
             Refused(r, ask) \/ (ask \in Keys /\ (Join(r, ask) \/ Launch(r, ask)))
      PROVE  NewestOf(S)' /\ UNCHANGED <<db, hrow>>
  <2>1. /\ phase[r] = "none" /\ UNCHANGED <<pcs, db, got, want, wrote, hrow>>
        /\ \A p \in Requests \ {r} : asked'[p] = asked[p] /\ phase'[p] = phase[p]
    BY <1>7 DEF Refused, Join, ActiveFlight, Launch, FlightsRegistered, TypeOK, FlightTypes, RequestTypes,
                flightVars, handlerVars
  <2>2. \A p \in Requests \ {r} : RowsOf(asked[p])' = RowsOf(asked[p])
    BY <2>1 DEF RowsOf
  <2> QED BY <1>1, <2>1, <2>2 DEF NewestOf
<1>8. ASSUME NEW o \in Requests, FlightStep(o)
      PROVE  /\ NewestOf(S)' /\ UNCHANGED hrow
             /\ \A x \in S : db'[x] >= db[x]
  <2>1. UNCHANGED hrow
    BY <1>8 DEF FlightStep, Cleanup, CleanupFails, StartFetch, EndFetch, FetchFails, FetchRow,
                FetchUnusable, PersistRow, BeginTransaction, PersistChain, Commit, Rollback,
                Land, handlerVars
  <2> QED BY <1>1, <1>8, <2>1, FlightStepNewest
<1>9. ASSUME (\E o \in Requests : Answer(o)) \/ Rest \/ UNCHANGED vars
      PROVE  NewestOf(S)' /\ UNCHANGED <<db, hrow>>
  <2>1. UNCHANGED <<pcs, db, asked, phase, got, want, wrote, hrow>>
    BY <1>9 DEF Answer, HasSettled, Rest, vars, requestVars, flightVars, handlerVars
  <2> QED BY <1>1, <2>1, NewestStable
<1>10. ASSUME NEW h \in Handlers, NEW y \in Rows, Miss(h, y)
       PROVE  Unfilled' \subseteq S /\ NewestOf(S)' /\ UNCHANGED db
  <2>1. /\ UNCHANGED <<pcs, db, asked, phase, got, want, wrote>>
        /\ handler[h] = "idle" /\ hrow' = [hrow EXCEPT ![h] = y]
    BY <1>10 DEF Miss, requestVars, flightVars
  <2>2. Unfilled' \subseteq S
    <3>1. hrow[h] \notin Rows
      BY <2>1, ConstantsAssumption DEF TypeOK, HandlerTypes
    <3> QED BY <1>0, <2>1, <3>1 DEF Unfilled, TypeOK, HandlerTypes
  <2> QED BY <1>1, <2>1, <2>2, NewestStable
<1>11. ASSUME NEW h \in Handlers, HandlerStep(h)
       PROVE  /\ NewestOf(S)' /\ UNCHANGED hrow
              /\ \A x \in S : db'[x] = db[x]
  <2>1. /\ UNCHANGED <<pcs, asked, phase, got, want, hrow>>
        /\ \A o \in Requests : wrote'[o] = wrote[o]
    BY <1>11, ConstantsAssumption
       DEF HandlerStep, HandlerFetch, HandlerWrite, HandlerCommit, HandlerEnters, HandlerFails, HandlerEnds,
           requestVars, flightVars, handlerVars, TypeOK, WriteTypes, Writers
  <2>2. \A x \in S : db'[x] = db[x]
    <3>1. CASE UNCHANGED db
      BY <3>1
    <3>2. CASE HandlerCommit(h)
      BY <1>0, <3>2 DEF HandlerCommit, Unfilled, TypeOK, CacheTypes
    <3> QED BY <1>11, <3>1, <3>2 DEF HandlerStep, HandlerFetch, HandlerWrite, HandlerEnters, HandlerFails
  <2>3. NewestOf(S)'
    BY <1>1, <2>1, <2>2 DEF NewestOf, RowsOf
  <2> QED BY <2>1, <2>2, <2>3
<1>12. ASSUME \A x \in S : db'[x] = db[x] PROVE \A x \in S : db'[x] >= db[x]
  BY <1>2, <1>12
<1> QED
  BY <1>4, <1>5, <1>6, <1>7, <1>8, <1>9, <1>10, <1>11, <1>12 DEF Next, Asks

\* At first no flight holds anything.
LEMMA InitNewest == Init => FetchedIsNewest
<1> SUFFICES ASSUME Init PROVE FetchedIsNewest
  OBVIOUS
<1>1. \A x \in Rows : db[x] <= pcs
  BY DEF Init
<1>2. \A o \in Requests : /\ want[o] = {} /\ wrote[o] = {}
                          /\ \A x \in Rows : got[o][x] = 0
  BY Zenon DEF Init, Writers
<1> QED BY <1>1, <1>2 DEF FetchedIsNewest, NewestOf, Unfilled

-----------------------------------------------------------------------------
(* The theorems.                                                            *)

Registered == TypeOK /\ TurnsInQueue /\ FlightsRegistered

\* The invariant is inductive, and so holds in every state.
LEMMA RegisteredInvariant == Spec => []Registered
<1>1. Init => Registered
  <2>1. Init => FlightsRegistered
    BY DEF Init, FlightsRegistered, Flying
  <2> QED BY <2>1, InitTypeOK DEF Registered
<1>2. Registered /\ [Next]_vars => Registered'
  BY StepTypes, StepRegistered DEF Registered
<1> QED BY <1>1, <1>2, PTL DEF Spec

\* Every variable keeps its type: no step leaves a stamp, a phase or a queue
\* entry outside what the code can hold.
THEOREM TypeCorrect == Spec => []TypeOK
BY RegisteredInvariant, PTL DEF Registered

\* Coalescing works for any number of calls and keys: a key never has two
\* flights, in either database.
THEOREM SingleFlight == Spec => []OneFlightPerKey
<1>1. Registered => OneFlightPerKey
  BY DEF Registered, FlightsRegistered, OneFlightPerKey
<1> QED BY <1>1, RegisteredInvariant, PTL

\* activeRefreshes holds the flights in the air and nothing else, so no key
\* stays locked after its flight and every waiting caller has one to wait for.
THEOREM LocksHeldByFlights == Spec => []FlightsRegistered
BY RegisteredInvariant, PTL DEF Registered

\* With SQLite no two flights have transactions open together, whatever fails.
THEOREM OneWriter == Spec => []RefreshesTakeTurns
<1>1. Registered => RefreshesTakeTurns
  BY DEF Registered, TurnsInQueue, RefreshesTakeTurns
<1> QED BY <1>1, RegisteredInvariant, PTL

\* A refresh writes only at the head of the queue, whatever the ones before it
\* came to.
THEOREM TurnsKept == Spec => []TurnsInQueue
BY RegisteredInvariant, PTL DEF Registered

\* While a flight holds what it has fetched, nothing newer of it is committed,
\* except to rows that handlers fill.
THEOREM FetchedStaysNewest == Spec => []FetchedIsNewest
<1>1. Init => FetchedIsNewest
  BY InitNewest
<1>2. Registered /\ FetchedIsNewest /\ [Next]_vars => FetchedIsNewest'
  BY StepNewest DEF Registered
<1> QED BY <1>1, <1>2, RegisteredInvariant, PTL DEF Spec

\* Collateral that refreshes keep in the cache is never replaced by older
\* collateral, although flights of different keys overlap freely and handlers
\* write other rows meanwhile.
THEOREM RefreshNeverRegresses == Spec => NeverRegress
<1>1. Init => FetchedIsNewest
  BY InitNewest
<1>2. Registered /\ FetchedIsNewest /\ [Next]_vars
          => FetchedIsNewest' /\ [\A x \in Unfilled : db'[x] >= db[x]]_vars
  BY StepNewest DEF Registered
<1> QED BY <1>1, <1>2, RegisteredInvariant, PTL DEF Spec, NeverRegress
=============================================================================
