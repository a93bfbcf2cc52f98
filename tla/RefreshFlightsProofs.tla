------------------------ MODULE RefreshFlightsProofs ------------------------
(***************************************************************************)
(* RefreshService implements RefreshFlights, for every set of requests,    *)
(* handlers and rows, with SQLite and with MySQL: a refresh is one atomic  *)
(* and fresh step, and its callers are told how it ended.                  *)
(***************************************************************************)
EXTENDS RefreshServiceProofs

-----------------------------------------------------------------------------
(* The invariant of the refinement.                                         *)

Underway == {"fetch", "fetchUrls", "queued", "persist"}

\* A flight has no outcome before it settles, and began at a publication.
OutcomesWait ==
    \A o \in Requests :
        /\ phase[o] = "none" => outcome[o] = "none" /\ due[o] = {}
        /\ Flying(o) /\ phase[o] # "settled" => outcome[o] = "none"
        /\ Flying(o) => /\ began[o] # 0 /\ began[o] <= pcs
                        /\ due[o] \subseteq RowsOf(asked[o])

\* A caller waits for a flight of the key it asked for.
RidersShareKey ==
    \A r \in Requests : status[r] = "waiting" => asked[flight[r]] = asked[r]

\* What a flight holds it fetched since it began, of its own key.
FetchedSince ==
    \A o \in Requests :
        /\ \A x \in Rows : got[o][x] # 0 =>
               /\ phase[o] \in Underway
               /\ x \in RowsOf(asked[o])
               /\ began[o] <= got[o][x] /\ got[o][x] <= pcs
        /\ want[o] # {} => phase[o] \in Underway /\ want[o] \subseteq RowsOf(asked[o])
        /\ \A x \in Rows : x \in wrote[o] => got[o][x] # 0

\* What a handler stores it has fetched.
HandlersHold == \A h \in Handlers : handler[h] = "store" => hgot[h] # 0 /\ hgot[h] <= pcs

\* The kinds of rows an answer is never left out for.
Kept == Platforms \cup Crls \cup Tcbs \cup {RootCrl}

\* A flight under way still has, or has written, every row that is due.
DueStays ==
    \A o \in Requests :
        /\ due[o] \subseteq Kept
        /\ phase[o] \in Underway =>
               \A x \in due[o] :
                   \/ x \in want[o] \cup todo[o] \cup wrote[o]
                   \/ phase[o] = "fetch" /\ x = RootCrl
        /\ phase[o] \in {"queued", "persist"} => want[o] = {}

FlightInvariant ==
    Registered /\ OutcomesWait /\ RidersShareKey /\ FetchedSince /\ HandlersHold /\ DueStays

-----------------------------------------------------------------------------
(* What steps do to a flight.                                               *)

\* The steps that move no flight on.
LEMMA QuietFlights ==
    ASSUME \/ Publish \/ Rest \/ UNCHANGED vars
           \/ \E r \in Requests, ask \in Asks : Refused(r, ask)
           \/ \E r \in Requests, k \in Keys : Join(r, k)
           \/ \E r \in Requests : Answer(r)
           \/ \E h \in Handlers, x \in Rows : Miss(h, x)
           \/ \E h \in Handlers : HandlerStep(h)
    PROVE  UNCHANGED <<flightVars, activeRefreshes, server>>
BY DEF Publish, Rest, vars, Refused, Join, Answer, Miss, HandlerStep, HandlerFetch,
       HandlerWrite, HandlerCommit, HandlerEnters, HandlerFails, HandlerEnds

\* A step of a flight other than its landing has an outcome only if it settles.
LEMMA InnerOutcome ==
    ASSUME TypeOK, NEW o \in Requests, FlightStep(o), ~Land(o)
    PROVE  /\ UNCHANGED <<server, pcs, began, handlerVars>>
           /\ ~StartFetch(o) => UNCHANGED due
           /\ StartFetch(o) =>
                  due' = [due EXCEPT ![o] = {x \in RowsOf(asked[o]) \cap Sure : db[x] # 0}]
           /\ phase'[o] # "settled" => UNCHANGED outcome
<1> USE DEF TypeOK, FlightTypes, handlerVars
<1>1. CASE Cleanup(o) \/ EndFetch(o) \/ BeginTransaction(o)
  BY <1>1 DEF Cleanup, StartFetch, EndFetch, BeginTransaction
<1>5. CASE StartFetch(o)
  BY <1>5 DEF StartFetch
<1>2. CASE CleanupFails(o) \/ FetchFails(o) \/ Commit(o) \/ Rollback(o)
  BY <1>2 DEF CleanupFails, FetchFails, Commit, Rollback, Settle, StartFetch, Fetching
<1>3. ASSUME NEW x \in Rows, FetchRow(o, x) \/ FetchUnusable(o, x) \/ PersistRow(o, x)
      PROVE  UNCHANGED <<server, pcs, began, due, handlerVars, outcome>> /\ ~StartFetch(o)
  BY <1>3 DEF FetchRow, FetchUnusable, PersistRow, StartFetch, Fetching
<1>4. CASE PersistChain(o)
  BY <1>4 DEF PersistChain, flightVars, StartFetch
<1> QED BY <1>1, <1>2, <1>3, <1>4, <1>5 DEF FlightStep

\* What a call that starts a flight does.
LEMMA LaunchDoes ==
    ASSUME Registered, OutcomesWait, NEW r \in Requests, NEW k \in Keys, Launch(r, k)
    PROVE  /\ status[r] = "idle" /\ phase[r] = "none" /\ outcome[r] = "none"
           /\ activeRefreshes[k] = None /\ activeRefreshes' = [activeRefreshes EXCEPT ![k] = r]
           /\ asked' = [asked EXCEPT ![r] = k]
           /\ status' = [status EXCEPT ![r] = "waiting"]
           /\ flight' = [flight EXCEPT ![r] = r]
           /\ began' = [began EXCEPT ![r] = pcs]
           /\ due[r] = {}
           /\ phase'[r] \in {"cleanup", "start", "settled"}
           /\ outcome'[r] = IF phase'[r] = "settled" THEN "ok" ELSE "none"
           /\ phase'[r] = "settled" => k # Collateral /\ ~V4
           /\ \A p \in Requests \ {r} : phase'[p] = phase[p] /\ outcome'[p] = outcome[p]
           /\ UNCHANGED <<server, pcs, db, listed, want, got, todo, due, wrote, handlerVars>>
BY DEF Launch, ActiveFlight, Registered, FlightsRegistered, OutcomesWait, TypeOK, FlightTypes

\* Outcomes come with the end of a flight.
LEMMA StepOutcomes ==
    ASSUME Registered, OutcomesWait, [Next]_vars
    PROVE  OutcomesWait'
<1>0. pcs \in Nat \ {0} /\ pcs' \in Nat /\ pcs <= pcs' /\ \A o \in Requests : began[o] \in Nat
  <2>1. pcs \in Nat \ {0} /\ \A o \in Requests : began[o] \in Nat
    BY ConstantsAssumption DEF Registered, TypeOK, CacheTypes, FlightTypes
  <2>2. pcs' = pcs \/ pcs' = pcs + 1
    <3>1. ASSUME NEW r \in Requests, NEW k \in Keys, Launch(r, k) PROVE UNCHANGED pcs
      BY <3>1 DEF Launch
    <3>2. ASSUME NEW o \in Requests, FlightStep(o) PROVE UNCHANGED pcs
      BY <3>2, InnerOutcome DEF Land, Registered
    <3> QED BY <3>1, <3>2 DEF Next, vars, Publish, Refused, Join, Answer, Miss, HandlerStep,
             HandlerFetch, HandlerWrite, HandlerCommit, HandlerEnters, HandlerFails, HandlerEnds, Rest
  <2> QED BY <2>1, <2>2
<1>1. ASSUME NEW o \in Requests, FlightStep(o), ~Land(o) PROVE OutcomesWait'
  <2>1. /\ due'[o] = due[o] \/ due'[o] \subseteq RowsOf(asked[o])
        /\ \A p \in Requests \ {o} : due'[p] = due[p]
    BY <1>1, InnerOutcome DEF Registered, TypeOK, FlightTypes
  <2> QED BY <1>0, <1>1, <2>1, InnerStep, InnerOutcome DEF Registered, OutcomesWait, Flying, RowsOf
<1>2. ASSUME NEW o \in Requests, Land(o) PROVE OutcomesWait'
  BY <1>0, <1>2 DEF Land, OutcomesWait, Flying, Registered, TypeOK, FlightTypes, requestVars, RowsOf
<1>3. ASSUME NEW r \in Requests, NEW k \in Keys, Launch(r, k) PROVE OutcomesWait'
  <2>1. asked'[r] = k /\ began'[r] = pcs
        /\ \A p \in Requests \ {r} : asked'[p] = asked[p] /\ began'[p] = began[p]
    BY <1>3, LaunchDoes DEF Registered, TypeOK, FlightTypes, RequestTypes
  <2> QED BY <1>0, <1>3, <2>1, LaunchDoes DEF OutcomesWait, Flying, RowsOf
<1>4. ASSUME NEW r \in Requests, NEW ask \in Asks, Refused(r, ask) PROVE OutcomesWait'
  <2>1. phase[r] = "none" /\ \A p \in Requests \ {r} : asked'[p] = asked[p]
    BY <1>4 DEF Refused, Registered, FlightsRegistered, TypeOK, RequestTypes
  <2> QED BY <1>0, <1>4, <2>1, QuietFlights DEF flightVars, OutcomesWait, Flying, RowsOf
<1>5. ASSUME NEW r \in Requests, NEW k \in Keys, Join(r, k) PROVE OutcomesWait'
  <2>1. phase[r] = "none" /\ \A p \in Requests \ {r} : asked'[p] = asked[p]
    BY <1>5 DEF Join, Registered, FlightsRegistered, TypeOK, RequestTypes
  <2> QED BY <1>0, <1>5, <2>1, QuietFlights DEF flightVars, OutcomesWait, Flying, RowsOf
<1>6. CASE UNCHANGED <<phase, outcome, began, due, asked>>
  BY <1>0, <1>6 DEF OutcomesWait, Flying, RowsOf
<1>7. ASSUME \/ Publish \/ Rest \/ UNCHANGED vars
             \/ \E r \in Requests : Answer(r)
             \/ \E h \in Handlers, x \in Rows : Miss(h, x)
             \/ \E h \in Handlers : HandlerStep(h)
      PROVE  UNCHANGED <<phase, outcome, began, due, asked>>
  BY <1>7 DEF Publish, Rest, vars, Answer, Miss, HandlerStep, HandlerFetch, HandlerWrite,
              HandlerCommit, HandlerEnters, HandlerFails, HandlerEnds, flightVars, requestVars
<1> QED BY <1>1, <1>2, <1>3, <1>4, <1>5, <1>6, <1>7 DEF Next

\* Those who wait for a flight keep waiting for one of their key.
LEMMA StepRiders ==
    ASSUME Registered, RidersShareKey, OutcomesWait, [Next]_vars
    PROVE  RidersShareKey'
<1> USE DEF Registered, TypeOK, RequestTypes, RidersShareKey
<1>1. ASSUME NEW o \in Requests, FlightStep(o) PROVE UNCHANGED <<asked, status, flight>>
  BY <1>1, InnerStep DEF Land, requestVars
<1>2. ASSUME NEW r \in Requests, NEW k \in Keys, Launch(r, k) PROVE RidersShareKey'
  <2>1. \A p \in Requests : status[p] = "waiting" => flight[p] # r
    BY <1>2, LaunchDoes DEF FlightsRegistered
  <2> QED BY <1>2, <2>1, LaunchDoes DEF FlightsRegistered
<1>3. ASSUME NEW r \in Requests, NEW k \in Keys, Join(r, k) PROVE RidersShareKey'
  <2>1. /\ phase[r] = "none" /\ activeRefreshes[k] # None
        /\ activeRefreshes[k] # r /\ asked[activeRefreshes[k]] = k
    BY <1>3 DEF Join, ActiveFlight, FlightsRegistered, Flying
  <2>2. \A p \in Requests : status[p] = "waiting" => flight[p] # r
    BY <2>1 DEF FlightsRegistered
  <2> QED BY <1>3, <2>1, <2>2 DEF Join, ActiveFlight, FlightsRegistered
<1>4. ASSUME NEW r \in Requests, NEW ask \in Asks, Refused(r, ask) PROVE RidersShareKey'
  <2>1. \A p \in Requests : status[p] = "waiting" => flight[p] # r
    BY <1>4 DEF Refused, FlightsRegistered
  <2> QED BY <1>4, <2>1 DEF Refused, FlightsRegistered
<1>5. ASSUME NEW r \in Requests, Answer(r) PROVE RidersShareKey'
  BY <1>5 DEF Answer, HasSettled, FlightsRegistered
<1>6. ASSUME \/ Publish \/ Rest \/ UNCHANGED vars
             \/ \E h \in Handlers, x \in Rows : Miss(h, x)
             \/ \E h \in Handlers : HandlerStep(h)
      PROVE  UNCHANGED <<asked, status, flight>>
  BY <1>6 DEF Publish, Rest, vars, Miss, HandlerStep, HandlerFetch, HandlerWrite,
              HandlerCommit, HandlerEnters, HandlerFails, HandlerEnds, requestVars
<1>7. CASE UNCHANGED <<asked, status, flight>>
  BY <1>7
<1> QED BY <1>1, <1>2, <1>3, <1>4, <1>5, <1>6, <1>7 DEF Next

\* Nothing but a flight touches what flights hold.
LEMMA OthersHoldNothing ==
    ASSUME Registered, OutcomesWait, FetchedSince, NEW r \in Requests, phase[r] = "none"
    PROVE  want[r] = {} /\ (\A x \in Rows : got[r][x] = 0) /\ \A x \in Rows : x \notin wrote[r]
BY DEF FetchedSince, Underway

\* A flight that settles drops what it holds.
LEMMA SettleFetched ==
    ASSUME Registered, FetchedSince, NEW o \in Requests, NEW result, Settle(o, result),
           UNCHANGED <<pcs, asked>>
    PROVE  FetchedSince'
<1>1. /\ want'[o] = {} /\ wrote'[o] = {} /\ \A x \in Rows : got'[o][x] = 0
      /\ \A p \in Requests \ {o} : /\ want'[p] = want[p] /\ wrote'[p] = wrote[p]
                                   /\ got'[p] = got[p] /\ phase'[p] = phase[p]
      /\ UNCHANGED began
  BY DEF Settle, Registered, TypeOK, FlightTypes, WriteTypes, Writers
<1> QED BY <1>1 DEF FetchedSince, RowsOf

\* What flights hold is fetched since they began.
LEMMA FlightStepFetched ==
    ASSUME Registered, OutcomesWait, FetchedSince, NEW o \in Requests, FlightStep(o)
    PROVE  FetchedSince'
<1> USE DEF Registered, TypeOK, FlightTypes
<1>0. pcs \in Nat \ {0}
  BY ConstantsAssumption DEF CacheTypes
<1>1. CASE CleanupFails(o) \/ FetchFails(o) \/ Rollback(o) \/ Commit(o)
  <2>1. UNCHANGED <<pcs, asked>> /\ (Settle(o, "failed") \/ Settle(o, "ok"))
    BY <1>1 DEF CleanupFails, FetchFails, Rollback, Commit, requestVars
  <2> QED BY <2>1, SettleFetched
<1>2. CASE StartFetch(o)
  <2>1. FirstRows(asked[o]) \subseteq RowsOf(asked[o])
    BY FirstRowsOfKey
  <2>2. /\ phase[o] = "start" /\ phase'[o] = "fetch" /\ want'[o] = FirstRows(asked[o])
        /\ \A p \in Requests \ {o} : phase'[p] = phase[p] /\ want'[p] = want[p]
        /\ UNCHANGED <<pcs, asked, got, began, wrote>>
    BY <1>2 DEF StartFetch, requestVars
  <2> QED BY <2>1, <2>2 DEF FetchedSince, RowsOf, Underway
<1>3. CASE EndFetch(o)
  <2>1. asked[o] = Collateral => {RootCrl} \cup {x \in CachedCrls : db[x] # 0} \subseteq RowsOf(asked[o])
    BY UrlRows DEF RowsOf
  <2>2. /\ phase[o] \in Underway /\ phase'[o] \in Underway
        /\ want'[o] = want[o] \/ want'[o] \subseteq RowsOf(asked[o])
        /\ \A p \in Requests \ {o} : phase'[p] = phase[p] /\ want'[p] = want[p]
        /\ UNCHANGED <<pcs, asked, got, began, wrote>>
    BY <1>3, <2>1 DEF EndFetch, Fetching, requestVars, Underway
  <2> QED BY <2>2 DEF FetchedSince, RowsOf, Underway
<1>4. ASSUME NEW x \in Rows, FetchRow(o, x) PROVE FetchedSince'
  <2>1. /\ got'[o][x] = pcs /\ x \in want[o]
        /\ \A y \in Rows \ {x} : got'[o][y] = got[o][y]
        /\ \A p \in Requests \ {o} : got'[p] = got[p] /\ want'[p] = want[p]
        /\ want'[o] \subseteq want[o]
        /\ UNCHANGED <<pcs, asked, phase, wrote, began>>
    BY <1>4 DEF FetchRow, requestVars
  <2>2. phase[o] \in Underway /\ x \in RowsOf(asked[o])
    BY <2>1 DEF FetchedSince
  <2>3. began[o] <= pcs /\ pcs <= pcs
    BY <1>0, <2>2 DEF OutcomesWait, Flying, Underway
  <2>4. ASSUME NEW p \in Requests, NEW y \in Rows, got'[p][y] # 0
        PROVE  /\ phase'[p] \in Underway
               /\ y \in RowsOf(asked[p])
               /\ began'[p] <= got'[p][y] /\ got'[p][y] <= pcs'
    BY <2>1, <2>2, <2>3, <2>4 DEF FetchedSince
  <2>5. ASSUME NEW p \in Requests, NEW y \in Rows, y \in wrote'[p] PROVE got'[p][y] # 0
    BY <1>0, <2>1, <2>5 DEF FetchedSince
  <2>6. ASSUME NEW p \in Requests, want'[p] # {}
        PROVE  phase'[p] \in Underway /\ want'[p] \subseteq RowsOf(asked[p])
    BY <2>1, <2>2, <2>6 DEF FetchedSince
  <2> QED BY <2>1, <2>4, <2>5, <2>6 DEF FetchedSince, RowsOf
<1>5. ASSUME NEW x \in Rows, FetchUnusable(o, x) PROVE FetchedSince'
  BY <1>5 DEF FetchUnusable, FetchedSince, requestVars, RowsOf
<1>6. ASSUME NEW x \in Rows, PersistRow(o, x) PROVE FetchedSince'
  <2>1. /\ got[o][x] # 0
        /\ wrote'[o] = wrote[o] \cup {x}
        /\ \A p \in Requests \ {o} : wrote'[p] = wrote[p]
        /\ UNCHANGED <<pcs, asked, phase, got, want, began>>
    BY <1>6 DEF PersistRow, requestVars, WriteTypes, Writers
  <2> QED BY <2>1 DEF FetchedSince, RowsOf
<1>7. CASE PersistChain(o)
  <2>1. /\ \A p \in Requests : wrote'[p] \subseteq wrote[p] \cup {Chain}
        /\ UNCHANGED <<pcs, asked, phase, got, want, began>>
    BY <1>7 DEF PersistChain, requestVars, flightVars, WriteTypes, Writers
  <2>2. Chain \notin Rows
    BY ConstantsAssumption
  <2> QED BY <2>1, <2>2 DEF FetchedSince, RowsOf
<1>8. CASE Cleanup(o) \/ BeginTransaction(o) \/ Land(o)
  <2>1. /\ UNCHANGED <<pcs, asked, got, want, began, wrote>>
        /\ phase[o] \in Underway => phase'[o] \in Underway
        /\ \A p \in Requests \ {o} : phase'[p] = phase[p]
    BY <1>8 DEF Cleanup, BeginTransaction, Land, requestVars, Underway
  <2> QED BY <2>1 DEF FetchedSince, RowsOf
<1> QED BY <1>1, <1>2, <1>3, <1>4, <1>5, <1>6, <1>7, <1>8 DEF FlightStep

\* Whatever the others do.
LEMMA StepFetched ==
    ASSUME Registered, OutcomesWait, FetchedSince, [Next]_vars
    PROVE  FetchedSince'
<1>0. pcs \in Nat /\ \A o \in Requests, x \in Rows : got[o][x] \in Nat
  BY DEF Registered, TypeOK, CacheTypes, FlightTypes
<1>1. ASSUME NEW o \in Requests, FlightStep(o) PROVE FetchedSince'
  BY <1>1, FlightStepFetched
<1>2. ASSUME NEW r \in Requests, phase[r] = "none",
             \A p \in Requests \ {r} : /\ asked'[p] = asked[p] /\ phase'[p] = phase[p]
                                       /\ began'[p] = began[p],
             UNCHANGED <<pcs, got, want, wrote>>
      PROVE  FetchedSince'
  BY <1>2, OthersHoldNothing DEF FetchedSince, RowsOf
<1>3. ASSUME NEW r \in Requests, NEW k \in Keys, Launch(r, k) PROVE FetchedSince'
  <2>1. \A p \in Requests \ {r} : /\ asked'[p] = asked[p] /\ phase'[p] = phase[p]
                                  /\ began'[p] = began[p]
    BY <1>3, LaunchDoes DEF Registered, TypeOK, FlightTypes, RequestTypes
  <2> QED BY <1>2, <1>3, <2>1, LaunchDoes
<1>4. ASSUME NEW r \in Requests, NEW ask \in Asks, Refused(r, ask) \/ Join(r, ask)
      PROVE  FetchedSince'
  <2>1. /\ phase[r] = "none" /\ UNCHANGED <<pcs, got, want, wrote, phase, began>>
        /\ \A p \in Requests \ {r} : asked'[p] = asked[p]
    BY <1>4 DEF Refused, Join, flightVars, Registered, FlightsRegistered, TypeOK, RequestTypes
  <2> QED BY <1>2, <2>1
<1>5. ASSUME NEW h \in Handlers, HandlerStep(h) PROVE FetchedSince'
  <2>1. /\ UNCHANGED <<pcs, asked, phase, got, want, began>>
        /\ \A o \in Requests : wrote'[o] = wrote[o]
    BY <1>5, ConstantsAssumption
       DEF HandlerStep, HandlerFetch, HandlerWrite, HandlerCommit, HandlerEnters, HandlerFails, HandlerEnds,
           flightVars, requestVars, Registered, TypeOK, WriteTypes, Writers
  <2> QED BY <2>1 DEF FetchedSince, RowsOf
<1>6. CASE UNCHANGED <<asked, phase, got, want, began, wrote>> /\ pcs' \in {pcs, pcs + 1}
  BY <1>0, <1>6 DEF FetchedSince, RowsOf
<1>7. ASSUME \/ Publish \/ Rest \/ UNCHANGED vars
             \/ \E r \in Requests : Answer(r)
             \/ \E h \in Handlers, x \in Rows : Miss(h, x)
      PROVE  UNCHANGED <<asked, phase, got, want, began, wrote>> /\ pcs' \in {pcs, pcs + 1}
  BY <1>7 DEF Publish, Rest, vars, Answer, Miss, flightVars, requestVars
<1> QED BY <1>1, <1>3, <1>4, <1>5, <1>6, <1>7 DEF Next, Asks

\* A handler stores what the PCS has published.
LEMMA StepHandlers ==
    ASSUME Registered, HandlersHold, [Next]_vars
    PROVE  HandlersHold'
<1> USE DEF Registered, TypeOK, HandlerTypes
<1>0. pcs \in Nat \ {0} /\ \A h \in Handlers : hgot[h] \in Nat
  BY ConstantsAssumption DEF CacheTypes
<1>1. ASSUME UNCHANGED <<handler, hgot>>, pcs' \in {pcs, pcs + 1}
      PROVE  HandlersHold'
  BY <1>0, <1>1 DEF HandlersHold
<1>2. ASSUME NEW o \in Requests, FlightStep(o) PROVE UNCHANGED <<handler, hgot, pcs>>
  BY <1>2, InnerOutcome DEF Land, handlerVars
<1>3. ASSUME NEW h \in Handlers, HandlerStep(h) PROVE HandlersHold'
  <2>1. CASE HandlerFetch(h)
    BY <1>0, <2>1 DEF HandlerFetch, HandlersHold
  <2>2. CASE HandlerWrite(h)
    BY <2>2 DEF HandlerWrite, HandlersHold, handlerVars
  <2>3. ASSUME NEW next \in {"entering", "done"}, HandlerEnds(h, next) PROVE HandlersHold'
    BY <2>3 DEF HandlerEnds, HandlersHold
  <2> QED BY <1>3, <2>1, <2>2, <2>3 DEF HandlerStep, HandlerCommit, HandlerEnters, HandlerFails
<1>4. ASSUME NEW h \in Handlers, NEW x \in Rows, Miss(h, x) PROVE HandlersHold'
  BY <1>4 DEF Miss, HandlersHold
<1>5. ASSUME \/ Publish \/ Rest \/ UNCHANGED vars
             \/ \E r \in Requests : Answer(r)
             \/ \E r \in Requests, ask \in Asks :
                    Refused(r, ask) \/ (ask \in Keys /\ (Join(r, ask) \/ Launch(r, ask)))
      PROVE  UNCHANGED <<handler, hgot>> /\ pcs' \in {pcs, pcs + 1}
  BY <1>5 DEF Publish, Rest, vars, Answer, Refused, Join, Launch, flightVars, handlerVars
<1> QED BY <1>1, <1>2, <1>3, <1>4, <1>5 DEF Next, Asks

\* What may be due is of the kinds that are kept.
LEMMA SureIsKept == TypeOK => Sure \subseteq Kept
BY DEF Sure, Kept, TypeOK, CacheTypes

\* A flight passes on everything that is due.
LEMMA FlightStepDue ==
    ASSUME FlightInvariant, NEW o \in Requests, FlightStep(o)
    PROVE  DueStays'
<1> USE DEF FlightInvariant, Registered, TypeOK, FlightTypes
<1>0. /\ \A p \in Requests \ {o} : due'[p] = due[p]
      /\ phase[o] # "start" => UNCHANGED due
      /\ due'[o] \subseteq Kept
  <2>1. ASSUME Land(o) PROVE UNCHANGED due
    BY <2>1 DEF Land
  <2>2. CASE StartFetch(o)
    BY <2>1, <2>2, InnerOutcome, SureIsKept DEF DueStays, StartFetch
  <2>3. CASE ~StartFetch(o)
    BY <2>1, <2>3, InnerOutcome DEF DueStays
  <2> QED BY <2>2, <2>3
<1>1. ASSUME \A p \in Requests \ {o} : /\ phase'[p] = phase[p] /\ want'[p] = want[p]
                                       /\ todo'[p] = todo[p] /\ wrote'[p] = wrote[p],
             phase'[o] \in Underway =>
                 \A x \in due'[o] :
                     \/ x \in want'[o] \cup todo'[o] \cup wrote'[o]
                     \/ phase'[o] = "fetch" /\ x = RootCrl,
             phase'[o] \in {"queued", "persist"} => want'[o] = {}
      PROVE  DueStays'
  BY <1>0, <1>1 DEF DueStays
<1>2. CASE CleanupFails(o) \/ FetchFails(o) \/ Rollback(o) \/ Commit(o)
  <2>1. Settle(o, "failed") \/ Settle(o, "ok")
    BY <1>2 DEF CleanupFails, FetchFails, Rollback, Commit
  <2>2. phase'[o] = "settled"
        /\ \A p \in Requests \ {o} : /\ phase'[p] = phase[p] /\ want'[p] = want[p]
                                     /\ todo'[p] = todo[p] /\ wrote'[p] = wrote[p]
    BY <2>1 DEF Settle, WriteTypes, Writers
  <2> QED BY <1>1, <2>2 DEF Underway
<1>3. CASE StartFetch(o)
  <2>1. /\ phase'[o] = "fetch" /\ want'[o] = FirstRows(asked[o])
        /\ \A p \in Requests \ {o} : phase'[p] = phase[p] /\ want'[p] = want[p]
        /\ UNCHANGED <<todo, wrote>>
        /\ due'[o] = {x \in RowsOf(asked[o]) \cap Sure : db[x] # 0}
    BY <1>3 DEF StartFetch
  <2>2. ASSUME NEW x \in due'[o] PROVE x \in FirstRows(asked[o]) \/ x = RootCrl
    <3>0. x \in RowsOf(asked[o]) /\ x \in Sure /\ db[x] # 0
      BY <2>1
    <3>1. CASE asked[o] # Collateral
      <4>1. x \in Platforms
        BY <3>0, <3>1 DEF RowsOf
      <4>2. x \in listed
        BY <3>0, <4>1, ConstantsAssumption DEF Sure, Covered
      <4> QED BY <3>0, <3>1, <4>2 DEF FirstRows
    <3>2. CASE asked[o] = Collateral
      <4>1. x \in Covered
        BY <3>0, <3>2 DEF RowsOf
      <4>2. x \notin listed
        BY <4>1, ConstantsAssumption DEF CacheTypes
      <4>3. x = RootCrl \/ (V4 /\ x \in (Crls \cup Tcbs) \ Version3)
        BY <3>0, <4>2 DEF Sure
      <4> QED BY <3>0, <3>2, <4>3 DEF FirstRows
    <3> QED BY <3>1, <3>2
  <2> QED BY <1>1, <2>1, <2>2
<1>4. CASE EndFetch(o)
  <2>1. /\ \A p \in Requests \ {o} : phase'[p] = phase[p] /\ want'[p] = want[p]
        /\ UNCHANGED <<todo, wrote>> /\ want[o] = {}
        /\ phase[o] \in {"fetch", "fetchUrls"} /\ Flying(o)
    BY <1>4 DEF EndFetch, Fetching, Flying
  <2>2. CASE phase[o] = "fetch" /\ asked[o] = Collateral
    <3>1. phase'[o] = "fetchUrls" /\ RootCrl \in want'[o]
      BY <1>4, <2>2 DEF EndFetch
    <3> QED BY <1>0, <1>1, <2>1, <3>1 DEF DueStays, Underway
  <2>3. CASE ~(phase[o] = "fetch" /\ asked[o] = Collateral)
    <3>1. phase'[o] = "queued" /\ want'[o] = {}
      BY <1>4, <2>1, <2>3 DEF EndFetch
    <3>2. phase[o] = "fetch" => RootCrl \notin due[o]
      <4>1. ASSUME asked[o] # Collateral PROVE RootCrl \notin RowsOf(asked[o])
        BY <4>1, ConstantsAssumption DEF RowsOf, Covered
      <4> QED BY <2>1, <2>3, <4>1 DEF OutcomesWait
    <3> QED BY <1>0, <1>1, <2>1, <3>1, <3>2 DEF DueStays, Underway
  <2> QED BY <2>2, <2>3
<1>5. ASSUME NEW x \in Rows, FetchRow(o, x) \/ FetchUnusable(o, x) PROVE DueStays'
  <2>1. /\ phase[o] \in {"fetch", "fetchUrls"} /\ want'[o] = want[o] \ {x}
        /\ \A p \in Requests \ {o} : want'[p] = want[p] /\ todo'[p] = todo[p]
        /\ UNCHANGED <<phase, wrote>>
    BY <1>5 DEF FetchRow, FetchUnusable, Fetching
  <2>2. todo'[o] = todo[o] \cup {x} \/ (todo'[o] = todo[o] /\ x \notin due[o])
    BY <1>5, ConstantsAssumption DEF FetchRow, FetchUnusable, DueStays, Kept, Covered
  <2> QED BY <1>0, <1>1, <2>1, <2>2 DEF DueStays, Underway
<1>6. ASSUME NEW x \in Rows, PersistRow(o, x) PROVE DueStays'
  <2>1. /\ wrote'[o] = wrote[o] \cup {x} /\ todo'[o] = todo[o] \ {x}
        /\ \A p \in Requests \ {o} : wrote'[p] = wrote[p] /\ todo'[p] = todo[p]
        /\ UNCHANGED <<phase, want>> /\ phase[o] = "persist"
    BY <1>6 DEF PersistRow, WriteTypes, Writers
  <2> QED BY <1>0, <1>1, <2>1 DEF DueStays
<1>7. CASE PersistChain(o)
  <2>1. /\ \A p \in Requests : wrote[p] \subseteq wrote'[p]
        /\ UNCHANGED <<phase, want, todo>> /\ phase[o] = "persist"
    BY <1>7 DEF PersistChain, flightVars, WriteTypes, Writers
  <2> QED BY <1>0, <2>1 DEF DueStays
<1>8. CASE BeginTransaction(o)
  <2>1. /\ phase[o] = "queued" /\ phase'[o] = "persist"
        /\ \A p \in Requests \ {o} : phase'[p] = phase[p]
        /\ UNCHANGED <<want, todo, wrote>>
    BY <1>8 DEF BeginTransaction
  <2> QED BY <1>0, <1>1, <2>1 DEF DueStays, Underway
<1>9. CASE Cleanup(o) \/ Land(o)
  <2>1. /\ phase'[o] \in {"start", "landed"}
        /\ \A p \in Requests \ {o} : phase'[p] = phase[p]
        /\ UNCHANGED <<want, todo, wrote>>
    BY <1>9 DEF Cleanup, Land
  <2> QED BY <1>1, <2>1 DEF Underway
<1> QED BY <1>2, <1>3, <1>4, <1>5, <1>6, <1>7, <1>8, <1>9 DEF FlightStep

\* Whoever else steps, what is due to a flight stays due.
LEMMA StepDue ==
    ASSUME FlightInvariant, [Next]_vars
    PROVE  DueStays'
<1> USE DEF FlightInvariant, Registered, TypeOK, FlightTypes
<1>1. ASSUME NEW o \in Requests, FlightStep(o) PROVE DueStays'
  BY <1>1, FlightStepDue
<1>2. ASSUME NEW r \in Requests, NEW k \in Keys, Launch(r, k) PROVE DueStays'
  <2>1. /\ phase'[r] \notin Underway
        /\ \A p \in Requests \ {r} : phase'[p] = phase[p]
        /\ UNCHANGED <<want, todo, wrote, due>>
    BY <1>2, LaunchDoes DEF Underway
  <2> QED BY <2>1 DEF DueStays, Underway
<1>3. CASE UNCHANGED <<phase, due, want, todo>>
           /\ \A o \in Requests : wrote'[o] = wrote[o]
  BY <1>3 DEF DueStays
<1>4. ASSUME NEW h \in Handlers, HandlerStep(h)
      PROVE  UNCHANGED <<phase, due, want, todo>>
             /\ \A o \in Requests : wrote'[o] = wrote[o]
  BY <1>4, ConstantsAssumption
     DEF HandlerStep, HandlerFetch, HandlerWrite, HandlerCommit, HandlerEnters, HandlerFails, HandlerEnds,
         flightVars, WriteTypes, Writers
<1>5. ASSUME \/ Publish \/ Rest \/ UNCHANGED vars
             \/ \E r \in Requests : Answer(r)
             \/ \E r \in Requests, ask \in Asks : Refused(r, ask) \/ Join(r, ask)
             \/ \E h \in Handlers, x \in Rows : Miss(h, x)
      PROVE  UNCHANGED <<phase, due, want, todo, wrote>>
  BY <1>5 DEF Publish, Rest, vars, Answer, Refused, Join, Miss, flightVars
<1> QED BY <1>1, <1>2, <1>3, <1>4, <1>5 DEF Next, Asks

\* The invariant holds throughout.
LEMMA FlightInvariantHolds == Spec => []FlightInvariant
<1>1. Init /\ Registered => OutcomesWait /\ RidersShareKey /\ FetchedSince /\ HandlersHold /\ DueStays
  BY DEF Init, OutcomesWait, RidersShareKey, FetchedSince, HandlersHold, DueStays, Flying,
         Underway, Writers
<1>2. FlightInvariant /\ Registered' /\ [Next]_vars => FlightInvariant'
  BY StepOutcomes, StepRiders, StepFetched, StepHandlers, StepDue DEF FlightInvariant
<1> QED BY <1>1, <1>2, RegisteredInvariant, PTL DEF Spec, FlightInvariant

-----------------------------------------------------------------------------
(* The steps of the detailed specification as steps of the abstract one.    *)

\* Where a call is in the abstract specification.
LEMMA CallOfIs ==
    ASSUME NEW r \in Requests, RequestTypes
    PROVE  /\ status[r] = "idle" => CallOf(r) = <<"idle">>
           /\ status[r] \in {"invalid", "skipped", "unavailable"} => CallOf(r) = <<"refused">>
           /\ status[r] \in {"ok", "failed"} => CallOf(r) = <<"told", status[r]>>
           /\ status[r] = "waiting" =>
                  CallOf(r) = IF phase[flight[r]] = "landed" THEN <<"told", outcome[flight[r]]>>
                              ELSE <<"riding", asked[r]>>
BY DEF CallOf, RequestTypes

\* And how its places differ.
LEMMA PlacesDiffer ==
    /\ \A k : <<"idle">> # <<"riding", k>> /\ <<"refused">> # <<"riding", k>>
    /\ \A k, result : <<"told", result>> # <<"riding", k>>
    /\ \A j, k : <<"riding", j>> = <<"riding", k>> => j = k
<1>1. ASSUME NEW k PROVE <<"idle">> # <<"riding", k>> /\ <<"refused">> # <<"riding", k>>
  <2>1. Len(<<"idle">>) = 1 /\ Len(<<"refused">>) = 1 /\ Len(<<"riding", k>>) = 2
    OBVIOUS
  <2> QED BY <2>1
<1> QED BY <1>1

\* Calls whose wait is the same are in the same place.
LEMMA CallsStay ==
    ASSUME RequestTypes, RequestTypes', NEW r \in Requests,
           asked'[r] = asked[r], status'[r] = status[r], flight'[r] = flight[r],
           status[r] = "waiting" =>
               /\ phase'[flight[r]] = "landed" <=> phase[flight[r]] = "landed"
               /\ phase[flight[r]] = "landed" => outcome'[flight[r]] = outcome[flight[r]]
    PROVE  CallOf(r)' = CallOf(r)
BY DEF CallOf

\* A flight that is not open yet, and one that is.
LEMMA OpenFlightIs ==
    ASSUME FlightInvariant, NEW k \in Keys
    PROVE  /\ OpenFlights[k] = OpenFlight(k) /\ Stages[k] = Stage(k)
           /\ activeRefreshes[k] = None <=> Stage(k) = "none"
           /\ activeRefreshes[k] = None => OpenFlight(k) = Flights!NoFlight
<1>1. activeRefreshes[k] # None => StageOf(activeRefreshes[k]) # "none"
  BY DEF StageOf
<1> QED BY <1>1 DEF OpenFlights, Stages, OpenFlight, Stage, Flights!NoFlight

\* The abstract state of a step that moves no flight and no call.
LEMMA StutterFlights ==
    ASSUME UNCHANGED <<activeRefreshes, began, due, outcome, phase>>
    PROVE  OpenFlights' = OpenFlights /\ Stages' = Stages
BY DEF OpenFlights, Stages, OpenFlight, Stage, StageOf

\* What may not be left out changes with the entries of platforms only.
LEMMA SureStays == UNCHANGED <<server, listed>> => Sure' = Sure
BY DEF Sure, V4

\* A call that is refused.
LEMMA RefusedRefines ==
    ASSUME FlightInvariant, FlightInvariant', NEW r \in Requests, NEW ask \in Asks, Refused(r, ask)
    PROVE  Flights!Refuse(r)
<1> USE DEF FlightInvariant, Registered, TypeOK
<1>1. CallOf(r) = <<"idle">> /\ CallOf(r)' = <<"refused">>
  <2>1. status[r] = "idle" /\ status'[r] \in {"invalid", "skipped", "unavailable"}
    BY DEF Refused, RequestTypes
  <2>2. CallOf(r) = <<"idle">>
    BY <2>1, CallOfIs
  <2> QED BY <2>1, <2>2 DEF CallOf
<1>2. ASSUME NEW p \in Requests \ {r} PROVE CallOf(p)' = CallOf(p)
  BY <1>2, CallsStay DEF Refused, RequestTypes, flightVars
<1>3. OpenFlights' = OpenFlights /\ Stages' = Stages
  BY QuietFlights, StutterFlights DEF flightVars
<1>4. UNCHANGED <<pcs, db>> /\ Sure' = Sure
  BY SureStays DEF Refused
<1> QED BY <1>1, <1>2, <1>3, <1>4 DEF Flights!Refuse, Flights!Idle, Flights!Refused, CallStates

\* A call that shares a flight.
LEMMA JoinRefines ==
    ASSUME FlightInvariant, FlightInvariant', NEW r \in Requests, NEW k \in Keys, Join(r, k)
    PROVE  Flights!Ride(r, k)
<1> USE DEF FlightInvariant, Registered, TypeOK
<1>1. CallOf(r) = <<"idle">> /\ CallOf(r)' = <<"riding", k>>
  <2>1. status[r] = "idle" /\ status'[r] = "waiting" /\ asked'[r] = k
        /\ flight'[r] = activeRefreshes[k] /\ activeRefreshes[k] # None
    BY DEF Join, RequestTypes, ActiveFlight
  <2>2. phase'[flight'[r]] # "landed"
    BY <2>1 DEF Join, flightVars, FlightsRegistered, Flying
  <2> QED BY <2>1, <2>2 DEF CallOf
<1>2. ASSUME NEW p \in Requests \ {r} PROVE CallOf(p)' = CallOf(p)
  BY <1>2, CallsStay DEF Join, RequestTypes, flightVars
<1>3. OpenFlights' = OpenFlights /\ Stages' = Stages
  BY QuietFlights, StutterFlights DEF flightVars
<1>4. UNCHANGED <<pcs, db>> /\ Sure' = Sure /\ Stages[k] # "none"
  BY OpenFlightIs, SureStays DEF Join, ActiveFlight
<1> QED BY <1>1, <1>2, <1>3, <1>4 DEF Flights!Ride, Flights!Idle, Flights!Riding, CallStates

\* A call that starts one.
LEMMA LaunchRefines ==
    ASSUME FlightInvariant, FlightInvariant', NEW r \in Requests, NEW k \in Keys, Launch(r, k)
    PROVE  Flights!Open(r, k) \/ Flights!OpenForNothing(r, k)
<1> USE DEF FlightInvariant, Registered, TypeOK
<1>1. CallOf(r) = <<"idle">> /\ CallOf(r)' = <<"riding", k>>
  <2>1. status[r] = "idle" /\ status'[r] = "waiting" /\ asked'[r] = k /\ flight'[r] = r
        /\ phase'[r] # "landed"
    BY LaunchDoes DEF RequestTypes
  <2> QED BY <2>1 DEF CallOf
<1>2. ASSUME NEW p \in Requests \ {r} PROVE CallOf(p)' = CallOf(p)
  <2>1. status[p] = "waiting" => flight[p] # r /\ flight[p] \in Requests
    BY LaunchDoes DEF FlightsRegistered
  <2> QED BY <1>2, <2>1, CallsStay, LaunchDoes DEF RequestTypes
<1>3. CallStates' = [CallStates EXCEPT ![r] = <<"riding", k>>] /\ CallStates[r] = <<"idle">>
  BY <1>1, <1>2 DEF CallStates
<1>4. UNCHANGED <<pcs, db>> /\ Sure' = Sure
  BY LaunchDoes, SureStays
<1>5. ASSUME NEW j \in Keys \ {k}
      PROVE  OpenFlight(j)' = OpenFlight(j) /\ Stage(j)' = Stage(j)
  <2>1. activeRefreshes'[j] = activeRefreshes[j] /\ activeRefreshes[j] # r
    BY LaunchDoes, ConstantsAssumption DEF RequestTypes, FlightsRegistered, Flying
  <2>2. activeRefreshes[j] # None =>
            /\ began'[activeRefreshes[j]] = began[activeRefreshes[j]]
            /\ due'[activeRefreshes[j]] = due[activeRefreshes[j]]
            /\ outcome'[activeRefreshes[j]] = outcome[activeRefreshes[j]]
            /\ phase'[activeRefreshes[j]] = phase[activeRefreshes[j]]
    BY <2>1, LaunchDoes DEF RequestTypes, FlightTypes
  <2> QED BY <2>1, <2>2 DEF OpenFlight, Stage, StageOf
<1>6. /\ OpenFlight(k)' = [since |-> pcs, due |-> {}]
      /\ Stage(k)' = IF phase'[r] = "settled" THEN "ok" ELSE "opened"
  <2>1. activeRefreshes'[k] = r /\ r # None
    BY LaunchDoes, ConstantsAssumption DEF RequestTypes
  <2>2. began'[r] = pcs /\ due'[r] = {}
    BY LaunchDoes DEF FlightTypes
  <2>3. phase'[r] \in {"cleanup", "start", "settled"}
        /\ outcome'[r] = IF phase'[r] = "settled" THEN "ok" ELSE "none"
    BY LaunchDoes
  <2> QED BY <2>1, <2>2, <2>3 DEF OpenFlight, Stage, StageOf
<1>7. /\ Stages[k] = "none"
      /\ OpenFlights' = [OpenFlights EXCEPT ![k] = OpenFlight(k)']
      /\ Stages' = [Stages EXCEPT ![k] = Stage(k)']
  <2>1. activeRefreshes[k] = None
    BY LaunchDoes
  <2> QED BY <1>5, <2>1, OpenFlightIs DEF OpenFlights, Stages
<1>8. CASE phase'[r] = "settled"
  BY <1>3, <1>4, <1>6, <1>7, <1>8 DEF Flights!OpenForNothing, Flights!Idle, Flights!Riding
<1>9. CASE phase'[r] # "settled"
  BY <1>3, <1>4, <1>6, <1>7, <1>9 DEF Flights!Open, Flights!Idle, Flights!Riding
<1> QED BY <1>8, <1>9

\* The abstract state of a step inside a flight: its stage may change, and what
\* is due to it only when it reads the cache.
LEMMA InnerRefines ==
    ASSUME FlightInvariant, FlightInvariant', NEW o \in Requests, FlightStep(o), ~Land(o)
    PROVE  /\ asked[o] \in Keys
           /\ Stages[asked[o]] = StageOf(o)
           /\ StageOf(o) = IF phase[o] \in {"cleanup", "start"} THEN "opened" ELSE "looked"
           /\ CallStates' = CallStates /\ UNCHANGED pcs
           /\ ~StartFetch(o) => OpenFlights' = OpenFlights
           /\ Stages' = [Stages EXCEPT ![asked[o]] = StageOf(o)']
           /\ StageOf(o)' = StageOf(o) => Stages' = Stages
<1> USE DEF FlightInvariant, Registered, TypeOK
<1>1. /\ Flying(o) /\ phase[o] # "settled" /\ phase'[o] # "landed"
      /\ \A p \in Requests \ {o} : phase'[p] = phase[p] /\ outcome'[p] = outcome[p]
      /\ UNCHANGED <<asked, status, flight, activeRefreshes, began, pcs>>
      /\ ~StartFetch(o) => UNCHANGED due
  BY InnerStep, InnerOutcome
<1>2. asked[o] \in Keys /\ activeRefreshes[asked[o]] = o /\ o # None
  BY <1>1, ConstantsAssumption DEF FlightsRegistered
<1>3. StageOf(o) = IF phase[o] \in {"cleanup", "start"} THEN "opened" ELSE "looked"
  BY <1>1 DEF OutcomesWait, StageOf
<1>4. ~StartFetch(o) => OpenFlights' = OpenFlights
  BY <1>1 DEF OpenFlights, OpenFlight
<1>5. CallStates' = CallStates
  <2>1. ASSUME NEW r \in Requests PROVE CallOf(r)' = CallOf(r)
    <3>1. status[r] = "waiting" => flight[r] \in Requests
      BY DEF FlightsRegistered
    <3>2. phase[o] # "landed"
      BY <1>1 DEF Flying
    <3> QED BY <1>1, <3>1, <3>2, CallsStay
  <2> QED BY <2>1 DEF CallStates
<1>6. Stage(asked[o]) = StageOf(o) /\ Stage(asked[o])' = StageOf(o)'
  BY <1>1, <1>2 DEF Stage, StageOf
<1>7. ASSUME NEW k \in Keys \ {asked[o]} PROVE Stage(k)' = Stage(k)
  <2>1. activeRefreshes[k] # o
    BY <1>2 DEF FlightsRegistered
  <2> QED BY <1>1, <2>1 DEF Stage, StageOf, RequestTypes
<1>8. Stages' = [Stages EXCEPT ![asked[o]] = StageOf(o)']
  BY <1>1, <1>2, <1>6, <1>7 DEF Stages
<1>9. StageOf(o)' = StageOf(o) => Stages' = Stages
  BY <1>1, <1>6, <1>7 DEF Stages
<1>10. Stages[asked[o]] = StageOf(o)
  BY <1>2, <1>6, OpenFlightIs
<1> QED BY <1>1, <1>2, <1>3, <1>4, <1>5, <1>8, <1>9, <1>10

\* The flight reads what is cached of its key: from then on it is due.
LEMMA LookRefines ==
    ASSUME FlightInvariant, FlightInvariant', NEW o \in Requests, StartFetch(o)
    PROVE  Flights!Look(asked[o])
<1> USE DEF FlightInvariant, Registered, TypeOK
<1>1. FlightStep(o) /\ ~Land(o) /\ phase[o] = "start"
  BY DEF FlightStep, StartFetch, Land
<1>2. /\ Sure' = Sure /\ UNCHANGED <<pcs, db, asked, activeRefreshes, began, outcome>>
      /\ phase'[o] = "fetch" /\ due' = [due EXCEPT ![o] = {x \in RowsOf(asked[o]) \cap Sure : db[x] # 0}]
  BY SureStays DEF StartFetch, FlightTypes, requestVars
<1>3. StageOf(o)' = "looked" /\ outcome[o] = "none" /\ Flying(o)
  BY <1>1, <1>2 DEF StageOf, OutcomesWait, Flying
<1>4. asked[o] \in Keys /\ activeRefreshes[asked[o]] = o /\ o # None
  BY <1>3, ConstantsAssumption DEF FlightsRegistered
<1>5. RowsOfKeys[asked[o]] = RowsOf(asked[o])
  BY <1>4 DEF RowsOfKeys
<1>6. OpenFlight(asked[o]) = [since |-> began[o], due |-> due[o]]
      /\ OpenFlight(asked[o])' = [since |-> began[o], due |-> {x \in RowsOf(asked[o]) \cap Sure : db[x] # 0}]
  BY <1>2, <1>4 DEF OpenFlight, FlightTypes
<1>7. ASSUME NEW k \in Keys \ {asked[o]} PROVE OpenFlight(k)' = OpenFlight(k)
  <2>1. activeRefreshes[k] # o
    BY <1>4 DEF FlightsRegistered
  <2> QED BY <1>2, <2>1 DEF OpenFlight, RequestTypes, FlightTypes
<1>8. OpenFlights' = [OpenFlights EXCEPT ![asked[o]].due = {x \in RowsOfKeys[asked[o]] \cap Sure : db[x] # 0}]
  <2> DEFINE Found == {x \in RowsOf(asked[o]) \cap Sure : db[x] # 0}
  <2> HIDE DEF Found
  <2>1. OpenFlight(asked[o]) = [since |-> began[o], due |-> due[o]]
        /\ OpenFlight(asked[o])' = [since |-> began[o], due |-> Found]
    BY <1>6 DEF Found
  <2>2. OpenFlight(asked[o])' = [OpenFlight(asked[o]) EXCEPT !.due = Found]
    BY <2>1
  <2>3. OpenFlights' = [OpenFlights EXCEPT ![asked[o]] = [OpenFlight(asked[o]) EXCEPT !.due = Found]]
    BY <1>2, <1>4, <1>7, <2>2 DEF OpenFlights
  <2>4. OpenFlights[asked[o]] = OpenFlight(asked[o])
    BY <1>4 DEF OpenFlights
  <2>5. OpenFlights' = [OpenFlights EXCEPT ![asked[o]].due = Found]
    BY <2>3, <2>4
  <2> QED BY <1>5, <2>5 DEF Found
<1> QED BY <1>1, <1>2, <1>3, <1>8, InnerRefines DEF Flights!Look

\* A flight that succeeds: all that was due is replaced in one step by what was
\* fetched since it began.
LEMMA CommitRefines ==
    ASSUME FlightInvariant, FlightInvariant', NEW o \in Requests, Commit(o)
    PROVE  Flights!Store(asked[o])
<1> USE DEF FlightInvariant, Registered, TypeOK
<1>1. FlightStep(o) /\ ~Land(o) /\ ~StartFetch(o) /\ phase[o] = "persist"
  BY DEF FlightStep, Commit, Land, StartFetch
<1>2. UNCHANGED <<pcs, server>> /\ outcome'[o] = "ok" /\ StageOf(o)' = "ok"
  BY DEF Commit, Settle, FlightTypes, StageOf
<1>3. \A x \in Rows : db'[x] = IF x \in wrote[o] THEN got[o][x] ELSE db[x]
  BY DEF Commit
<1>4. asked[o] \in Keys /\ activeRefreshes[asked[o]] = o /\ o # None
  BY ConstantsAssumption DEF Commit, FlightsRegistered, Flying
<1>5. OpenFlights[asked[o]] = [since |-> began[o], due |-> due[o]]
  BY <1>4 DEF OpenFlights, OpenFlight
<1>6. ASSUME NEW x \in Rows, x \in wrote[o]
      PROVE  x \in RowsOf(asked[o]) /\ began[o] <= db'[x] /\ db'[x] <= pcs
  BY <1>3, <1>6 DEF FetchedSince
<1>7. \A x \in due[o] : x \in Rows => x \in wrote[o]
  <2>1. todo[o] = {}
    BY DEF Commit
  <2> QED BY <1>1, <2>1 DEF DueStays, Underway
<1>8. RowsOfKeys[asked[o]] = RowsOf(asked[o])
  BY <1>4 DEF RowsOfKeys
<1>9. \A x \in Rows :
          /\ db'[x] # db[x] => /\ x \in RowsOfKeys[asked[o]]
                               /\ OpenFlights[asked[o]].since <= db'[x] /\ db'[x] <= pcs
          /\ x \in OpenFlights[asked[o]].due => OpenFlights[asked[o]].since <= db'[x]
  BY <1>3, <1>5, <1>6, <1>7, <1>8
<1>10. Sure \subseteq Sure' /\ Sure' \subseteq Sure \cup RowsOfKeys[asked[o]]
  <2>1. listed' = listed \cup (wrote[o] \cap Platforms)
    BY DEF Commit
  <2>2. wrote[o] \cap Platforms \subseteq RowsOf(asked[o])
    BY <1>6 DEF Rows
  <2> QED BY <1>2, <1>8, <2>1, <2>2 DEF Sure, V4
<1> QED BY <1>1, <1>2, <1>9, <1>10, InnerRefines DEF Flights!Store

\* One that fails, wherever it does, changes nothing.
LEMMA FailureRefines ==
    ASSUME FlightInvariant, FlightInvariant', NEW o \in Requests,
           CleanupFails(o) \/ FetchFails(o) \/ Rollback(o)
    PROVE  Flights!Fail(asked[o])
<1> USE DEF FlightInvariant, Registered, TypeOK
<1>1. FlightStep(o) /\ ~Land(o) /\ ~StartFetch(o)
  BY DEF FlightStep, CleanupFails, FetchFails, Rollback, Land, Fetching, StartFetch
<1>2. UNCHANGED <<server, listed, pcs, db>> /\ outcome'[o] = "failed" /\ StageOf(o)' = "failed"
  BY DEF CleanupFails, FetchFails, Rollback, Settle, FlightTypes, StageOf
<1> QED BY <1>1, <1>2, SureStays, InnerRefines DEF Flights!Fail

\* Its end frees the key and tells all who shared it.
LEMMA LandRefines ==
    ASSUME FlightInvariant, FlightInvariant', NEW o \in Requests, Land(o)
    PROVE  Flights!Land(asked[o])
<1> USE DEF FlightInvariant, Registered, TypeOK
<1>1. /\ phase[o] = "settled" /\ phase'[o] = "landed"
      /\ \A p \in Requests \ {o} : phase'[p] = phase[p]
      /\ UNCHANGED <<server, listed, pcs, db, asked, status, flight, outcome, began, due>>
  BY DEF Land, FlightTypes, requestVars
<1>2. asked[o] \in Keys /\ activeRefreshes[asked[o]] = o /\ o # None
  BY <1>1, ConstantsAssumption DEF FlightsRegistered, Flying
<1>3. activeRefreshes' = [activeRefreshes EXCEPT ![asked[o]] = None]
  BY DEF Land, Released
<1>4. Stages[asked[o]] = outcome[o] /\ outcome[o] \in {"ok", "failed"}
  BY <1>1, <1>2 DEF Stages, Stage, StageOf, FlightsRegistered, FlightTypes
<1>5. Sure' = Sure
  BY <1>1, SureStays
<1>6. /\ OpenFlights' = [OpenFlights EXCEPT ![asked[o]] = Flights!NoFlight]
      /\ Stages' = [Stages EXCEPT ![asked[o]] = "none"]
  <2>1. OpenFlight(asked[o])' = Flights!NoFlight /\ Stage(asked[o])' = "none"
    BY <1>1, <1>2, <1>3 DEF OpenFlight, Stage, RequestTypes, Flights!NoFlight
  <2>2. ASSUME NEW k \in Keys \ {asked[o]}
        PROVE  OpenFlight(k)' = OpenFlight(k) /\ Stage(k)' = Stage(k)
    <3>1. activeRefreshes'[k] = activeRefreshes[k] /\ activeRefreshes[k] # o
      BY <1>2, <1>3 DEF RequestTypes, FlightsRegistered
    <3> QED BY <1>1, <3>1 DEF OpenFlight, Stage, StageOf, RequestTypes
  <2> QED BY <1>1, <2>1, <2>2 DEF OpenFlights, Stages
<1>7. ASSUME NEW r \in Requests
      PROVE  CallOf(r)' = IF CallOf(r) = <<"riding", asked[o]>> THEN <<"told", outcome[o]>>
                          ELSE CallOf(r)
  <2>1. CASE status[r] = "waiting" /\ flight[r] = o
    <3>1. CallOf(r) = <<"riding", asked[o]>>
      BY <1>1, <2>1, CallOfIs DEF RidersShareKey
    <3>2. CallOf(r)' = <<"told", outcome[o]>>
      BY <1>1, <2>1 DEF CallOf
    <3> QED BY <3>1, <3>2
  <2>2. CASE ~(status[r] = "waiting" /\ flight[r] = o)
    <3>1. CallOf(r)' = CallOf(r)
      BY <1>1, <2>2, CallsStay DEF FlightsRegistered
    <3>2. CallOf(r) # <<"riding", asked[o]>>
      <4>1. CASE status[r] # "waiting" \/ phase[flight[r]] = "landed"
        BY <4>1, CallOfIs, PlacesDiffer DEF RequestTypes
      <4>2. CASE status[r] = "waiting" /\ phase[flight[r]] # "landed"
        <5>1. Flying(flight[r]) /\ flight[r] \in Requests /\ asked[flight[r]] = asked[r]
          BY <4>2 DEF FlightsRegistered, Flying, RidersShareKey
        <5>2. asked[r] # asked[o]
          BY <1>2, <2>2, <4>2, <5>1 DEF FlightsRegistered
        <5> QED BY <4>2, <5>2, CallOfIs, PlacesDiffer
      <4> QED BY <4>1, <4>2
    <3> QED BY <3>1, <3>2
  <2> QED BY <2>1, <2>2
<1>8. CallStates' = [r \in Requests |->
                        IF CallStates[r] = <<"riding", asked[o]>> THEN <<"told", Stages[asked[o]]>>
                        ELSE CallStates[r]]
  BY <1>4, <1>7 DEF CallStates
<1> QED BY <1>1, <1>4, <1>5, <1>6, <1>8 DEF Flights!Land, Flights!Riding, Flights!Told

\* Nothing else a flight does is seen.
LEMMA FlightStepRefines ==
    ASSUME FlightInvariant, FlightInvariant', NEW o \in Requests, FlightStep(o)
    PROVE  (\E k \in Keys : Flights!Look(k) \/ Flights!Store(k) \/ Flights!Fail(k) \/ Flights!Land(k))
               \/ UNCHANGED Flights!vars
<1>0. asked[o] \in Keys
  <2>1. Land(o) => Flying(o)
    BY DEF Land, Flying
  <2> QED BY <2>1, InnerRefines DEF FlightInvariant, Registered, FlightsRegistered
<1>1. CASE Commit(o)
  BY <1>0, <1>1, CommitRefines
<1>2. CASE CleanupFails(o) \/ FetchFails(o) \/ Rollback(o)
  BY <1>0, <1>2, FailureRefines
<1>3. CASE Land(o)
  BY <1>0, <1>3, LandRefines
<1>4. CASE StartFetch(o)
  BY <1>0, <1>4, LookRefines
<1>5. CASE ~(Commit(o) \/ CleanupFails(o) \/ FetchFails(o) \/ Rollback(o) \/ Land(o) \/ StartFetch(o))
  <2>1. UNCHANGED <<pcs, db, server, listed, outcome>>
        /\ (phase[o] \in {"cleanup", "start"} <=> phase'[o] \in {"cleanup", "start"})
    BY <1>5
       DEF FlightStep, Cleanup, EndFetch, FetchRow, FetchUnusable, PersistRow, Fetching,
           BeginTransaction, PersistChain, flightVars, FlightInvariant, Registered, TypeOK, FlightTypes
  <2>2. Sure' = Sure /\ StageOf(o)' = StageOf(o)
    BY <2>1, SureStays DEF StageOf
  <2> QED BY <1>5, <2>1, <2>2, InnerRefines DEF Flights!vars
<1> QED BY <1>1, <1>2, <1>3, <1>4, <1>5

\* A caller that resumes was told already when its flight landed.
LEMMA AnswerRefines ==
    ASSUME FlightInvariant, FlightInvariant', NEW r \in Requests, Answer(r)
    PROVE  UNCHANGED Flights!vars
<1> USE DEF FlightInvariant, Registered, TypeOK
<1>1. /\ status[r] = "waiting" /\ phase[flight[r]] = "landed"
      /\ status' = [status EXCEPT ![r] = outcome[flight[r]]]
      /\ UNCHANGED <<server, listed, pcs, db, asked, flight, activeRefreshes, phase, outcome, began, due>>
  BY DEF Answer, HasSettled, flightVars
<1>2. CallOf(r) = <<"told", outcome[flight[r]]>> /\ CallOf(r)' = <<"told", outcome[flight[r]]>>
  <2>1. flight[r] \in Requests /\ outcome[flight[r]] \in {"ok", "failed"}
    BY <1>1 DEF FlightsRegistered, FlightTypes
  <2>2. status'[r] = outcome[flight[r]]
    BY <1>1 DEF RequestTypes
  <2>3. CallOf(r)' = <<"told", status'[r]>>
    BY <2>1, <2>2 DEF CallOf
  <2> QED BY <1>1, <2>2, <2>3, CallOfIs
<1>3. ASSUME NEW p \in Requests \ {r} PROVE CallOf(p)' = CallOf(p)
  BY <1>1, <1>3, CallsStay DEF RequestTypes
<1>4. CallStates' = CallStates
  BY <1>2, <1>3 DEF CallStates
<1>5. OpenFlights' = OpenFlights /\ Stages' = Stages /\ Sure' = Sure
  BY <1>1, StutterFlights, SureStays
<1> QED BY <1>1, <1>4, <1>5 DEF Flights!vars

\* What the PCS and the handlers do is a publication, a fill or not seen.
LEMMA OthersRefine ==
    ASSUME FlightInvariant, FlightInvariant',
           \/ Publish \/ Rest \/ UNCHANGED vars
           \/ \E h \in Handlers, x \in Rows : Miss(h, x)
           \/ \E h \in Handlers : HandlerStep(h)
    PROVE  Flights!Publish \/ (\E x \in Rows : Flights!Fill(x)) \/ UNCHANGED Flights!vars
<1> USE DEF FlightInvariant, Registered, TypeOK
<1>1. UNCHANGED <<server, asked, status, flight, phase, outcome, began, due, activeRefreshes>>
  BY DEF Publish, Rest, vars, Miss, HandlerStep, HandlerFetch, HandlerWrite, HandlerCommit,
         HandlerEnters, HandlerFails, HandlerEnds, flightVars, requestVars
<1>2. CallStates' = CallStates
  <2>1. \A r \in Requests : CallOf(r)' = CallOf(r)
    BY <1>1 DEF CallOf
  <2> QED BY <2>1 DEF CallStates
<1>3. OpenFlights' = OpenFlights /\ Stages' = Stages
  BY <1>1, StutterFlights
<1>4. CASE Publish
  <2>1. pcs' = pcs + 1 /\ UNCHANGED <<db, listed>>
    BY <1>4 DEF Publish
  <2> QED BY <1>1, <1>2, <1>3, <2>1, SureStays DEF Flights!Publish
<1>5. ASSUME NEW h \in Handlers, HandlerCommit(h) \/ HandlerEnters(h)
      PROVE  \E x \in Rows : Flights!Fill(x)
  <2>1. hrow[h] \in Rows
    BY <1>5 DEF HandlerCommit, HandlerEnters, HandlerTypes
  <2>2. UNCHANGED pcs /\ listed' \ {hrow[h]} = listed \ {hrow[h]}
    BY <1>5 DEF HandlerCommit, HandlerEnters, HandlerEnds
  <2>3. (\A y \in Rows \ {hrow[h]} : db'[y] = db[y])
        /\ (db'[hrow[h]] # db[hrow[h]] => db'[hrow[h]] <= pcs)
    BY <1>5, <2>1 DEF HandlerCommit, HandlerEnters, HandlersHold, CacheTypes
  <2>4. Sure' \ {hrow[h]} = Sure \ {hrow[h]}
    BY <1>1, <2>2 DEF Sure, V4
  <2>5. Flights!Fill(hrow[h])
    BY <1>2, <1>3, <2>2, <2>3, <2>4 DEF Flights!Fill
  <2> QED BY <2>1, <2>5
<1>6. CASE UNCHANGED <<pcs, db, listed>>
  BY <1>1, <1>2, <1>3, <1>6, SureStays DEF Flights!vars
<1>7. ASSUME ~Publish, \A h \in Handlers : ~HandlerCommit(h) /\ ~HandlerEnters(h)
      PROVE  UNCHANGED <<pcs, db, listed>>
  BY <1>7 DEF Rest, vars, Miss, HandlerStep, HandlerFetch, HandlerWrite, HandlerFails, HandlerEnds
<1> QED BY <1>4, <1>5, <1>6, <1>7

-----------------------------------------------------------------------------
\* A refresh, with all its awaits, failures and waits for the database, is to
\* its callers and to the readers of the cache one atomic and fresh step: any
\* number of calls, keys, rows and handlers, with either database.
THEOREM RefreshImplementsFlights == Spec => ImplementsFlights
<1>1. Init => Flights!Init
  <2> SUFFICES ASSUME Init PROVE Flights!Init
    OBVIOUS
  <2>1. \A k \in Keys : OpenFlight(k) = Flights!NoFlight /\ Stage(k) = "none"
    BY DEF Init, OpenFlight, Stage, Flights!NoFlight
  <2>2. \A r \in Requests : CallOf(r) = Flights!Idle
    BY DEF Init, CallOf, Flights!Idle
  <2> QED BY <2>1, <2>2 DEF Flights!Init, OpenFlights, Stages, CallStates
<1>2. FlightInvariant /\ FlightInvariant' /\ [Next]_vars => [Flights!Next]_Flights!vars
  <2> SUFFICES ASSUME FlightInvariant, FlightInvariant', [Next]_vars
               PROVE  Flights!Next \/ UNCHANGED Flights!vars
    OBVIOUS
  <2>1. ASSUME NEW r \in Requests, NEW ask \in Asks, Refused(r, ask) PROVE Flights!Next
    BY <2>1, RefusedRefines DEF Flights!Next
  <2>2. ASSUME NEW r \in Requests, NEW k \in Keys, Join(r, k) PROVE Flights!Next
    BY <2>2, JoinRefines DEF Flights!Next
  <2>3. ASSUME NEW r \in Requests, NEW k \in Keys, Launch(r, k) PROVE Flights!Next
    BY <2>3, LaunchRefines DEF Flights!Next
  <2>4. ASSUME NEW o \in Requests, FlightStep(o) PROVE Flights!Next \/ UNCHANGED Flights!vars
    BY <2>4, FlightStepRefines DEF Flights!Next
  <2>5. ASSUME NEW r \in Requests, Answer(r) PROVE UNCHANGED Flights!vars
    BY <2>5, AnswerRefines
  <2>6. ASSUME \/ Publish \/ Rest \/ UNCHANGED vars
               \/ \E h \in Handlers, x \in Rows : Miss(h, x)
               \/ \E h \in Handlers : HandlerStep(h)
        PROVE  Flights!Next \/ UNCHANGED Flights!vars
    BY <2>6, OthersRefine DEF Flights!Next
  <2> QED BY <2>1, <2>2, <2>3, <2>4, <2>5, <2>6 DEF Next
<1> QED BY <1>1, <1>2, FlightInvariantHolds, PTL DEF Spec, ImplementsFlights, Flights!Spec

-----------------------------------------------------------------------------
(* What a refresh that ended well has left in the cache.                    *)

\* A caller that was told how its flight ended was told the truth.
ToldOutcome ==
    \A r \in Requests : status[r] \in {"ok", "failed"} =>
        flight[r] \in Requests /\ phase[flight[r]] = "landed" /\ status[r] = outcome[flight[r]]

\* What was due to a flight that ended well stays as new as its beginning.
EndedFresh ==
    \A o \in Requests : outcome[o] = "ok" =>
        \A x \in due[o] \cap Unfilled : db[x] >= began[o]

\* A flight that has landed keeps its outcome, and its caller its flight.
LEMMA StepTold ==
    ASSUME Registered, OutcomesWait, ToldOutcome, [Next]_vars
    PROVE  ToldOutcome'
<1> USE DEF Registered, TypeOK, RequestTypes, FlightTypes, ToldOutcome
<1>1. ASSUME NEW o \in Requests, FlightStep(o) PROVE ToldOutcome'
  <2>1. UNCHANGED <<status, flight>> /\ phase[o] # "landed"
        /\ \A p \in Requests \ {o} : phase'[p] = phase[p] /\ outcome'[p] = outcome[p]
    BY <1>1, InnerStep DEF Land, requestVars, Flying
  <2> QED BY <2>1
<1>2. ASSUME NEW r \in Requests, NEW k \in Keys, Launch(r, k) PROVE ToldOutcome'
  <2>1. /\ status'[r] = "waiting" /\ phase[r] = "none"
        /\ \A p \in Requests \ {r} : /\ status'[p] = status[p] /\ flight'[p] = flight[p]
                                     /\ phase'[p] = phase[p] /\ outcome'[p] = outcome[p]
    BY <1>2, LaunchDoes
  <2> QED BY <2>1
<1>3. ASSUME NEW r \in Requests, NEW k \in Keys, Join(r, k) PROVE ToldOutcome'
  BY <1>3, QuietFlights DEF Join, flightVars
<1>4. ASSUME NEW r \in Requests, NEW ask \in Asks, Refused(r, ask) PROVE ToldOutcome'
  BY <1>4, QuietFlights DEF Refused, flightVars
<1>5. ASSUME NEW r \in Requests, Answer(r) PROVE ToldOutcome'
  BY <1>5, QuietFlights DEF Answer, HasSettled, flightVars, FlightsRegistered
<1>6. ASSUME \/ Publish \/ Rest \/ UNCHANGED vars
             \/ \E h \in Handlers, x \in Rows : Miss(h, x)
             \/ \E h \in Handlers : HandlerStep(h)
      PROVE  UNCHANGED <<status, flight, phase, outcome>>
  BY <1>6 DEF Publish, Rest, vars, Miss, HandlerStep, HandlerFetch, HandlerWrite,
              HandlerCommit, HandlerEnters, HandlerFails, HandlerEnds, requestVars, flightVars
<1>7. CASE UNCHANGED <<status, flight, phase, outcome>>
  BY <1>7
<1> QED BY <1>1, <1>2, <1>3, <1>4, <1>5, <1>6, <1>7 DEF Next

\* A commit makes fresh what was due to its flight; nothing makes it older.
LEMMA StepFresh ==
    ASSUME FlightInvariant, FetchedIsNewest, EndedFresh, [Next]_vars
    PROVE  EndedFresh'
<1> USE DEF FlightInvariant, Registered
<1>0. /\ Unfilled' \subseteq Unfilled /\ Unfilled \subseteq Rows
      /\ \A x \in Unfilled : db[x] \in Nat /\ db'[x] \in Nat /\ db'[x] >= db[x]
      /\ \A o \in Requests : began[o] \in Nat
  <2>1. TypeOK'
    BY StepTypes
  <2>2. /\ \A x \in Rows : db[x] \in Nat /\ db'[x] \in Nat
        /\ \A o \in Requests : began[o] \in Nat
    BY <2>1 DEF TypeOK, CacheTypes, FlightTypes
  <2> QED BY <2>2, StepNewest DEF Unfilled
<1>1. ASSUME NEW o \in Requests, began'[o] = began[o], due'[o] = due[o], outcome[o] = "ok"
      PROVE  \A x \in (due[o] \cap Unfilled)' : db'[x] >= began'[o]
  BY <1>0, <1>1 DEF EndedFresh
<1>2. CASE UNCHANGED <<began, due, outcome>>
  BY <1>1, <1>2 DEF EndedFresh
<1>3. ASSUME NEW o \in Requests, FlightStep(o) PROVE EndedFresh'
  <2>1. UNCHANGED began /\ (~StartFetch(o) => UNCHANGED due)
    BY <1>3, InnerOutcome DEF Land
  <2>2. \A p \in Requests \ {o} : outcome'[p] = outcome[p]
    BY <1>3, InnerStep DEF Land
  <2>3. CASE Commit(o)
    <3>1. \A x \in due[o] : x \in Rows => db'[x] >= began[o]
      <4>1. phase[o] = "persist" /\ todo[o] = {}
        BY <2>3 DEF Commit
      <4>2. \A x \in due[o] : x \in wrote[o]
        BY <4>1 DEF DueStays, Underway
      <4>3. \A x \in Rows : x \in wrote[o] => db'[x] = got[o][x] /\ began[o] <= got[o][x]
        BY <2>3 DEF Commit, FetchedSince
      <4>4. \A x \in Rows : got[o][x] \in Nat
        BY DEF TypeOK, FlightTypes
      <4> QED BY <1>0, <4>2, <4>3, <4>4
    <3>2. ~StartFetch(o)
      BY <2>3 DEF Commit, StartFetch
    <3> QED BY <1>0, <1>1, <2>1, <2>2, <3>1, <3>2 DEF EndedFresh
  <2>4. CASE StartFetch(o)
    <3>1. outcome'[o] = "none"
      BY <2>4 DEF StartFetch, OutcomesWait, Flying
    <3>2. \A p \in Requests \ {o} : due'[p] = due[p]
      BY <2>4 DEF StartFetch
    <3> QED BY <1>1, <2>1, <2>2, <3>1, <3>2 DEF EndedFresh
  <2>5. CASE ~Commit(o) /\ ~StartFetch(o)
    <3>1. outcome'[o] = "ok" => outcome[o] = "ok"
      BY <1>3, <2>5
         DEF FlightStep, Cleanup, CleanupFails, EndFetch, FetchFails, FetchRow,
             FetchUnusable, PersistRow, BeginTransaction, PersistChain, Rollback, Land, Settle,
             flightVars, TypeOK, FlightTypes
    <3> QED BY <1>1, <2>1, <2>2, <2>5, <3>1 DEF EndedFresh
  <2> QED BY <2>3, <2>4, <2>5
<1>4. ASSUME NEW r \in Requests, NEW k \in Keys, Launch(r, k) PROVE EndedFresh'
  <2>1. /\ due'[r] = {}
        /\ \A p \in Requests \ {r} : /\ outcome'[p] = outcome[p]
                                     /\ due'[p] = due[p] /\ began'[p] = began[p]
    BY <1>4, LaunchDoes DEF TypeOK, FlightTypes
  <2> QED BY <1>1, <2>1 DEF EndedFresh
<1>5. ASSUME \/ Publish \/ Rest \/ UNCHANGED vars
             \/ \E r \in Requests, ask \in Asks : Refused(r, ask)
             \/ \E r \in Requests, k \in Keys : Join(r, k)
             \/ \E r \in Requests : Answer(r)
             \/ \E h \in Handlers, x \in Rows : Miss(h, x)
             \/ \E h \in Handlers : HandlerStep(h)
      PROVE  UNCHANGED <<began, due, outcome>>
  BY <1>5, QuietFlights DEF flightVars
<1> QED BY <1>2, <1>3, <1>4, <1>5 DEF Next

\* For any number of calls, keys, rows and handlers, and with either database:
\* a caller that is told "ok" finds, now and later, nothing in the cache that
\* was due and is older than the beginning of the refresh it shared.
THEOREM SuccessIsFresh == Spec => []ToldIsFresh
<1>1. Init => ToldOutcome /\ EndedFresh
  BY DEF Init, ToldOutcome, EndedFresh
<1>2. FlightInvariant /\ FetchedIsNewest /\ ToldOutcome /\ EndedFresh /\ [Next]_vars
          => ToldOutcome' /\ EndedFresh'
  BY StepTold, StepFresh DEF FlightInvariant
<1>3. ToldOutcome /\ EndedFresh => ToldIsFresh
  BY DEF ToldOutcome, EndedFresh, ToldIsFresh
<1> QED BY <1>1, <1>2, <1>3, FlightInvariantHolds, FetchedStaysNewest, PTL DEF Spec
=============================================================================
