--------------------------- MODULE RefreshService ---------------------------
(***************************************************************************)
(* services/refreshService.js: the refresh of the collateral cache, asked  *)
(* for over HTTP (POST /refresh, controllers/refreshController.js) or by   *)
(* the cron job (pccs_server.js).                                          *)
(*                                                                         *)
(* One Node.js process runs every refresh; an await is where another may   *)
(* run.  A refresh of key k is a "flight": the promise executeRefresh      *)
(* returns.  activeRefreshes keeps at most one flight per key, and later   *)
(* requests with the same key share it.  The flight fetches rows from the  *)
(* PCS with no transaction open, then persists what it got in one          *)
(* transaction; with SQLite the transactions of the flights wait in        *)
(* sqliteWriteQueue.  Request handlers that miss the cache write rows too  *)
(* and do not use that queue.                                              *)
(*                                                                         *)
(* What a row holds is abstracted to a stamp: the number of PCS            *)
(* publications made when it was fetched; 0 is a row not in the cache.     *)
(***************************************************************************)
EXTENDS Naturals, Sequences, FiniteSets

CONSTANTS
    Requests,    \* calls of POST /refresh
    CronJobs,    \* firings of the scheduled refresh, a subset of Requests
    Handlers,    \* requests that miss the cache and fill one row from the PCS
    Fmspcs,
    Platforms,   \* a platform's PCK certificates, platform TCBs and chain
    FmspcOf,     \* Platforms -> Fmspcs
    Crls,        \* PCK CRLs
    Tcbs,        \* TCB infos
    Identities,  \* enclave identities
    Version3,    \* those TCB infos and identities that are of API version 3
    CachedCrls,  \* CRLs cached by URL
    RootCrl,     \* the root CA CRL, a column of the root row of pcs_certificates
    Chain,       \* the rows of pcs_certificates that issuer chains share
    Collateral,  \* the lock key of a refresh that is not of type 'certs'
    AllFmspcs,   \* type=certs with an empty fmspc
    FmspcList,   \* type=certs with a list of FMSPCs
    None,
    Sqlite,      \* DB_CONFIG = 'sqlite' (otherwise 'mysql')
    MaxStamp     \* bound on the publications of the PCS

Covered == Crls \cup Tcbs \cup Identities \cup CachedCrls \cup {RootCrl}
Rows    == Platforms \cup Covered
Keys    == {Collateral} \cup Fmspcs
Asks    == Keys \cup {AllFmspcs, FmspcList}
Writers == Requests \cup Handlers
Chained == Platforms \cup Crls \cup Tcbs \cup Identities

\* The rows a flight with key k reads and writes.
RowsOf(k) == IF k = Collateral THEN Covered
             ELSE {p \in Platforms : FmspcOf[p] = k}

ASSUME ConstantsAssumption ==
    /\ CronJobs \subseteq Requests
    /\ Requests \cap Handlers = {}
    /\ FmspcOf \in [Platforms -> Fmspcs]
    /\ Platforms \cap Covered = {}
    /\ (Crls \cup Tcbs \cup {RootCrl}) \cap (Identities \cup CachedCrls) = {}
    /\ Version3 \subseteq Tcbs \cup Identities
    /\ Chain \notin Rows
    /\ None \notin Requests \cup Rows
    /\ Collateral \notin Fmspcs
    /\ {AllFmspcs, FmspcList} \cap Keys = {}
    /\ None \notin Asks
    /\ Sqlite \in BOOLEAN
    /\ MaxStamp \in Nat \ {0}

VARIABLES
    server,           \* how the server was started
    pcs,              \* publications the PCS has made
    db,               \* stamp of each committed row
    invalidTcbs,      \* fmspc_tcbs holds rows whose type is null
    listed,           \* platforms that have an entry in platform_tcbs
    asked,            \* what each request asks for
    status,           \* of each request, as its caller sees it
    flight,           \* the request whose flight a request awaits
    activeRefreshes,  \* the flight of each lock key
    sqliteWriteQueue, \* flights whose write waits or runs, in order
    phase,            \* where each flight is
    want,             \* rows a flight has asked the PCS for
    got,              \* stamps of the rows a flight fetched, 0 is unusable
    todo,             \* rows a flight has fetched and not written
    wrote,            \* what the open transaction of a writer has written
    outcome,          \* how a flight settled
    began,            \* pcs when a flight began (history)
    due,              \* cached rows a flight must replace, as of its queries (history)
    handler,          \* where each handler is
    hrow, hgot,       \* the row a handler fills and the stamp it fetched
    hlisted           \* it found entries of its platform, to enter again

requestVars == <<asked, status, flight>>
flightVars  == <<phase, want, got, todo, outcome, began, due>>
handlerVars == <<handler, hrow, hgot, hlisted>>
vars == <<server, pcs, db, invalidTcbs, listed, requestVars, activeRefreshes,
          sqliteWriteQueue, flightVars, wrote, handlerVars>>

\* The caching mode is LAZY or REQ, not OFFLINE.
isRefreshable == server.refreshable

\* global.PCS_VERSION > 3.
V4 == server.v4

-----------------------------------------------------------------------------
(* Locks.  Rows of one table are locked one by one with MySQL; SQLite has   *)
(* a single writer.                                                         *)

LockOf(x) == IF x = RootCrl THEN Chain ELSE x

Blocked(w, x) ==
    \E v \in Writers \ {w} :
        IF Sqlite THEN wrote[v] # {}
        ELSE \E y \in wrote[v] : LockOf(y) = LockOf(x)

\* runExclusiveIfSqlite: the write of o runs when those before it have settled.
MayWriteAtOnce(o) == TRUE
MayWrite(o) == Sqlite => (sqliteWriteQueue # <<>> /\ Head(sqliteWriteQueue) = o)

Enqueued(o)  == IF Sqlite THEN Append(sqliteWriteQueue, o) ELSE sqliteWriteQueue
Dequeued     == IF Sqlite THEN Tail(sqliteWriteQueue) ELSE sqliteWriteQueue

-----------------------------------------------------------------------------
Init ==
    /\ server \in [refreshable : BOOLEAN, v4 : BOOLEAN]
    /\ pcs = 1
    /\ db \in [Rows -> {0, 1}]
    /\ invalidTcbs \in BOOLEAN
    /\ listed \in SUBSET {p \in Platforms : db[p] # 0}
    /\ asked = [r \in Requests |-> None]
    /\ status = [r \in Requests |-> "idle"]
    /\ flight = [r \in Requests |-> None]
    /\ activeRefreshes = [k \in Keys |-> None]
    /\ sqliteWriteQueue = <<>>
    /\ phase = [o \in Requests |-> "none"]
    /\ want = [o \in Requests |-> {}]
    /\ got = [o \in Requests |-> [x \in Rows |-> 0]]
    /\ todo = [o \in Requests |-> {}]
    /\ wrote = [w \in Writers |-> {}]
    /\ outcome = [o \in Requests |-> "none"]
    /\ began = [o \in Requests |-> 0]
    /\ due = [o \in Requests |-> {}]
    /\ handler = [h \in Handlers |-> "idle"]
    /\ hrow = [h \in Handlers |-> None]
    /\ hgot = [h \in Handlers |-> 0]
    /\ hlisted = [h \in Handlers |-> FALSE]

-----------------------------------------------------------------------------
(* Requests.                                                                *)

\* The PCS publishes new collateral.
Publish ==
    /\ pcs < MaxStamp
    /\ pcs' = pcs + 1
    /\ UNCHANGED <<server, db, invalidTcbs, listed, requestVars,
                   activeRefreshes, sqliteWriteQueue, flightVars, wrote,
                   handlerVars>>

\* POST /refresh with parameters the controller refuses (the validator takes
\* one FMSPC), or in OFFLINE mode; there the cron job does nothing.
Refused(r, ask) ==
    /\ status[r] = "idle"
    /\ \/ ask \notin Keys /\ status' = [status EXCEPT ![r] = "invalid"]
       \/ /\ ask \in Keys
          /\ ~isRefreshable
          /\ status' = [status EXCEPT ![r] = IF r \in CronJobs THEN "skipped"
                                             ELSE "unavailable"]
    /\ r \in CronJobs => ask = Collateral
    /\ asked' = [asked EXCEPT ![r] = ask]
    /\ UNCHANGED <<server, pcs, db, invalidTcbs, listed, flight,
                   activeRefreshes, sqliteWriteQueue, flightVars, wrote,
                   handlerVars>>

\* activeRefreshes.get(lockKey).
NoFlight(k)     == None
ActiveFlight(k) == activeRefreshes[k]

\* refreshCache finds the key in activeRefreshes and awaits that flight.
Join(r, k) ==
    /\ status[r] = "idle"
    /\ isRefreshable
    /\ r \in CronJobs => k = Collateral
    /\ ActiveFlight(k) # None
    /\ asked' = [asked EXCEPT ![r] = k]
    /\ status' = [status EXCEPT ![r] = "waiting"]
    /\ flight' = [flight EXCEPT ![r] = ActiveFlight(k)]
    /\ UNCHANGED <<server, pcs, db, invalidTcbs, listed, activeRefreshes,
                   sqliteWriteQueue, flightVars, wrote, handlerVars>>

\* refreshCache starts executeRefresh, which runs up to its first await, and
\* puts the flight into activeRefreshes.  With PCS_VERSION <= 3 a refresh of
\* type 'certs' takes no await: it has settled when it is put there.
Launch(r, k) ==
    /\ status[r] = "idle"
    /\ isRefreshable
    /\ r \in CronJobs => k = Collateral
    /\ ActiveFlight(k) = None
    /\ asked' = [asked EXCEPT ![r] = k]
    /\ status' = [status EXCEPT ![r] = "waiting"]
    /\ flight' = [flight EXCEPT ![r] = r]
    /\ activeRefreshes' = [activeRefreshes EXCEPT ![k] = r]
    /\ began' = [began EXCEPT ![r] = pcs]
    /\ \/ /\ k = Collateral
          /\ phase' = [phase EXCEPT ![r] = "cleanup"]
          /\ sqliteWriteQueue' = Enqueued(r)
          /\ outcome' = outcome
       \/ /\ k # Collateral
          /\ V4
          /\ phase' = [phase EXCEPT ![r] = "start"]
          /\ UNCHANGED <<sqliteWriteQueue, outcome>>
       \/ /\ k # Collateral
          /\ ~V4
          /\ phase' = [phase EXCEPT ![r] = "settled"]
          /\ outcome' = [outcome EXCEPT ![r] = "ok"]
          /\ UNCHANGED sqliteWriteQueue
    /\ UNCHANGED <<server, pcs, db, invalidTcbs, listed, want, got, todo,
                   due, wrote, handlerVars>>

\* The flight's promise settles: what it held is dropped.
Settle(o, result) ==
    /\ phase' = [phase EXCEPT ![o] = "settled"]
    /\ outcome' = [outcome EXCEPT ![o] = result]
    /\ want' = [want EXCEPT ![o] = {}]
    /\ todo' = [todo EXCEPT ![o] = {}]
    /\ got' = [got EXCEPT ![o] = [x \in Rows |-> 0]]
    /\ wrote' = [wrote EXCEPT ![o] = {}]
    /\ UNCHANGED <<began, due>>

\* activeRefreshes.delete(lockKey).
AllReleased(o) == [k \in Keys |-> None]
Released(o)    == [activeRefreshes EXCEPT ![asked[o]] = None]

\* The finally callback: the key leaves activeRefreshes.
Land(o) ==
    /\ phase[o] = "settled"
    /\ phase' = [phase EXCEPT ![o] = "landed"]
    /\ activeRefreshes' = Released(o)
    /\ UNCHANGED <<server, pcs, db, invalidTcbs, listed, requestVars,
                   sqliteWriteQueue, want, got, todo, outcome, began, due,
                   wrote, handlerVars>>

NotAwaited(r) == status[r] = "waiting"
HasSettled(r) == status[r] = "waiting" /\ phase[flight[r]] = "landed"

\* The controller (or scheduledRefresh) resumes with the flight's result.
Answer(r) ==
    /\ HasSettled(r)
    /\ status' = [status EXCEPT ![r] = outcome[flight[r]]]
    /\ UNCHANGED <<server, pcs, db, invalidTcbs, listed, asked, flight,
                   activeRefreshes, sqliteWriteQueue, flightVars, wrote,
                   handlerVars>>

-----------------------------------------------------------------------------
(* A flight: cleanup, fetch, persist (executeRefresh).                      *)

\* cleanupInvalidTcbs, one DELETE of its own, takes its turn in the queue.
Cleanup(o) ==
    /\ phase[o] = "cleanup"
    /\ MayWrite(o)
    /\ ~(Sqlite /\ Blocked(o, Chain))
    /\ invalidTcbs' = FALSE
    /\ phase' = [phase EXCEPT ![o] = "start"]
    /\ sqliteWriteQueue' = Dequeued
    /\ UNCHANGED <<server, pcs, db, listed, requestVars, activeRefreshes,
                   want, got, todo, outcome, began, due, wrote,
                   handlerVars>>

\* SQLITE_BUSY: the busy timeout ended while a handler held the database.
CleanupFails(o) ==
    /\ phase[o] = "cleanup"
    /\ MayWrite(o)
    /\ Sqlite /\ Blocked(o, Chain)
    /\ Settle(o, "failed")
    /\ sqliteWriteQueue' = Dequeued
    /\ UNCHANGED <<server, pcs, db, invalidTcbs, listed, requestVars,
                   activeRefreshes, handlerVars>>

\* The rows to fetch are read.  fetchAllPckcerts finds the platforms that have
\* an entry in platform_tcbs; fetchAllPckCrls and fetchAllTcbs what is cached,
\* the TCB infos of version 3 left out; fetchEnclaveIdentities asks for every
\* identity of version 4.
FirstRowsNoTcbs(k) ==
    IF k # Collateral THEN RowsOf(k) \cap listed ELSE Crls \cup Identities

FirstRows(k) ==
    CASE k # Collateral       -> RowsOf(k) \cap listed
      [] k = Collateral /\ V4 ->
             ({x \in Crls \cup Tcbs : db[x] # 0} \cup Identities) \ Version3
      [] OTHER                -> {}

\* Rows a flight that succeeds always replaces, if they were cached when its
\* queries ran.  The others a success may leave as they are: platforms with no
\* entry, collateral of version 3, and answers that are not usable.
Sure == IF V4 THEN listed \cup ((Crls \cup Tcbs) \ Version3) \cup {RootCrl}
        ELSE {RootCrl}

StartFetch(o) ==
    /\ phase[o] = "start"
    /\ phase' = [phase EXCEPT ![o] = "fetch"]
    /\ want' = [want EXCEPT ![o] = FirstRows(asked[o])]
    /\ due' = [due EXCEPT ![o] = {x \in RowsOf(asked[o]) \cap Sure : db[x] # 0}]
    /\ UNCHANGED <<server, pcs, db, invalidTcbs, listed, requestVars,
                   activeRefreshes, sqliteWriteQueue, got, todo, outcome,
                   began, wrote, handlerVars>>

Fetching(o) == phase[o] \in {"fetch", "fetchUrls"}

\* The PCS answers 200 with a body.
FetchRow(o, x) ==
    /\ Fetching(o)
    /\ x \in want[o]
    /\ want' = [want EXCEPT ![o] = @ \ {x}]
    /\ got' = [got EXCEPT ![o][x] = pcs]
    /\ todo' = [todo EXCEPT ![o] = @ \cup {x}]
    /\ UNCHANGED <<server, pcs, db, invalidTcbs, listed, requestVars,
                   activeRefreshes, sqliteWriteQueue, phase, outcome, began,
                   due, wrote, handlerVars>>

\* The answer is not usable.  A TCB info is kept for persistAllTcbs to throw
\* at; an enclave identity, and a CRL whose URL is refused, are left out.
FetchUnusable(o, x) ==
    /\ Fetching(o)
    /\ x \in want[o] \cap (Tcbs \cup Identities \cup CachedCrls)
    /\ want' = [want EXCEPT ![o] = @ \ {x}]
    /\ todo' = [todo EXCEPT ![o] = IF x \in Tcbs THEN @ \cup {x} ELSE @]
    /\ UNCHANGED <<server, pcs, db, invalidTcbs, listed, requestVars,
                   activeRefreshes, sqliteWriteQueue, phase, got, outcome,
                   began, due, wrote, handlerVars>>

FetchRetries(o) ==
    /\ Fetching(o)
    /\ want[o] # {}
    /\ phase' = [phase EXCEPT ![o] = "start"]
    /\ want' = [want EXCEPT ![o] = {}]
    /\ todo' = [todo EXCEPT ![o] = {}]
    /\ UNCHANGED <<server, pcs, db, invalidTcbs, listed, requestVars,
                   activeRefreshes, sqliteWriteQueue, got, outcome, began,
                   due, wrote, handlerVars>>

\* A fetch throws: no answer from the PCS, no certificates or CRL in it, no
\* certificate that can be selected, no root certificate to take the URL from.
FetchFails(o) ==
    /\ Fetching(o)
    /\ want[o] # {}
    /\ Settle(o, "failed")
    /\ UNCHANGED <<server, pcs, db, invalidTcbs, listed, requestVars,
                   activeRefreshes, sqliteWriteQueue, handlerVars>>

\* All answers are in.  Collateral goes on to the CRLs that have a URL, and
\* then, as certificates do at once, to its turn to persist.
EndFetch(o) ==
    /\ Fetching(o)
    /\ want[o] = {}
    /\ \/ /\ phase[o] = "fetch" /\ asked[o] = Collateral
          /\ phase' = [phase EXCEPT ![o] = "fetchUrls"]
          /\ want' = [want EXCEPT ![o] = {RootCrl} \cup {x \in CachedCrls : db[x] # 0}]
          /\ UNCHANGED sqliteWriteQueue
       \/ /\ phase[o] = "fetchUrls" \/ asked[o] # Collateral
          /\ phase' = [phase EXCEPT ![o] = "queued"]
          /\ sqliteWriteQueue' = Enqueued(o)
          /\ UNCHANGED want
    /\ UNCHANGED <<server, pcs, db, invalidTcbs, listed, requestVars,
                   activeRefreshes, got, todo, outcome, began, due, wrote,
                   handlerVars>>

\* sequelize.transaction: the transaction opens, with no lock yet.
BeginTransaction(o) ==
    /\ phase[o] = "queued"
    /\ MayWrite(o)
    /\ phase' = [phase EXCEPT ![o] = "persist"]
    /\ UNCHANGED <<server, pcs, db, invalidTcbs, listed, requestVars,
                   activeRefreshes, sqliteWriteQueue, want, got, todo,
                   outcome, began, due, wrote, handlerVars>>

\* The order in which executeRefresh awaits the persist functions.
Group(x) == CASE x \in Crls \cup Platforms -> 1
              [] x \in Tcbs                -> 2
              [] x \in Identities          -> 3
              [] x = RootCrl               -> 4
              [] OTHER                     -> 5

\* Rows whose upsert may be issued now.  The chain of an earlier group has
\* been written by then.
Ready(o) == {x \in todo[o] :
    /\ \A y \in todo[o] : Group(x) <= Group(y)
    /\ (\E y \in wrote[o] \cap Chained : Group(y) < Group(x)) => Chain \in wrote[o]}

NeedsChain(w) == wrote[w] \cap Chained # {} /\ Chain \notin wrote[w]

\* Certificates that came without a chain are persisted all the same; for other
\* collateral upsertPcsCertchain throws.
ChainSpared(o) == wrote[o] \subseteq Platforms

PersistRow(o, x) ==
    /\ phase[o] = "persist"
    /\ x \in Ready(o)
    /\ got[o][x] # 0
    /\ ~Blocked(o, x)
    /\ wrote' = [wrote EXCEPT ![o] = @ \cup {x}]
    /\ todo' = [todo EXCEPT ![o] = @ \ {x}]
    /\ UNCHANGED <<server, pcs, db, invalidTcbs, listed, requestVars,
                   activeRefreshes, sqliteWriteQueue, phase, want, got,
                   outcome, began, due, handlerVars>>

PersistChain(o) ==
    /\ phase[o] = "persist"
    /\ NeedsChain(o)
    /\ ~Blocked(o, Chain)
    /\ wrote' = [wrote EXCEPT ![o] = @ \cup {Chain}]
    /\ UNCHANGED <<server, pcs, db, invalidTcbs, listed, requestVars,
                   activeRefreshes, sqliteWriteQueue, flightVars,
                   handlerVars>>

Commit(o) ==
    /\ phase[o] = "persist"
    /\ todo[o] = {}
    /\ NeedsChain(o) => ChainSpared(o)
    /\ db' = [x \in Rows |-> IF x \in wrote[o] THEN got[o][x] ELSE db[x]]
    /\ listed' = listed \cup (wrote[o] \cap Platforms)
    /\ Settle(o, "ok")
    /\ sqliteWriteQueue' = Dequeued
    /\ UNCHANGED <<server, pcs, invalidTcbs, requestVars,
                   activeRefreshes, handlerVars>>

\* The transaction rolls back: persistAllTcbs throws at an unusable TCB info,
\* an answer has no issuer chain, or a write gives up waiting for a lock
\* (SQLITE_BUSY, a MySQL deadlock or lock wait timeout).
Rollback(o) ==
    /\ phase[o] = "persist"
    /\ \/ \E x \in Ready(o) : got[o][x] = 0 \/ Blocked(o, x)
       \/ NeedsChain(o) /\ (Blocked(o, Chain) \/ ~ChainSpared(o))
    /\ Settle(o, "failed")
    /\ sqliteWriteQueue' = Dequeued
    /\ UNCHANGED <<server, pcs, db, invalidTcbs, listed, requestVars,
                   activeRefreshes, handlerVars>>

-----------------------------------------------------------------------------
(* Handlers that fill the cache (logic/commonCacheLogic.js), without the    *)
(* queue.  A platform is fetched again when a new raw TCB of it is asked    *)
(* for, and its TCB infos, of version 4, with it.                           *)

Refetched(x) == x \in Platforms \cup (Tcbs \ Version3)

\* The PCS is asked for nothing of version 3 any more, which leaves a server of
\* that version the CRLs that have a URL.
Askable(x) == x \in CachedCrls \/ (V4 /\ x \notin Version3)

Miss(h, x) ==
    /\ handler[h] = "idle"
    /\ x \in Rows \ {RootCrl}
    /\ db[x] = 0 \/ Refetched(x)
    /\ handler' = [handler EXCEPT ![h] = "missed"]
    /\ hrow' = [hrow EXCEPT ![h] = x]
    /\ UNCHANGED <<server, pcs, db, invalidTcbs, listed, requestVars,
                   activeRefreshes, sqliteWriteQueue, flightVars, wrote,
                   hgot, hlisted>>

\* The PCS answers; then the entries of a platform are read.
HandlerFetch(h) ==
    /\ handler[h] = "missed"
    /\ Askable(hrow[h])
    /\ handler' = [handler EXCEPT ![h] = "store"]
    /\ hgot' = [hgot EXCEPT ![h] = pcs]
    /\ hlisted' = [hlisted EXCEPT ![h] = hrow[h] \in listed]
    /\ UNCHANGED <<server, pcs, db, invalidTcbs, listed, requestVars,
                   activeRefreshes, sqliteWriteQueue, flightVars, wrote,
                   hrow>>

HandlerNext(h) == IF wrote[h] = {} THEN hrow[h] ELSE Chain

HandlerStores(h) == hrow[h] \notin wrote[h] \/ NeedsChain(h)

HandlerWrite(h) ==
    /\ handler[h] = "store"
    /\ HandlerStores(h)
    /\ ~Blocked(h, HandlerNext(h))
    /\ wrote' = [wrote EXCEPT ![h] = @ \cup {HandlerNext(h)}]
    /\ UNCHANGED <<server, pcs, db, invalidTcbs, listed, requestVars,
                   activeRefreshes, sqliteWriteQueue, flightVars,
                   handlerVars>>

HandlerEnds(h, next) ==
    /\ handler' = [handler EXCEPT ![h] = next]
    /\ hgot' = [hgot EXCEPT ![h] = 0]
    /\ hlisted' = [hlisted EXCEPT ![h] = FALSE]
    /\ wrote' = [wrote EXCEPT ![h] = {}]
    /\ UNCHANGED <<server, pcs, invalidTcbs, requestVars,
                   activeRefreshes, sqliteWriteQueue, flightVars, hrow>>

\* getPckCertFromPCS deletes the entries of its platform and enters those it
\* has read again.
HandlerCommit(h) ==
    /\ handler[h] = "store"
    /\ ~HandlerStores(h)
    /\ db' = [db EXCEPT ![hrow[h]] = hgot[h]]
    /\ listed' = IF hlisted[h] THEN listed \cup {hrow[h]} ELSE listed \ {hrow[h]}
    /\ HandlerEnds(h, IF hrow[h] \in Platforms THEN "entering" ELSE "done")

\* Then it enters the raw TCB it was asked for, or does not: none was given,
\* no certificate fits it, or in LAZY mode one was 'Not available'.
HandlerEnters(h) ==
    /\ handler[h] = "entering"
    /\ \/ ~Blocked(h, hrow[h]) /\ listed' = listed \cup {hrow[h]}
       \/ UNCHANGED listed
    /\ UNCHANGED db
    /\ HandlerEnds(h, "done")

\* The PCS is not asked or does not answer, or without a chain, or a write gives
\* up waiting for a lock.
HandlerFails(h) ==
    /\ \/ handler[h] = "missed"
       \/ /\ handler[h] = "store"
          /\ HandlerStores(h)
          /\ Blocked(h, HandlerNext(h)) \/ NeedsChain(h)
    /\ UNCHANGED <<db, listed>>
    /\ HandlerEnds(h, "done")

-----------------------------------------------------------------------------
FlightStep(o) ==
    \/ Cleanup(o) \/ CleanupFails(o)
    \/ StartFetch(o) \/ EndFetch(o) \/ FetchFails(o)
    \/ \E x \in Rows : FetchRow(o, x) \/ FetchUnusable(o, x) \/ PersistRow(o, x)
    \/ BeginTransaction(o) \/ PersistChain(o) \/ Commit(o) \/ Rollback(o)
    \/ Land(o)

HandlerStep(h) ==
    \/ HandlerFetch(h) \/ HandlerWrite(h) \/ HandlerCommit(h) \/ HandlerEnters(h)
    \/ HandlerFails(h)

\* Nothing is running: every call has been answered.
Rest ==
    /\ \A r \in Requests : status[r] \notin {"idle", "waiting"}
    /\ \A o \in Requests : phase[o] \in {"none", "landed"}
    /\ \A h \in Handlers : handler[h] \in {"idle", "done"}
    /\ UNCHANGED vars

Next ==
    \/ Publish
    \/ \E r \in Requests, ask \in Asks : Refused(r, ask)
    \/ \E r \in Requests, k \in Keys : Join(r, k) \/ Launch(r, k)
    \/ \E o \in Requests : FlightStep(o) \/ Answer(o)
    \/ \E h \in Handlers, x \in Rows : Miss(h, x)
    \/ \E h \in Handlers : HandlerStep(h)
    \/ Rest

Spec == Init /\ [][Next]_vars

\* PCS requests time out (pcs_client.js), a database write gets its lock or
\* gives up, and the event loop runs every callback that is ready.
Fairness == /\ \A o \in Requests : WF_vars(FlightStep(o)) /\ WF_vars(Answer(o))
            /\ \A h \in Handlers : WF_vars(HandlerStep(h))

FairSpec == Spec /\ Fairness

-----------------------------------------------------------------------------
Phases == {"none", "cleanup", "start", "fetch", "fetchUrls", "queued",
           "persist", "settled", "landed"}

CacheTypes ==
    /\ server \in [refreshable : BOOLEAN, v4 : BOOLEAN]
    /\ pcs \in 1..MaxStamp
    /\ db \in [Rows -> 0..MaxStamp]
    /\ invalidTcbs \in BOOLEAN
    /\ listed \in SUBSET Platforms

RequestTypes ==
    /\ asked \in [Requests -> Asks \cup {None}]
    /\ status \in [Requests -> {"idle", "invalid", "skipped", "unavailable",
                                "waiting", "ok", "failed"}]
    /\ flight \in [Requests -> Requests \cup {None}]
    /\ activeRefreshes \in [Keys -> Requests \cup {None}]

FlightTypes ==
    /\ phase \in [Requests -> Phases]
    /\ want \in [Requests -> SUBSET Rows]
    /\ got \in [Requests -> [Rows -> 0..MaxStamp]]
    /\ todo \in [Requests -> SUBSET Rows]
    /\ outcome \in [Requests -> {"none", "ok", "failed"}]
    /\ began \in [Requests -> 0..MaxStamp]
    /\ due \in [Requests -> SUBSET Rows]

WriteTypes ==
    /\ wrote \in [Writers -> SUBSET (Rows \cup {Chain})]
    /\ sqliteWriteQueue \in Seq(Requests)

HandlerTypes ==
    /\ handler \in [Handlers -> {"idle", "missed", "store", "entering", "done"}]
    /\ hrow \in [Handlers -> Rows \cup {None}]
    /\ hgot \in [Handlers -> 0..MaxStamp]
    /\ hlisted \in [Handlers -> BOOLEAN]
    /\ \A h \in Handlers : hlisted[h] \/ handler[h] = "entering" => hrow[h] \in Platforms
    /\ \A h \in Handlers : handler[h] = "idle" <=> hrow[h] = None

TypeOK == CacheTypes /\ RequestTypes /\ FlightTypes /\ WriteTypes /\ HandlerTypes

-----------------------------------------------------------------------------
(* Properties.                                                              *)

Flying(o) == phase[o] \notin {"none", "landed"}

\* Coalescing: two flights of one lock key never overlap, however calls,
\* failures and the finally callback interleave.
OneFlightPerKey ==
    \A o, p \in Requests : Flying(o) /\ Flying(p) /\ asked[o] = asked[p] => o = p

\* activeRefreshes holds exactly the flights in the air, each under its own
\* key, so no lock leaks and none is released while its flight runs; and a
\* caller waits on a flight that exists, one that has ended with a result.
FlightsRegistered ==
    /\ \A o \in Requests :
           Flying(o) => asked[o] \in Keys /\ activeRefreshes[asked[o]] = o
    /\ \A k \in Keys :
           activeRefreshes[k] # None =>
               Flying(activeRefreshes[k]) /\ asked[activeRefreshes[k]] = k
    /\ \A r \in Requests : status[r] = "idle" => phase[r] = "none"
    /\ \A r \in Requests :
           status[r] = "waiting" => flight[r] \in Requests /\ phase[flight[r]] # "none"
    /\ \A o \in Requests : phase[o] \in {"settled", "landed"} => outcome[o] # "none"

\* runExclusiveIfSqlite: with SQLite a flight has its transaction open only
\* while it is at the head of the queue, also after the one before it failed.
TurnsInQueue ==
    Sqlite => \A o \in Requests :
        phase[o] = "persist" =>
            sqliteWriteQueue # <<>> /\ Head(sqliteWriteQueue) = o

\* So the transactions of two flights, whatever their keys, are never open
\* together: no refresh makes another one meet SQLITE_BUSY.
RefreshesTakeTurns ==
    Sqlite => \A o, p \in Requests :
        phase[o] = "persist" /\ phase[p] = "persist" => o = p

\* Rows that only refreshes have written: no handler has missed them.
Unfilled == {x \in Rows : \A h \in Handlers : hrow[h] # x}

\* Unless a handler fills the row as well, the cache never goes back to older
\* collateral: no refresh commits a row it fetched before another one committed
\* it, and the handlers at work on other rows change nothing of that.
NeverRegress == [][\A x \in Unfilled : db'[x] >= db[x]]_vars

\* What a flight has fetched is of its own key, and nothing newer of the rows
\* has been committed since.
NewestOf(rows) ==
    /\ \A x \in rows : db[x] <= pcs
    /\ \A o \in Requests, x \in rows :
           got[o][x] # 0 =>
               /\ phase[o] \notin {"none", "settled", "landed"}
               /\ x \in RowsOf(asked[o])
               /\ db[x] <= got[o][x] /\ got[o][x] <= pcs
    /\ \A o \in Requests :
           want[o] # {} =>
               /\ phase[o] \notin {"none", "settled", "landed"}
               /\ want[o] \subseteq RowsOf(asked[o])
    /\ \A o \in Requests, x \in rows : x \in wrote[o] => got[o][x] # 0

\* Why the cache does not go back: a key has one flight, so nothing newer of
\* what a flight holds is committed, the rows handlers fill excepted.
FetchedIsNewest == NewestOf(Unfilled)

\* Every refresh call is answered, whatever the PCS and the database do.
EveryCallAnswered ==
    \A r \in Requests : status[r] = "waiting" ~> status[r] \in {"ok", "failed"}

\* Where a call is, as the abstract specification has it.
CallOf(r) ==
    CASE status[r] = "idle" -> <<"idle">>
      [] status[r] \in {"invalid", "skipped", "unavailable"} -> <<"refused">>
      [] status[r] \in {"ok", "failed"} -> <<"told", status[r]>>
      [] status[r] = "waiting" /\ phase[flight[r]] = "landed" ->
             <<"told", outcome[flight[r]]>>
      [] OTHER -> <<"riding", asked[r]>>

\* What the answer of a refresh is worth to its caller, from then on: what its
\* flight found cached, and had to replace, is at least as new as what the PCS
\* had when the flight began, for a caller that joined it as well.  Rows that
\* handlers fill are excepted; platforms with no entry in platform_tcbs and
\* collateral of version 3 are not due, so "ok" says nothing of them.
ToldIsFresh ==
    \A r \in Requests : status[r] = "ok" =>
        \A x \in due[flight[r]] \cap Unfilled : db[x] >= began[flight[r]]

\* A flight is opened until its queries have run, and looked until it settles.
StageOf(o) == IF outcome[o] # "none" THEN outcome[o]
              ELSE IF phase[o] \in {"cleanup", "start"} THEN "opened" ELSE "looked"

OpenFlight(k) ==
    IF activeRefreshes[k] = None THEN [since |-> 0, due |-> {}]
    ELSE [since |-> began[activeRefreshes[k]], due |-> due[activeRefreshes[k]]]

Stage(k) == IF activeRefreshes[k] = None THEN "none" ELSE StageOf(activeRefreshes[k])

OpenFlights == [k \in Keys |-> OpenFlight(k)]
Stages      == [k \in Keys |-> Stage(k)]
CallStates  == [r \in Requests |-> CallOf(r)]
RowsOfKeys  == [k \in Keys |-> RowsOf(k)]

Flights == INSTANCE RefreshFlights WITH
    Calls   <- Requests,
    Reach   <- RowsOfKeys,
    sure    <- Sure,
    open    <- OpenFlights,
    stage   <- Stages,
    call    <- CallStates

\* A refresh is atomic and fresh: a flight that succeeds replaces in one step
\* everything its queries found of its key, the rows it leaves out excepted, by
\* what the PCS published since it began; one that fails, in whatever phase,
\* leaves the cache as it was; each caller is told the outcome of the flight it
\* shared.
ImplementsFlights == Flights!Spec
=============================================================================
