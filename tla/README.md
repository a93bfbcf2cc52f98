# TLA+ models of the PCCS

The Provisioning Certificate Caching Service (`src/service`) is a Node.js
server that keeps SGX/TDX attestation collateral - PCK certificates, TCB
infos, enclave identities, CRLs, issuer chains - which it gets from Intel's
Provisioning Certification Service (PCS), and answers the requests of
attestation infrastructure from that cache. This directory holds TLA+ models of
its stateful core, the TLC runs that check them, and proofs about them.

`tlc -config X.cfg M` repeats a run, `tlapm M.tla` a proof; `PROJECT.json`
lists runs, mutants, the code lines behind every definition, hazards and
theorems.

## 1. Inventory

| component | state | operations | interacts with | models |
|---|---|---|---|---|
| refresh (`services/refreshService.js`, `controllers/refreshController.js`) | `activeRefreshes`, `sqliteWriteQueue`; writes all collateral tables | `refreshCache`, `scheduledRefresh`, `executeRefresh` | PCS, every table, handlers that write the same rows | `RefreshService`, `RefreshFlights` |
| platform registration (`services/platformsRegService.js`, `controllers/platformsController.js`, `dao/platformsRegDao.js`) | table `platforms_registered` | `POST /platforms`, `GET /platforms` | caching modes, `getPckCertFromPCS`, the admin tool | `PlatformRegistration` |
| admin tool (`PccsAdminTool/pccsadmin.py`) | the list it saved, the collateral collected for it | `get`, `put`, `refresh` | administrator, server | `get` and `put` in `PlatformRegistration` |
| caching modes (`services/caching_modes`) | the configured mode | `registerPlatforms`, `isRefreshable`, the `...FromPCS` calls they allow or refuse | all services | `PlatformRegistration`, `PckCertCache`, `IssuerChains`, `RefreshService` |
| PCK certificates (`services/pckcertService.js`, `services/logic/commonCacheLogic.js`) | `platforms`, `pck_cert`, `platform_tcbs`, `pck_certchain` | `getPckCert`, `pckCertSelection`, `getPckCertFromPCS` | PCS, selection, refresh, `PUT /platformcollateral` | `PckCertCache` |
| PCK certificate selection (`pckCertSelection/`) | none (a pure algorithm with mutable buckets) | `selectBestPckCert` | the three callers above | `PckCertSelection` |
| database start-up (`utils/apputil.js`, `migrations/`) | the schema, umzug's records, `pcs_version` | `databaseCheck`, `dbMigration`, scripts 00-05 | crashes and restarts | `DatabaseStartup` |
| appraisal policies (`services/appraisalPolicyService.js`, `dao/appraisalPolicyDao.js`) | `appraisal_policies` | `PUT`/`GET /appraisalpolicy` | - | `AppraisalPolicy` |
| `PUT /platformcollateral` (`services/platformCollateralService.js`) | writes all collateral tables | `addPlatformCollateral` | admin tool | its PCK certificates in `PckCertCache`, the rest in `IssuerChains` |
| read-through services (CRLs, TCB infos, identities, root CA CRL, `qvCollateralLogic`) | rows of their tables, and the issuer chains in `pcs_certificates` they share | get, on a miss fetch and store; the check of `POST /platforms` | PCS, refresh, `PUT /platformcollateral` | `IssuerChains`; as handlers of `RefreshService` |
| DAO and models | the tables, transactions by CLS, WAL | upserts, queries | SQLite or MySQL | what a transaction promises, in each model |
| PCS client | none | one HTTP request with timeout and retries | PCS | its outcomes |
| server, health, logger (`pccs_server.js`, `services/healthService.js`, `utils/Logger.js`) | `startupComplete`, the listening socket, the exit that the end of the logger schedules, cron job | `initializeApp`, `main`, `endAndExitProcess`, SIGINT, uncaught exceptions | all | `DatabaseStartup`, `RefreshService` |
| routes, middleware (authentication, errors, request ids, body checks), validators and schemas, X.509, response bodies | none that outlives a request | | | not modelled |
| `build_infrastructure`, container files | | | | not modelled |

### What is hard here

* **Interleaving at awaits.** One thread, but every `await` lets another
  request run. `getPckCertFromPCS` reads the platform's raw TCBs, opens a
  transaction, and after it writes one more row; `GET /pckcert` selects from
  certificates that it read some awaits ago; the refresh fetches for minutes
  before it writes.
* **Two databases.** SQLite (WAL, a single writer; a transaction that read a
  snapshot which is no longer the newest may not write) and MySQL (row locks,
  snapshot reads, updates of what is there now, an implicit commit at every
  DDL statement). The same code gives different guarantees on each.
* **Shared certificates.** An item is served with whatever signing and root
  certificates are cached, and everything that is stored brings a chain along.
* **Coalescing and queueing.** A refresh is shared by its callers; with SQLite
  refreshes write in turn; other handlers do not queue.
* **Failure in the middle.** Unusable or missing answers of the PCS, lock
  timeouts, deadlocks, crashes between two awaits of a request or two statements
  of a migration, answers that never reach the administrator, an exit that comes
  two seconds after the error that caused it.
* **A partial order.** TCBs need not be comparable, and the selection sorts
  and inserts by comparing them.

`PROJECT.json` lists these as hazards, each with its line.

### What makes each component correct

* refresh: one refresh per key; a refresh is atomic and all its callers learn
  its outcome, of which success means fresh collateral; each call is answered;
  the cache does not go back in time;
* registration: a pending registration reaches the administrator, once; what
  was entered and is not cached is pending, on its way or in his files, or he
  lost it; a confirmed platform is cached;
* PCK certificates: a platform that is cached can be served, with a
  certificate that fits, the best one there is; a refresh mends what overlaps
  have left;
* issuer chains: what is served stays served, a check of collateral that ended
  well is true, and after a refresh every item that it can renew is under the
  chain it is signed with;
* selection: a certificate is found if one fits, and no better one is passed
  over;
* start-up: a server serves the current layout only; no crash costs an
  existing database its collateral; every start settles, in a server that is
  usable or in an exit;
* policies: a FMSPC has at most one default.

## 2. Plan

1. `RefreshService` and `RefreshFlights` (abstract), proofs - done.
2. `PlatformRegistration` with the administrator, `PckCertCache` with failures
   and crashes, `AppraisalPolicy`, `IssuerChains`, proofs - done.
3. `DatabaseStartup` with the life of the server process, `PckCertSelection`,
   proofs - done.
4. To do, modules: a composition of `PckCertCache` with `PlatformRegistration`
   (a confirmed registration answers a later `GET /pckcert`); two platforms and
   the mixed `update` types in `PckCertCache`; the row of `crl_cache` that
   `PUT /platformcollateral` writes. Where runs would become too many, existing
   ones take over a second configuration, as the runs `refresh` and
   `registration` do already.
5. Proofs of what item 4 adds. Every invariant and action property that a
   passing run checks today is a theorem.

## 3. The modules and the code

Configuration (caching mode, API version, database where a run covers both) is
a variable that `Init` chooses and no step changes, or a constant.

### RefreshService, RefreshFlights

`refreshCache` (516-532) becomes `Refused`, `Join` or `Launch`: the lookup in
`activeRefreshes` and the registration of the new promise happen without an
await in between, so each is one step. `executeRefresh` (462-514) is the
sequence of `phase[o]`: *cleanup* (type not `certs`) - *start* - *fetch* -
*fetchUrls* - *queued* - *persist* - *settled* - *landed*. `Land` is the
`finally` callback, `Answer` the resumption of a caller, which may come later
than further calls. `runExclusiveIfSqlite` is `sqliteWriteQueue`; a flight
leaves it when its write has settled, well or not. `Promise.all` over fetches
is the set `want`; over writes (MySQL) it is the set of rows `Ready` to be
written within the group that is awaited. With SQLite the writes of a group
come one after the other; their order has no effect on the other actors,
since nothing of them is seen before the commit, and is left open too.

A row's content is the number of publications the PCS had made when it was
fetched. `Blocked` is what the database does with locks: SQLite lets one
transaction write; MySQL locks row by row, and the chain rows of
`pcs_certificates` are written by almost everyone. A blocked write may wait or
give up (`Rollback`, `CleanupFails`, `HandlerFails`).

`ImplementsFlights` maps this to `RefreshFlights`, which knows neither the
phases of the code nor its locks: the entry of a key in `activeRefreshes` is its
open flight (`OpenFlights`, with the publication it began at and the rows that
are due), `Stages` is how far it is, or how it ended, and `CallStates` are what
the callers have been told.

**What a refresh leaves out.** "ok" does not mean that everything cached is new.
`FirstRows` is what the queries of a flight find:

* `fetchAllPckcerts` lists the platforms that have an entry in `platform_tcbs`
  (`listed`; refreshService.js:132, platformTcbsDao.js:54-61). A platform whose
  certificates are cached without an entry - LAZY mode was told 'Not available'
  (commonCacheLogic.js:244), a crash came before the entry was written, no raw
  TCB was given - keeps its old certificates;
* `fetchAllTcbs` drops TCB infos of version 3 (line 387, with a warning at
  378), and `fetchEnclaveIdentities` knows identities of version 4 only
  (`Version3`);
* with `PCS_VERSION` 3 only the root CA CRL and the CRLs by URL are fetched
  (`V4`; lines 70-73 and 486-494).

`Sure` is the rest without the rows whose unusable answer the code skips
(identities, CRLs by URL): the rows that a success always renews. `due[o]` is
what flight `o` found cached of these when its queries ran, and what
`ToldIsFresh` and `RefreshFlights` speak of. The abstract variable `sure` lets
handlers change which platforms are listed (`Fill`).

Handlers are the requests that miss the cache, or fetch a platform again for a
new raw TCB, with its TCB infos (`Refetched`). One that fills several rows in
turn is several handlers. What is of version 3 cannot be fetched any more
(`Askable`; pcs_client.js:51, 168, 197). The handler of a platform deletes its
entries and enters those it had read again (`HandlerCommit`), and its own after
that (`HandlerEnters`). An answer without a chain fails every write but that of
PCK certificates by a refresh (`ChainSpared`; refreshService.js:257,
pcsCertificatesDao.js:69). The handler of the root CA CRL is in `IssuerChains`.
`PCS_VERSION <= 3` makes a refresh of certificates settle without an await,
which `Launch` has as a case of its own because it is the one path where the
promise is settled before it is registered.

`RefreshFlights` is what callers and readers may rely on. A flight is *opened*
with the stamp at which it began; it *looks* once at the cache, which fixes the
rows that are due; and it ends with one step that replaces these rows by
something published since it opened (`Store`), or changes nothing (`Fail`).

### PlatformRegistration

`POST /platforms` is `CheckStatus` followed by what `registerPlatforms` of the
mode does: `Register`, `FetchCerts`/`FetchSomeCerts`/`FetchFails`,
`Unregister`, `CheckCollateral`. `GET /platforms` is the SELECT (`ReadQueue`)
and the UPDATE with its commit (`MarkDeleted`, or `MarkFails` where SQLite
refuses to write on an old snapshot - variable `stale`). Registrations of
different keys are registrations of different platforms.

The rest is what becomes of the answer. `SaveList` is `get` writing
`platform_list.json` (`list`), over an earlier list if the administrator says
so; `Abort` is his refusal, for which `check_file_writable` asks only after the
server has marked the rows; `LoseAnswer` a connection that breaks after the
commit; `Crash` the end of the process with every call under way. `Collect` is
the collection of collateral for the list outside of the PCCS, into `file`, and
`PutCollateral` is `put`, one transaction. `entered`, `handed`, `unissued` and
`dropped` are history; `dropped` has the registrations that were lost or thrown
away by the administrator's side and were not entered since.

### PckCertCache

One platform, many requests. Steps go from await to await; a transaction is
one step, because other requests see all or nothing of it. `Offered[n]` is
what the PCS has certificates for in its n-th publication and `Withheld[n]`
the levels it answers 'Not available' for. TCBs are numbers here, so "best" is
"highest not above"; `PckCertSelection` has the partial order. A refresh is
alone among refreshes, which `RefreshService` shows of refreshes of one FMSPC.

`shared` is what GET /pckcert needs besides the tables of the platform: a TCB
info of the server's `PCS_VERSION`, the row of `pck_certchain`, the certificates
it names. `SelectCert` answers NO_CACHE_DATA without the first two
(pckcertService.js:59-66, 77-81), `IsServable` takes an entry for missing
without the last. A fill stores all three; a `PUT /platformcollateral` may not:
its TCB infos may be of version 3 on a server of version 4, and its chains may
be missing, although the platform counts as cached from then on. A GET with a
raw TCB that has no entry is then refused although a certificate fits, in LAZY
mode too, which does not fetch for a platform that has a row. `GetFindsCached`
therefore asks for a TCB info as well as the platform when the GET starts; that
the row of the chain is there follows from the platform's
(`PresenceMeansCached`). Requests for other collateral may bring what is missing
(`OthersCache`).

`DatabaseFails` lets the database give up any query or transaction of a request,
and `Crash` ends all requests wherever they are; what was committed before
stays. `overlapped`, `alone`, `renewed` and `known` are history: `alone` is a
refresh that nothing has overlapped yet, `renewed` that one was persisted and
neither the PCS has published nor a file was put since.

### IssuerChains

The rows of `pcs_certificates` and all that writes them. `item[k]` is the
publication of the PCS that the row of a PCK CRL, TCB info or identity comes
from; `signer` and `root` are the keys that the cached certificates certify,
`rootCrl` is the CRL in the row of the root certificate. A request has a part
for each thing it gets (`at[r][x]`): a GET has one, the check of
`POST /platforms` one for the PCK CRL, the identities (`Promise.all`) and the
root CA CRL, which `Begun` lets begin in that order, and the refresh of
collateral one for each row. `Servable` is the condition under which the DAOs
return a row at all.

The transaction of `getRootCACrlFromPCS` is the only one that stays open across
a request to the PCS. `WriteChain` is its first write, which makes the request
`holder` of the write lock; what it has written is `draft` and `read` until
`StoreRoot` commits. Whoever is `Blocked` by it waits or gives up. When a root
certificate is cached, nothing is written before `StoreRoot`, which puts back
the certificate that was read in `QueryRoot`.

`v4` is `PCS_VERSION` 4; `Version3` are identities and TCB infos of version 3,
which a file can bring (`Put`), both kinds of server serve (`Routed`), and nobody
can fetch (`Askable`). `Renewable` is what a refresh asks for: cached PCK CRLs
and TCB infos of version 4, all identities of version 4, the root CA CRL, and
with `PCS_VERSION` 3 only the last. A cached item of version 3 stays as it is
while a refresh, or any miss, replaces the signing certificate it shares with
the others: it is then served under a certificate that did not sign it, for
good. `RefreshHeals` is about the other items, and a refresh by a server of
version 3 does not count as one (`alone`). `StoreCertificates` is the
transaction of `getPckCertFromPCS`, with the TCB infos and the signing chain it
stores along with the chain of the PCK certificates.

`Persist` is the transaction of a refresh, with `LastChains` for whose chain
the root certificate, and for which the signing certificate, is taken from in
the end: `persistEnclaveIdentities` stores the chain of one identity after all
other chains. `Put` takes a file of `Files`, which an administrator collected at
or before the present publication. `alone` and `healed` are history: a refresh
that nothing overlapped, with no publication and no file since.

### PckCertSelection

`CreateBuckets`, then `Place` for each certificate, then `Select`.
`createBucketsForCertificatesByTcb` sorts with a comparator that calls
incomparable levels equal; where levels are incomparable, the model takes any
order. `IndexToInsert` is where `findIndexToInsertCertIntoBucket` puts a
certificate, with the index that falls behind by one for each certificate that
is skipped as incomparable. `Lists` are the buckets in their order and then the
certificates that reach no level, and `FirstFit` is the search of
`selectBestPckCertFromTcbBuckets` through them.

### DatabaseStartup

Each script is a sequence of statements on the tables that scripts treat
differently; `work` is what the open transaction sees and `db` what is
durable. `Execute` makes a statement durable at once in script 00 and, with
MySQL, when it changes the schema or comes after one that did, which has ended
the transaction (`Autocommits`). The UPDATEs of the conversion in script 01 are
one statement (`Convert`): MySQL, where script 01 begins with an ALTER TABLE,
may be cut off between them, and then refuses the database at every start, as
the ALTER TABLE fails the second time. `CommitsFirst` is MySQL's commit *before*
such a statement; `Commit` and `Record` are apart, as umzug records a script
after it has committed.

The process is `proc`: *down* - (`Start`: `initializeApp`) - *migrating* and
*migrated* in turn for each script - *checked* or *refused* - (`Complete`: the
rest of `main`, which has no await) - *up* or *up, refused*. `Start` chooses a
setting, one for each way a configuration acts on the start: no `uri` (throws),
a `uri` that is not https (ends the logger and goes on), `init_db = false` (no
check), another server address, an unknown caching mode, no TLS key (both end
the logger and go on), no `RefreshSchedule` (`main` rejects after the server was
told to listen). `exiting` is the ended logger, whose 'finish' event brings
`process.exit` two seconds later (`Exit`). `Listen` is the callback of
`httpsServer.listen`, `ListenFails` its error, an uncaught exception that is
only logged (*deaf*). `Interrupt` is SIGINT, and `Crash` is possible anywhere.

### AppraisalPolicy

`Begin`, `Unset` (the UPDATE), `Store` (the upsert) and `Commit`; a policy's
key is its text. In MySQL the UPDATE scans and locks the whole table, unless
the table is empty, when two may pass each other and meet at their INSERTs.

## 4. Runs

| run | instance | shows |
|---|---|---|
| `refresh` | SQLite; a caller, the cron job, one handler; 1 platform, 1 TCB info, the root CRL; 2 publications; every server setting; fair | `TurnsInQueue`, `RefreshesTakeTurns`, `NeverRegress` beside a handler, `ImplementsFlights`, `EveryCallAnswered` |
| `refresh_coalesce` | MySQL; three callers; 1 platform with or without an entry, a TCB info of version 4 and one of version 3, 1 identity, the root CRL; 2 publications | `OneFlightPerKey`, `FlightsRegistered`, `FetchedIsNewest`, `ToldIsFresh`, `ImplementsFlights` with parallel transactions |
| `registration` | SQLite, all modes, 2 registrations, 3 POSTs, 2 GETs, any number of collections and PUTs, crashes, lost answers | `NoRegistrationLost`, `HandedOnce`, `NothingForgotten`, `ConfirmedIsCached` |
| `registration_mysql` | MySQL, 2 POSTs, 2 GETs | **violation**: a registration is lost |
| `cache` | LAZY and REQ, 3 requests of any kind, 2 TCBs, 4 publications that add, drop and withhold certificates, failures and crashes anywhere | `PresenceMeansCached`, `GetFindsCached`, `ServedFits`, `EntriesAreBest`, `RefreshRenews` |
| `cache_overlap` | the same, 3 publications | **violation**: `EntriesStayBest` |
| `chains` | both server versions; 2 requests of any kind, 3 in all, 2 identities of version 4 and one of version 3, 1 TCB info, a PCK CRL, the root CA CRL; a second publication under a new key and a new root; 5 files | `CheckedIsServable`, `RefreshHeals`, `ServableStays` |
| `startup` | both databases, any earlier layout, with and without rows, every setting, any number of crashes, interrupts and starts; fair | `ServesCurrentLayout`, `NoHalfMigration`, `CollateralKept`, `ConvertedOnce`, `StaysWhenUsable`, `Settles` |
| `startup_failed` | the same | **violation**: `ListensWhenChecked` |
| `policy` | MySQL, 3 PUTs, 2 texts, 2 FMSPCs | `OneDefault`, `UnsetsTheDefault` |
| `selection` | 3 certificates of 5 TCBs, up to 3 levels | `FoundIfOneFits`, `HighestLevel`, `HighestOfComparable` |
| `selection_order` | 4 certificates of 4 TCBs, one level | **violation**: `NoneBetterFits` |

### Bounds

* Two flights of one key, or of two keys, are enough for every race between
  flights; three callers let one flight land while another call arrives and
  starts the next. Two stamps tell "older" from "newer". One row of each kind
  suffices since rows of a kind are treated alike, and a second TCB info is there
  because one of version 3 is not. `refresh_coalesce` has no handler and no cron
  job, so its three callers are alike, and all its properties are safety
  properties: it uses their symmetry.
* `registration`: two registrations let a GET read one while another arrives;
  three POSTs let one be entered again after it was handed out. Calls and
  registrations are symmetric, and no property of these runs is temporal.
* `cache`: three requests are a GET between the two halves of a fill and a
  refresh; two TCBs make an entry change its certificate; the last publication
  is empty.
* `chains`: two requests at a time are a check or refresh and what overlaps it,
  a third one follows on what they left; with two identities one can fail while
  the other goes on, and one can be missing from a refresh; one rotation of key
  and root tells old chains from new. The files are complete ones of either
  publication, one with an identity of version 3, one without chains and one with
  chains of two roots.
* `startup`: no bound; the state space is finite and is explored whole. One
  setting is wrong at a time, a different one at each start.
* `policy`: SQLite's behaviours (one writer) are a part of MySQL's here.
* `selection`: two components are the least with incomparable TCBs, and three
  certificates meet with up to three levels in every order. `selection_order`
  needs four: one that is skipped, so that the index stays behind, one above the
  new certificate, which is counted, and one below it, at which the search ends;
  the new one is then put in front of the one above it. Of the TCBs (0,3),
  (3,0), (1,0), (2,0), placed in this order, (2,0) ends before (3,0), and is
  selected for a platform at (3,0). With three nothing is found.
* `MaxStamp`, `MaxCerts`, `MaxLevels` are the named bounds on counters and
  inputs.

Deadlock is checked in every run; `Rest` (or `Ended`) is the state in which all
calls have been answered. `DatabaseStartup` has no such state.

### Fairness

`FairSpec` has weak fairness of each flight, of each handler and of each
`Answer`. A PCS request ends, because `pcs_client.js` sets a timeout and a
retry limit; a database write ends, because SQLite's busy timeout and MySQL's
lock wait timeout and deadlock detection end the wait (the model has giving up
enabled wherever a write is blocked); the event loop runs a callback that is
ready. Nothing is assumed of callers or of the PCS's publications.

In `DatabaseStartup` `FairSpec` has weak fairness of `Progress`: statements of a
script end, `main` is resumed, the socket listens or fails, and the timer of the
logger fires. Nothing is assumed of `Start` (nobody has to start the server),
`Crash`, `Interrupt`, or of MySQL's early commits.

## 5. Where code and texts differ

Four runs end in a violation, each of something a text of the repository says;
`PROJECT.json` quotes them under "findings":

1. `GET /platforms` on MySQL marks registrations as handed out that it has not
   read (`platformsController.js:64`).
2. An overlap of a refresh with a fill leaves entries of `platform_tcbs` that
   were selected from the old certificates (`commonCacheLogic.js:191`).
3. A server whose initialization failed listens until the logger has been
   flushed and two seconds have passed (`pccs_server.js:89`,
   `healthService.js:7`).
4. `findIndexToInsertCertIntoBucket` loses count at an incomparable
   certificate (`pckCertSelection.js:100`).

Others were met while reading and are in the models without a run of their own:

* `PccsAdminTool/README.txt:65` offers refreshes of `all` and of a list of
  FMSPCs; `refreshController.js:47` refuses both (`Refused`).
* `cachingMode.js:227` wants to save 'Not available' TCBs in the registration
  queue, but gets objects without `tcb` (`commonCacheLogic.js:163`) and throws
  (`FetchSomeCerts`); no entry ever becomes `NOT_AVAILABLE`.
* A refresh that leaves rows out - platforms without an entry, collateral of
  version 3 - answers "ok" like any other (`FirstRows`, `Sure`); only the second
  is logged (`refreshService.js:378`). What becomes of items of version 3 under
  replaced signing certificates is described under IssuerChains.
* After a `PUT /platformcollateral` without a TCB info of the server's version,
  or without its chain, `GET /pckcert` refuses a platform that counts as cached
  (`SelectCert`).
* `refreshService.js:204` does not filter 'Not available' levels and rejects
  the refresh (`RefetchCerts`).
* `apputil.js:198` takes a database without a version row for one of PCCS v1.8
  or earlier; a crash between scripts 00 and 01 makes one too (`Start`).
* After the PCS has changed its signing key, an item that is still cached is
  served with the new certificate as soon as any other item brings it, until
  the next refresh (`ChainOf`; `RefreshHeals` says what holds after it).
* `commonCacheLogic.js:402` writes back the root certificate that was read
  before the CRL was downloaded, over one that was stored in between
  (`StoreRoot`); line 400 downloads with the write lock held when no root
  certificate was cached (`WriteChain`, `Blocked`).
* `pccsadmin get` asks whether to overwrite its list after the server has
  marked the registrations (`SaveList`, `Abort`); an answer that is lost has
  been taken from the queue (`LoseAnswer`). `NothingForgotten` says what
  remains true: nothing else forgets one, and a new `POST /platforms` enters it
  again.
* A port in use leaves a process that neither listens nor exits
  (`pccs_server.js:185`, `ListenFails`); without a `RefreshSchedule` a server
  listens for good, never refreshes and reports STARTING (`pccs_server.js:206`,
  `Complete`; `StaysWhenUsable` names the case).
* The refresh of collateral fails with an internal error while no root
  certificate is cached (`refreshService.js:318`, `RefetchRoot`).
* A policy text that is the default of one FMSPC and is uploaded for another
  moves (`appraisalPolicyDao.js:62`), and the first has no default any more
  (`Commit`).

## 6. Proofs

All theorems hold for every value of the constants that the named assumptions
of the modules admit; the proof modules extend the component's module, so that
TLC has evaluated the same assumptions.

* **RefreshServiceProofs.** The invariant `Registered` is `TypeOK`,
  `TurnsInQueue` and `FlightsRegistered`. `OneFlightPerKey` is not inductive by
  itself: that `Launch` finds no entry must mean that no flight of the key is
  in the air, which is `FlightsRegistered`. Types and turns go together, since
  the tail of the queue has a type only if the queue is not empty when a
  flight leaves it. `RefreshNeverRegresses` needs
  `FetchedIsNewest` as well: what a flight holds is of its key's rows, rows of
  different keys are disjoint (`KeysShareNoRow`), and a key has one flight, so
  no other commit of a refresh falls between a fetch and its commit. Handlers
  are no flights and may fetch and commit in any order, so both speak of the
  rows no handler fills (`Unfilled`), and the proof shows that what handlers do
  elsewhere, and a flight that holds rows of both sorts, does not matter to
  them: `NewestOf(S)` is preserved for any set of rows `S`, and `Unfilled` only
  shrinks, because a handler that has chosen its row keeps it. `TurnsInQueue`
  and `FetchedIsNewest` are theorems of their own.
* **RefreshFlightsProofs.** `RefreshService` implements `RefreshFlights` under
  the mapping of `ImplementsFlights`, with handlers and in both databases. The
  commit of a flight maps to `Store`, its failure to `Fail`, its `Land` to
  `Land`, and what it does before to stutters. `FlightInvariant` adds what the
  mapping needs: a flight has no outcome before it settles (`OutcomesWait`),
  callers wait for a flight of their own key (`RidersShareKey`), what a flight
  holds was fetched since it began (`FetchedSince`), what a handler stores it has
  fetched (`HandlersHold`), and a flight still has to write, or has written,
  every row that is due (`DueStays`), without which a success could leave one
  out. That rows of different tables are different is an assumption
  on the constants. `SuccessIsFresh` draws on all of it: the commit of a flight
  makes what was due as new as its beginning (`EndedFresh`, by `DueStays` and
  `FetchedSince`), no later flight makes it older (`RefreshNeverRegresses`),
  and what a caller is told is the outcome of the flight it waited for
  (`ToldOutcome`). Fresh means since the flight began, not since the call: who
  joins late is told "ok" for answers of the PCS from before it called. And it is
  said of what was due: the rows of section 3 that a refresh leaves out are not.
* **PlatformRegistrationProofs.** `QueueInvariant`: a GET that can still
  commit has read the queue as it is (`SnapshotFresh`, which is where SQLite is
  needed and MySQL fails), a POST is only as far as its registration has been
  brought (`PostsKeepUp`), every DELETED entry has a reason
  (`DeletedForReason`) and every hand-out an entry (`EntriesCounted`). For
  `NothingForgotten` each entered registration is accounted for in addition
  (`Accounted`): the step that takes it from one place puts it in another, and
  for the UPDATE this is `SnapshotFresh` again.
* **PckCertCacheProofs.** `CacheInvariant`: every set of certificates on its
  way to the table is a publication that is not empty (`OnItsWay`), so what is
  in the table is one (`CacheIsPublished`); a GET that found the platform
  cannot leave the path query, select, enter (`GetsGoOn`), and what is shared, the
  TCB info it has found included, stays (`SharedStays`). `TypesKept` needs
  what `Best` returns: a set of naturals that is not empty has a least element
  (well-founded induction) and, when it is bounded, a greatest one, so `Best`
  is in the set and fits (`BestFits`). `ServedFits` follows from `FromPcs`:
  what is in an entry, in a request's hands or in an answer was offered once
  and fits the TCB it is for. `EntriesAreBest` needs `InTurn`: without an
  overlap, what the one active request has read is what the cache holds.
  `RefreshRenews` needs that a refresh that is alone has the newest publication
  and has listed every entry there is.
* **IssuerChainsProofs.** `ChainInvariant` ties the place of each part to what
  it has and to the cache: parts hold what they are about to write (`Holding`),
  are where their kind of request takes them (`Kinds`), a check reaches the
  root CA CRL by way of the PCK CRL (`Checks`), and what is done is cached
  (`DoneIsCached`). The last needs that rows stay, which is proved first, one
  lemma per writer (`StepStays`); `Checks` is what rules out the path on which
  `getRootCACrlFromPCS` returns null to a check. `TypeOK` has two conjuncts
  that are more than types: no certificate is cached below a root that is not,
  and a request that holds the write lock has written a certificate, which
  `StoreRoot` then commits. `RefreshHeals` needs `HealInvariant` on top: a
  part that is over holds nothing and only the transaction of the root CA CRL
  stays open (`Quiet`), there is one refresh (`OneRefresh`), one that is alone
  has, or is about to fetch, every cached item but those of version 3 from the
  one publication (`Undisturbed`), and from then on rows (`RowsOfPcs`) and everything under way
  (`PartsOfPcs`), the uncommitted draft of the lock's holder included, are of
  that publication.
* **AppraisalPolicyProofs.** `PolicyInvariant`: a PUT that has stored is alone
  (`StoredAlone`), so what it unset is still all there is (`UnsetsTheDefault`),
  in both databases.
* **PckCertSelectionProofs.** For any components (the code has sixteen and
  PCESVN), certificates and levels. `SelectionInvariant`: every certificate
  placed so far is in a bucket or reaches no level (`AllPlaced`), in the first
  bucket it reaches (`InFirstReached`); a bucket is sorted if certificates can
  be compared (`CertsSorted`), and there is one for each level, in their order
  if levels can be compared (`BucketsOfLevels`). That the index that falls
  behind stays in its list is a bound on the number of those skipped
  (`Cardinality`); so a certificate lands at a wrong place but is never lost,
  and `FoundIfOneFits` holds for partial orders too. `Min` is the least element
  by well-founded induction.

* **DatabaseStartupProofs.** TLC explores `DatabaseStartup` whole, so the
  theorems add no instance; they add the reason why no crash does harm, in
  terms of the scripts. A script that was cut off starts again at its first
  statement on tables that any earlier attempt may have left, so the invariant
  has two layers. `Stable(had, n, d)` holds while script `n` is the next to be
  recorded, whatever part of it has run and however often: some table still has
  the collateral (`Kept`), the conversion has brought its column
  (`ConvertedWithColumn`, which makes a second one fail before it converts),
  and no tables or layouts but those of scripts `n - 1` and `n` are there
  (`TablesAt`). `Halfway(n, i, d)` says what this attempt has done before its
  statement `i` (`Rebuilt` for the create, copy, drop and rename of a table),
  which is why a DROP drops nothing that was not copied; it ends in `Done(n,
  d)`, of which follows `Stable` for the next script. `Stable` is needed of
  what is durable and of what the open transaction sees, as in MySQL the one
  becomes the other at every DDL statement. `Uniform`, with SQLite, is that only whole
  scripts become durable. `ProcessInvariant` ties the socket, the exit to come
  and the report of the start to the end of `main`. There is one lemma per kind
  of statement (`CreateIs` to `BaseIs`), one per script, and one for a step of
  the database and of the process each.

Only model-checked: liveness (`EveryCallAnswered`, `Settles`), as ENABLED and
fairness are beyond the prover.

## 7. Not modelled

Authentication, validation, headers, encodings, X.509 parsing, logging, TLS,
packaging, the keyring and the command line of the admin tool: they keep no
state between requests, or none that the properties are about. Durability of a
committed transaction is assumed, although SQLite runs with `synchronous =
NORMAL` (`dao/models/index.js:103`). Cached files and retries inside the HTTP
client library are its own matter; callers see one outcome.
