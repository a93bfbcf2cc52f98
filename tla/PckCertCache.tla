---------------------------- MODULE PckCertCache ----------------------------
(***************************************************************************)
(* The PCK certificates of one platform in the cache, in the tables        *)
(* platforms, pck_cert and platform_tcbs, under everything that writes     *)
(* them: GET /pckcert (services/pckcertService.js), the fetch it and       *)
(* POST /platforms fall back to (getPckCertFromPCS of                      *)
(* logic/commonCacheLogic.js), the refresh of certificates                 *)
(* (refreshService.js) and PUT /platformcollateral                         *)
(* (platformCollateralService.js).                                         *)
(*                                                                         *)
(* TCBs are numbers, so any two are comparable and selectBestPckCert takes *)
(* the highest certificate that is not above the raw TCB (PckCertSelection *)
(* has the general case); a certificate is its TCBM.  An entry of          *)
(* platform_tcbs maps a raw TCB to a TCBM.  A request runs from one await  *)
(* on the database or the PCS to the next; a transaction, which other      *)
(* requests see all or nothing of, is one step.  At each of these awaits   *)
(* it may fail, and the process may crash: the tables stay as they are.    *)
(***************************************************************************)
EXTENDS Naturals, FiniteSetsExt

CONSTANTS
    Requests,
    Tcbs,        \* TCBs, positive numbers; 0 stands for none
    Offered,     \* the TCBMs the PCS has certificates for, of each publication
    Withheld     \* the TCB levels it answers 'Not available' for

ASSUME ConstantsAssumption ==
    /\ Tcbs \subseteq Nat \ {0}
    /\ DOMAIN Offered = DOMAIN Withheld /\ 1 \in DOMAIN Offered
    /\ \A n \in DOMAIN Offered : Offered[n] \subseteq Tcbs /\ Withheld[n] \subseteq Tcbs

VARIABLES
    lazy,      \* CachingFillMode is LAZY (otherwise REQ)
    pcs,       \* the publication the PCS answers from
    platform,  \* the platform has a row in platforms
    certs,     \* its rows in pck_cert
    tcbm,      \* its rows in platform_tcbs, 0 is no row
    shared,    \* what is cached of the collateral it shares with others
    op,        \* what a request is
    step,      \* where it is
    raw,       \* the raw TCB it names, 0 is none
    got,       \* the certificates it has read or fetched
    lacking,   \* the PCS answered it 'Not available' for some level
    listed,    \* the raw TCBs it read from platform_tcbs
    answer,    \* the TCBM of its response
    known,     \* the platform and a TCB info for it were cached when it
               \* started (history)
    overlapped,\* two requests were under way together (history)
    alone,     \* nothing has begun or been published since the refresh under
               \* way started, nor was anything under way then (history)
    renewed    \* such a refresh has ended, and nothing was published and no
               \* file put since (history)

rows    == <<platform, certs, tcbm, shared>>
request == <<op, step, raw, got, lacking, listed, answer, known>>
history == <<overlapped, alone, renewed>>
vars    == <<lazy, pcs, rows, request, history>>

\* Shared collateral, none of which is ever removed: a TCB info of the server's
\* PCS_VERSION that can be served, with its signing chain; the row of
\* pck_certchain of the platform's CA; and the certificates of that CA.
Shared == {"tcbInfo", "certchain", "caCerts"}

Init ==
    /\ lazy \in BOOLEAN
    /\ pcs = 1
    /\ platform = FALSE
    /\ certs = {}
    /\ tcbm = [t \in Tcbs |-> 0]
    /\ shared = {}
    /\ op = [r \in Requests |-> "none"]
    /\ step = [r \in Requests |-> "idle"]
    /\ raw = [r \in Requests |-> 0]
    /\ got = [r \in Requests |-> {}]
    /\ lacking = [r \in Requests |-> FALSE]
    /\ listed = [r \in Requests |-> {}]
    /\ answer = [r \in Requests |-> 0]
    /\ known = [r \in Requests |-> FALSE]
    /\ overlapped = FALSE
    /\ alone = FALSE
    /\ renewed = FALSE

-----------------------------------------------------------------------------
Ended  == {"ok", "noData", "unknown", "failed", "rejected"}
Places == Ended \cup {"idle", "query", "select", "enter", "fetch", "list", "store", "add",
                      "refetch", "persist"}

Active == {r \in Requests : step[r] \notin Ended \cup {"idle"}}

Go(r, place) == step' = [step EXCEPT ![r] = place]

\* selectBestPckCert for comparable TCBs; 0 when it throws.
HighestCert(C, t) == IF C = {} THEN 0 ELSE Max(C)
Best(C, t) == IF \E c \in C : c <= t THEN Max({c \in C : c <= t}) ELSE 0

\* The entries of platform_tcbs selected again, for the raw TCBs T, from C.
Entries(C, T) == [t \in Tcbs |-> IF t \in T THEN Best(C, t) ELSE 0]

CachedTcbs == {t \in Tcbs : tcbm[t] # 0}

Begin(r) ==
    /\ step[r] = "idle"
    /\ overlapped' = (overlapped \/ Active # {})

Start(r, kind, t, place) ==
    /\ Begin(r)
    /\ alone' = FALSE
    /\ op' = [op EXCEPT ![r] = kind]
    /\ raw' = [raw EXCEPT ![r] = t]
    /\ known' = [known EXCEPT ![r] = platform /\ "tcbInfo" \in shared]
    /\ Go(r, place)
    /\ UNCHANGED <<lazy, pcs, renewed, rows, got, lacking, listed, answer>>

Publish ==
    /\ pcs + 1 \in DOMAIN Offered
    /\ pcs' = pcs + 1
    /\ alone' = FALSE /\ renewed' = FALSE
    /\ UNCHANGED <<lazy, overlapped, rows, request>>

\* Requests for other collateral, or for other platforms, store what this one
\* needs as well (IssuerChains).
OthersCache(c) ==
    /\ c \in {"tcbInfo", "caCerts"} \ shared
    /\ shared' = shared \cup {c}
    /\ UNCHANGED <<lazy, pcs, platform, certs, tcbm, request, history>>

-----------------------------------------------------------------------------
(* GET /pckcert.                                                            *)

\* The row of platforms decides: a platform that has one is taken to be cached.
\* Without one LAZY asks the PCS, the other modes do not know the platform.
GetPckCert(r, t) ==
    Start(r, "get", t, IF platform THEN "query" ELSE IF lazy THEN "fetch" ELSE "unknown")

\* pckcertDao.getCert joins platform_tcbs, pck_cert and pck_certchain in one
\* query, and returns nothing without the certificates of the chain.
IsServable(t) == tcbm[t] \in certs /\ {"certchain", "caCerts"} \subseteq shared

QueryCert(r) ==
    /\ step[r] = "query"
    /\ \/ /\ IsServable(raw[r])
          /\ answer' = [answer EXCEPT ![r] = tcbm[raw[r]]]
          /\ Go(r, "ok")
       \/ /\ ~IsServable(raw[r])
          /\ UNCHANGED answer
          /\ Go(r, "select")
    /\ UNCHANGED <<lazy, history, pcs, rows, op, raw, got, lacking, listed, known>>

\* pckCertSelection reads the certificates, the TCB info and the row of the
\* chain, and selects a certificate ...
SelectCert(r) ==
    /\ step[r] = "select"
    /\ got' = [got EXCEPT ![r] = certs]
    /\ Go(r, IF Best(certs, raw[r]) # 0 /\ {"tcbInfo", "certchain"} \subseteq shared
             THEN "enter" ELSE "noData")
    /\ UNCHANGED <<lazy, history, pcs, rows, op, raw, lacking, listed, answer, known>>

\* ... and, further awaits later, enters it for the new raw TCB.
EnterTcb(r) ==
    /\ step[r] = "enter"
    /\ tcbm' = [tcbm EXCEPT ![raw[r]] = Best(got[r], raw[r])]
    /\ answer' = [answer EXCEPT ![r] = Best(got[r], raw[r])]
    /\ Go(r, "ok")
    /\ UNCHANGED <<lazy, history, pcs, platform, certs, shared, op, raw, got, lacking, listed,
                   known>>

-----------------------------------------------------------------------------
(* getPckCertFromPCS, of a GET that missed or of POST /platforms.           *)

\* checkPCKCertCacheStatus: a raw TCB needs a certificate, a manifest (t is 0
\* then) has to be the one the platform has.
IsCached(t, sameManifest) == platform /\ IF t = 0 THEN sameManifest ELSE IsServable(t)

Register(r, t, sameManifest) ==
    Start(r, "register", t, IF IsCached(t, sameManifest) THEN "ok" ELSE "fetch")

AnyUsable(C) == TRUE
Usable(C)    == C # {}

\* filterPckCerts: the certificates of the answer, without its 'Not available'
\* levels.
Unfiltered == Offered[pcs] \cup {0 : t \in Withheld[pcs]}
Available  == Offered[pcs]

\* REQ throws at an answer with 'Not available' levels.
FetchCerts(r) ==
    /\ step[r] = "fetch"
    /\ got' = [got EXCEPT ![r] = Available]
    /\ lacking' = [lacking EXCEPT ![r] = Withheld[pcs] # {}]
    /\ Go(r, IF Withheld[pcs] # {} /\ ~lazy THEN "rejected"
             ELSE IF Usable(Available) THEN "list" ELSE "noData")
    /\ UNCHANGED <<lazy, history, pcs, rows, op, raw, listed, answer, known>>

FetchFails(r) ==
    /\ step[r] \in {"fetch", "refetch"}
    /\ Go(r, "failed")
    /\ UNCHANGED <<lazy, history, pcs, rows, op, raw, got, lacking, listed, answer, known>>

\* "Before we flush the caching database, get current raw TCBs".
ListAndFlush(r) ==
    /\ step[r] = "list"
    /\ listed' = [listed EXCEPT ![r] = CachedTcbs]
    /\ certs' = {}
    /\ Go(r, "store")
    /\ UNCHANGED <<lazy, history, pcs, platform, tcbm, shared, op, raw, got, lacking, answer,
                   known>>

ListTcbs(r) ==
    /\ step[r] = "list"
    /\ listed' = [listed EXCEPT ![r] = CachedTcbs]
    /\ Go(r, "store")
    /\ UNCHANGED <<lazy, history, pcs, rows, op, raw, got, lacking, answer, known>>

\* The transaction: platform, certificates and entries are replaced and the
\* shared collateral is stored, unless one of the raw TCBs has no certificate
\* any more.
StoreCerts(r) ==
    /\ step[r] = "store"
    /\ \/ /\ \A t \in listed[r] : Best(got[r], t) # 0
          /\ platform' = TRUE
          /\ certs' = got[r]
          /\ tcbm' = Entries(got[r], listed[r])
          /\ shared' = Shared
          /\ Go(r, IF raw[r] = 0 THEN "ok" ELSE "add")
       \/ /\ \E t \in listed[r] : Best(got[r], t) = 0
          /\ UNCHANGED rows
          /\ Go(r, "noData")
    /\ UNCHANGED <<lazy, history, pcs, op, raw, got, lacking, listed, answer, known>>

\* The raw TCB of the request is entered after the transaction, except in
\* LAZY mode when certificates were not available.
AddTcb(r) ==
    /\ step[r] = "add"
    /\ tcbm' = IF Best(got[r], raw[r]) = 0 \/ (lazy /\ lacking[r]) THEN tcbm
               ELSE [tcbm EXCEPT ![raw[r]] = Best(got[r], raw[r])]
    /\ answer' = [answer EXCEPT ![r] = Best(got[r], raw[r])]
    /\ Go(r, IF Best(got[r], raw[r]) = 0 THEN "noData" ELSE "ok")
    /\ UNCHANGED <<lazy, history, pcs, platform, certs, shared, op, raw, got, lacking, listed,
                   known>>

-----------------------------------------------------------------------------
(* The refresh of certificates, one at a time (RefreshService): a platform  *)
(* without entries has nothing to refresh.                                  *)

Refresh(r) ==
    /\ \A q \in Active : op[q] # "refresh"
    /\ Begin(r)
    /\ alone' = (Active = {})
    /\ op' = [op EXCEPT ![r] = "refresh"]
    /\ listed' = [listed EXCEPT ![r] = IF platform THEN CachedTcbs ELSE {}]
    /\ Go(r, IF platform /\ CachedTcbs # {} THEN "refetch" ELSE "ok")
    /\ UNCHANGED <<lazy, pcs, renewed, rows, raw, got, lacking, answer, known>>

\* Here 'Not available' levels are not taken out: they do not parse.
RefetchCerts(r) ==
    /\ step[r] = "refetch"
    /\ got' = [got EXCEPT ![r] = Offered[pcs]]
    /\ lacking' = [lacking EXCEPT ![r] = Withheld[pcs] # {}]
    /\ Go(r, IF Withheld[pcs] = {} /\ \A t \in listed[r] : Best(Offered[pcs], t) # 0
             THEN "persist" ELSE "rejected")
    /\ UNCHANGED <<lazy, history, pcs, rows, op, raw, listed, answer, known>>

\* persistAllPckcerts, in the transaction of the refresh; the PCS may send the
\* certificates without their chain.
CertsOnly(r) == tcbm
Reselected(r) == [t \in Tcbs |-> IF t \in listed[r] THEN Best(got[r], t) ELSE tcbm[t]]

PersistCerts(r) ==
    /\ step[r] = "persist"
    /\ certs' = got[r]
    /\ tcbm' = Reselected(r)
    /\ shared' \in {shared, shared \cup {"certchain", "caCerts"}}
    /\ renewed' = (renewed \/ alone)
    /\ Go(r, "ok")
    /\ UNCHANGED <<lazy, overlapped, alone, pcs, platform, op, raw, got, lacking, listed,
                   answer, known>>

-----------------------------------------------------------------------------
(* PUT /platformcollateral with what the administrator once fetched.        *)

\* processPckCert in the transaction of addPlatformCollateral: the file holds
\* certificates C; named says that its list of platforms has this one, with
\* the raw TCBs T.  Its TCB infos may be of another version than the server's,
\* and its chains may be missing; the row of pck_certchain is always stored.
PutCollateral(r, C, named, T) ==
    /\ Begin(r)
    /\ alone' = FALSE /\ renewed' = FALSE
    /\ T # {} => named
    /\ op' = [op EXCEPT ![r] = "put"]
    /\ got' = [got EXCEPT ![r] = C]
    /\ \/ /\ Usable(C) /\ \A t \in CachedTcbs \cup T : Best(C, t) # 0
          /\ platform' = (platform \/ named)
          /\ certs' = C
          /\ tcbm' = Entries(C, CachedTcbs \cup T)
          /\ shared' \in {shared \cup {"certchain"} \cup S : S \in SUBSET {"tcbInfo", "caCerts"}}
          /\ Go(r, "ok")
       \/ /\ ~Usable(C) \/ \E t \in CachedTcbs \cup T : Best(C, t) = 0
          /\ UNCHANGED rows
          /\ Go(r, "rejected")
    /\ UNCHANGED <<lazy, pcs, raw, lacking, listed, answer, known>>

-----------------------------------------------------------------------------
(* Failures.                                                                *)

\* The database gives a query or a transaction up (a lock timeout, a deadlock,
\* a lost connection), which is then without effect; what a request has stored
\* in earlier transactions stays.
DatabaseFails(r) ==
    /\ step[r] \in {"query", "select", "enter", "list", "store", "add", "persist"}
    /\ Go(r, "failed")
    /\ UNCHANGED <<lazy, history, pcs, rows, op, raw, got, lacking, listed, answer, known>>

\* The process dies with all requests that are under way, and is started again.
Crash ==
    /\ Active # {}
    /\ step' = [r \in Requests |-> IF r \in Active THEN "failed" ELSE step[r]]
    /\ UNCHANGED <<lazy, history, pcs, rows, op, raw, got, lacking, listed, answer, known>>

-----------------------------------------------------------------------------
Continue(r) ==
    \/ QueryCert(r) \/ SelectCert(r) \/ EnterTcb(r)
    \/ FetchCerts(r) \/ FetchFails(r) \/ ListTcbs(r) \/ StoreCerts(r) \/ AddTcb(r)
    \/ RefetchCerts(r) \/ PersistCerts(r) \/ DatabaseFails(r)

Rest == (\A r \in Requests : step[r] \in Ended) /\ UNCHANGED vars

Next ==
    \/ Publish \/ \E c \in Shared : OthersCache(c)
    \/ \E r \in Requests, t \in Tcbs : GetPckCert(r, t)
    \/ \E r \in Requests, t \in Tcbs \cup {0}, sameManifest \in BOOLEAN :
           Register(r, t, sameManifest)
    \/ \E r \in Requests : Refresh(r) \/ Continue(r)
    \/ Crash
    \/ \E r \in Requests, n \in 1..pcs, named \in BOOLEAN, T \in SUBSET Tcbs :
           PutCollateral(r, Offered[n], named, T)
    \/ Rest

Spec == Init /\ [][Next]_vars

-----------------------------------------------------------------------------
(* Properties.                                                              *)

TypeOK ==
    /\ lazy \in BOOLEAN /\ overlapped \in BOOLEAN
    /\ alone \in BOOLEAN /\ renewed \in BOOLEAN
    /\ platform \in BOOLEAN
    /\ pcs \in DOMAIN Offered
    /\ certs \subseteq Tcbs
    /\ tcbm \in [Tcbs -> Tcbs \cup {0}]
    /\ shared \subseteq Shared
    /\ op \in [Requests -> {"none", "get", "register", "refresh", "put"}]
    /\ step \in [Requests -> Places]
    /\ raw \in [Requests -> Tcbs \cup {0}]
    /\ got \in [Requests -> SUBSET Tcbs]
    /\ lacking \in [Requests -> BOOLEAN]
    /\ listed \in [Requests -> SUBSET Tcbs]
    /\ answer \in [Requests -> Tcbs \cup {0}]
    /\ known \in [Requests -> BOOLEAN]

\* pckcertService.js relies on it ("Always treat presence of platform record
\* as platform collateral is cached"): no failure, empty answer or overlap of
\* requests leaves a platform's row without any certificate, or without the row
\* of its chain.
PresenceMeansCached == platform => certs # {} /\ "certchain" \in shared

\* A GET for a platform that was cached when it started, and a TCB info to
\* select by, is never answered that there is no data, if every publication of
\* the PCS so far has a certificate that fits: no other request, failed ones and
\* ones a crash has cut off included, shows it the tables half replaced, and an
\* entry whose certificate is gone is selected again.
GetFindsCached ==
    \A r \in Requests :
        op[r] = "get" /\ known[r] /\ (\A n \in 1..pcs : Best(Offered[n], raw[r]) # 0)
            => step[r] \notin {"noData", "unknown", "rejected"}

\* However old the entry it comes from, a served certificate is not above the
\* TCB of the platform, and is one the PCS has offered.
ServedFits ==
    \A r \in Requests :
        answer[r] # 0 => answer[r] <= raw[r] /\ \E n \in 1..pcs : answer[r] \in Offered[n]

\* "We need to re-run PCK cert selection tool for existing raw TCB levels due
\* to certs change" (commonCacheLogic.js): while no request is under way, an
\* entry whose certificate is cached names the best certificate cached ...
EntriesStayBest ==
    Active = {} =>
        \A t \in CachedTcbs : tcbm[t] \in certs => tcbm[t] = Best(certs, t)

\* ... which holds as long as requests come one after the other, whichever of
\* the four they are, whatever the PCS publishes, withholds or fails to answer.
EntriesAreBest == ~overlapped => EntriesStayBest

\* What overlapping fills may leave behind, certificates of an older publication
\* or entries selected from them, lasts until the next refresh only: after a
\* refresh that nothing overlapped the cache holds the newest publication and
\* every entry is the best of it, and no request that follows, fails or is cut
\* off changes that until the PCS publishes or a file is put.
RefreshRenews ==
    renewed => /\ platform /\ certs = Offered[pcs]
               /\ \A t \in CachedTcbs : tcbm[t] = Best(certs, t)
=============================================================================
