----------------------------- MODULE IssuerChains -----------------------------
(***************************************************************************)
(* The issuer chains of cached collateral: the rows of pcs_certificates,   *)
(* which all items share, and everything that writes them: the handlers of *)
(* GET /pckcrl, /tcb, /qe/identity, /rootcacrl and, on a miss, their fetch *)
(* (logic/commonCacheLogic.js); the check POST /platforms makes for        *)
(* collateral that is lacking (logic/qvCollateralLogic.js); the refresh of *)
(* collateral (refreshService.js); PUT /platformcollateral.                *)
(*                                                                         *)
(* An item has a row of its own and no chain of its own: it is served with *)
(* whatever signing (or intermediate) and root certificate are cached.  A  *)
(* row's content is the publication of the PCS it comes from; a            *)
(* certificate is the key it certifies, and 0 is NULL or no row.  One      *)
(* certification authority issues PCK CRLs.  A transaction is one step,    *)
(* but for the one that stays open across requests to the PCS.             *)
(***************************************************************************)
EXTENDS Naturals

CONSTANTS
    Requests,
    Identities, Tcbs,   \* rows of enclave_identities and of fmspc_tcbs
    Version3,   \* those of them that are of API version 3
    KeyOf,      \* the key that signs, of each publication of the PCS
    RootOf,     \* the root key above it, of each publication
    Files,      \* what PUT /platformcollateral may bring
    MaxStarts,  \* bound on the requests that start
    None

Items  == {"pckcrl"} \cup Identities \cup Tcbs
\* What a request fetches: an item, the root CA CRL, or PCK certificates,
\* which are not followed here beyond their issuer chain.
Things == Items \cup {"rootcacrl", "pckcert"}
Pubs   == DOMAIN KeyOf
Keys   == {0} \cup {KeyOf[n] : n \in Pubs}
Roots  == {0} \cup {RootOf[n] : n \in Pubs}

ASSUME ConstantsAssumption ==
    /\ Pubs \subseteq Nat \ {0} /\ 1 \in Pubs /\ DOMAIN RootOf = Pubs
    /\ \A n \in Pubs : KeyOf[n] \in Nat \ {0} /\ RootOf[n] \in Nat \ {0}
    /\ Files \subseteq [n : Pubs, items : SUBSET Items, crl : BOOLEAN,
                        chains : UNION {[C -> Pubs] : C \in SUBSET {"intermediate", "signing"}}]
    /\ MaxStarts \in Nat
    /\ None \notin Requests
    /\ Version3 \subseteq Identities \cup Tcbs
    /\ {"pckcrl", "rootcacrl", "pckcert"} \cap (Identities \cup Tcbs) = {}

VARIABLES
    mode,     \* CachingFillMode
    v4,       \* PCS_VERSION is 4 (otherwise 3)
    starts,   \* requests so far
    pcs,      \* the publication the PCS answers from
    item,     \* rows of pck_crl, enclave_identities and fmspc_tcbs
    signer,   \* the certificates of pcs_certificates below the root
    root,     \* its root certificate
    rootCrl,  \* the CRL in the row of the root certificate
    holder,   \* the request in an open transaction that has written
    draft,    \* the signing certificate it has written
    op,       \* what a request is
    out,      \* its outcome
    at,       \* where its part for a thing is
    got,      \* what it has fetched
    read,     \* the root certificate it has read
    alone,    \* nothing else has happened since the refresh, of more than
              \* the root CA CRL, began (history)
    healed    \* nor since it ended, but for handlers (history)

rows    == <<item, signer, root, rootCrl>>
request == <<op, out, at, got, read>>
locks   == <<holder, draft>>
vars    == <<mode, v4, starts, pcs, rows, locks, request, alone, healed>>

Nothing == [x \in Things |-> 0]

Init ==
    /\ mode \in {"LAZY", "REQ", "OFFLINE"}
    /\ v4 \in BOOLEAN
    /\ starts = 0
    /\ pcs = 1
    /\ item = [k \in Items |-> 0]
    /\ signer = [c \in {"intermediate", "signing"} |-> 0]
    /\ root = 0
    /\ rootCrl = 0
    /\ holder = None
    /\ draft = 0
    /\ op = [r \in Requests |-> "none"]
    /\ out = [r \in Requests |-> "ok"]
    /\ at = [r \in Requests |-> [x \in Things |-> "none"]]
    /\ got = [r \in Requests |-> Nothing]
    /\ read = [r \in Requests |-> 0]
    /\ alone = FALSE
    /\ healed = TRUE

-----------------------------------------------------------------------------
(* Requests and their parts.                                                *)

Over == {"none", "done"}

Idle(r) == \A x \in Things : at[r][x] \in Over

SignerOf(x) == IF x \in {"pckcrl", "pckcert"} THEN "intermediate" ELSE "signing"

\* The PCS is asked for nothing of version 3 any more, and by a server of that
\* version for nothing but the root CA CRL; such a server has no routes for
\* version 4.
Askable(x) == v4 /\ x \notin Version3
Routed(x)  == v4 \/ x \in Version3 \cup {"pckcrl", "rootcacrl"}

\* getPckCrl, getTcbInfo and getEnclaveIdentity of the DAOs take an item
\* without its chain for one that is not there.
Servable(k) == item[k] # 0 /\ signer[SignerOf(k)] # 0 /\ root # 0

\* checkQuoteVerificationCollateral awaits the PCK CRL, then all identities
\* together, then the root CA CRL.
Wave(x) == CASE x = "pckcrl" -> 1 [] x = "rootcacrl" -> 3 [] OTHER -> 2

AtOnce(r, x) == TRUE
Begun(r, x) ==
    \A y \in Things : Wave(y) < Wave(x) => at[r][y] \in Over \cup {"fetched"}

Goes(r, x, place, n) ==
    /\ at' = [at EXCEPT ![r][x] = place]
    /\ got' = [got EXCEPT ![r][x] = n]
    /\ UNCHANGED out

\* The part of r for x is done; with the last one r succeeds.
Ends(r, x) ==
    /\ at' = [at EXCEPT ![r][x] = "done"]
    /\ got' = [got EXCEPT ![r][x] = 0]
    /\ out' = [out EXCEPT ![r] =
                  IF @ = "open" /\ \A y \in Things \ {x} : at[r][y] \in Over THEN "ok" ELSE @]

\* It fails, and r with it.  Parts that are under way go on.
Fails(r, x) ==
    LET ended == {y \in Things : y = x \/ Wave(y) > Wave(x) \/ op[r] = "refresh"}
    IN  /\ at' = [at EXCEPT ![r] = [y \in Things |-> IF y \in ended THEN "none" ELSE @[y]]]
        /\ got' = [got EXCEPT ![r] = [y \in Things |-> IF y \in ended THEN 0 ELSE @[y]]]
        /\ out' = [out EXCEPT ![r] = "failed"]

\* A write meets the rows that another transaction has locked; it waits for
\* their release or gives up.
Blocked(r) == holder \notin {None, r}

Begins(r, kind) ==
    /\ Idle(r)
    /\ starts < MaxStarts
    /\ starts' = starts + 1
    /\ op' = [op EXCEPT ![r] = kind]

Start(r, kind, X, place) ==
    /\ Begins(r, kind)
    /\ out' = [out EXCEPT ![r] = "open"]
    /\ at' = [at EXCEPT ![r] = [x \in Things |-> IF x \in X THEN place ELSE "none"]]
    /\ got' = [got EXCEPT ![r] = Nothing]
    /\ read' = [read EXCEPT ![r] = 0]
    /\ alone' = (kind = "refresh" /\ v4 /\ \A q \in Requests : Idle(q))
    /\ UNCHANGED <<mode, v4, pcs, rows, locks, healed>>

Publish ==
    /\ pcs + 1 \in Pubs
    /\ pcs' = pcs + 1
    /\ alone' = FALSE
    /\ healed' = FALSE
    /\ UNCHANGED <<mode, v4, starts, rows, locks, request>>

-----------------------------------------------------------------------------
(* GET of an item, and POST /platforms.                                     *)

Get(r, x) == x # "pckcert" /\ Routed(x) /\ Start(r, "get", {x}, "query")

\* In OFFLINE mode POST /platforms does not look; else it looks for identities
\* of the server's version.
Check(r, I) ==
    /\ mode # "OFFLINE"
    /\ \A k \in I : k \in Version3 <=> ~v4
    /\ Start(r, "check", {"pckcrl", "rootcacrl"} \cup I, "query")

\* GET /pckcert, POST /platforms and the refresh of certificates.
FetchCertificates(r) == mode # "OFFLINE" /\ Start(r, "pckcert", {"pckcert"}, "fetch")

MayFetch(r) == mode = "LAZY" \/ op[r] = "check"

Query(r, k) ==
    /\ k # "rootcacrl" /\ at[r][k] = "query" /\ Begun(r, k)
    /\ \/ Servable(k) /\ Ends(r, k)
       \/ ~Servable(k) /\ MayFetch(r) /\ Goes(r, k, "fetch", 0)
       \/ ~Servable(k) /\ ~MayFetch(r) /\ Fails(r, k)
    /\ UNCHANGED <<mode, v4, starts, pcs, rows, locks, op, read, alone, healed>>

Fetch(r, x) ==
    /\ at[r][x] = "fetch"
    /\ (Askable(x) /\ Goes(r, x, "store", pcs)) \/ Fails(r, x)
    /\ UNCHANGED <<mode, v4, starts, pcs, rows, locks, op, read, alone, healed>>

\* upsertPcsCertchain splits a chain and writes both rows.
LeafOnly(n, c) ==
    /\ signer' = [signer EXCEPT ![c] = KeyOf[n]]
    /\ UNCHANGED root
ChainOf(n, c) ==
    /\ signer' = [signer EXCEPT ![c] = KeyOf[n]]
    /\ root' = RootOf[n]

\* The transaction of getPckCrlFromPCS, getTcbInfoFromPCS and
\* getEnclaveIdentityFromPCS.
Store(r, x) ==
    /\ x # "pckcert" /\ at[r][x] = "store"
    /\ \/ /\ ~Blocked(r)
          /\ item' = [k \in Items |-> IF k = x THEN got[r][x] ELSE item[k]]
          /\ ChainOf(got[r][x], SignerOf(x))
          /\ Ends(r, x)
       \/ /\ Blocked(r)
          /\ Fails(r, x)
          /\ UNCHANGED <<item, signer, root>>
    /\ UNCHANGED <<mode, v4, starts, pcs, rootCrl, locks, op, read, alone, healed>>

\* The certificates come with their chain.  getPckCertFromPCS has then asked for
\* the TCB infos T of the platform, which may be newer, and stores them and
\* their chain, last; the refresh of certificates stores none.
StoreCertificates(r) ==
    /\ at[r]["pckcert"] = "store"
    /\ \/ /\ ~Blocked(r)
          /\ \E T \in SUBSET (Tcbs \ Version3) :
             \E n \in {m \in Pubs : got[r]["pckcert"] <= m /\ m <= pcs} :
                 /\ item' = [k \in Items |-> IF k \in T THEN n ELSE item[k]]
                 /\ signer' = [signer EXCEPT !["intermediate"] = KeyOf[got[r]["pckcert"]],
                                            !["signing"] = IF T = {} THEN @ ELSE KeyOf[n]]
                 /\ root' = RootOf[IF T = {} THEN got[r]["pckcert"] ELSE n]
          /\ Ends(r, "pckcert")
       \/ /\ Blocked(r)
          /\ Fails(r, "pckcert")
          /\ UNCHANGED <<item, signer, root>>
    /\ UNCHANGED <<mode, v4, starts, pcs, rootCrl, locks, op, read, alone, healed>>

-----------------------------------------------------------------------------
(* The root CA CRL: getRootCaCrl and getRootCACrlFromPCS.                   *)

QueryRoot(r) ==
    /\ at[r]["rootcacrl"] = "query" /\ Begun(r, "rootcacrl")
    /\ read' = [read EXCEPT ![r] = root]
    /\ \/ rootCrl # 0 /\ Ends(r, "rootcacrl")
       \/ /\ rootCrl = 0 /\ MayFetch(r)
          /\ Goes(r, "rootcacrl", IF root = 0 THEN "ask" ELSE "download", 0)
       \/ rootCrl = 0 /\ ~MayFetch(r) /\ Fails(r, "rootcacrl")
    /\ UNCHANGED <<mode, v4, starts, pcs, rows, locks, op, alone, healed>>

\* Without a root certificate it takes the one in the chain of the QE identity.
\* When there is none it returns null, which GET /rootcacrl cannot encode, or
\* throws.
AskIdentity(r) ==
    /\ at[r]["rootcacrl"] = "ask"
    /\ \/ v4 /\ Goes(r, "rootcacrl", "chain", pcs)
       \/ IF op[r] = "get" THEN Fails(r, "rootcacrl") ELSE Ends(r, "rootcacrl")
    /\ UNCHANGED <<mode, v4, starts, pcs, rows, locks, op, read, alone, healed>>

\* The chain is written: its rows stay locked while the CRL is downloaded.
WriteChain(r) ==
    /\ at[r]["rootcacrl"] = "chain"
    /\ \/ /\ ~Blocked(r)
          /\ holder' = r
          /\ draft' = KeyOf[got[r]["rootcacrl"]]
          /\ read' = [read EXCEPT ![r] = RootOf[got[r]["rootcacrl"]]]
          /\ Goes(r, "rootcacrl", "download", 0)
       \/ /\ Blocked(r)
          /\ Fails(r, "rootcacrl")
          /\ UNCHANGED <<locks, read>>
    /\ UNCHANGED <<mode, v4, starts, pcs, rows, op, alone, healed>>

Releases(r) ==
    /\ holder' = IF holder = r THEN None ELSE holder
    /\ draft' = IF holder = r THEN 0 ELSE draft

Download(r) ==
    /\ at[r]["rootcacrl"] = "download"
    /\ \/ Goes(r, "rootcacrl", "store root", pcs) /\ UNCHANGED locks
       \/ Fails(r, "rootcacrl") /\ Releases(r)
    /\ UNCHANGED <<mode, v4, starts, pcs, rows, op, read, alone, healed>>

\* The root certificate is written back as it was read.
StoreRoot(r) ==
    /\ at[r]["rootcacrl"] = "store root"
    /\ \/ /\ ~Blocked(r)
          /\ rootCrl' = got[r]["rootcacrl"]
          /\ root' = read[r]
          /\ signer' = [signer EXCEPT !["signing"] = IF holder = r THEN draft ELSE @]
          /\ Ends(r, "rootcacrl")
       \/ /\ Blocked(r)
          /\ Fails(r, "rootcacrl")
          /\ UNCHANGED <<rootCrl, root, signer>>
    /\ Releases(r)
    /\ UNCHANGED <<mode, v4, starts, pcs, item, op, read, alone, healed>>

-----------------------------------------------------------------------------
(* The refresh of collateral, one at a time (RefreshService).               *)

\* fetchAllPckCrls and fetchAllTcbs ask for what is cached, the TCB infos of
\* version 3 left out, fetchEnclaveIdentities for all identities of version 4.
Everything == {k \in Items : item[k] # 0} \cup Identities \cup {"rootcacrl"}
Renewable  == {k \in Everything : k = "rootcacrl" \/ Askable(k)}

Refresh(r) ==
    /\ mode # "OFFLINE"
    /\ \A q \in Requests : op[q] = "refresh" => Idle(q)
    /\ Start(r, "refresh", Renewable, "refetch")

\* An identity without a usable answer is left as it is.
Refetch(r, k) ==
    /\ k # "rootcacrl" /\ at[r][k] = "refetch"
    /\ \/ Goes(r, k, "fetched", pcs) /\ UNCHANGED alone
       \/ Fails(r, k) /\ UNCHANGED alone
       \/ /\ k \in Identities
          /\ Goes(r, k, "fetched", 0)
          /\ alone' = (alone /\ item[k] = 0)
    /\ UNCHANGED <<mode, v4, starts, pcs, rows, locks, op, read, healed>>

RefetchRoot(r) ==
    /\ at[r]["rootcacrl"] = "refetch"
    /\ \A k \in Items : at[r][k] \in {"none", "fetched"}
    /\ \/ root # 0 /\ Goes(r, "rootcacrl", "fetched", pcs)
       \/ Fails(r, "rootcacrl")
    /\ UNCHANGED <<mode, v4, starts, pcs, rows, locks, op, read, alone, healed>>

Fetched(r, K) == {got[r][k] : k \in K} \ {0}

\* Whose chain comes last: that of an identity, if any could be fetched.
LastChains(r) ==
    IF Fetched(r, Identities) # {} THEN Fetched(r, Identities)
    ELSE IF Fetched(r, Tcbs) # {} THEN Fetched(r, Tcbs)
    ELSE Fetched(r, {"pckcrl"})

RootRenewed(r) ==
    \E n \in LastChains(r) : root' = RootOf[n] /\ UNCHANGED signer
Renewed(r) ==
    LET signing == Fetched(r, Identities \cup Tcbs) # {}
    IN  \E n \in LastChains(r) :
            /\ root' = RootOf[n]
            /\ signer' = [c \in DOMAIN signer |->
                   IF c = "signing" /\ signing THEN KeyOf[n]
                   ELSE IF c = "intermediate" /\ got[r]["pckcrl"] # 0 THEN KeyOf[got[r]["pckcrl"]]
                   ELSE signer[c]]

\* persistAllPckCrls, persistAllTcbs, persistEnclaveIdentities and
\* persistRootcaCrl, in one transaction.
Persist(r) ==
    /\ at[r]["rootcacrl"] = "fetched"
    /\ \/ /\ ~Blocked(r)
          /\ item' = [k \in Items |-> IF got[r][k] # 0 THEN got[r][k] ELSE item[k]]
          /\ IF LastChains(r) # {} THEN Renewed(r) ELSE UNCHANGED <<signer, root>>
          /\ rootCrl' = got[r]["rootcacrl"]
          /\ at' = [at EXCEPT ![r] = [x \in Things |-> "none"]]
          /\ got' = [got EXCEPT ![r] = Nothing]
          /\ out' = [out EXCEPT ![r] = "ok"]
          /\ healed' = (healed \/ (alone /\ LastChains(r) # {}))
       \/ /\ Blocked(r)
          /\ Fails(r, "rootcacrl")
          /\ UNCHANGED <<rows, healed>>
    /\ UNCHANGED <<mode, v4, starts, pcs, locks, op, read, alone>>

-----------------------------------------------------------------------------
(* PUT /platformcollateral with what an administrator fetched once.         *)

\* verifyCertChain compares the roots of the chains in the file.
OneRoot(chains) == \A c, d \in DOMAIN chains : RootOf[chains[c]] = RootOf[chains[d]]

RootOrNull(chains) == IF DOMAIN chains = {} THEN 0 ELSE RootOf[chains[CHOOSE c \in DOMAIN chains : TRUE]]
NewRoot(chains) == IF DOMAIN chains = {} THEN root ELSE RootOf[chains[CHOOSE c \in DOMAIN chains : TRUE]]

\* A file has items, and perhaps the root CA CRL, of publication n, and any of
\* the chains.
Put(r, f) ==
    /\ Begins(r, "put")
    /\ \A k \in f.items : Routed(k)
    /\ f.n <= pcs /\ \A c \in DOMAIN f.chains : f.chains[c] <= pcs
    /\ \/ /\ ~Blocked(r) /\ OneRoot(f.chains)
          /\ item' = [k \in Items |-> IF k \in f.items THEN f.n ELSE item[k]]
          /\ signer' = [c \in DOMAIN signer |->
                          IF c \in DOMAIN f.chains THEN KeyOf[f.chains[c]] ELSE signer[c]]
          /\ root' = NewRoot(f.chains)
          /\ rootCrl' = IF f.crl THEN f.n ELSE rootCrl
          /\ out' = [out EXCEPT ![r] = "ok"]
       \/ /\ Blocked(r) \/ ~OneRoot(f.chains)
          /\ UNCHANGED rows
          /\ out' = [out EXCEPT ![r] = "failed"]
    /\ alone' = FALSE
    /\ healed' = FALSE
    /\ UNCHANGED <<mode, v4, pcs, locks, at, got, read>>

-----------------------------------------------------------------------------
Continue(r) ==
    \/ \E x \in Things : Query(r, x) \/ Fetch(r, x) \/ Store(r, x) \/ Refetch(r, x)
    \/ StoreCertificates(r) \/ QueryRoot(r) \/ AskIdentity(r) \/ WriteChain(r) \/ Download(r) \/ StoreRoot(r)
    \/ RefetchRoot(r) \/ Persist(r)

Rest == starts = MaxStarts /\ (\A r \in Requests : Idle(r)) /\ UNCHANGED vars

Next ==
    \/ Publish
    \/ \E r \in Requests :
           \/ \E x \in Things : Get(r, x)
           \/ \E I \in SUBSET Identities \ {{}} : Check(r, I)
           \/ FetchCertificates(r) \/ Refresh(r) \/ Continue(r)
           \/ \E f \in Files : Put(r, f)
    \/ Rest

Spec == Init /\ [][Next]_vars

-----------------------------------------------------------------------------
(* Properties.                                                              *)

Places == Over \cup {"query", "fetch", "store", "ask", "chain", "download", "store root",
                     "refetch", "fetched"}

TypeOK ==
    /\ mode \in {"LAZY", "REQ", "OFFLINE"}
    /\ v4 \in BOOLEAN
    /\ starts \in 0..MaxStarts
    /\ pcs \in Pubs
    /\ item \in [Items -> Pubs \cup {0}]
    /\ signer \in [{"intermediate", "signing"} -> Keys]
    /\ root \in Roots
    /\ root = 0 => \A c \in DOMAIN signer : signer[c] = 0
    /\ rootCrl \in Pubs \cup {0}
    /\ holder \in Requests \cup {None}
    /\ draft \in Keys
    /\ holder = None <=> draft = 0
    /\ op \in [Requests -> {"none", "get", "check", "pckcert", "refresh", "put"}]
    /\ out \in [Requests -> {"open", "ok", "failed"}]
    /\ at \in [Requests -> [Things -> Places]]
    /\ got \in [Requests -> [Things -> Pubs \cup {0}]]
    /\ read \in [Requests -> Roots]
    /\ {alone, healed} \subseteq BOOLEAN

\* POST /platforms says that a platform is ready when its collateral is: when
\* the check has ended well, every item it was asked for is served without the
\* PCS, and is from then on, whatever other requests do.
CheckedIsServable ==
    \A r \in Requests :
        op[r] = "check" /\ out[r] = "ok" =>
            /\ rootCrl # 0
            /\ \A x \in Items : at[r][x] = "done" => Servable(x)

\* An item that is served from the cache does not drop out of it: no failure,
\* incomplete file or overlap takes a row or one of its certificates away.
ServableStays == [][\A k \in Items : Servable(k) => Servable(k)']_vars

\* After a refresh that nothing disturbed every item, but those of version 3, is
\* served with the chain it is signed under, and the root CA CRL is of the root
\* certificate, whatever keys came before; what misses the cache later keeps it
\* so, until the PCS publishes again or an administrator loads a file.
RefreshHeals ==
    healed => /\ \A k \in Items \ Version3 :
                     Servable(k) => /\ signer[SignerOf(k)] = KeyOf[item[k]]
                                    /\ root = RootOf[item[k]]
              /\ rootCrl # 0 /\ root # 0 => root = RootOf[rootCrl]
=============================================================================
