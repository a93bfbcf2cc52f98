------------------------- MODULE PckCertCacheProofs -------------------------
(***************************************************************************)
(* For any number of requests, TCBs and publications, and any certificates *)
(* in them: what the row of platforms promises, which certificates the     *)
(* entries of a platform name, and what a GET serves.                      *)
(*                                                                         *)
(* First, with failures, crashes and overlaps: whatever is on its way into *)
(* pck_cert is a publication that holds some certificate (OnItsWay), and   *)
(* how far a GET of a cached platform can be (GetsGoOn).  Then what Best   *)
(* selects (BestFits); what a request that runs alone has read still being *)
(* true when it writes (InTurn); and everything that is on its way being   *)
(* the newest publication once a refresh renewed the cache (Renewed).      *)
(***************************************************************************)
EXTENDS PckCertCache, TLAPS, WellFoundedInduction

Publications == {Offered[n] : n \in 1..pcs} \ {{}}

\* What the proofs need of the types.
Shape ==
    /\ pcs \in Nat \ {0} /\ pcs \in DOMAIN Offered
    /\ 1..pcs \subseteq DOMAIN Offered
    /\ DOMAIN op = Requests
    /\ DOMAIN step = Requests
    /\ DOMAIN raw = Requests
    /\ DOMAIN got = Requests
    /\ DOMAIN listed = Requests
    /\ DOMAIN known = Requests

CacheIsPublished == platform => certs \in Publications

OnItsWay ==
    \A r \in Requests :
        /\ step[r] \in {"list", "store", "persist"} => got[r] \in Publications
        /\ step[r] \in {"refetch", "persist"} => listed[r] # {} /\ platform

GetsGoOn ==
    \A r \in Requests :
        /\ step[r] \in {"query", "select", "enter"} => op[r] = "get" /\ platform
        /\ op[r] = "get" /\ known[r] =>
              /\ step[r] \in {"idle", "query", "select", "enter", "ok", "noData", "failed"}
              /\ step[r] = "noData" =>
                     \E n \in 1..pcs : Best(Offered[n], raw[r]) = 0
        /\ step[r] = "idle" => op[r] = "none"

\* What is shared stays: the chain of a platform that is cached, and the TCB
\* info a GET has found.
SharedStays ==
    /\ shared \subseteq Shared
    /\ platform => "certchain" \in shared
    /\ \A r \in Requests : known[r] => "tcbInfo" \in shared

CacheInvariant == Shape /\ CacheIsPublished /\ OnItsWay /\ GetsGoOn /\ SharedStays

\* A certificate that fits comes from a set that is not empty.
LEMMA BestIsSome == ASSUME NEW C, NEW t, Best(C, t) # 0 PROVE C # {}
  BY DEF Best

\* Every step keeps the types.
LEMMA ShapeStep == ConstantsAssumption /\ Shape /\ [Next]_vars => Shape'
<1> SUFFICES ASSUME ConstantsAssumption, Shape, [Next]_vars PROVE Shape'
  OBVIOUS
<1>1. CASE UNCHANGED vars
  BY <1>1 DEF Shape, vars, request, history
<1>2. CASE Publish
  <2>1. pcs \in Nat \ {0} /\ pcs' = pcs + 1 /\ pcs' \in DOMAIN Offered
    BY <1>2 DEF Publish, Shape
  <2> QED BY <1>2, <2>1 DEF Publish, Shape, request
<1>3. ASSUME NEW r \in Requests, Continue(r) \/ Refresh(r)
      PROVE  Shape'
  BY <1>3 DEF Shape, Continue, Refresh, QueryCert, SelectCert, EnterTcb, FetchCerts,
              FetchFails, ListTcbs, StoreCerts, AddTcb, RefetchCerts, PersistCerts, DatabaseFails, Go
<1>6. CASE Crash \/ \E c \in Shared : OthersCache(c)
  BY <1>6 DEF Shape, Crash, OthersCache, request
<1>4. ASSUME NEW r \in Requests, NEW kind, NEW t, NEW place, Start(r, kind, t, place)
      PROVE  Shape'
  BY <1>4 DEF Shape, Start, Go
<1>5. ASSUME NEW r \in Requests, NEW C, NEW named, NEW T, PutCollateral(r, C, named, T)
      PROVE  Shape'
  BY <1>5 DEF Shape, PutCollateral, Go
<1> QED
  BY <1>1, <1>2, <1>3, <1>4, <1>5, <1>6 DEF Next, GetPckCert, Register, Rest

\* No step takes shared collateral away.
LEMMA SharedStep == ASSUME Shape, SharedStays, [Next]_vars PROVE SharedStays'
<1> USE DEF SharedStays
<1>1. CASE UNCHANGED vars \/ Publish \/ Crash
  BY <1>1 DEF vars, rows, request, Publish, Crash
<1>2. ASSUME NEW c, OthersCache(c) PROVE SharedStays'
  BY <1>2 DEF OthersCache, request, Shared
<1>3. ASSUME NEW r \in Requests, Continue(r) \/ Refresh(r) PROVE SharedStays'
  <2>1. UNCHANGED known
    BY <1>3 DEF Continue, Refresh, QueryCert, SelectCert, EnterTcb, FetchCerts, FetchFails,
                ListTcbs, StoreCerts, AddTcb, RefetchCerts, PersistCerts, DatabaseFails
  <2>2. CASE UNCHANGED <<platform, shared>>
    BY <2>1, <2>2
  <2>3. CASE StoreCerts(r) \/ PersistCerts(r)
    <3>1. shared' = shared \/ shared' = Shared \/ shared' = shared \cup {"certchain", "caCerts"}
      BY <2>3 DEF StoreCerts, PersistCerts, rows
    <3>2. platform' = platform \/ shared' = Shared
      BY <2>3 DEF StoreCerts, PersistCerts, rows
    <3>3. shared \subseteq shared' /\ shared' \subseteq Shared
      BY <3>1 DEF Shared
    <3>4. platform' => "certchain" \in shared'
      BY <3>2, <3>3 DEF Shared
    <3> QED BY <2>1, <3>3, <3>4
  <2> QED BY <1>3, <2>2, <2>3
          DEF Continue, Refresh, QueryCert, SelectCert, EnterTcb, FetchCerts, FetchFails,
              ListTcbs, AddTcb, RefetchCerts, DatabaseFails, rows
<1>4. ASSUME NEW r \in Requests, NEW kind, NEW t, NEW place, Start(r, kind, t, place)
      PROVE  SharedStays'
  BY <1>4 DEF Start, Shape, rows
<1>5. ASSUME NEW r \in Requests, NEW C, NEW named, NEW T, PutCollateral(r, C, named, T)
      PROVE  SharedStays'
  <2>1. UNCHANGED known
    BY <1>5 DEF PutCollateral
  <2>2. CASE UNCHANGED rows
    BY <2>1, <2>2 DEF rows
  <2>3. CASE shared' \in {shared \cup {"certchain"} \cup S : S \in SUBSET {"tcbInfo", "caCerts"}}
    BY <2>1, <2>3 DEF Shared
  <2> QED BY <1>5, <2>2, <2>3 DEF PutCollateral
<1> QED BY <1>1, <1>2, <1>3, <1>4, <1>5 DEF Next, GetPckCert, Register, Rest

\* A request starts, but for the refresh and the PUT of collateral.
LEMMA StartKeeps ==
  ASSUME ConstantsAssumption, CacheInvariant, NEW r \in Requests,
         \/ \E t \in Tcbs : GetPckCert(r, t)
         \/ \E t \in Tcbs \cup {0}, m \in BOOLEAN : Register(r, t, m)
  PROVE  CacheIsPublished' /\ OnItsWay' /\ GetsGoOn'
<1> USE DEF CacheInvariant, Shape
<1>1. step[r] = "idle" /\ UNCHANGED <<pcs, rows, got, listed>>
  BY DEF GetPckCert, Register, Start, Begin
<1>2. CacheIsPublished'
  BY <1>1 DEF CacheIsPublished, Publications, rows
<1>3. CASE \E t \in Tcbs : GetPckCert(r, t)
  <2>1. UNCHANGED <<pcs, platform, got, listed>> /\ Publications' = Publications
    BY <1>1 DEF rows, Publications
  <2>2. /\ op'[r] = "get" /\ step'[r] \in {"query", "fetch", "unknown"}
        /\ step'[r] = "query" => platform
        /\ known'[r] => platform
        /\ platform => step'[r] = "query"
    BY <1>3 DEF GetPckCert, Start, Go
  <2>3. \A q \in Requests \ {r} : /\ op'[q] = op[q] /\ step'[q] = step[q]
                                 /\ raw'[q] = raw[q] /\ known'[q] = known[q]
    BY <1>3 DEF GetPckCert, Start, Go
  <2>4. OnItsWay'
    BY <2>1, <2>2, <2>3 DEF OnItsWay
  <2>5. GetsGoOn'
    BY <2>1, <2>2, <2>3 DEF GetsGoOn
  <2> QED BY <1>2, <2>4, <2>5
<1>4. CASE \E t \in Tcbs \cup {0}, m \in BOOLEAN : Register(r, t, m)
  BY <1>1, <1>2, <1>4 DEF Publications, Register, Start, Go, OnItsWay, GetsGoOn, rows
<1> QED BY <1>3, <1>4

\* A GET goes on, in the cache.
LEMMA GetKeeps ==
  ASSUME ConstantsAssumption, CacheInvariant, NEW r \in Requests,
         QueryCert(r) \/ SelectCert(r) \/ EnterTcb(r)
  PROVE  CacheIsPublished' /\ OnItsWay' /\ GetsGoOn'
<1> USE DEF CacheInvariant, Shape
<1>1. UNCHANGED <<pcs, platform, certs, op, raw, known, listed>>
  BY DEF QueryCert, SelectCert, EnterTcb, rows
<1>2. CacheIsPublished'
  BY <1>1 DEF CacheIsPublished, Publications
<1>3. OnItsWay'
  BY <1>1 DEF Publications, OnItsWay, QueryCert, SelectCert, EnterTcb, Go
<1>4. CASE QueryCert(r) \/ EnterTcb(r)
  BY <1>1, <1>2, <1>3, <1>4 DEF GetsGoOn, QueryCert, EnterTcb, Go
<1>5. CASE SelectCert(r)
  <2>1. /\ platform /\ \E n \in 1..pcs : certs = Offered[n]
        /\ known[r] => {"tcbInfo", "certchain"} \subseteq shared
    BY <1>5 DEF SelectCert, GetsGoOn, CacheIsPublished, Publications, SharedStays
  <2> QED BY <1>1, <1>2, <1>3, <1>5, <2>1 DEF GetsGoOn, SelectCert, Go
<1> QED BY <1>4, <1>5

\* getPckCertFromPCS, which a GET reaches only without the platform's row.
LEMMA FetchKeeps ==
  ASSUME ConstantsAssumption, CacheInvariant, NEW r \in Requests,
         FetchCerts(r) \/ FetchFails(r) \/ ListTcbs(r) \/ StoreCerts(r) \/ AddTcb(r)
  PROVE  CacheIsPublished' /\ OnItsWay' /\ GetsGoOn'
<1> USE DEF CacheInvariant, Shape
<1>1. /\ step[r] \in {"fetch", "refetch", "list", "store", "add"}
      /\ UNCHANGED <<pcs, op, raw, known>>
  BY DEF FetchCerts, FetchFails, ListTcbs, StoreCerts, AddTcb
<1>2. ~(op[r] = "get" /\ known[r])
  BY <1>1 DEF GetsGoOn
<1>3. platform => platform'
  BY DEF FetchCerts, FetchFails, ListTcbs, StoreCerts, AddTcb, rows
<1>4. /\ \A q \in Requests : q # r => step'[q] = step[q]
      /\ step'[r] \notin {"idle", "query", "select", "enter", "refetch", "persist"}
  BY DEF FetchCerts, FetchFails, ListTcbs, StoreCerts, AddTcb, Go
<1>5. GetsGoOn'
  BY <1>1, <1>2, <1>3, <1>4 DEF GetsGoOn
<1>0. Publications' = Publications
  BY <1>1 DEF Publications
<1>6. CASE FetchCerts(r)
  <2>1. step'[r] = "list" => got'[r] \in Publications
    BY <1>6 DEF FetchCerts, Usable, Available, Publications, Go
  <2> QED BY <1>0, <1>5, <1>6, <2>1 DEF FetchCerts, CacheIsPublished, OnItsWay, rows, Go
<1>7. CASE FetchFails(r) \/ AddTcb(r)
  BY <1>0, <1>5, <1>7 DEF FetchFails, AddTcb, CacheIsPublished, OnItsWay, rows, Go
<1>8. CASE ListTcbs(r)
  BY <1>0, <1>5, <1>8 DEF ListTcbs, CacheIsPublished, OnItsWay, rows, Go
<1>9. CASE StoreCerts(r)
  BY <1>0, <1>5, <1>9 DEF StoreCerts, CacheIsPublished, OnItsWay, rows, Go
<1> QED BY <1>6, <1>7, <1>8, <1>9

\* A refresh takes a publication only if a certificate of it fits.
LEMMA RefreshKeeps ==
  ASSUME ConstantsAssumption, CacheInvariant, NEW r \in Requests,
         Refresh(r) \/ RefetchCerts(r) \/ PersistCerts(r)
  PROVE  CacheIsPublished' /\ OnItsWay' /\ GetsGoOn'
<1> USE DEF CacheInvariant, Shape
<1>0. UNCHANGED pcs /\ Publications' = Publications
  BY DEF Refresh, RefetchCerts, PersistCerts, Publications
<1>1. CASE Refresh(r)
  BY <1>0, <1>1 DEF Refresh, Begin, Go, CacheIsPublished, OnItsWay, GetsGoOn, rows
<1>2. CASE RefetchCerts(r)
  <2>1. step'[r] = "persist" => got'[r] \in Publications
    <3> SUFFICES ASSUME step'[r] = "persist" PROVE got'[r] \in Publications
      OBVIOUS
    <3>1. got'[r] = Offered[pcs] /\ \A t \in listed[r] : Best(Offered[pcs], t) # 0
      BY <1>2 DEF RefetchCerts, Go
    <3>2. PICK t \in listed[r] : TRUE
      BY <1>2 DEF RefetchCerts, OnItsWay
    <3> QED BY <1>0, <3>1, <3>2, BestIsSome DEF Publications
  <2> QED BY <1>0, <1>2, <2>1 DEF RefetchCerts, Go, CacheIsPublished, OnItsWay, GetsGoOn, rows
<1>3. CASE PersistCerts(r)
  BY <1>0, <1>3 DEF PersistCerts, Go, CacheIsPublished, OnItsWay, GetsGoOn, rows
<1> QED BY <1>1, <1>2, <1>3

\* A file puts published certificates into the cache and takes nothing from a request.
LEMMA PutKeeps ==
  ASSUME ConstantsAssumption, CacheInvariant, NEW r \in Requests, NEW n \in 1..pcs,
         NEW named \in BOOLEAN, NEW T, PutCollateral(r, Offered[n], named, T)
  PROVE  CacheIsPublished' /\ OnItsWay' /\ GetsGoOn'
<1> USE DEF CacheInvariant, Shape
<1>1. UNCHANGED pcs /\ Publications' = Publications
  BY DEF PutCollateral, Publications
<1>2. CacheIsPublished'
  BY <1>1 DEF PutCollateral, CacheIsPublished, Usable, Publications, rows
<1>3. platform => platform'
  BY DEF PutCollateral, rows
<1>4. OnItsWay' /\ GetsGoOn'
  BY <1>1, <1>3 DEF PutCollateral, Begin, OnItsWay, GetsGoOn, Go
<1> QED BY <1>2, <1>4

\* A failed query and a crash end requests, and change nothing else.
LEMMA FailureKeeps ==
  ASSUME CacheInvariant, Crash \/ \E r \in Requests : DatabaseFails(r)
  PROVE  CacheIsPublished' /\ OnItsWay' /\ GetsGoOn'
<1> USE DEF CacheInvariant, Shape
<1>1. UNCHANGED <<pcs, platform, certs, op, raw, got, known, listed>>
  BY DEF Crash, DatabaseFails, rows
<1>2. ASSUME NEW q \in Requests
      PROVE  (step'[q] = step[q]) \/ (step[q] # "idle" /\ step'[q] = "failed")
  <2>1. CASE Crash
    BY <2>1 DEF Crash, Active
  <2>2. ASSUME NEW r \in Requests, DatabaseFails(r)
        PROVE  (step'[q] = step[q]) \/ (step[q] # "idle" /\ step'[q] = "failed")
    BY <2>2 DEF DatabaseFails, Go
  <2> QED BY <2>1, <2>2
<1>3. CacheIsPublished' /\ OnItsWay'
  BY <1>1, <1>2 DEF CacheIsPublished, OnItsWay, Publications
<1>4. GetsGoOn'
  BY <1>1, <1>2 DEF GetsGoOn
<1> QED BY <1>3, <1>4

\* The invariant is inductive, and so holds in every state.
LEMMA CacheInvariantHolds == Spec => []CacheInvariant
<1>1. Init => CacheInvariant
  BY ConstantsAssumption
     DEF Init, CacheInvariant, Shape, CacheIsPublished, OnItsWay, GetsGoOn, SharedStays,
         ConstantsAssumption
<1>2. CacheInvariant /\ [Next]_vars => CacheInvariant'
  <2> SUFFICES ASSUME CacheInvariant, [Next]_vars PROVE CacheInvariant'
    OBVIOUS
  <2>1. Shape'
    BY ConstantsAssumption, ShapeStep DEF CacheInvariant
  <2>7. SharedStays'
    BY SharedStep DEF CacheInvariant
  <2>2. CASE Publish \/ UNCHANGED vars \/ \E c \in Shared : OthersCache(c)
    <3>1. UNCHANGED <<platform, certs, request>>
      BY <2>2 DEF Publish, vars, rows, OthersCache
    <3>2. 1..pcs \subseteq 1..pcs'
      BY <2>2 DEF Publish, vars, CacheInvariant, Shape, OthersCache
    <3> QED
      BY <2>1, <2>7, <3>1, <3>2 DEF request, CacheInvariant, CacheIsPublished, OnItsWay,
                                    GetsGoOn, Publications
  <2>3. CASE \E r \in Requests : Refresh(r) \/ Continue(r)
    BY <2>1, <2>7, <2>3, ConstantsAssumption, GetKeeps, FetchKeeps, RefreshKeeps, FailureKeeps
       DEF Continue, CacheInvariant
  <2>4. CASE \/ \E r \in Requests, t \in Tcbs : GetPckCert(r, t)
             \/ \E r \in Requests, t \in Tcbs \cup {0}, m \in BOOLEAN : Register(r, t, m)
    BY <2>1, <2>7, <2>4, ConstantsAssumption, StartKeeps DEF CacheInvariant
  <2>5. CASE \E r \in Requests, n \in 1..pcs, named \in BOOLEAN, T \in SUBSET Tcbs :
                PutCollateral(r, Offered[n], named, T)
    BY <2>1, <2>7, <2>5, ConstantsAssumption, PutKeeps DEF CacheInvariant
  <2>6. CASE Crash
    BY <2>1, <2>7, <2>6, FailureKeeps DEF CacheInvariant
  <2> QED BY <2>2, <2>3, <2>4, <2>5, <2>6 DEF Next, Rest
<1> QED BY <1>1, <1>2, PTL DEF Spec

\* The row of a platform means that certificates of it are cached and the row of
\* their chain, whatever requests overlap and whatever the PCS answers.
THEOREM PresenceIsCollateral == Spec => []PresenceMeansCached
<1>1. CacheInvariant => PresenceMeansCached
  BY DEF CacheInvariant, CacheIsPublished, SharedStays, Publications, PresenceMeansCached
<1> QED BY <1>1, CacheInvariantHolds, PTL

\* A GET of a platform that is cached with a TCB info finds a certificate, if
\* every publication of the PCS so far holds one that fits.
THEOREM CachedIsFound == Spec => []GetFindsCached
<1>1. CacheInvariant => GetFindsCached
  BY DEF CacheInvariant, GetsGoOn, GetFindsCached
<1> QED BY <1>1, CacheInvariantHolds, PTL

-----------------------------------------------------------------------------

\* A nonempty set of numbers has a least element, and so a bounded one a
\* greatest, which is what Max then selects.
LEMMA Least == ASSUME NEW T, T \subseteq Nat, T # {} PROVE \E x \in T : \A y \in T : x <= y
<1>1. PICK x \in T : \A y \in T : ~(<<y, x>> \in OpToRel(<, Nat))
  BY NatLessThanWellFounded, WFMin
<1>2. ASSUME NEW y \in T PROVE x <= y
  <2>1. ~(y < x)
    BY <1>1 DEF OpToRel
  <2> QED BY <2>1
<1> QED BY <1>2

LEMMA Greatest ==
  ASSUME NEW T, T \subseteq Nat, T # {}, NEW b \in Nat, \A x \in T : x <= b
  PROVE  Max(T) \in T /\ \A y \in T : y <= Max(T)
<1> DEFINE D == {b - x : x \in T}
<1>1. ASSUME NEW x \in T PROVE b - x \in Nat
  BY <1>1
<1>2. D \subseteq Nat
  BY <1>1
<1>3. D # {}
  OBVIOUS
<1> HIDE DEF D
<1>4. PICK d \in D : \A y \in D : d <= y
  BY <1>2, <1>3, Least
<1>5. PICK x \in T : d = b - x
  BY DEF D
<1>6. ASSUME NEW y \in T PROVE y <= x
  <2>1. d <= b - y
    BY <1>4 DEF D
  <2> QED BY <1>5, <2>1
<1> QED BY <1>5, <1>6 DEF Max

\* What is selected for a raw TCB is a certificate that is not above it.
LEMMA BestFits ==
  ASSUME ConstantsAssumption, NEW C \in SUBSET Tcbs, NEW t \in Tcbs \cup {0}
  PROVE  Best(C, t) = 0 \/ (Best(C, t) \in C /\ Best(C, t) <= t)
<1> DEFINE T == {c \in C : c <= t}
<1>1. Tcbs \subseteq Nat
  BY DEF ConstantsAssumption
<1>2. t \in Nat
  BY <1>1
<1>3. T \subseteq Nat
  BY <1>1
<1>4. CASE ~ \E c \in C : c <= t
  BY <1>4 DEF Best
<1>5. CASE \E c \in C : c <= t
  <2>1. Max(T) \in T
    BY <1>2, <1>3, <1>5, Greatest
  <2> QED BY <1>5, <2>1 DEF Best
<1> QED BY <1>4, <1>5

\* ... and so a TCB, or none.
LEMMA BestType ==
  ASSUME ConstantsAssumption, NEW C \in SUBSET Tcbs, NEW t \in Tcbs \cup {0}
  PROVE  Best(C, t) \in Tcbs \cup {0}
  BY BestFits

-----------------------------------------------------------------------------
\* Every publication so far is in the domain of Offered, and holds TCBs.
LEMMA OfferedTcbs ==
  ASSUME ConstantsAssumption, Shape, NEW n \in 1..pcs
  PROVE  Offered[n] \in SUBSET Tcbs /\ Offered[pcs] \in SUBSET Tcbs
  BY DEF Shape, ConstantsAssumption

\* Where a request goes next, written out: one of the places.
LEMMA GoType ==
  ASSUME step \in [Requests -> Places], NEW r \in Requests, NEW place, Go(r, place),
         \/ place \in {"idle", "query", "select", "enter", "fetch", "list", "store", "add"}
         \/ place \in {"refetch", "persist", "ok", "noData", "unknown", "failed", "rejected"}
  PROVE  step' \in [Requests -> Places]
<1>1. place \in Places
  BY DEF Places, Ended
<1> QED BY <1>1 DEF Go

\* Every step keeps the types.
LEMMA TypeStep ==
  ASSUME ConstantsAssumption, TypeOK, CacheInvariant, [Next]_vars
  PROVE  TypeOK'
<1> USE DEF TypeOK
<1>0. Shape /\ Offered[pcs] \in SUBSET Tcbs
  BY DEF CacheInvariant, Shape, ConstantsAssumption
<1>12. SharedStays'
  BY SharedStep DEF CacheInvariant
<1>1. CASE UNCHANGED vars \/ Publish
  BY <1>1 DEF vars, rows, request, history, Publish
<1>13. ASSUME NEW c \in Shared, OthersCache(c) PROVE TypeOK'
  BY <1>13 DEF OthersCache, request, history
<1>2. ASSUME NEW r \in Requests, \/ QueryCert(r) \/ SelectCert(r) \/ FetchFails(r)
                                 \/ ListTcbs(r) \/ DatabaseFails(r)
      PROVE  TypeOK'
  <2>1. step' \in [Requests -> Places]
    BY <1>2, GoType DEF QueryCert, SelectCert, FetchFails, ListTcbs, DatabaseFails
  <2>2. /\ UNCHANGED <<lazy, history, pcs, rows, op, raw, lacking, known>>
        /\ got' = got \/ got' = [got EXCEPT ![r] = certs]
        /\ listed' = listed \/ listed' = [listed EXCEPT ![r] = CachedTcbs]
    BY <1>2 DEF QueryCert, SelectCert, FetchFails, ListTcbs, DatabaseFails
  <2>3. answer' \in [Requests -> Tcbs \cup {0}]
    BY <1>2 DEF QueryCert, SelectCert, FetchFails, ListTcbs, DatabaseFails, IsServable
  <2>4. got' \in [Requests -> SUBSET Tcbs] /\ listed' \in [Requests -> SUBSET Tcbs]
    <3>1. /\ got \in [Requests -> SUBSET Tcbs] /\ listed \in [Requests -> SUBSET Tcbs]
          /\ certs \in SUBSET Tcbs /\ CachedTcbs \in SUBSET Tcbs
      BY DEF CachedTcbs
    <3> HIDE DEF TypeOK
    <3>2. got' \in [Requests -> SUBSET Tcbs]
      BY <2>2, <3>1
    <3>3. listed' \in [Requests -> SUBSET Tcbs]
      BY <2>2, <3>1
    <3> QED BY <3>2, <3>3
  <2> QED BY <2>1, <2>2, <2>3, <2>4 DEF rows, history
<1>3. ASSUME NEW r \in Requests, EnterTcb(r) \/ AddTcb(r)
      PROVE  TypeOK'
  <2>1. Best(got[r], raw[r]) \in Tcbs \cup {0}
    BY ConstantsAssumption, BestType
  <2>2. step' \in [Requests -> Places]
    BY <1>3, GoType DEF EnterTcb, AddTcb
  <2>3. /\ answer' \in [Requests -> Tcbs \cup {0}]
        /\ tcbm' \in [Tcbs -> Tcbs \cup {0}]
    BY <1>3, <2>1 DEF EnterTcb, AddTcb
  <2> QED BY <1>3, <2>2, <2>3 DEF EnterTcb, AddTcb, history
<1>4. ASSUME NEW r \in Requests, FetchCerts(r) \/ RefetchCerts(r)
      PROVE  TypeOK'
  <2>1. step' \in [Requests -> Places]
    BY <1>4, GoType DEF FetchCerts, RefetchCerts
  <2> QED BY <1>0, <1>4, <2>1 DEF FetchCerts, RefetchCerts, Available, rows, history
<1>5. ASSUME NEW r \in Requests, StoreCerts(r) \/ PersistCerts(r)
      PROVE  TypeOK'
  <2>1. \A t \in Tcbs : Best(got[r], t) \in Tcbs \cup {0}
    BY ConstantsAssumption, BestType
  <2>2. step' \in [Requests -> Places]
    BY <1>5, GoType DEF StoreCerts, PersistCerts
  <2>3. tcbm' \in [Tcbs -> Tcbs \cup {0}]
    BY <1>5, <2>1 DEF StoreCerts, PersistCerts, Entries, Reselected, rows
  <2>4. shared' \subseteq Shared
    BY <1>12 DEF SharedStays
  <2> QED BY <1>5, <2>2, <2>3, <2>4 DEF StoreCerts, PersistCerts, rows, history
<1>6. ASSUME NEW r \in Requests, Refresh(r)
      PROVE  TypeOK'
  <2>1. step' \in [Requests -> Places]
    BY <1>6, GoType DEF Refresh
  <2> QED BY <1>6, <2>1 DEF Refresh, Begin, CachedTcbs, rows
<1>7. ASSUME NEW r \in Requests, NEW t \in Tcbs \cup {0}, NEW m \in BOOLEAN,
             GetPckCert(r, t) \/ Register(r, t, m)
      PROVE  TypeOK'
  <2>1. step' \in [Requests -> Places]
    BY <1>7, GoType DEF GetPckCert, Register, Start
  <2>2. PICK kind, place : kind \in {"get", "register"} /\ Start(r, kind, t, place)
    BY <1>7 DEF GetPckCert, Register
  <2> QED BY <2>1, <2>2 DEF Start, Begin, rows
<1>8. ASSUME NEW r \in Requests, NEW n \in 1..pcs, NEW named \in BOOLEAN,
             NEW T \in SUBSET Tcbs, PutCollateral(r, Offered[n], named, T)
      PROVE  TypeOK'
  <2>1. Offered[n] \in SUBSET Tcbs
    BY <1>0, ConstantsAssumption, OfferedTcbs
  <2>2. ASSUME NEW t \in Tcbs PROVE Best(Offered[n], t) \in Tcbs \cup {0}
    BY ConstantsAssumption, BestType, <2>1
  <2>3. step' \in [Requests -> Places]
    BY <1>8, GoType DEF PutCollateral
  <2>4. tcbm' \in [Tcbs -> Tcbs \cup {0}] /\ certs' \subseteq Tcbs /\ platform' \in BOOLEAN
    <3>1. certs' \subseteq Tcbs /\ platform' \in BOOLEAN
      BY <1>8, <2>1 DEF PutCollateral, rows
    <3>2. tcbm' = tcbm \/ tcbm' = Entries(Offered[n], CachedTcbs \cup T)
      BY <1>8 DEF PutCollateral, rows
    <3>3. Entries(Offered[n], CachedTcbs \cup T) \in [Tcbs -> Tcbs \cup {0}]
      BY <2>2 DEF Entries
    <3> QED BY <3>1, <3>2, <3>3
  <2>5. shared' \subseteq Shared
    BY <1>12 DEF SharedStays
  <2> QED BY <1>8, <2>1, <2>3, <2>4, <2>5 DEF PutCollateral, Begin
<1>9. CASE Crash
  <2>1. step' \in [Requests -> Places]
    BY <1>9 DEF Crash, Places, Ended
  <2> QED BY <1>9, <2>1 DEF Crash, rows, history
<1>10. CASE \E r \in Requests : Refresh(r) \/ Continue(r)
  BY <1>2, <1>3, <1>4, <1>5, <1>6, <1>10 DEF Continue
<1>11. CASE \/ \E r \in Requests, t \in Tcbs : GetPckCert(r, t)
            \/ \E r \in Requests, t \in Tcbs \cup {0}, m \in BOOLEAN : Register(r, t, m)
  BY <1>7, <1>11
<1> HIDE DEF TypeOK
<1> QED BY <1>1, <1>8, <1>9, <1>10, <1>11, <1>13 DEF Next, Rest

\* The tables and what requests have read hold TCBs and certificates only.
THEOREM TypesKept == Spec => []TypeOK
<1>1. Init => TypeOK
  <2>1. Init => pcs \in DOMAIN Offered
    BY ConstantsAssumption DEF Init, ConstantsAssumption
  <2>2. Init => step \in [Requests -> Places]
    BY DEF Init, Places, Ended
  <2> QED BY <2>1, <2>2 DEF Init, TypeOK
<1>2. TypeOK /\ CacheInvariant /\ [Next]_vars => TypeOK'
  BY ConstantsAssumption, TypeStep
<1> QED BY <1>1, <1>2, CacheInvariantHolds, PTL DEF Spec
-----------------------------------------------------------------------------
(* A served certificate fits.                                              *)

EverOffered == {c \in Tcbs : \E n \in 1..pcs : c \in Offered[n]}

\* Whatever is cached or has been read is from the PCS, and no entry is above
\* the raw TCB it is for.
FromPcs ==
    /\ certs \subseteq EverOffered
    /\ \A r \in Requests : got[r] \subseteq EverOffered
    /\ \A t \in Tcbs : tcbm[t] <= t
    /\ \A r \in Requests :
           /\ step[r] = "query" => raw[r] \in Tcbs
           /\ step[r] = "idle" => answer[r] = 0
           /\ answer[r] # 0 => answer[r] <= raw[r] /\ answer[r] \in EverOffered

LEMMA BestServes ==
  ASSUME ConstantsAssumption, NEW C \in SUBSET EverOffered, NEW t \in Tcbs \cup {0}
  PROVE  /\ Best(C, t) <= t /\ 0 <= t
         /\ Best(C, t) # 0 => Best(C, t) \in EverOffered
<1>1. C \in SUBSET Tcbs
  BY DEF EverOffered
<1>2. 0 <= t
  <2>1. Tcbs \subseteq Nat
    BY DEF ConstantsAssumption
  <2>2. t \in Nat
    BY <2>1
  <2> QED BY <2>2
<1>3. Best(C, t) = 0 \/ (Best(C, t) \in C /\ Best(C, t) <= t)
  BY <1>1, BestFits
<1>4. Best(C, t) # 0 => Best(C, t) \in C /\ Best(C, t) <= t
  BY <1>3
<1> QED BY <1>2, <1>4

LEMMA FromPcsStep ==
  ASSUME ConstantsAssumption, TypeOK, TypeOK', CacheInvariant, FromPcs, [Next]_vars
  PROVE  FromPcs'
<1> USE DEF FromPcs
<1>0. /\ Shape /\ Offered[pcs] \in SUBSET EverOffered /\ Tcbs \subseteq Nat
      /\ \A n \in 1..pcs : Offered[n] \in SUBSET EverOffered
  BY DEF CacheInvariant, Shape, ConstantsAssumption, EverOffered
<1>1. CASE UNCHANGED vars \/ Publish
  <2>1. UNCHANGED <<rows, request>> /\ (pcs' = pcs \/ pcs' = pcs + 1)
    BY <1>1 DEF vars, Publish
  <2>2. EverOffered \subseteq EverOffered'
    BY <1>0, <2>1 DEF EverOffered, Shape
  <2> QED BY <2>1, <2>2 DEF rows, request
<1>13. ASSUME NEW c \in Shared, OthersCache(c) PROVE FromPcs'
  BY <1>13 DEF OthersCache, request, EverOffered
<1>2. ASSUME NEW r \in Requests, QueryCert(r)
      PROVE  FromPcs'
  <2>1. /\ answer'[r] # 0 => answer'[r] <= raw'[r] /\ answer'[r] \in EverOffered
        /\ step'[r] \notin {"query", "idle"}
    BY <1>2 DEF QueryCert, IsServable, Go, TypeOK
  <2>2. /\ \A q \in Requests \ {r} : step'[q] = step[q] /\ answer'[q] = answer[q]
        /\ UNCHANGED <<pcs, certs, got, tcbm, raw>>
    BY <1>2 DEF QueryCert, Go, TypeOK, rows
  <2> QED BY <2>1, <2>2 DEF EverOffered
<1>3. ASSUME NEW r \in Requests, EnterTcb(r) \/ AddTcb(r)
      PROVE  FromPcs'
  <2>1. /\ Best(got[r], raw[r]) <= raw[r]
        /\ Best(got[r], raw[r]) # 0 => Best(got[r], raw[r]) \in EverOffered
    BY ConstantsAssumption, BestServes DEF TypeOK
  <2>2. \A t \in Tcbs : tcbm'[t] = tcbm[t] \/ (t = raw[r] /\ tcbm'[t] = Best(got[r], raw[r]))
    BY <1>3 DEF EnterTcb, AddTcb, TypeOK
  <2>3. /\ UNCHANGED <<pcs, certs, got, raw>>
        /\ step'[r] \notin {"query", "idle"} /\ answer'[r] = Best(got[r], raw[r])
        /\ \A q \in Requests \ {r} : step'[q] = step[q] /\ answer'[q] = answer[q]
    BY <1>3 DEF EnterTcb, AddTcb, Go, TypeOK
  <2>5. EverOffered' = EverOffered
    BY <2>3 DEF EverOffered
  <2>6. \A t \in Tcbs : tcbm'[t] <= t
    BY <2>1, <2>2
  <2>7. ASSUME NEW q \in Requests
        PROVE  /\ step'[q] = "query" => raw'[q] \in Tcbs
               /\ step'[q] = "idle" => answer'[q] = 0
               /\ answer'[q] # 0 => answer'[q] <= raw'[q] /\ answer'[q] \in EverOffered
    BY <2>1, <2>3
  <2> QED BY <2>3, <2>5, <2>6, <2>7
<1>4. ASSUME NEW r \in Requests,
             \/ SelectCert(r) \/ FetchCerts(r) \/ RefetchCerts(r)
             \/ FetchFails(r) \/ ListTcbs(r) \/ DatabaseFails(r)
      PROVE  FromPcs'
  <2>1. UNCHANGED <<pcs, certs, tcbm, raw, answer>>
    BY <1>4 DEF SelectCert, FetchCerts, RefetchCerts, FetchFails, ListTcbs, DatabaseFails, rows
  <2>2. /\ step'[r] \notin {"query", "idle"}
        /\ \A q \in Requests \ {r} : step'[q] = step[q]
    BY <1>4 DEF SelectCert, FetchCerts, RefetchCerts, FetchFails, ListTcbs, DatabaseFails, Go,
                TypeOK
  <2>3. \A q \in Requests : got'[q] \in {got[q], certs, Offered[pcs]}
    BY <1>4 DEF SelectCert, FetchCerts, RefetchCerts, FetchFails, ListTcbs, DatabaseFails,
                Available, TypeOK
  <2> QED BY <1>0, <2>1, <2>2, <2>3 DEF EverOffered
<1>5. ASSUME NEW r \in Requests, StoreCerts(r) \/ PersistCerts(r)
      PROVE  FromPcs'
  <2>1. \A t \in Tcbs : Best(got[r], t) <= t /\ 0 <= t
    BY ConstantsAssumption, BestServes
  <2>2. \A t \in Tcbs : tcbm'[t] \in {0, tcbm[t], Best(got[r], t)}
    BY <1>5 DEF StoreCerts, PersistCerts, Entries, Reselected, rows
  <2>4. ASSUME NEW t \in Tcbs PROVE tcbm'[t] <= t
    <3>1. 0 <= t
      BY <2>1
    <3>2. tcbm'[t] = 0 \/ tcbm'[t] = tcbm[t] \/ tcbm'[t] = Best(got[r], t)
      BY <2>2
    <3> QED BY <2>1, <3>1, <3>2
  <2>3. /\ UNCHANGED <<pcs, got, raw, answer>>
        /\ certs' = certs \/ certs' = got[r]
        /\ step'[r] \notin {"query", "idle"}
        /\ \A q \in Requests \ {r} : step'[q] = step[q]
    BY <1>5 DEF StoreCerts, PersistCerts, Go, TypeOK, rows
  <2> QED BY <1>0, <2>3, <2>4 DEF EverOffered
<1>6. ASSUME NEW r \in Requests, Refresh(r)
      PROVE  FromPcs'
  BY <1>6 DEF Refresh, Go, EverOffered, TypeOK, rows
<1>7. ASSUME NEW r \in Requests, NEW t \in Tcbs \cup {0}, NEW m \in BOOLEAN,
             (t \in Tcbs /\ GetPckCert(r, t)) \/ Register(r, t, m)
      PROVE  FromPcs'
  <2>1. /\ UNCHANGED <<pcs, certs, tcbm, got, answer>> /\ step[r] = "idle"
        /\ step'[r] # "idle" /\ (step'[r] = "query" => t \in Tcbs)
        /\ raw' = [raw EXCEPT ![r] = t]
        /\ \A q \in Requests \ {r} : step'[q] = step[q]
    BY <1>7 DEF GetPckCert, Register, Start, Begin, Go, TypeOK, rows
  <2> QED BY <2>1 DEF EverOffered, TypeOK
<1>8. ASSUME NEW r \in Requests, NEW n \in 1..pcs, NEW named \in BOOLEAN,
             NEW T \in SUBSET Tcbs, PutCollateral(r, Offered[n], named, T)
      PROVE  FromPcs'
  <2>1. \A t \in Tcbs : Best(Offered[n], t) <= t /\ 0 <= t
    BY <1>0, ConstantsAssumption, BestServes
  <2>2. \A t \in Tcbs : tcbm'[t] \in {0, tcbm[t], Best(Offered[n], t)}
    BY <1>8 DEF PutCollateral, Entries, rows
  <2>4. ASSUME NEW t \in Tcbs PROVE tcbm'[t] <= t
    <3>1. 0 <= t
      BY <2>1
    <3>2. tcbm'[t] = 0 \/ tcbm'[t] = tcbm[t] \/ tcbm'[t] = Best(Offered[n], t)
      BY <2>2
    <3> QED BY <2>1, <3>1, <3>2
  <2>3. /\ UNCHANGED <<pcs, raw, answer>>
        /\ certs' = certs \/ certs' = Offered[n]
        /\ step'[r] \notin {"query", "idle"}
        /\ \A q \in Requests \ {r} : step'[q] = step[q]
        /\ \A q \in Requests : got'[q] \in {got[q], Offered[n]}
    BY <1>8 DEF PutCollateral, Go, TypeOK, rows
  <2> QED BY <1>0, <2>3, <2>4 DEF EverOffered
<1>9. CASE Crash
  <2>1. \A q \in Requests : step'[q] = step[q] \/ step'[q] = "failed"
    BY <1>9 DEF Crash
  <2> QED BY <1>9, <2>1 DEF Crash, EverOffered, rows
<1>10. CASE \E r \in Requests : Refresh(r) \/ Continue(r)
  BY <1>2, <1>3, <1>4, <1>5, <1>6, <1>10 DEF Continue
<1>11. CASE \/ \E r \in Requests, t \in Tcbs : GetPckCert(r, t)
            \/ \E r \in Requests, t \in Tcbs \cup {0}, m \in BOOLEAN : Register(r, t, m)
  BY <1>7, <1>11
<1> HIDE DEF FromPcs
<1> QED BY <1>1, <1>8, <1>9, <1>10, <1>11, <1>13 DEF Next, Rest

LEMMA FromPcsHolds == Spec => []FromPcs
<1>1. Init => FromPcs
  <2>1. Tcbs \subseteq Nat
    BY ConstantsAssumption DEF ConstantsAssumption
  <2> QED BY <2>1 DEF Init, FromPcs
<1>2. TypeOK /\ TypeOK' /\ CacheInvariant /\ FromPcs /\ [Next]_vars => FromPcs'
  BY ConstantsAssumption, FromPcsStep
<1> QED BY <1>1, <1>2, TypesKept, CacheInvariantHolds, PTL DEF Spec

\* A GET is served a certificate the PCS has offered and that is not above the
\* TCB of the platform, however old the entry and however many requests overlap.
THEOREM ServedCertFits == Spec => []ServedFits
<1>1. FromPcs => ServedFits
  BY DEF FromPcs, ServedFits, EverOffered
<1> QED BY <1>1, FromPcsHolds, PTL
-----------------------------------------------------------------------------
(* One request after the other, entries name the best certificate.         *)

NamesBest == \A t \in Tcbs : tcbm[t] \in certs => tcbm[t] = Best(certs, t)

\* No request other than r is under way.
Solo(r) == \A q \in Requests \ {r} : step[q] \in Ended \cup {"idle"}

\* What a request read, and is about to write by, is still so.
ReadHolds(r) ==
    /\ step[r] \in {"enter", "add"} => got[r] = certs
    /\ step[r] \in {"store", "refetch", "persist"} => listed[r] = CachedTcbs

InTurn ==
    ~overlapped => /\ NamesBest
                   /\ \A r \in Active : Solo(r) /\ ReadHolds(r)

\* A step of r, when no other request is under way, leaves it at r.
LEMMA SoloStep ==
  ASSUME NEW r \in Requests, step \in [Requests -> Places], Solo(r), NEW place, Go(r, place),
         NamesBest', ReadHolds(r)'
  PROVE  InTurn'
<1>1. \A q \in Requests \ {r} : step'[q] = step[q]
  BY DEF Go
<1>2. Solo(r)'
  BY <1>1 DEF Solo
<1>3. \A q \in Active' : q = r
  BY <1>2 DEF Solo, Active
<1> QED BY <1>2, <1>3 DEF InTurn

LEMMA InTurnStep ==
  ASSUME ConstantsAssumption, TypeOK, TypeOK', CacheInvariant, InTurn, [Next]_vars
  PROVE  InTurn'
<1> SUFFICES ASSUME ~overlapped' PROVE InTurn'
  BY DEF InTurn
<1>0. /\ step \in [Requests -> Places] /\ 0 \notin Tcbs
      /\ certs \subseteq Tcbs /\ certs' \subseteq Tcbs
  BY DEF TypeOK, ConstantsAssumption
<1>1. CASE UNCHANGED vars \/ Publish \/ \E c \in Shared : OthersCache(c)
  BY <1>1 DEF vars, Publish, OthersCache, rows, request, history, InTurn, NamesBest, Active,
              Solo, ReadHolds, CachedTcbs
<1>2. ASSUME NEW r \in Requests, r \in Active, UNCHANGED overlapped
      PROVE  NamesBest /\ Solo(r) /\ ReadHolds(r)
  BY <1>2 DEF InTurn
<1>3. ASSUME NEW r \in Requests, Continue(r)
      PROVE  InTurn'
  <2>1. r \in Active /\ UNCHANGED overlapped
    BY <1>3 DEF Continue, QueryCert, SelectCert, EnterTcb, FetchCerts, FetchFails, ListTcbs,
                StoreCerts, AddTcb, RefetchCerts, PersistCerts, DatabaseFails, Active, Ended,
                history
  <2>2. NamesBest /\ Solo(r) /\ ReadHolds(r)
    BY <1>2, <2>1
  <2>3. CASE QueryCert(r) \/ SelectCert(r) \/ FetchCerts(r) \/ FetchFails(r) \/ ListTcbs(r)
             \/ RefetchCerts(r) \/ DatabaseFails(r)
    <3>1. NamesBest'
      BY <2>2, <2>3 DEF QueryCert, SelectCert, FetchCerts, FetchFails, ListTcbs, RefetchCerts,
                        DatabaseFails, rows, NamesBest
    <3>2. ReadHolds(r)'
      BY <2>2, <2>3 DEF QueryCert, SelectCert, FetchCerts, FetchFails, ListTcbs, RefetchCerts,
                        DatabaseFails, rows, ReadHolds, CachedTcbs, Go, TypeOK
    <3> QED BY <1>0, <2>2, <2>3, <3>1, <3>2, SoloStep
            DEF QueryCert, SelectCert, FetchCerts, FetchFails, ListTcbs, RefetchCerts,
                DatabaseFails
  <2>4. CASE EnterTcb(r) \/ AddTcb(r)
    <3>1. UNCHANGED certs /\ got[r] = certs
      BY <2>2, <2>4 DEF EnterTcb, AddTcb, ReadHolds
    <3>5. tcbm \in [Tcbs -> Tcbs \cup {0}]
      BY DEF TypeOK
    <3>2. \A t \in Tcbs : tcbm'[t] = tcbm[t] \/ (t = raw[r] /\ tcbm'[t] = Best(certs, t))
      BY <2>4, <3>1, <3>5 DEF EnterTcb, AddTcb
    <3>3. NamesBest'
      BY <2>2, <3>1, <3>2 DEF NamesBest
    <3>4. ReadHolds(r)'
      BY <2>4 DEF EnterTcb, AddTcb, ReadHolds, Go, TypeOK
    <3> QED BY <1>0, <2>2, <2>4, <3>3, <3>4, SoloStep DEF EnterTcb, AddTcb
  <2>5. CASE StoreCerts(r)
    <3>1. NamesBest'
      BY <1>0, <2>2, <2>5 DEF StoreCerts, Entries, NamesBest, rows
    <3>2. ReadHolds(r)'
      BY <2>5 DEF StoreCerts, ReadHolds, Go, TypeOK
    <3> QED BY <1>0, <2>2, <2>5, <3>1, <3>2, SoloStep DEF StoreCerts
  <2>6. CASE PersistCerts(r)
    <3>1. listed[r] = CachedTcbs
      BY <2>2, <2>6 DEF PersistCerts, ReadHolds
    <3>2. \A t \in Tcbs : tcbm'[t] = 0 \/ tcbm'[t] = Best(certs', t)
      BY <2>6, <3>1 DEF PersistCerts, Reselected, CachedTcbs
    <3>3. NamesBest'
      BY <1>0, <3>2 DEF NamesBest
    <3>4. ReadHolds(r)'
      BY <2>6 DEF PersistCerts, ReadHolds, Go, TypeOK
    <3> QED BY <1>0, <2>2, <2>6, <3>3, <3>4, SoloStep DEF PersistCerts
  <2> QED BY <1>3, <2>3, <2>4, <2>5, <2>6 DEF Continue
<1>4. ASSUME NEW r \in Requests, Begin(r)
      PROVE  NamesBest /\ Solo(r)
  BY <1>4 DEF Begin, InTurn, Solo, Active
<1>5. ASSUME NEW r \in Requests, Refresh(r)
      PROVE  InTurn'
  <2>1. NamesBest' /\ Solo(r)
    BY <1>4, <1>5 DEF Refresh, NamesBest, rows
  <2>2. ReadHolds(r)'
    BY <1>5 DEF Refresh, ReadHolds, Go, TypeOK, CachedTcbs, rows
  <2> QED BY <1>0, <1>5, <2>1, <2>2, SoloStep DEF Refresh
<1>6. ASSUME NEW r \in Requests, NEW t \in Tcbs \cup {0}, NEW m \in BOOLEAN,
             GetPckCert(r, t) \/ Register(r, t, m)
      PROVE  InTurn'
  <2>1. NamesBest' /\ Solo(r)
    BY <1>4, <1>6 DEF GetPckCert, Register, Start, NamesBest, rows
  <2>2. ReadHolds(r)'
    BY <1>6 DEF GetPckCert, Register, Start, ReadHolds, Go, TypeOK
  <2> QED BY <1>0, <1>6, <2>1, <2>2, SoloStep DEF GetPckCert, Register, Start
<1>7. ASSUME NEW r \in Requests, NEW n \in 1..pcs, NEW named \in BOOLEAN,
             NEW T \in SUBSET Tcbs, PutCollateral(r, Offered[n], named, T)
      PROVE  InTurn'
  <2>1. NamesBest /\ Solo(r)
    BY <1>4, <1>7 DEF PutCollateral
  <2>2. NamesBest'
    BY <1>0, <1>7, <2>1 DEF PutCollateral, NamesBest, Entries, rows
  <2>3. ReadHolds(r)'
    BY <1>7 DEF PutCollateral, ReadHolds, Go, TypeOK
  <2> QED BY <1>0, <1>7, <2>1, <2>2, <2>3, SoloStep DEF PutCollateral
<1>8. CASE Crash
  <2>1. \A q \in Requests : step'[q] \in Ended \cup {"idle"}
    BY <1>8 DEF Crash, Active, Ended
  <2>2. UNCHANGED <<rows, overlapped>>
    BY <1>8 DEF Crash, history
  <2>3. NamesBest'
    BY <1>8, <2>2 DEF Crash, InTurn, NamesBest, rows
  <2> QED BY <2>1, <2>3 DEF InTurn, Active
<1>9. CASE \E r \in Requests : Refresh(r) \/ Continue(r)
  BY <1>3, <1>5, <1>9
<1>10. CASE \/ \E r \in Requests, t \in Tcbs : GetPckCert(r, t)
            \/ \E r \in Requests, t \in Tcbs \cup {0}, m \in BOOLEAN : Register(r, t, m)
  BY <1>6, <1>10
<1> QED BY <1>1, <1>7, <1>8, <1>9, <1>10 DEF Next, Rest

LEMMA InTurnHolds == Spec => []InTurn
<1>1. Init => InTurn
  <2>1. 0 \notin {} /\ Tcbs \subseteq Nat
    BY ConstantsAssumption DEF ConstantsAssumption
  <2> QED BY <2>1 DEF Init, InTurn, NamesBest, Active, Ended
<1>2. TypeOK /\ TypeOK' /\ CacheInvariant /\ InTurn /\ [Next]_vars => InTurn'
  BY ConstantsAssumption, InTurnStep
<1> QED BY <1>1, <1>2, TypesKept, CacheInvariantHolds, PTL DEF Spec

\* While requests come one after the other, failures and crashes included, every
\* entry whose certificate is cached names the best one.
THEOREM EntriesNameBest == Spec => []EntriesAreBest
<1>1. InTurn => EntriesAreBest
  BY DEF InTurn, NamesBest, EntriesAreBest, EntriesStayBest, CachedTcbs
<1> QED BY <1>1, InTurnHolds, PTL
-----------------------------------------------------------------------------
(* A refresh that nothing overlaps renews the cache.                       *)

Steps(r) == step[r] \in Ended \cup {"idle", "refetch", "persist"}

\* Since the refresh started, nothing but it has been under way.
AloneStill ==
    alone => \A r \in Requests :
        /\ Steps(r)
        /\ r \in Active => Solo(r) /\ listed[r] = CachedTcbs
        /\ step[r] = "persist" => got[r] = Offered[pcs]

\* The cache is the newest publication, and so is what is on its way there.
RenewedStill ==
    renewed => /\ platform
               /\ certs = Offered[pcs]
               /\ \A t \in Tcbs : tcbm[t] = 0 \/ tcbm[t] = Best(certs, t)
               /\ \A r \in Requests :
                      step[r] \in {"enter", "list", "store", "add", "persist"} =>
                          got[r] = Offered[pcs]

\* A step of another request than the refresh would end its being alone.
LEMMA AloneStep ==
  ASSUME TypeOK, TypeOK', AloneStill, [Next]_vars
  PROVE  AloneStill'
<1> SUFFICES ASSUME alone' PROVE AloneStill'
  BY DEF AloneStill
<1>0. step \in [Requests -> Places] /\ got \in [Requests -> SUBSET Tcbs]
      /\ listed \in [Requests -> SUBSET Tcbs]
  BY DEF TypeOK
<1>1. CASE UNCHANGED vars \/ \E c \in Shared : OthersCache(c)
  BY <1>1 DEF vars, OthersCache, rows, request, history, AloneStill, Active, Solo, CachedTcbs,
              Steps
<1>2. ASSUME NEW r \in Requests, Continue(r)
      PROVE  AloneStill'
  <2>1. r \in Active /\ alone
    BY <1>2 DEF Continue, QueryCert, SelectCert, EnterTcb, FetchCerts, FetchFails, ListTcbs,
                StoreCerts, AddTcb, RefetchCerts, PersistCerts, DatabaseFails, Active, Ended,
                history
  <2>2. Solo(r) /\ step[r] \in {"refetch", "persist"} /\ listed[r] = CachedTcbs
    BY <2>1 DEF AloneStill, Active, Steps
  <2>3. CASE RefetchCerts(r) \/ FetchFails(r) \/ DatabaseFails(r)
    <3>1. /\ \A q \in Requests \ {r} : step'[q] = step[q]
          /\ step'[r] \in {"persist", "rejected", "failed"}
          /\ step'[r] = "persist" => got'[r] = Offered[pcs]
          /\ UNCHANGED <<tcbm, listed, pcs>>
      BY <1>0, <2>3 DEF RefetchCerts, FetchFails, DatabaseFails, Go, rows
    <3>2. \A q \in Requests \ {r} : step'[q] \in Ended \cup {"idle"}
      BY <2>2, <3>1 DEF Solo
    <3> QED BY <2>2, <3>1, <3>2 DEF AloneStill, Steps, Active, Solo, Ended, CachedTcbs
  <2>4. CASE PersistCerts(r)
    <3>1. /\ \A q \in Requests \ {r} : step'[q] = step[q]
          /\ step'[r] = "ok"
      BY <1>0, <2>4 DEF PersistCerts, Go
    <3>2. \A q \in Requests : step'[q] \in Ended \cup {"idle"}
      BY <2>2, <3>1 DEF Solo, Ended
    <3> QED BY <3>2 DEF AloneStill, Steps, Active, Ended
  <2> QED BY <1>2, <2>2, <2>3, <2>4
          DEF Continue, QueryCert, SelectCert, EnterTcb, FetchCerts, ListTcbs, StoreCerts, AddTcb
<1>3. ASSUME NEW r \in Requests, Refresh(r)
      PROVE  AloneStill'
  <2>1. Active = {} /\ step[r] = "idle"
    BY <1>3 DEF Refresh, Begin
  <2>2. /\ \A q \in Requests \ {r} : step'[q] = step[q]
        /\ step'[r] \in {"refetch", "ok"}
        /\ step'[r] = "refetch" => listed'[r] = CachedTcbs
        /\ UNCHANGED tcbm
    BY <1>0, <1>3 DEF Refresh, Go, rows
  <2>3. \A q \in Requests \ {r} : step'[q] \in Ended \cup {"idle"}
    BY <2>1, <2>2 DEF Active
  <2> QED BY <2>2, <2>3 DEF AloneStill, Steps, Active, Solo, Ended, CachedTcbs
<1>4. CASE Crash
  <2>1. \A q \in Requests : step'[q] \in Ended \cup {"idle"}
    BY <1>4 DEF Crash, Active, Ended
  <2> QED BY <2>1 DEF AloneStill, Steps, Active, Ended
<1>5. CASE \E r \in Requests : Refresh(r) \/ Continue(r)
  BY <1>2, <1>3, <1>5
<1> QED BY <1>1, <1>4, <1>5 DEF Next, Publish, GetPckCert, Register, Start, PutCollateral, Rest

LEMMA RenewedStep ==
  ASSUME ConstantsAssumption, TypeOK, TypeOK', CacheInvariant, AloneStill, RenewedStill,
         [Next]_vars
  PROVE  RenewedStill'
<1> SUFFICES ASSUME renewed' PROVE RenewedStill'
  BY DEF RenewedStill
<1>0. step \in [Requests -> Places] /\ got \in [Requests -> SUBSET Tcbs] /\ 0 \notin Tcbs
  BY DEF TypeOK, ConstantsAssumption
<1>1. CASE UNCHANGED vars \/ \E c \in Shared : OthersCache(c)
  BY <1>1 DEF vars, OthersCache, rows, request, history, RenewedStill
<1>2. ASSUME NEW r \in Requests, QueryCert(r) \/ SelectCert(r) \/ FetchCerts(r)
                \/ FetchFails(r) \/ ListTcbs(r) \/ RefetchCerts(r) \/ DatabaseFails(r)
      PROVE  RenewedStill'
  <2>1. renewed /\ UNCHANGED <<rows, pcs>>
    BY <1>2 DEF QueryCert, SelectCert, FetchCerts, FetchFails, ListTcbs, RefetchCerts,
                DatabaseFails, history
  <2>2. /\ \A q \in Requests \ {r} : step'[q] = step[q] /\ got'[q] = got[q]
        /\ \/ step'[r] \notin {"enter", "list", "store", "add", "persist"}
           \/ got'[r] \in {certs, Offered[pcs]}
           \/ step'[r] = "store" /\ step[r] = "list" /\ got'[r] = got[r]
    BY <1>0, <1>2 DEF QueryCert, SelectCert, FetchCerts, FetchFails, ListTcbs, RefetchCerts,
                      DatabaseFails, Available, Go
  <2> QED BY <2>1, <2>2 DEF RenewedStill, rows
<1>3. ASSUME NEW r \in Requests, EnterTcb(r) \/ AddTcb(r)
      PROVE  RenewedStill'
  <2>1. renewed /\ UNCHANGED <<platform, certs, pcs, got>> /\ got[r] = certs
    BY <1>3 DEF EnterTcb, AddTcb, history, RenewedStill
  <2>2. \A t \in Tcbs : tcbm'[t] = tcbm[t] \/ (t = raw[r] /\ tcbm'[t] = Best(certs, t))
    BY <1>3, <2>1 DEF EnterTcb, AddTcb, TypeOK
  <2>3. /\ \A q \in Requests \ {r} : step'[q] = step[q]
        /\ step'[r] \notin {"enter", "list", "store", "add", "persist"}
    BY <1>0, <1>3 DEF EnterTcb, AddTcb, Go
  <2> QED BY <2>1, <2>2, <2>3 DEF RenewedStill
<1>4. ASSUME NEW r \in Requests, StoreCerts(r)
      PROVE  RenewedStill'
  <2>1. renewed /\ UNCHANGED <<pcs, got>> /\ got[r] = Offered[pcs]
    BY <1>4 DEF StoreCerts, history, RenewedStill
  <2>2. /\ platform' /\ certs' = Offered[pcs]
        /\ \A t \in Tcbs : tcbm'[t] = 0 \/ tcbm'[t] = Best(certs', t)
    BY <1>4, <2>1 DEF StoreCerts, Entries, RenewedStill, rows
  <2>3. /\ \A q \in Requests \ {r} : step'[q] = step[q]
        /\ step'[r] \in {"ok", "add", "noData"}
    BY <1>0, <1>4 DEF StoreCerts, Go
  <2> QED BY <2>1, <2>2, <2>3 DEF RenewedStill
<1>5. ASSUME NEW r \in Requests, PersistCerts(r)
      PROVE  RenewedStill'
  <2>1. /\ UNCHANGED <<pcs, got, platform>> /\ platform /\ certs' = got[r]
        /\ step[r] = "persist" /\ step'[r] = "ok"
        /\ \A q \in Requests \ {r} : step'[q] = step[q]
    BY <1>0, <1>5 DEF PersistCerts, Go, CacheInvariant, OnItsWay
  <2>2. CASE renewed
    <3>1. got[r] = Offered[pcs] /\ certs = Offered[pcs]
      BY <2>1, <2>2 DEF RenewedStill
    <3>2. \A t \in Tcbs : tcbm'[t] = 0 \/ tcbm'[t] = Best(certs', t)
      BY <1>5, <2>1, <2>2, <3>1 DEF PersistCerts, Reselected, RenewedStill
    <3> QED BY <2>1, <2>2, <3>1, <3>2 DEF RenewedStill
  <2>3. CASE alone
    <3>1. /\ got[r] = Offered[pcs] /\ listed[r] = CachedTcbs
          /\ \A q \in Requests \ {r} : step[q] \in Ended \cup {"idle"}
      BY <2>1, <2>3 DEF AloneStill, Active, Ended, Solo
    <3>2. \A t \in Tcbs : tcbm'[t] = 0 \/ tcbm'[t] = Best(certs', t)
      BY <1>5, <2>1, <3>1 DEF PersistCerts, Reselected, CachedTcbs
    <3> QED BY <2>1, <3>1, <3>2 DEF RenewedStill, Ended
  <2> QED BY <1>5, <2>2, <2>3 DEF PersistCerts
<1>6. ASSUME NEW r \in Requests, Refresh(r)
      PROVE  RenewedStill'
  <2>1. renewed /\ UNCHANGED <<rows, pcs, got>>
    BY <1>6 DEF Refresh
  <2>2. /\ \A q \in Requests \ {r} : step'[q] = step[q]
        /\ step'[r] \in {"refetch", "ok"}
    BY <1>0, <1>6 DEF Refresh, Go
  <2> QED BY <2>1, <2>2 DEF RenewedStill, rows
<1>7. ASSUME NEW r \in Requests, NEW t \in Tcbs \cup {0}, NEW m \in BOOLEAN,
             GetPckCert(r, t) \/ Register(r, t, m)
      PROVE  RenewedStill'
  <2>1. renewed /\ UNCHANGED <<rows, pcs, got>>
    BY <1>7 DEF GetPckCert, Register, Start
  <2>2. /\ \A q \in Requests \ {r} : step'[q] = step[q]
        /\ step'[r] \in {"query", "fetch", "unknown", "ok"}
    BY <1>0, <1>7 DEF GetPckCert, Register, Start, Go
  <2> QED BY <2>1, <2>2 DEF RenewedStill, rows
<1>8. CASE Crash
  <2>1. renewed /\ UNCHANGED <<rows, pcs, got>>
        /\ \A q \in Requests : step'[q] = step[q] \/ step'[q] = "failed"
    BY <1>8 DEF Crash, history
  <2> QED BY <2>1 DEF RenewedStill, rows
<1>9. CASE \E r \in Requests : Refresh(r) \/ Continue(r)
  BY <1>2, <1>3, <1>4, <1>5, <1>6, <1>9 DEF Continue
<1>10. CASE \/ \E r \in Requests, t \in Tcbs : GetPckCert(r, t)
            \/ \E r \in Requests, t \in Tcbs \cup {0}, m \in BOOLEAN : Register(r, t, m)
  BY <1>7, <1>10
<1> QED BY <1>1, <1>8, <1>9, <1>10 DEF Next, Publish, PutCollateral, Rest

\* A refresh that nothing overlaps brings the newest publication and its best
\* entries into the cache, whatever earlier requests have left there, and they
\* stay until the PCS publishes or a file is put.
THEOREM RefreshHealsTheCache == Spec => []RefreshRenews
<1>1. Init => AloneStill /\ RenewedStill
  BY DEF Init, AloneStill, RenewedStill
<1>2. /\ TypeOK /\ TypeOK' /\ CacheInvariant
      /\ AloneStill /\ RenewedStill
      /\ [Next]_vars
      => AloneStill' /\ RenewedStill'
  BY ConstantsAssumption, AloneStep, RenewedStep
<1>3. RenewedStill => RefreshRenews
  BY DEF RenewedStill, RefreshRenews, CachedTcbs
<1> QED BY <1>1, <1>2, <1>3, TypesKept, CacheInvariantHolds, PTL DEF Spec
=============================================================================
