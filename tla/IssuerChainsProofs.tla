-------------------------- MODULE IssuerChainsProofs --------------------------
(* What is proved of IssuerChains, for any number of requests, items,       *)
(* publications and files.                                                  *)
EXTENDS IssuerChains, TLAPS

(* What the places of a request's parts say of what it has fetched and read, *)
(* and of the cache.                                                        *)

\* Parts hold what they are about to write.
Holding(r) ==
    /\ \A x \in Things : at[r][x] = "store" => x # "rootcacrl" /\ got[r][x] # 0
    /\ at[r]["rootcacrl"] \in {"chain", "store root", "fetched"} => got[r]["rootcacrl"] # 0
    /\ at[r]["rootcacrl"] \in {"download", "store root"} => read[r] # 0

\* Parts are where their request's kind takes them.
Kinds(r) ==
    /\ \A x \in Things : /\ at[r][x] = "query" => op[r] \in {"get", "check"}
                         /\ at[r][x] = "fetch" => x # "rootcacrl"
                         /\ at[r][x] \in {"refetch", "fetched"} => op[r] = "refresh"
    /\ at[r]["rootcacrl"] = "ask" => op[r] = "get"

\* A check gets to the root CA CRL by way of the PCK CRL.
Checks(r) ==
    op[r] = "check" =>
        /\ at[r]["rootcacrl"] # "none" => at[r]["pckcrl"] # "none"
        /\ out[r] # "failed" => at[r]["rootcacrl"] # "none"
        /\ out[r] = "ok" => at[r]["rootcacrl"] = "done"

\* What is done is in the cache.
DoneIsCached(r) ==
    /\ \A k \in Items : at[r][k] = "done" => Servable(k)
    /\ at[r]["rootcacrl"] = "done" => rootCrl # 0

Parts(r) == Holding(r) /\ Kinds(r) /\ Checks(r) /\ DoneIsCached(r)

ChainInvariant ==
    /\ TypeOK
    /\ \A r \in Requests : Parts(r)
-----------------------------------------------------------------------------
(* Types.                                                                   *)

\* Publications, keys and roots are numbers above 0.
LEMMA KeyTypes ==
    /\ 0 \notin Pubs
    /\ \A n \in Pubs : /\ n \in Nat
                       /\ KeyOf[n] \in Keys /\ KeyOf[n] # 0
                       /\ RootOf[n] \in Roots /\ RootOf[n] # 0
BY ConstantsAssumption DEF ConstantsAssumption, Pubs, Keys, Roots

\* What a request is and how far it has come has a type before and after.
PartTypes ==
    /\ out \in [Requests -> {"open", "ok", "failed"}]
    /\ at \in [Requests -> [Things -> Places]]
    /\ got \in [Requests -> [Things -> Pubs \cup {0}]]

\* A part that goes on.
LEMMA GoesTypes ==
    ASSUME PartTypes, NEW r \in Requests, NEW x \in Things, NEW place \in Places,
           NEW n \in Pubs \cup {0}, Goes(r, x, place, n)
    PROVE  PartTypes'
BY DEF PartTypes, Goes

\* A part that ends.
LEMMA EndsTypes ==
    ASSUME PartTypes, NEW r \in Requests, NEW x \in Things, Ends(r, x)
    PROVE  PartTypes'
BY DEF PartTypes, Ends, Places, Over

\* A part that fails, and its request.
LEMMA FailsTypes ==
    ASSUME PartTypes, NEW r \in Requests, NEW x \in Things, Fails(r, x)
    PROVE  PartTypes'
<1> DEFINE ended == {y \in Things : y = x \/ Wave(y) > Wave(x) \/ op[r] = "refresh"}
<1>1. "none" \in Places
    BY DEF Places, Over
<1>2. /\ at' = [at EXCEPT ![r] = [y \in Things |-> IF y \in ended THEN "none" ELSE @[y]]]
      /\ got' = [got EXCEPT ![r] = [y \in Things |-> IF y \in ended THEN 0 ELSE @[y]]]
      /\ out' = [out EXCEPT ![r] = "failed"]
    BY DEF Fails
<1> HIDE DEF ended
<1> QED
    BY <1>1, <1>2 DEF PartTypes

\* The first state satisfies the invariant.
LEMMA InitInvariant == Init => ChainInvariant
<1> SUFFICES ASSUME Init PROVE ChainInvariant
    OBVIOUS
<1>1. TypeOK
    <2>1. /\ mode \in {"LAZY", "REQ", "OFFLINE"} /\ v4 \in BOOLEAN /\ starts \in 0..MaxStarts
          /\ pcs \in Pubs /\ rootCrl \in Pubs \cup {0}
          /\ root \in Roots /\ draft \in Keys
        BY ConstantsAssumption DEF ConstantsAssumption, Init, Pubs, Keys, Roots
    <2>2. /\ item \in [Items -> Pubs \cup {0}] /\ signer \in [{"intermediate", "signing"} -> Keys]
          /\ \A c \in DOMAIN signer : signer[c] = 0
          /\ read \in [Requests -> Roots]
        BY DEF Init, Keys, Roots
    <2>3. /\ holder \in Requests \cup {None} /\ holder = None /\ draft = 0
          /\ alone \in BOOLEAN /\ healed \in BOOLEAN
        BY DEF Init
    <2>4. /\ op \in [Requests -> {"none", "get", "check", "pckcert", "refresh", "put"}]
          /\ out \in [Requests -> {"open", "ok", "failed"}]
          /\ at \in [Requests -> [Things -> Places]]
          /\ got \in [Requests -> [Things -> Pubs \cup {0}]]
        BY DEF Init, Nothing, Places, Over
    <2> QED
        BY <2>1, <2>2, <2>3, <2>4 DEF TypeOK
<1>2. ASSUME NEW r \in Requests
      PROVE  Parts(r)
    BY DEF Init, Parts, Holding, Kinds, Checks, DoneIsCached, Things, Items
<1> QED
    BY <1>1, <1>2 DEF ChainInvariant

\* An action of a request gives it a type again.
LEMMA RequestTypes ==
    ASSUME ChainInvariant, Next
    PROVE  /\ PartTypes'
           /\ op' \in [Requests -> {"none", "get", "check", "pckcert", "refresh", "put"}]
<1> USE DEF ChainInvariant
<1>1. PartTypes
    BY DEF TypeOK, PartTypes
<1>2. pcs \in Pubs \cup {0} /\ 0 \in Pubs \cup {0}
    BY DEF TypeOK
<1>3. ASSUME NEW r \in Requests, NEW kind \in {"get", "check", "pckcert", "refresh"},
             NEW X, NEW place \in Places, Start(r, kind, X, place)
      PROVE  PartTypes' /\ op' \in [Requests -> {"none", "get", "check", "pckcert", "refresh", "put"}]
    BY <1>1, <1>3 DEF TypeOK, PartTypes, Start, Begins, Nothing, Places, Over
<1>4. ASSUME NEW r \in Requests, NEW x \in Things, UNCHANGED op,
             \/ \E place \in Places, n \in Pubs \cup {0} : Goes(r, x, place, n)
             \/ Ends(r, x) \/ Fails(r, x)
      PROVE  PartTypes' /\ op' \in [Requests -> {"none", "get", "check", "pckcert", "refresh", "put"}]
    BY <1>1, <1>4, GoesTypes, EndsTypes, FailsTypes DEF TypeOK
<1>5. {"query", "fetch", "store", "ask", "chain", "download", "store root", "refetch", "fetched"}
        \subseteq Places
    BY DEF Places
<1>6. "rootcacrl" \in Things
    BY DEF Things
<1>7. CASE Publish \/ Rest
    BY <1>1, <1>7 DEF TypeOK, PartTypes, Publish, Rest, request, vars
<1>8. ASSUME NEW r \in Requests, NEW x \in Things, Get(r, x)
      PROVE  PartTypes' /\ op' \in [Requests -> {"none", "get", "check", "pckcert", "refresh", "put"}]
    BY <1>3, <1>5, <1>8 DEF Get
<1>9. ASSUME NEW r \in Requests, NEW I, Check(r, I)
      PROVE  PartTypes' /\ op' \in [Requests -> {"none", "get", "check", "pckcert", "refresh", "put"}]
    BY <1>3, <1>5, <1>9 DEF Check
<1>10. ASSUME NEW r \in Requests, FetchCertificates(r) \/ Refresh(r)
       PROVE  PartTypes' /\ op' \in [Requests -> {"none", "get", "check", "pckcert", "refresh", "put"}]
    BY <1>3, <1>5, <1>10 DEF FetchCertificates, Refresh
<1>11. ASSUME NEW r \in Requests, NEW f, Put(r, f)
       PROVE  PartTypes' /\ op' \in [Requests -> {"none", "get", "check", "pckcert", "refresh", "put"}]
    BY <1>1, <1>11 DEF TypeOK, PartTypes, Put, Begins
<1>12. ASSUME NEW r \in Requests, NEW x \in Things,
              Query(r, x) \/ Fetch(r, x) \/ Store(r, x) \/ Refetch(r, x)
       PROVE  PartTypes' /\ op' \in [Requests -> {"none", "get", "check", "pckcert", "refresh", "put"}]
    BY <1>2, <1>4, <1>5, <1>12 DEF Query, Fetch, Store, Refetch
<1>15. ASSUME NEW r \in Requests, StoreCertificates(r)
       PROVE  PartTypes' /\ op' \in [Requests -> {"none", "get", "check", "pckcert", "refresh", "put"}]
    <2>1. "pckcert" \in Things
        BY DEF Things
    <2> QED
        BY <1>4, <1>15, <2>1 DEF StoreCertificates
<1>13. ASSUME NEW r \in Requests,
              \/ QueryRoot(r) \/ AskIdentity(r) \/ WriteChain(r) \/ Download(r)
              \/ StoreRoot(r) \/ RefetchRoot(r)
       PROVE  PartTypes' /\ op' \in [Requests -> {"none", "get", "check", "pckcert", "refresh", "put"}]
    BY <1>2, <1>4, <1>5, <1>6, <1>13
    DEF QueryRoot, AskIdentity, WriteChain, Download, StoreRoot, RefetchRoot
<1>14. ASSUME NEW r \in Requests, Persist(r)
       PROVE  PartTypes' /\ op' \in [Requests -> {"none", "get", "check", "pckcert", "refresh", "put"}]
    <2>1. CASE Blocked(r)
        BY <1>4, <1>6, <1>14, <2>1 DEF Persist
    <2>2. CASE ~Blocked(r)
        <3>1. /\ at' = [at EXCEPT ![r] = [x \in Things |-> "none"]]
              /\ got' = [got EXCEPT ![r] = Nothing]
              /\ out' = [out EXCEPT ![r] = "ok"]
              /\ op' = op
            BY <1>14, <2>2 DEF Persist
        <3>2. Nothing \in [Things -> Pubs \cup {0}] /\ [x \in Things |-> "none"] \in [Things -> Places]
            BY DEF Nothing, Places, Over
        <3> QED
            BY <1>1, <3>1, <3>2 DEF TypeOK, PartTypes
    <2> QED
        BY <2>1, <2>2
<1> QED
    BY <1>7, <1>8, <1>9, <1>10, <1>11, <1>12, <1>13, <1>14, <1>15 DEF Next, Continue

-----------------------------------------------------------------------------
(* Rows: no step takes one away, or a certificate out of it.                *)

RowsStay ==
    /\ item' \in [Items -> Pubs \cup {0}] /\ \A k \in Items : item[k] # 0 => item'[k] # 0
    /\ signer' \in [{"intermediate", "signing"} -> Keys]
    /\ \A c \in {"intermediate", "signing"} : signer[c] # 0 => signer'[c] # 0
    /\ root' \in Roots /\ (root # 0 => root' # 0)
    /\ root' = 0 => \A c \in {"intermediate", "signing"} : signer'[c] = 0
    /\ rootCrl' \in Pubs \cup {0} /\ (rootCrl # 0 => rootCrl' # 0)

\* Rows that are left alone stay.
LEMMA StandStill == ChainInvariant /\ UNCHANGED rows => RowsStay
BY DEF rows, ChainInvariant, TypeOK, RowsStay

\* What a handler stores is a publication, with its chain.
LEMMA StoreStays ==
    ASSUME ChainInvariant, NEW r \in Requests, NEW x \in Things, Store(r, x)
    PROVE  RowsStay /\ (~Blocked(r) => \A k \in Items : k = x => Servable(k)')
<1> DEFINE n == got[r][x]
<1>1. n \in Pubs
    <2>1. n \in Pubs \cup {0}
        BY DEF ChainInvariant, TypeOK
    <2>2. n # 0
        BY DEF ChainInvariant, Parts, Holding, Store
    <2> QED
        BY <2>1, <2>2
<1>2. /\ KeyOf[n] \in Keys /\ KeyOf[n] # 0 /\ RootOf[n] \in Roots /\ RootOf[n] # 0 /\ n # 0
    BY <1>1, KeyTypes
<1>3. rootCrl' = rootCrl
    BY DEF Store
<1>4. SignerOf(x) \in {"intermediate", "signing"}
    BY DEF SignerOf
<1>5. CASE Blocked(r)
    <2>1. UNCHANGED rows
        BY <1>3, <1>5 DEF Store, rows
    <2> QED
        BY <1>5, <2>1, StandStill
<1>6. CASE ~Blocked(r)
    <2>1. /\ item' = [k \in Items |-> IF k = x THEN n ELSE item[k]]
          /\ signer' = [signer EXCEPT ![SignerOf(x)] = KeyOf[n]]
          /\ root' = RootOf[n]
        BY <1>6 DEF Store, ChainOf
    <2> HIDE DEF n
    <2>2. RowsStay
        BY <1>1, <1>2, <1>3, <1>4, <2>1 DEF ChainInvariant, TypeOK, RowsStay
    <2>3. \A k \in Items : k = x => Servable(k)'
        BY <1>2, <1>4, <2>1 DEF ChainInvariant, TypeOK, Servable
    <2> QED
        BY <2>2, <2>3
<1> QED
    BY <1>5, <1>6

\* The publications a fetch of PCK certificates may store TCB infos of.
Later(r) == {m \in Pubs : got[r]["pckcert"] <= m /\ m <= pcs}

\* What a fetch of PCK certificates writes.
LEMMA StoreCertificatesIs ==
    ASSUME ChainInvariant, NEW r \in Requests, StoreCertificates(r), ~Blocked(r)
    PROVE  \E n \in Later(r), T \in SUBSET (Tcbs \ Version3), m \in Pubs :
               /\ m = got[r]["pckcert"]
               /\ item' = [k \in Items |-> IF k \in T THEN n ELSE item[k]]
               /\ signer' = [c \in {"intermediate", "signing"} |->
                                IF c = "intermediate" THEN KeyOf[m]
                                ELSE IF T = {} THEN signer[c] ELSE KeyOf[n]]
               /\ root' = RootOf[IF T = {} THEN m ELSE n]
<1>1. "pckcert" \in Things
    BY DEF Things
<1>2. got[r]["pckcert"] \in Pubs
    <2>1. got[r]["pckcert"] \in Pubs \cup {0}
        BY <1>1 DEF ChainInvariant, TypeOK
    <2>2. got[r]["pckcert"] # 0
        BY <1>1 DEF ChainInvariant, Parts, Holding, StoreCertificates
    <2> QED
        BY <2>1, <2>2
<1>3. PICK T \in SUBSET (Tcbs \ Version3) : \E n \in Later(r) :
          /\ item' = [k \in Items |-> IF k \in T THEN n ELSE item[k]]
          /\ signer' = [signer EXCEPT !["intermediate"] = KeyOf[got[r]["pckcert"]],
                                     !["signing"] = IF T = {} THEN @ ELSE KeyOf[n]]
          /\ root' = RootOf[IF T = {} THEN got[r]["pckcert"] ELSE n]
    BY DEF StoreCertificates, Later
<1>4. PICK n \in Later(r) :
          /\ item' = [k \in Items |-> IF k \in T THEN n ELSE item[k]]
          /\ signer' = [signer EXCEPT !["intermediate"] = KeyOf[got[r]["pckcert"]],
                                     !["signing"] = IF T = {} THEN @ ELSE KeyOf[n]]
          /\ root' = RootOf[IF T = {} THEN got[r]["pckcert"] ELSE n]
    BY <1>3
<1>5. DOMAIN signer = {"intermediate", "signing"}
    BY DEF ChainInvariant, TypeOK
<1>6. signer' = [c \in {"intermediate", "signing"} |->
                    IF c = "intermediate" THEN KeyOf[got[r]["pckcert"]]
                    ELSE IF T = {} THEN signer[c] ELSE KeyOf[n]]
    BY <1>4, <1>5
<1> QED
    BY <1>2, <1>4, <1>6

\* They are publications, with their chains.
LEMMA StoreCertificatesStays ==
    ASSUME ChainInvariant, NEW r \in Requests, StoreCertificates(r)
    PROVE  RowsStay
<1>1. rootCrl' = rootCrl
    BY DEF StoreCertificates
<1>2. CASE Blocked(r)
    <2>1. UNCHANGED rows
        BY <1>1, <1>2 DEF StoreCertificates, rows
    <2> QED
        BY <2>1, StandStill
<1>3. CASE ~Blocked(r)
    <2>1. PICK n \in Later(r), T \in SUBSET (Tcbs \ Version3), m \in Pubs :
               /\ m = got[r]["pckcert"]
               /\ item' = [k \in Items |-> IF k \in T THEN n ELSE item[k]]
               /\ signer' = [c \in {"intermediate", "signing"} |->
                                IF c = "intermediate" THEN KeyOf[m]
                                ELSE IF T = {} THEN signer[c] ELSE KeyOf[n]]
               /\ root' = RootOf[IF T = {} THEN m ELSE n]
        BY <1>3, StoreCertificatesIs
    <2>2. n \in Pubs
        BY DEF Later
    <2>3. /\ KeyOf[n] \in Keys /\ KeyOf[n] # 0 /\ RootOf[n] \in Roots /\ RootOf[n] # 0 /\ n # 0
          /\ KeyOf[m] \in Keys /\ KeyOf[m] # 0 /\ RootOf[m] \in Roots /\ RootOf[m] # 0
        BY <2>2, KeyTypes
    <2>4. item' \in [Items -> Pubs \cup {0}] /\ \A k \in Items : item[k] # 0 => item'[k] # 0
        BY <2>1, <2>2, <2>3 DEF ChainInvariant, TypeOK
    <2>5. /\ signer' \in [{"intermediate", "signing"} -> Keys]
          /\ \A c \in {"intermediate", "signing"} : signer[c] # 0 => signer'[c] # 0
        BY <2>1, <2>3 DEF ChainInvariant, TypeOK
    <2>6. root' \in Roots /\ root' # 0
        BY <2>1, <2>3
    <2>7. rootCrl' \in Pubs \cup {0} /\ (rootCrl # 0 => rootCrl' # 0)
        BY <1>1 DEF ChainInvariant, TypeOK
    <2> QED
        BY <2>4, <2>5, <2>6, <2>7 DEF RowsStay
<1> QED
    BY <1>2, <1>3

\* What the root CA CRL's transaction writes back is a certificate.
LEMMA StoreRootStays ==
    ASSUME ChainInvariant, NEW r \in Requests, StoreRoot(r)
    PROVE  RowsStay /\ (~Blocked(r) => rootCrl' # 0)
<1>1. /\ at[r]["rootcacrl"] = "store root" /\ item' = item
    BY DEF StoreRoot
<1>2. "rootcacrl" \in Things
    BY DEF Things
<1>3. /\ got[r]["rootcacrl"] \in Pubs /\ got[r]["rootcacrl"] # 0
      /\ read[r] \in Roots /\ read[r] # 0
      /\ draft \in Keys /\ (holder = r => draft # 0)
    <2>1. got[r]["rootcacrl"] # 0 /\ read[r] # 0
        BY <1>1 DEF ChainInvariant, Parts, Holding
    <2>2. got[r]["rootcacrl"] \in Pubs \cup {0} /\ read[r] \in Roots /\ draft \in Keys
        BY <1>2 DEF ChainInvariant, TypeOK
    <2>3. holder = r => draft # 0
        BY ConstantsAssumption DEF ConstantsAssumption, ChainInvariant, TypeOK
    <2> QED
        BY <2>1, <2>2, <2>3
<1>4. CASE Blocked(r)
    <2>1. UNCHANGED rows
        BY <1>1, <1>4 DEF StoreRoot, rows
    <2> QED
        BY <1>4, <2>1, StandStill
<1>5. CASE ~Blocked(r)
    <2>1. /\ rootCrl' = got[r]["rootcacrl"] /\ root' = read[r]
          /\ signer' = [signer EXCEPT !["signing"] = IF holder = r THEN draft ELSE @]
        BY <1>5 DEF StoreRoot
    <2> QED
        BY <1>1, <1>3, <2>1 DEF ChainInvariant, TypeOK, RowsStay
<1> QED
    BY <1>4, <1>5

\* A refresh writes chains of publications, and the CRL without a certificate.
LEMMA PersistStays ==
    ASSUME ChainInvariant, NEW r \in Requests, Persist(r)
    PROVE  RowsStay
<1>1. CASE Blocked(r)
    BY <1>1, StandStill DEF Persist
<1>2. CASE ~Blocked(r)
    <2>1. /\ item' = [k \in Items |-> IF got[r][k] # 0 THEN got[r][k] ELSE item[k]]
          /\ IF LastChains(r) # {} THEN Renewed(r) ELSE UNCHANGED <<signer, root>>
          /\ rootCrl' = got[r]["rootcacrl"] /\ at[r]["rootcacrl"] = "fetched"
        BY <1>2 DEF Persist
    <2>2. /\ got[r] \in [Things -> Pubs \cup {0}] /\ Items \subseteq Things
          /\ "rootcacrl" \in Things /\ "pckcrl" \in Items
          /\ Identities \subseteq Things /\ Tcbs \subseteq Things
        BY DEF ChainInvariant, TypeOK, Things, Items
    <2>3. rootCrl' \in Pubs /\ rootCrl' # 0
        BY <2>1, <2>2 DEF ChainInvariant, Parts, Holding
    <2>4. /\ item' \in [Items -> Pubs \cup {0}]
          /\ \A k \in Items : item[k] # 0 => item'[k] # 0
        BY <2>1, <2>2 DEF ChainInvariant, TypeOK
    <2>5. CASE LastChains(r) = {}
        BY <2>1, <2>3, <2>4, <2>5 DEF ChainInvariant, TypeOK, RowsStay
    <2>6. CASE LastChains(r) # {}
        <3>1. LastChains(r) \subseteq Pubs
            BY <2>2 DEF LastChains, Fetched
        <3>2. PICK n \in LastChains(r) :
                 /\ root' = RootOf[n]
                 /\ signer' = [c \in DOMAIN signer |->
                        IF c = "signing" /\ Fetched(r, Identities \cup Tcbs) # {} THEN KeyOf[n]
                        ELSE IF c = "intermediate" /\ got[r]["pckcrl"] # 0
                             THEN KeyOf[got[r]["pckcrl"]]
                        ELSE signer[c]]
            BY <2>1, <2>6 DEF Renewed
        <3>3. /\ RootOf[n] \in Roots /\ RootOf[n] # 0 /\ KeyOf[n] \in Keys /\ KeyOf[n] # 0
            BY <3>1, KeyTypes
        <3>4. got[r]["pckcrl"] # 0 =>
                 KeyOf[got[r]["pckcrl"]] \in Keys /\ KeyOf[got[r]["pckcrl"]] # 0
            BY <2>2, KeyTypes
        <3>5. /\ signer' \in [{"intermediate", "signing"} -> Keys]
              /\ \A c \in {"intermediate", "signing"} : signer[c] # 0 => signer'[c] # 0
            BY <3>2, <3>3, <3>4 DEF ChainInvariant, TypeOK
        <3> QED
            BY <2>3, <2>4, <3>2, <3>3, <3>5 DEF RowsStay
    <2> QED
        BY <2>5, <2>6
<1> QED
    BY <1>1, <1>2

\* A file replaces certificates, or leaves them.
LEMMA PutStays ==
    ASSUME ChainInvariant, NEW r \in Requests, NEW f \in Files, Put(r, f)
    PROVE  RowsStay
<1>1. CASE UNCHANGED rows
    BY <1>1, StandStill
<1>2. CASE /\ item' = [k \in Items |-> IF k \in f.items THEN f.n ELSE item[k]]
           /\ signer' = [c \in DOMAIN signer |->
                   IF c \in DOMAIN f.chains THEN KeyOf[f.chains[c]] ELSE signer[c]]
           /\ root' = NewRoot(f.chains)
           /\ rootCrl' = IF f.crl THEN f.n ELSE rootCrl
    <2>1. /\ f.n \in Pubs
          /\ f.chains \in UNION {[C -> Pubs] : C \in SUBSET {"intermediate", "signing"}}
        BY ConstantsAssumption DEF ConstantsAssumption
    <2>2. \A c \in DOMAIN f.chains : c \in {"intermediate", "signing"} /\ f.chains[c] \in Pubs
        BY <2>1
    <2>3. \A c \in DOMAIN f.chains :
              /\ KeyOf[f.chains[c]] \in Keys /\ KeyOf[f.chains[c]] # 0
              /\ RootOf[f.chains[c]] \in Roots /\ RootOf[f.chains[c]] # 0
        BY <2>2, KeyTypes
    <2>4. CASE DOMAIN f.chains = {}
        BY <1>2, <2>1, <2>4, KeyTypes DEF NewRoot, ChainInvariant, TypeOK, RowsStay
    <2>5. CASE DOMAIN f.chains # {}
        <3>1. (CHOOSE c \in DOMAIN f.chains : TRUE) \in DOMAIN f.chains
            BY <2>5
        <3>2. root' \in Roots /\ root' # 0
            BY <1>2, <2>3, <2>5, <3>1 DEF NewRoot
        <3> QED
            BY <1>2, <2>1, <2>3, <3>2, KeyTypes DEF ChainInvariant, TypeOK, RowsStay
    <2> QED
        BY <2>4, <2>5
<1> QED
    BY <1>1, <1>2 DEF Put

\* Taken together: rows stay in every step.
LEMMA StepStays == ChainInvariant /\ [Next]_vars => RowsStay
<1> SUFFICES ASSUME ChainInvariant, [Next]_vars PROVE RowsStay
    OBVIOUS
<1>1. CASE UNCHANGED rows
    BY <1>1, StandStill
<1>2. CASE Publish \/ Rest \/ UNCHANGED vars
    BY <1>1, <1>2 DEF Publish, Rest, vars
<1>3. ASSUME NEW r \in Requests, \/ \E x \in Things : Get(r, x)
                                \/ \E I \in SUBSET Identities : Check(r, I)
                                \/ FetchCertificates(r) \/ Refresh(r)
      PROVE  RowsStay
    BY <1>1, <1>3 DEF Get, Check, FetchCertificates, Refresh, Start
<1>4. ASSUME NEW r \in Requests, NEW x \in Things, Query(r, x) \/ Fetch(r, x) \/ Refetch(r, x)
      PROVE  RowsStay
    BY <1>1, <1>4 DEF Query, Fetch, Refetch
<1>5. ASSUME NEW r \in Requests, \/ QueryRoot(r) \/ AskIdentity(r) \/ WriteChain(r)
                                \/ Download(r) \/ RefetchRoot(r)
      PROVE  RowsStay
    BY <1>1, <1>5 DEF QueryRoot, AskIdentity, WriteChain, Download, RefetchRoot
<1> QED
    BY <1>2, <1>3, <1>4, <1>5, StoreStays, StoreCertificatesStays, StoreRootStays, PersistStays,
       PutStays
    DEF Next, Continue

\* The other variables have their types after a step.
LEMMA StepTypes == ChainInvariant /\ [Next]_vars => TypeOK'
<1> SUFFICES ASSUME ChainInvariant, [Next]_vars PROVE TypeOK'
    OBVIOUS
<1> DEFINE RestTypes == /\ mode \in {"LAZY", "REQ", "OFFLINE"} /\ v4 \in BOOLEAN /\ starts \in 0..MaxStarts
                        /\ pcs \in Pubs /\ read \in [Requests -> Roots]
                        /\ alone \in BOOLEAN /\ healed \in BOOLEAN
           LockTypes == /\ holder \in Requests \cup {None} /\ draft \in Keys
                        /\ (holder = None <=> draft = 0)
<1>1. RestTypes /\ LockTypes /\ root \in Roots /\ 0 \in Roots /\ 0 \in Keys
    BY DEF ChainInvariant, TypeOK, Roots, Keys
<1>2. RowsStay
    BY StepStays
<1>3. PartTypes' /\ op' \in [Requests -> {"none", "get", "check", "pckcert", "refresh", "put"}]
    <2>1. CASE Next
        BY <2>1, RequestTypes
    <2>2. CASE UNCHANGED vars
        BY <2>2 DEF ChainInvariant, TypeOK, PartTypes, vars, request
    <2> QED
        BY <2>1, <2>2
<1>4. RestTypes' /\ LockTypes'
    <2>1. CASE UNCHANGED vars \/ Rest
        BY <1>1, <2>1 DEF vars, request, locks, Rest
    <2>2. CASE Publish
        BY <1>1, <2>2 DEF Publish, request, locks
    <2>4. ASSUME NEW r \in Requests, NEW kind, NEW X, NEW place, Start(r, kind, X, place)
          PROVE  RestTypes' /\ LockTypes'
        <3>1. starts' \in 0..MaxStarts
            <4>1. starts \in 0..MaxStarts /\ MaxStarts \in Nat /\ starts < MaxStarts /\ starts' = starts + 1
                BY <1>1, <2>4, ConstantsAssumption DEF ConstantsAssumption, Start, Begins
            <4> QED
                BY <4>1
        <3>2. /\ mode' = mode /\ v4' = v4 /\ pcs' = pcs /\ healed' = healed /\ UNCHANGED locks
              /\ alone' = (kind = "refresh" /\ v4 /\ \A q \in Requests : Idle(q))
              /\ read' = [read EXCEPT ![r] = 0]
            BY <2>4 DEF Start
        <3>3. alone' \in BOOLEAN
            BY <3>2
        <3>4. read' \in [Requests -> Roots]
            BY <1>1, <3>2
        <3> QED
            BY <1>1, <3>1, <3>2, <3>3, <3>4 DEF locks
    <2>5. ASSUME NEW r \in Requests, \/ \E x \in Things : Get(r, x)
                                    \/ \E I \in SUBSET Identities : Check(r, I)
                                    \/ FetchCertificates(r) \/ Refresh(r)
          PROVE  RestTypes' /\ LockTypes'
        BY <2>4, <2>5 DEF Get, Check, FetchCertificates, Refresh
    <2>6. ASSUME NEW r \in Requests, NEW f \in Files, Put(r, f)
          PROVE  RestTypes' /\ LockTypes'
        <3>1. starts' \in 0..MaxStarts
            <4>1. starts \in 0..MaxStarts /\ MaxStarts \in Nat /\ starts < MaxStarts /\ starts' = starts + 1
                BY <1>1, <2>6, ConstantsAssumption DEF ConstantsAssumption, Put, Begins
            <4> QED
                BY <4>1
        <3> QED
            BY <1>1, <2>6, <3>1 DEF Put, locks
    <2>7. ASSUME NEW r \in Requests, NEW x \in Things,
                 Query(r, x) \/ Fetch(r, x) \/ Store(r, x) \/ StoreCertificates(r)
          PROVE  RestTypes' /\ LockTypes'
        BY <1>1, <2>7 DEF Query, Fetch, Store, StoreCertificates, locks
    <2>8. ASSUME NEW r \in Requests, NEW x \in Things, Refetch(r, x)
          PROVE  RestTypes' /\ LockTypes'
        <3>1. alone' \in BOOLEAN
            BY <1>1, <2>8 DEF Refetch
        <3> QED
            BY <1>1, <2>8, <3>1 DEF Refetch, locks
    <2>9. ASSUME NEW r \in Requests, QueryRoot(r) \/ AskIdentity(r) \/ RefetchRoot(r)
          PROVE  RestTypes' /\ LockTypes'
        BY <1>1, <2>9 DEF QueryRoot, AskIdentity, RefetchRoot, locks
    <2>10. ASSUME NEW r \in Requests, WriteChain(r)
           PROVE  RestTypes' /\ LockTypes'
        <3> DEFINE n == got[r]["rootcacrl"]
        <3>1. n \in Pubs
            <4>1. n # 0
                BY <2>10 DEF WriteChain, ChainInvariant, Parts, Holding
            <4>2. n \in Pubs \cup {0}
                BY DEF ChainInvariant, TypeOK, Things
            <4> QED
                BY <4>1, <4>2
        <3>2. KeyOf[n] \in Keys /\ KeyOf[n] # 0 /\ RootOf[n] \in Roots
            BY <3>1, KeyTypes
        <3>3. None # r
            BY ConstantsAssumption DEF ConstantsAssumption
        <3>4. \/ holder' = r /\ draft' = KeyOf[n] /\ read' = [read EXCEPT ![r] = RootOf[n]]
              \/ UNCHANGED <<locks, read>>
            BY <2>10 DEF WriteChain
        <3>5. UNCHANGED <<mode, v4, starts, pcs, alone, healed>>
            BY <2>10 DEF WriteChain
        <3> HIDE DEF n
        <3> QED
            BY <1>1, <3>2, <3>3, <3>4, <3>5 DEF locks
    <2>11. ASSUME NEW r \in Requests, Download(r) \/ StoreRoot(r)
           PROVE  RestTypes' /\ LockTypes'
        <3>1. UNCHANGED <<mode, v4, starts, pcs, read, alone, healed>>
            BY <2>11 DEF Download, StoreRoot
        <3>2. UNCHANGED locks \/ Releases(r)
            BY <2>11 DEF Download, StoreRoot
        <3> QED
            BY <1>1, <3>1, <3>2 DEF locks, Releases
    <2>12. ASSUME NEW r \in Requests, Persist(r)
           PROVE  RestTypes' /\ LockTypes'
        <3>1. UNCHANGED <<mode, v4, starts, pcs, read, alone, locks>>
            BY <2>12 DEF Persist
        <3>2. healed' \in BOOLEAN
            BY <1>1, <2>12 DEF Persist
        <3> QED
            BY <1>1, <3>1, <3>2 DEF locks
    <2>13. "pckcert" \in Things
        BY DEF Things
    <2> QED
        BY <2>1, <2>2, <2>5, <2>6, <2>7, <2>8, <2>9, <2>10, <2>11, <2>12, <2>13 DEF Next, Continue
<1>5. /\ mode' \in {"LAZY", "REQ", "OFFLINE"} /\ v4' \in BOOLEAN /\ starts' \in 0..MaxStarts
      /\ pcs' \in Pubs /\ read' \in [Requests -> Roots]
      /\ {alone, healed}' \subseteq BOOLEAN
      /\ holder' \in Requests \cup {None} /\ draft' \in Keys
      /\ (holder' = None <=> draft' = 0)
    BY <1>4
<1>6. DOMAIN signer' = {"intermediate", "signing"}
    BY <1>2 DEF RowsStay
<1> QED
    BY <1>2, <1>3, <1>5, <1>6 DEF TypeOK, RowsStay, PartTypes

-----------------------------------------------------------------------------
(* Parts: where they may be after a step.                                   *)

\* An item that is in the cache stays there.
LEMMA ServableKept ==
    ASSUME RowsStay, NEW k \in Items, Servable(k)
    PROVE  Servable(k)'
<1>1. SignerOf(k) \in {"intermediate", "signing"}
    BY DEF SignerOf
<1> QED
    BY <1>1 DEF RowsStay, Servable

\* A request that the step does not touch.
LEMMA OthersStay ==
    ASSUME ChainInvariant, RowsStay, NEW q \in Requests,
           at'[q] = at[q], got'[q] = got[q], read'[q] = read[q], op'[q] = op[q], out'[q] = out[q]
    PROVE  Parts(q)'
<1>1. Parts(q)
    BY DEF ChainInvariant
<1>2. Holding(q)' /\ Kinds(q)' /\ Checks(q)'
    BY <1>1 DEF Parts, Holding, Kinds, Checks
<1>3. DoneIsCached(q)'
    BY <1>1, ServableKept DEF Parts, DoneIsCached, RowsStay
<1> QED
    BY <1>2, <1>3 DEF Parts

\* A request that starts, or none of whose parts are left.
LEMMA StartsParts ==
    ASSUME ChainInvariant, NEW r \in Requests, NEW kind, NEW X, NEW place, Start(r, kind, X, place),
           \/ place = "query" /\ kind \in {"get", "check"}
           \/ place = "fetch" /\ kind = "pckcert" /\ "rootcacrl" \notin X
           \/ place = "refetch" /\ kind = "refresh",
           kind = "check" => {"pckcrl", "rootcacrl"} \subseteq X
    PROVE  Parts(r)'
<1>1. /\ at' = [at EXCEPT ![r] = [x \in Things |-> IF x \in X THEN place ELSE "none"]]
      /\ op' = [op EXCEPT ![r] = kind] /\ out' = [out EXCEPT ![r] = "open"]
    BY DEF Start, Begins
<1>2. /\ \A x \in Things : at'[r][x] = IF x \in X THEN place ELSE "none"
      /\ op'[r] = kind /\ out'[r] = "open"
    BY <1>1 DEF ChainInvariant, TypeOK
<1>3. {"pckcrl", "rootcacrl"} \subseteq Things /\ Items \subseteq Things
    BY DEF Things, Items
<1>4. Holding(r)'
    BY <1>2, <1>3 DEF Holding
<1>5. Kinds(r)' /\ Checks(r)'
    BY <1>2, <1>3 DEF Kinds, Checks
<1>6. DoneIsCached(r)'
    BY <1>2, <1>3 DEF DoneIsCached
<1> QED
    BY <1>4, <1>5, <1>6 DEF Parts

\* A part that goes on to a place where it has what it needs.
LEMMA GoesParts ==
    ASSUME ChainInvariant, RowsStay, UNCHANGED op, NEW r \in Requests, NEW x \in Things,
           NEW place, NEW n, Goes(r, x, place, n),
           at[r][x] \notin Over, place \notin Over \cup {"query"},
           x # "rootcacrl" => read'[r] = read[r],
           x # "rootcacrl" /\ place = "store" => n # 0,
           x = "rootcacrl" => place \notin {"store", "fetch"},
           x = "rootcacrl" /\ place \in {"chain", "store root", "fetched"} => n # 0,
           x = "rootcacrl" /\ place \in {"download", "store root"} => read'[r] # 0,
           x = "rootcacrl" /\ place = "ask" => op[r] = "get",
           place \in {"refetch", "fetched"} => op[r] = "refresh"
    PROVE  Parts(r)'
<1>1. Parts(r)
    BY DEF ChainInvariant
<1>2. /\ \A y \in Things : /\ at'[r][y] = IF y = x THEN place ELSE at[r][y]
                           /\ got'[r][y] = IF y = x THEN n ELSE got[r][y]
      /\ out'[r] = out[r] /\ op'[r] = op[r]
    BY DEF Goes, ChainInvariant, TypeOK
<1>3. {"pckcrl", "rootcacrl"} \subseteq Things /\ Items \subseteq Things
    BY DEF Things, Items
<1>4. Holding(r)'
    BY <1>1, <1>2, <1>3 DEF Parts, Holding
<1>5. Kinds(r)'
    BY <1>1, <1>2, <1>3 DEF Parts, Kinds
<1>6. Checks(r)'
    BY <1>1, <1>2, <1>3 DEF Parts, Checks, Over
<1>7. DoneIsCached(r)'
    BY <1>1, <1>2, <1>3, ServableKept DEF Parts, DoneIsCached, Over, RowsStay
<1> QED
    BY <1>4, <1>5, <1>6, <1>7 DEF Parts

\* A part that ends with its thing in the cache.
LEMMA EndsParts ==
    ASSUME ChainInvariant, RowsStay, UNCHANGED op, NEW r \in Requests, NEW x \in Things,
           Ends(r, x), at[r][x] # "none",
           x # "rootcacrl" => read'[r] = read[r],
           x \in Items => Servable(x)', x = "rootcacrl" => rootCrl' # 0
    PROVE  Parts(r)'
<1>1. Parts(r)
    BY DEF ChainInvariant
<1>2. /\ \A y \in Things : /\ at'[r][y] = IF y = x THEN "done" ELSE at[r][y]
                           /\ got'[r][y] = IF y = x THEN 0 ELSE got[r][y]
      /\ op'[r] = op[r]
      /\ out'[r] = IF out[r] = "open" /\ \A y \in Things \ {x} : at[r][y] \in Over
                   THEN "ok" ELSE out[r]
    BY DEF Ends, ChainInvariant, TypeOK
<1>3. {"pckcrl", "rootcacrl"} \subseteq Things /\ Items \subseteq Things
    BY DEF Things, Items
<1>4. Holding(r)'
    BY <1>1, <1>2, <1>3 DEF Parts, Holding
<1>5. Kinds(r)'
    BY <1>1, <1>2, <1>3 DEF Parts, Kinds
<1>6. Checks(r)'
    BY <1>1, <1>2, <1>3 DEF Parts, Checks, Over
<1>7. DoneIsCached(r)'
    BY <1>1, <1>2, <1>3, ServableKept DEF Parts, DoneIsCached, RowsStay
<1> QED
    BY <1>4, <1>5, <1>6, <1>7 DEF Parts

\* A part that fails.
LEMMA FailsParts ==
    ASSUME ChainInvariant, RowsStay, UNCHANGED op, NEW r \in Requests, NEW x \in Things,
           Fails(r, x), x # "rootcacrl" => read'[r] = read[r]
    PROVE  Parts(r)'
<1> DEFINE ended == {y \in Things : y = x \/ Wave(y) > Wave(x) \/ op[r] = "refresh"}
<1>1. Parts(r)
    BY DEF ChainInvariant
<1>2. /\ at' = [at EXCEPT ![r] = [y \in Things |-> IF y \in ended THEN "none" ELSE @[y]]]
      /\ got' = [got EXCEPT ![r] = [y \in Things |-> IF y \in ended THEN 0 ELSE @[y]]]
      /\ out' = [out EXCEPT ![r] = "failed"]
    BY DEF Fails
<1>3. {"pckcrl", "rootcacrl"} \subseteq Things /\ Items \subseteq Things
    BY DEF Things, Items
<1>4. /\ x \in ended
      /\ "pckcrl" \in ended => "rootcacrl" \in ended
    BY <1>3 DEF Wave
<1> HIDE DEF ended
<1>5. /\ \A y \in Things : /\ at'[r][y] = IF y \in ended THEN "none" ELSE at[r][y]
                           /\ got'[r][y] = IF y \in ended THEN 0 ELSE got[r][y]
      /\ op'[r] = op[r] /\ out'[r] = "failed"
    BY <1>2 DEF ChainInvariant, TypeOK
<1>6. Holding(r)'
    BY <1>1, <1>3, <1>4, <1>5 DEF Parts, Holding
<1>7. Kinds(r)'
    BY <1>1, <1>3, <1>5 DEF Parts, Kinds
<1>8. Checks(r)'
    BY <1>1, <1>3, <1>4, <1>5 DEF Parts, Checks
<1>9. DoneIsCached(r)'
    BY <1>1, <1>3, <1>5, ServableKept DEF Parts, DoneIsCached, RowsStay
<1> QED
    BY <1>6, <1>7, <1>8, <1>9 DEF Parts

\* Of the requests other than r a step of r changes nothing.
OnlyOf(r) ==
    \A q \in Requests \ {r} : /\ at'[q] = at[q] /\ got'[q] = got[q] /\ read'[q] = read[q]
                              /\ op'[q] = op[q] /\ out'[q] = out[q]

\* When one request moves it is enough to look at its own parts.
LEMMA OneMoves ==
    ASSUME ChainInvariant, RowsStay, NEW r \in Requests, OnlyOf(r), Parts(r)'
    PROVE  \A q \in Requests : Parts(q)'
BY OthersStay DEF OnlyOf

\* Goes, Ends and Fails touch one request.
LEMMA PartsOnlyOf ==
    ASSUME ChainInvariant, NEW r \in Requests, NEW x \in Things, UNCHANGED op,
           \/ \E place, n : Goes(r, x, place, n)
           \/ Ends(r, x) \/ Fails(r, x),
           read' = read \/ \E n : read' = [read EXCEPT ![r] = n]
    PROVE  OnlyOf(r)
<1>1. \A q \in Requests \ {r} : op'[q] = op[q] /\ read'[q] = read[q]
    BY DEF ChainInvariant, TypeOK
<1>2. ASSUME NEW q \in Requests \ {r}
      PROVE  at'[q] = at[q] /\ got'[q] = got[q] /\ out'[q] = out[q]
    BY DEF ChainInvariant, TypeOK, Goes, Ends, Fails
<1> QED
    BY <1>1, <1>2 DEF OnlyOf

\* Every request's parts are where they may be after a step, action by action.
LEMMA StepParts == ChainInvariant /\ [Next]_vars => \A q \in Requests : Parts(q)'
<1> SUFFICES ASSUME ChainInvariant, [Next]_vars PROVE \A q \in Requests : Parts(q)'
    OBVIOUS
<1>1. RowsStay
    BY StepStays
<1>2. {"pckcrl", "rootcacrl", "pckcert"} \subseteq Things /\ Items \subseteq Things
      /\ "rootcacrl" \notin Items /\ "pckcert" \notin Items /\ Things = Items \cup {"rootcacrl", "pckcert"}
    BY ConstantsAssumption DEF ConstantsAssumption, Things, Items
<1>3. \A r \in Requests : Holding(r) /\ Kinds(r) /\ Checks(r) /\ DoneIsCached(r)
    BY DEF ChainInvariant, Parts
<1>4. CASE UNCHANGED request
    BY <1>1, <1>4, OthersStay DEF request
<1>5. CASE Publish \/ Rest \/ UNCHANGED vars
    BY <1>4, <1>5 DEF Publish, Rest, vars
<1>6. ASSUME NEW r \in Requests, NEW kind, NEW X, NEW place, Start(r, kind, X, place)
      PROVE  OnlyOf(r)
    BY <1>6 DEF Start, Begins, OnlyOf, ChainInvariant, TypeOK
<1>7. ASSUME NEW r \in Requests, NEW x \in Things, Get(r, x)
      PROVE  \A q \in Requests : Parts(q)'
    BY <1>1, <1>6, <1>7, StartsParts, OneMoves DEF Get
<1>8. ASSUME NEW r \in Requests, NEW I \in SUBSET Identities, Check(r, I)
      PROVE  \A q \in Requests : Parts(q)'
    BY <1>1, <1>6, <1>8, StartsParts, OneMoves DEF Check
<1>9. ASSUME NEW r \in Requests, FetchCertificates(r)
      PROVE  \A q \in Requests : Parts(q)'
    BY <1>1, <1>6, <1>9, StartsParts, OneMoves DEF FetchCertificates
<1>10. ASSUME NEW r \in Requests, Refresh(r)
       PROVE  \A q \in Requests : Parts(q)'
    BY <1>1, <1>6, <1>10, StartsParts, OneMoves DEF Refresh
<1>11. ASSUME NEW r \in Requests, NEW f \in Files, Put(r, f)
       PROVE  \A q \in Requests : Parts(q)'
    <2>1. /\ op' = [op EXCEPT ![r] = "put"] /\ UNCHANGED <<at, got, read>>
          /\ \/ out' = [out EXCEPT ![r] = "ok"] \/ out' = [out EXCEPT ![r] = "failed"]
          /\ \A x \in Things : at[r][x] \in Over
        BY <1>11 DEF Put, Begins, Idle
    <2>2. OnlyOf(r)
        BY <2>1 DEF OnlyOf, ChainInvariant, TypeOK
    <2>3. op'[r] = "put" /\ at'[r] = at[r]
        BY <2>1 DEF ChainInvariant, TypeOK
    <2>4. Holding(r)' /\ Kinds(r)' /\ Checks(r)'
        BY <1>2, <2>1, <2>3 DEF Holding, Kinds, Checks, Over
    <2>5. DoneIsCached(r)'
        BY <1>1, <1>3, <2>3, ServableKept DEF DoneIsCached, RowsStay
    <2> QED
        BY <1>1, <2>2, <2>4, <2>5, OneMoves DEF Parts
<1>12. ASSUME NEW r \in Requests, NEW k \in Things, Query(r, k)
       PROVE  \A q \in Requests : Parts(q)'
    <2>1. /\ k # "rootcacrl" /\ at[r][k] = "query" /\ UNCHANGED <<op, read>>
          /\ (Ends(r, k) /\ Servable(k)) \/ Goes(r, k, "fetch", 0) \/ Fails(r, k)
        BY <1>12 DEF Query
    <2>2. OnlyOf(r)
        BY <2>1, PartsOnlyOf
    <2>3. CASE Ends(r, k) /\ Servable(k)
        BY <1>1, <2>1, <2>2, <2>3, EndsParts, ServableKept, OneMoves
    <2>4. CASE Goes(r, k, "fetch", 0)
        BY <1>1, <2>1, <2>2, <2>4, GoesParts, OneMoves DEF Over
    <2>5. CASE Fails(r, k)
        BY <1>1, <2>1, <2>2, <2>5, FailsParts, OneMoves
    <2> QED
        BY <2>1, <2>3, <2>4, <2>5
<1>13. ASSUME NEW r \in Requests, NEW x \in Things, Fetch(r, x)
       PROVE  \A q \in Requests : Parts(q)'
    <2>1. /\ at[r][x] = "fetch" /\ x # "rootcacrl" /\ UNCHANGED <<op, read>>
          /\ Goes(r, x, "store", pcs) \/ Fails(r, x)
        BY <1>3, <1>13 DEF Fetch, Kinds
    <2>2. OnlyOf(r)
        BY <2>1, PartsOnlyOf
    <2>3. pcs # 0
        BY KeyTypes DEF ChainInvariant, TypeOK
    <2>4. CASE Goes(r, x, "store", pcs)
        BY <1>1, <2>1, <2>2, <2>3, <2>4, GoesParts, OneMoves DEF Over
    <2>5. CASE Fails(r, x)
        BY <1>1, <2>1, <2>2, <2>5, FailsParts, OneMoves
    <2> QED
        BY <2>1, <2>4, <2>5
<1>14. ASSUME NEW r \in Requests, NEW x \in Things, Store(r, x)
       PROVE  \A q \in Requests : Parts(q)'
    <2>1. /\ at[r][x] = "store" /\ x # "rootcacrl" /\ UNCHANGED <<op, read>>
          /\ (~Blocked(r) /\ Ends(r, x)) \/ Fails(r, x)
        BY <1>3, <1>14 DEF Store, Holding
    <2>2. OnlyOf(r)
        BY <2>1, PartsOnlyOf
    <2>3. CASE ~Blocked(r) /\ Ends(r, x)
        BY <1>1, <1>14, <2>1, <2>2, <2>3, StoreStays, EndsParts, OneMoves
    <2>4. CASE Fails(r, x)
        BY <1>1, <2>1, <2>2, <2>4, FailsParts, OneMoves
    <2> QED
        BY <2>1, <2>3, <2>4
<1>23. ASSUME NEW r \in Requests, StoreCertificates(r)
       PROVE  \A q \in Requests : Parts(q)'
    <2>1. /\ at[r]["pckcert"] = "store" /\ UNCHANGED <<op, read>>
          /\ Ends(r, "pckcert") \/ Fails(r, "pckcert")
        BY <1>23 DEF StoreCertificates
    <2>2. OnlyOf(r)
        BY <1>2, <2>1, PartsOnlyOf
    <2>3. CASE Ends(r, "pckcert")
        BY <1>1, <1>2, <2>1, <2>2, <2>3, EndsParts, OneMoves
    <2>4. CASE Fails(r, "pckcert")
        BY <1>1, <1>2, <2>1, <2>2, <2>4, FailsParts, OneMoves
    <2> QED
        BY <2>1, <2>3, <2>4
<1>15. ASSUME NEW r \in Requests, NEW k \in Things, Refetch(r, k)
       PROVE  \A q \in Requests : Parts(q)'
    <2>1. /\ at[r][k] = "refetch" /\ k # "rootcacrl" /\ op[r] = "refresh" /\ UNCHANGED <<op, read>>
          /\ (\E n : Goes(r, k, "fetched", n)) \/ Fails(r, k)
        BY <1>3, <1>15 DEF Refetch, Kinds
    <2>2. OnlyOf(r)
        BY <2>1, PartsOnlyOf
    <2>3. ASSUME NEW n, Goes(r, k, "fetched", n)
          PROVE  \A q \in Requests : Parts(q)'
        BY <1>1, <2>1, <2>2, <2>3, GoesParts, OneMoves DEF Over
    <2>4. CASE Fails(r, k)
        BY <1>1, <2>1, <2>2, <2>4, FailsParts, OneMoves
    <2> QED
        BY <2>1, <2>3, <2>4
<1>16. ASSUME NEW r \in Requests, QueryRoot(r)
       PROVE  \A q \in Requests : Parts(q)'
    <2>1. /\ at[r]["rootcacrl"] = "query" /\ Begun(r, "rootcacrl") /\ UNCHANGED op
          /\ read' = [read EXCEPT ![r] = root]
          /\ \/ rootCrl # 0 /\ Ends(r, "rootcacrl")
             \/ Goes(r, "rootcacrl", IF root = 0 THEN "ask" ELSE "download", 0)
             \/ Fails(r, "rootcacrl")
        BY <1>16 DEF QueryRoot
    <2>2. OnlyOf(r) /\ read'[r] = root
        <3>1. OnlyOf(r)
            BY <1>2, <2>1, PartsOnlyOf
        <3> QED
            BY <2>1, <3>1 DEF ChainInvariant, TypeOK
    <2>3. CASE rootCrl # 0 /\ Ends(r, "rootcacrl")
        BY <1>1, <1>2, <2>1, <2>2, <2>3, EndsParts, OneMoves DEF RowsStay
    <2>4. root = 0 => op[r] = "get"
        <3>1. op[r] \in {"get", "check"}
            BY <1>2, <1>3, <2>1 DEF Kinds
        <3>2. at[r]["pckcrl"] \in {"none", "done", "fetched"}
            BY <1>2, <2>1 DEF Begun, Wave, Over
        <3>3. at[r]["pckcrl"] = "fetched" => op[r] = "refresh"
            BY <1>2, <1>3 DEF Kinds
        <3>4. op[r] = "check" => Servable("pckcrl")
            BY <1>2, <1>3, <2>1, <3>2, <3>3 DEF Checks, DoneIsCached, Items
        <3> QED
            BY <3>1, <3>4 DEF Servable
    <2>5. CASE Goes(r, "rootcacrl", IF root = 0 THEN "ask" ELSE "download", 0)
        BY <1>1, <1>2, <2>1, <2>2, <2>4, <2>5, GoesParts, OneMoves DEF Over
    <2>6. CASE Fails(r, "rootcacrl")
        BY <1>1, <1>2, <2>1, <2>2, <2>6, FailsParts, OneMoves
    <2> QED
        BY <2>1, <2>3, <2>5, <2>6
<1>17. ASSUME NEW r \in Requests, AskIdentity(r)
       PROVE  \A q \in Requests : Parts(q)'
    <2>1. /\ at[r]["rootcacrl"] = "ask" /\ op[r] = "get" /\ UNCHANGED <<op, read>>
          /\ Goes(r, "rootcacrl", "chain", pcs) \/ Fails(r, "rootcacrl")
        BY <1>3, <1>17 DEF AskIdentity, Kinds
    <2>2. OnlyOf(r) /\ pcs # 0
        BY <1>2, <2>1, PartsOnlyOf, KeyTypes DEF ChainInvariant, TypeOK
    <2>3. CASE Goes(r, "rootcacrl", "chain", pcs)
        BY <1>1, <1>2, <2>1, <2>2, <2>3, GoesParts, OneMoves DEF Over
    <2>4. CASE Fails(r, "rootcacrl")
        BY <1>1, <1>2, <2>1, <2>2, <2>4, FailsParts, OneMoves
    <2> QED
        BY <2>1, <2>3, <2>4
<1>18. ASSUME NEW r \in Requests, WriteChain(r)
       PROVE  \A q \in Requests : Parts(q)'
    <2> DEFINE n == got[r]["rootcacrl"]
    <2>1. /\ at[r]["rootcacrl"] = "chain" /\ UNCHANGED op
          /\ \/ read' = [read EXCEPT ![r] = RootOf[n]] /\ Goes(r, "rootcacrl", "download", 0)
             \/ Fails(r, "rootcacrl") /\ UNCHANGED read
        BY <1>18 DEF WriteChain
    <2>2. RootOf[n] # 0
        <3>1. n # 0
            BY <1>3, <2>1 DEF Holding
        <3>2. n \in Pubs \cup {0}
            BY <1>2 DEF ChainInvariant, TypeOK
        <3> QED
            BY <3>1, <3>2, KeyTypes
    <2>3. OnlyOf(r)
        BY <1>2, <2>1, PartsOnlyOf
    <2>4. CASE read' = [read EXCEPT ![r] = RootOf[n]] /\ Goes(r, "rootcacrl", "download", 0)
        <3>1. read'[r] # 0
            BY <2>2, <2>4 DEF ChainInvariant, TypeOK
        <3> QED
            BY <1>1, <1>2, <2>1, <2>3, <2>4, <3>1, GoesParts, OneMoves DEF Over
    <2>5. CASE Fails(r, "rootcacrl")
        BY <1>1, <1>2, <2>1, <2>3, <2>5, FailsParts, OneMoves
    <2> QED
        BY <2>1, <2>4, <2>5
<1>19. ASSUME NEW r \in Requests, Download(r)
       PROVE  \A q \in Requests : Parts(q)'
    <2>1. /\ at[r]["rootcacrl"] = "download" /\ UNCHANGED <<op, read>>
          /\ Goes(r, "rootcacrl", "store root", pcs) \/ Fails(r, "rootcacrl")
        BY <1>19 DEF Download
    <2>2. OnlyOf(r) /\ pcs # 0 /\ read'[r] # 0
        BY <1>2, <1>3, <2>1, PartsOnlyOf, KeyTypes DEF ChainInvariant, TypeOK, Holding
    <2>3. CASE Goes(r, "rootcacrl", "store root", pcs)
        BY <1>1, <1>2, <2>1, <2>2, <2>3, GoesParts, OneMoves DEF Over
    <2>4. CASE Fails(r, "rootcacrl")
        BY <1>1, <1>2, <2>1, <2>2, <2>4, FailsParts, OneMoves
    <2> QED
        BY <2>1, <2>3, <2>4
<1>20. ASSUME NEW r \in Requests, StoreRoot(r)
       PROVE  \A q \in Requests : Parts(q)'
    <2>1. /\ at[r]["rootcacrl"] = "store root" /\ UNCHANGED <<op, read>>
          /\ (~Blocked(r) /\ Ends(r, "rootcacrl")) \/ Fails(r, "rootcacrl")
        BY <1>20 DEF StoreRoot
    <2>2. OnlyOf(r)
        BY <1>2, <2>1, PartsOnlyOf
    <2>3. CASE ~Blocked(r) /\ Ends(r, "rootcacrl")
        BY <1>1, <1>2, <1>20, <2>1, <2>2, <2>3, StoreRootStays, EndsParts, OneMoves
    <2>4. CASE Fails(r, "rootcacrl")
        BY <1>1, <1>2, <2>1, <2>2, <2>4, FailsParts, OneMoves
    <2> QED
        BY <2>1, <2>3, <2>4
<1>21. ASSUME NEW r \in Requests, RefetchRoot(r)
       PROVE  \A q \in Requests : Parts(q)'
    <2>1. /\ at[r]["rootcacrl"] = "refetch" /\ op[r] = "refresh" /\ UNCHANGED <<op, read>>
          /\ Goes(r, "rootcacrl", "fetched", pcs) \/ Fails(r, "rootcacrl")
        BY <1>2, <1>3, <1>21 DEF RefetchRoot, Kinds
    <2>2. OnlyOf(r) /\ pcs # 0
        BY <1>2, <2>1, PartsOnlyOf, KeyTypes DEF ChainInvariant, TypeOK
    <2>3. CASE Goes(r, "rootcacrl", "fetched", pcs)
        BY <1>1, <1>2, <2>1, <2>2, <2>3, GoesParts, OneMoves DEF Over
    <2>4. CASE Fails(r, "rootcacrl")
        BY <1>1, <1>2, <2>1, <2>2, <2>4, FailsParts, OneMoves
    <2> QED
        BY <2>1, <2>3, <2>4
<1>22. ASSUME NEW r \in Requests, Persist(r)
       PROVE  \A q \in Requests : Parts(q)'
    <2>1. op[r] = "refresh" /\ UNCHANGED <<op, read>>
        BY <1>2, <1>3, <1>22 DEF Persist, Kinds
    <2>2. CASE Blocked(r)
        <3>1. Fails(r, "rootcacrl")
            BY <1>22, <2>2 DEF Persist
        <3> QED
            BY <1>1, <1>2, <2>1, <3>1, FailsParts, PartsOnlyOf, OneMoves
    <2>3. CASE ~Blocked(r)
        <3>1. /\ at' = [at EXCEPT ![r] = [x \in Things |-> "none"]]
              /\ got' = [got EXCEPT ![r] = Nothing]
              /\ out' = [out EXCEPT ![r] = "ok"]
            BY <1>22, <2>3 DEF Persist
        <3>2. OnlyOf(r)
            BY <2>1, <3>1 DEF OnlyOf, ChainInvariant, TypeOK
        <3>3. (\A x \in Things : at'[r][x] = "none") /\ op'[r] = "refresh"
            BY <2>1, <3>1 DEF ChainInvariant, TypeOK
        <3>4. Parts(r)'
            BY <1>2, <3>3 DEF Parts, Holding, Kinds, Checks, DoneIsCached
        <3> QED
            BY <1>1, <3>2, <3>4, OneMoves
    <2> QED
        BY <2>2, <2>3
<1> QED
    BY <1>5, <1>7, <1>8, <1>9, <1>10, <1>11, <1>12, <1>13, <1>14, <1>15, <1>16, <1>17, <1>18,
       <1>19, <1>20, <1>21, <1>22, <1>23 DEF Next, Continue

-----------------------------------------------------------------------------
(* Theorems.                                                                *)

\* The invariant is inductive, and so holds in every state.
LEMMA ChainInvariantHolds == Spec => []ChainInvariant
<1>1. Init => ChainInvariant
    BY InitInvariant
<1>2. ChainInvariant /\ [Next]_vars => ChainInvariant'
    <2>1. ASSUME ChainInvariant, [Next]_vars
          PROVE  ChainInvariant'
        BY <2>1, StepTypes, StepParts DEF ChainInvariant
    <2> QED
        BY <2>1
<1> QED
    BY <1>1, <1>2, PTL DEF Spec

\* The variables of IssuerChains have their types in every state.
THEOREM TypeCorrect == Spec => []TypeOK
<1>1. ChainInvariant => TypeOK
    BY DEF ChainInvariant
<1> QED
    BY <1>1, ChainInvariantHolds, PTL

\* When checkQuoteVerificationCollateral has answered POST /platforms with
\* success, the collateral it was asked for is served from the cache, however
\* its parts and other requests interleave, fail or wait for locks.
THEOREM CheckedStaysServable == Spec => []CheckedIsServable
<1>1. ChainInvariant => CheckedIsServable
    <2> SUFFICES ASSUME ChainInvariant, NEW r \in Requests, op[r] = "check", out[r] = "ok"
                 PROVE  rootCrl # 0 /\ \A x \in Items : at[r][x] = "done" => Servable(x)
        BY DEF CheckedIsServable
    <2> QED
        BY DEF ChainInvariant, Parts, Checks, DoneIsCached
<1> QED
    BY <1>1, ChainInvariantHolds, PTL

\* No step of any request, in any order and with any of its failures, takes an
\* item that is served from the cache, or a certificate of its chain, away.
THEOREM ServedStaysServed == Spec => ServableStays
<1>1. ChainInvariant /\ [Next]_vars => [\A k \in Items : Servable(k) => Servable(k)']_vars
    BY StepStays, ServableKept
<1> QED
    BY <1>1, ChainInvariantHolds, PTL DEF Spec, ServableStays
-----------------------------------------------------------------------------
(* A refresh heals the cache.                                               *)

\* A part that is over holds nothing; the root CA CRL comes last; only its
\* transaction stays open; a refresh has no other parts than its own.
Quiet(r) ==
    /\ \A x \in Things : at[r][x] \in Over => got[r][x] = 0
    /\ at[r]["rootcacrl"] \in {"ask", "chain", "download", "store root"} =>
           \A x \in Things \ {"rootcacrl"} : at[r][x] \in Over
    /\ at[r]["rootcacrl"] = "fetched" => \A k \in Items : at[r][k] \in {"none", "fetched"}
    /\ holder = r => at[r]["rootcacrl"] \in {"download", "store root"}
    /\ op[r] = "refresh" => \A x \in Things : at[r][x] \in {"none", "refetch", "fetched"}

OneRefresh ==
    \A q, r \in Requests :
        op[q] = "refresh" /\ op[r] = "refresh" /\ ~Idle(q) /\ ~Idle(r) => q = r

\* A refresh that is alone fetches all that is cached, but for what is of version
\* 3, from one publication.
Undisturbed(r) ==
    /\ op[r] = "refresh"
    /\ \A q \in Requests \ {r} : Idle(q)
    /\ \A x \in Things : got[r][x] \in {0, pcs}
    /\ \A k \in Items \ Version3 : item[k] # 0 =>
           at[r][k] = "refetch" \/ (at[r][k] = "fetched" /\ got[r][k] = pcs)

AloneIsUndisturbed == alone => \A r \in Requests : Idle(r) \/ Undisturbed(r)

\* What a healed cache holds, and what is fetched for it, is of one publication.
RowsOfPcs ==
    /\ \A k \in Items \ Version3 :
           item[k] # 0 => item[k] = pcs /\ signer[SignerOf(k)] = KeyOf[pcs]
    /\ root # 0 => root = RootOf[pcs]
    /\ rootCrl # 0 => rootCrl = pcs
PartsOfPcs ==
    /\ holder # None => draft = KeyOf[pcs]
    /\ \A r \in Requests :
           /\ \A x \in Things : got[r][x] # 0 => got[r][x] = pcs
           /\ at[r]["rootcacrl"] \in {"download", "store root"} => read[r] = RootOf[pcs]

HealInvariant ==
    /\ ChainInvariant
    /\ \A r \in Requests : Quiet(r)
    /\ OneRefresh
    /\ AloneIsUndisturbed
    /\ healed => RowsOfPcs /\ PartsOfPcs

\* Goes, Ends and Fails, thing by thing.
LEMMA GoesIs ==
    ASSUME ChainInvariant, NEW r \in Requests, NEW x \in Things, NEW place, NEW n,
           Goes(r, x, place, n)
    PROVE  /\ \A y \in Things : /\ at'[r][y] = IF y = x THEN place ELSE at[r][y]
                                /\ got'[r][y] = IF y = x THEN n ELSE got[r][y]
           /\ \A q \in Requests \ {r} : at'[q] = at[q] /\ got'[q] = got[q]
BY DEF Goes, ChainInvariant, TypeOK

\* A part that ends.
LEMMA EndsIs ==
    ASSUME ChainInvariant, NEW r \in Requests, NEW x \in Things, Ends(r, x)
    PROVE  /\ \A y \in Things : /\ at'[r][y] = IF y = x THEN "done" ELSE at[r][y]
                                /\ got'[r][y] = IF y = x THEN 0 ELSE got[r][y]
           /\ \A q \in Requests \ {r} : at'[q] = at[q] /\ got'[q] = got[q]
BY DEF Ends, ChainInvariant, TypeOK

\* One that fails takes those that come after it along, and a refresh whole.
LEMMA FailsIs ==
    ASSUME ChainInvariant, NEW r \in Requests, NEW x \in Things, Fails(r, x)
    PROVE  /\ \A y \in Things : \/ at'[r][y] = "none" /\ got'[r][y] = 0
                                \/ /\ at'[r][y] = at[r][y] /\ got'[r][y] = got[r][y]
                                   /\ y # x /\ op[r] # "refresh"
           /\ \A q \in Requests \ {r} : at'[q] = at[q] /\ got'[q] = got[q]
<1> DEFINE ended == {y \in Things : y = x \/ Wave(y) > Wave(x) \/ op[r] = "refresh"}
<1>1. /\ at' = [at EXCEPT ![r] = [y \in Things |-> IF y \in ended THEN "none" ELSE @[y]]]
      /\ got' = [got EXCEPT ![r] = [y \in Things |-> IF y \in ended THEN 0 ELSE @[y]]]
    BY DEF Fails
<1>2. \A y \in Things : y \notin ended => y # x /\ op[r] # "refresh"
    OBVIOUS
<1> HIDE DEF ended
<1> QED
    BY <1>1, <1>2 DEF ChainInvariant, TypeOK

\* A request whose part goes on, ends or fails stays quiet.
LEMMA QuietPart ==
    ASSUME ChainInvariant, NEW r \in Requests, Quiet(r), NEW x \in Things, UNCHANGED op,
           at[r][x] \notin Over \cup {"fetched"},
           holder' = r => x = "rootcacrl" /\ at'[r][x] \in {"download", "store root"},
           \/ Ends(r, x) /\ op[r] # "refresh"
           \/ Fails(r, x)
           \/ \E place, n :
                  /\ Goes(r, x, place, n) /\ place \notin Over
                  /\ op[r] = "refresh" => place = "fetched"
                  /\ x = "rootcacrl" =>
                         /\ \/ at[r][x] \in {"ask", "chain", "download", "store root"}
                            \/ \A y \in Things \ {x} : at[r][y] \in Over
                            \/ place \notin {"ask", "chain", "download", "store root"}
                         /\ place = "fetched" => \A k \in Items : at[r][k] \in {"none", "fetched"}
    PROVE  Quiet(r)'
<1>1. "rootcacrl" \in Things /\ Items \subseteq Things /\ "rootcacrl" \notin Items
    BY ConstantsAssumption DEF Things, Items
<1>2. CASE Ends(r, x) /\ op[r] # "refresh"
    <2>1. /\ \A y \in Things : /\ at'[r][y] = IF y = x THEN "done" ELSE at[r][y]
                               /\ got'[r][y] = IF y = x THEN 0 ELSE got[r][y]
          /\ op'[r] = op[r]
        BY <1>2, EndsIs
    <2>2. \A y \in Things : at'[r][y] \in Over => got'[r][y] = 0
        BY <2>1 DEF Quiet
    <2>3. at'[r]["rootcacrl"] \in {"ask", "chain", "download", "store root"} =>
              \A y \in Things \ {"rootcacrl"} : at'[r][y] \in Over
        BY <1>1, <2>1 DEF Quiet, Over
    <2>4. at'[r]["rootcacrl"] = "fetched" => \A k \in Items : at'[r][k] \in {"none", "fetched"}
        BY <1>1, <2>1 DEF Quiet, Over
    <2>5. holder' = r => at'[r]["rootcacrl"] \in {"download", "store root"}
        BY <2>1
    <2> QED
        BY <1>2, <2>1, <2>2, <2>3, <2>4, <2>5 DEF Quiet
<1>3. CASE Fails(r, x)
    <2>1. /\ \A y \in Things : \/ at'[r][y] = "none" /\ got'[r][y] = 0
                               \/ /\ at'[r][y] = at[r][y] /\ got'[r][y] = got[r][y]
                                  /\ y # x /\ op[r] # "refresh"
          /\ op'[r] = op[r]
        BY <1>3, FailsIs
    <2>2. \A y \in Things : at'[r][y] \in Over => got'[r][y] = 0
        BY <2>1 DEF Quiet
    <2>3. at'[r]["rootcacrl"] \in {"ask", "chain", "download", "store root"} =>
              \A y \in Things \ {"rootcacrl"} : at'[r][y] \in Over
        BY <1>1, <2>1 DEF Quiet, Over
    <2>4. at'[r]["rootcacrl"] = "fetched" => \A k \in Items : at'[r][k] \in {"none", "fetched"}
        BY <1>1, <2>1 DEF Quiet
    <2>5. holder' = r => at'[r]["rootcacrl"] \in {"download", "store root"}
        BY <1>1
    <2>6. op'[r] = "refresh" => \A y \in Things : at'[r][y] \in {"none", "refetch", "fetched"}
        BY <2>1
    <2> QED
        BY <2>2, <2>3, <2>4, <2>5, <2>6 DEF Quiet
<1>4. ASSUME NEW place, NEW n, Goes(r, x, place, n), place \notin Over,
             op[r] = "refresh" => place = "fetched",
             x = "rootcacrl" =>
                 /\ \/ at[r][x] \in {"ask", "chain", "download", "store root"}
                    \/ \A y \in Things \ {x} : at[r][y] \in Over
                    \/ place \notin {"ask", "chain", "download", "store root"}
                 /\ place = "fetched" => \A k \in Items : at[r][k] \in {"none", "fetched"}
      PROVE  Quiet(r)'
    <2>1. /\ \A y \in Things : /\ at'[r][y] = IF y = x THEN place ELSE at[r][y]
                               /\ got'[r][y] = IF y = x THEN n ELSE got[r][y]
          /\ op'[r] = op[r]
        <3>1. Goes(r, x, place, n)
            BY <1>4
        <3> QED
            BY <3>1 DEF Goes, ChainInvariant, TypeOK
    <2>2. \A y \in Things : at'[r][y] \in Over => got'[r][y] = 0
        BY <1>4, <2>1 DEF Quiet
    <2>3. at'[r]["rootcacrl"] \in {"ask", "chain", "download", "store root"} =>
              \A y \in Things \ {"rootcacrl"} : at'[r][y] \in Over
        <3>1. CASE x = "rootcacrl"
            BY <1>4, <2>1, <3>1 DEF Quiet
        <3>2. CASE x # "rootcacrl"
            BY <1>1, <2>1, <3>2 DEF Quiet, Over
        <3> QED
            BY <3>1, <3>2
    <2>4. at'[r]["rootcacrl"] = "fetched" => \A k \in Items : at'[r][k] \in {"none", "fetched"}
        <3>1. CASE x = "rootcacrl"
            BY <1>1, <1>4, <2>1, <3>1
        <3>2. CASE x # "rootcacrl"
            BY <1>1, <2>1, <3>2 DEF Quiet, Over
        <3> QED
            BY <3>1, <3>2
    <2>5. holder' = r => at'[r]["rootcacrl"] \in {"download", "store root"}
        BY <2>1
    <2>6. op'[r] = "refresh" => \A y \in Things : at'[r][y] \in {"none", "refetch", "fetched"}
        BY <1>4, <2>1 DEF Quiet
    <2> QED
        BY <2>2, <2>3, <2>4, <2>5, <2>6 DEF Quiet
<1> QED
    BY <1>2, <1>3, <1>4

\* Requests that a step leaves alone stay quiet.
LEMMA QuietOthers ==
    ASSUME NEW q \in Requests, Quiet(q), holder' = q => holder = q,
           at'[q] = at[q], got'[q] = got[q], op'[q] = op[q]
    PROVE  Quiet(q)'
BY DEF Quiet

\* Every step keeps every request quiet.
LEMMA StepQuiet ==
    ASSUME ChainInvariant, \A r \in Requests : Quiet(r), [Next]_vars
    PROVE  \A r \in Requests : Quiet(r)'
<1>1. {"pckcrl", "rootcacrl", "pckcert"} \subseteq Things /\ Items \subseteq Things
      /\ Things = Items \cup {"rootcacrl", "pckcert"} /\ "rootcacrl" \notin Items
    BY ConstantsAssumption DEF Things, Items
<1>2. \A r \in Requests : None # r /\ Kinds(r)
    BY ConstantsAssumption DEF ChainInvariant, Parts
<1>3. CASE UNCHANGED <<at, got, op, holder>>
    BY <1>3 DEF Quiet
<1>4. CASE Publish \/ Rest \/ UNCHANGED vars
    BY <1>3, <1>4 DEF Publish, Rest, vars, request, locks
<1>5. ASSUME NEW r \in Requests, NEW kind, NEW X, NEW place, Start(r, kind, X, place),
             place \in {"query", "fetch", "refetch"}, kind = "refresh" => place = "refetch"
      PROVE  \A q \in Requests : Quiet(q)'
    <2>1. /\ \A x \in Things : /\ at'[r][x] = IF x \in X THEN place ELSE "none"
                               /\ got'[r][x] = 0
          /\ op'[r] = kind /\ holder' = holder
          /\ \A q \in Requests \ {r} : at'[q] = at[q] /\ got'[q] = got[q] /\ op'[q] = op[q]
        BY <1>5 DEF Start, Begins, Nothing, locks, ChainInvariant, TypeOK
    <2>2. holder # r
        BY <1>1, <1>5 DEF Start, Begins, Idle, Quiet, Over
    <2>3. Quiet(r)'
        BY <1>1, <1>5, <2>1, <2>2 DEF Quiet
    <2> QED
        BY <2>1, <2>3, QuietOthers
<1>6. ASSUME NEW r \in Requests, \/ \E x \in Things : Get(r, x)
                                \/ \E I \in SUBSET Identities : Check(r, I)
                                \/ FetchCertificates(r) \/ Refresh(r)
      PROVE  \A q \in Requests : Quiet(q)'
    BY <1>5, <1>6 DEF Get, Check, FetchCertificates, Refresh
<1>7. ASSUME NEW r \in Requests, NEW f \in Files, Put(r, f)
      PROVE  \A q \in Requests : Quiet(q)'
    <2>1. /\ UNCHANGED <<at, got, holder>> /\ op'[r] = "put"
          /\ \A q \in Requests \ {r} : op'[q] = op[q]
        BY <1>7 DEF Put, Begins, locks, ChainInvariant, TypeOK
    <2>2. Quiet(r)'
        BY <2>1 DEF Quiet
    <2> QED
        BY <2>1, <2>2, QuietOthers
<1>8. ASSUME NEW r \in Requests, NEW x \in Things, UNCHANGED op,
             (\E place, n : Goes(r, x, place, n)) \/ Ends(r, x) \/ Fails(r, x),
             \A q \in Requests \ {r} : holder' = q => holder = q,
             Quiet(r)'
      PROVE  \A q \in Requests : Quiet(q)'
    <2>1. \A q \in Requests \ {r} : at'[q] = at[q] /\ got'[q] = got[q]
        BY <1>8 DEF Goes, Ends, Fails, ChainInvariant, TypeOK
    <2> QED
        BY <1>8, <2>1, QuietOthers
<1>9. ASSUME NEW r \in Requests, NEW x \in Things, at[r][x] \notin Over, x # "rootcacrl"
      PROVE  holder # r
    BY <1>9 DEF Quiet
<1>10. ASSUME NEW r \in Requests, NEW x \in Things,
              Query(r, x) \/ Fetch(r, x) \/ Store(r, x) \/ Refetch(r, x)
       PROVE  \A q \in Requests : Quiet(q)'
    <2>1. /\ x # "rootcacrl" /\ at[r][x] \in {"query", "fetch", "store", "refetch"}
          /\ UNCHANGED <<op, holder>>
        BY <1>2, <1>10 DEF Query, Fetch, Store, Refetch, locks, Kinds, ChainInvariant, Parts, Holding
    <2>2. op[r] = "refresh" => at[r][x] = "refetch"
        BY <2>1 DEF Quiet
    <2>3. \/ Ends(r, x) /\ op[r] # "refresh"
          \/ Fails(r, x)
          \/ \E place \in {"fetch", "store", "fetched"} : \E n :
                 Goes(r, x, place, n) /\ (op[r] = "refresh" => place = "fetched")
        BY <1>10, <2>1, <2>2 DEF Query, Fetch, Store, Refetch
    <2>4. holder' # r
        BY <1>9, <2>1 DEF Over
    <2>5. Quiet(r)'
        BY <2>1, <2>3, <2>4, QuietPart DEF Over
    <2> QED
        BY <1>8, <2>1, <2>3, <2>5
<1>20. ASSUME NEW r \in Requests, StoreCertificates(r)
       PROVE  \A q \in Requests : Quiet(q)'
    <2>1. /\ at[r]["pckcert"] = "store" /\ UNCHANGED <<op, holder>>
          /\ Ends(r, "pckcert") \/ Fails(r, "pckcert")
          /\ "pckcert" # "rootcacrl"
        BY <1>20 DEF StoreCertificates, locks
    <2>2. op[r] # "refresh"
        BY <1>1, <2>1 DEF Quiet
    <2>3. holder' # r
        BY <1>1, <1>9, <2>1 DEF Over
    <2>4. Quiet(r)'
        BY <1>1, <2>1, <2>2, <2>3, QuietPart DEF Over
    <2> QED
        BY <1>1, <1>8, <2>1, <2>4
<1>11. ASSUME NEW r \in Requests, QueryRoot(r) \/ AskIdentity(r) \/ RefetchRoot(r)
       PROVE  \A q \in Requests : Quiet(q)'
    <2>1. /\ at[r]["rootcacrl"] \in {"query", "ask", "refetch"} /\ UNCHANGED <<op, holder>>
        BY <1>11 DEF QueryRoot, AskIdentity, RefetchRoot, locks
    <2>2. op[r] = "refresh" => RefetchRoot(r)
        BY <1>1, <1>11 DEF QueryRoot, AskIdentity, Quiet
    <2>3. QueryRoot(r) => \A y \in Things \ {"rootcacrl"} : at[r][y] \in Over
        <3>1. ASSUME QueryRoot(r), NEW y \in Things \ {"rootcacrl"}
              PROVE  at[r][y] \in Over
            <4>1. at[r][y] \in Over \cup {"fetched"} /\ at[r]["rootcacrl"] = "query"
                BY <1>1, <3>1 DEF QueryRoot, Begun, Wave
            <4>2. at[r][y] # "fetched"
                BY <1>1, <1>2, <4>1 DEF Kinds
            <4> QED
                BY <4>1, <4>2
        <3> QED
            BY <3>1
    <2>4. holder' # r
        BY <2>1 DEF Quiet
    <2>5. CASE QueryRoot(r)
        <3>1. Ends(r, "rootcacrl") \/ Fails(r, "rootcacrl")
              \/ \E place \in {"ask", "download"} : \E n : Goes(r, "rootcacrl", place, n)
            BY <2>5 DEF QueryRoot
        <3>2. op[r] # "refresh"
            BY <1>1, <1>2, <2>5 DEF QueryRoot, Kinds
        <3>3. Quiet(r)'
            BY <1>1, <2>1, <2>3, <2>4, <2>5, <3>1, <3>2, QuietPart DEF Over
        <3> QED
            BY <1>1, <1>8, <2>1, <3>1, <3>3
    <2>6. CASE AskIdentity(r)
        <3>1. Ends(r, "rootcacrl") \/ Fails(r, "rootcacrl")
              \/ \E n : Goes(r, "rootcacrl", "chain", n)
            BY <2>6 DEF AskIdentity
        <3>2. op[r] # "refresh" /\ at[r]["rootcacrl"] = "ask"
            BY <1>1, <1>2, <2>6 DEF AskIdentity, Kinds
        <3>3. Quiet(r)'
            <4>1. CASE Ends(r, "rootcacrl")
                BY <1>1, <2>1, <2>4, <3>2, <4>1, QuietPart DEF Over
            <4>2. CASE Fails(r, "rootcacrl")
                BY <1>1, <2>1, <2>4, <3>2, <4>2, QuietPart DEF Over
            <4>3. ASSUME NEW n, Goes(r, "rootcacrl", "chain", n) PROVE Quiet(r)'
                <5>1. \E place, m :
                          /\ Goes(r, "rootcacrl", place, m) /\ place \notin Over
                          /\ op[r] = "refresh" => place = "fetched"
                          /\ at[r]["rootcacrl"] \in {"ask", "chain", "download", "store root"}
                          /\ place = "fetched" => \A k \in Items : at[r][k] \in {"none", "fetched"}
                    BY <3>2, <4>3 DEF Over
                <5> QED
                    BY <1>1, <2>1, <2>4, <3>2, <5>1, QuietPart DEF Over
            <4> QED
                BY <3>1, <4>1, <4>2, <4>3
        <3> QED
            BY <1>1, <1>8, <2>1, <3>1, <3>3
    <2>7. CASE RefetchRoot(r)
        <3>1. /\ Fails(r, "rootcacrl") \/ \E n : Goes(r, "rootcacrl", "fetched", n)
              /\ \A k \in Items : at[r][k] \in {"none", "fetched"}
              /\ at[r]["rootcacrl"] = "refetch"
            BY <2>7 DEF RefetchRoot
        <3>2. Quiet(r)'
            BY <1>1, <2>1, <2>4, <3>1, QuietPart DEF Over
        <3> QED
            BY <1>1, <1>8, <2>1, <3>1, <3>2
    <2> QED
        BY <1>11, <2>5, <2>6, <2>7
<1>12. ASSUME NEW r \in Requests, WriteChain(r) \/ Download(r) \/ StoreRoot(r)
       PROVE  \A q \in Requests : Quiet(q)'
    <2>1. /\ at[r]["rootcacrl"] \in {"chain", "download", "store root"} /\ UNCHANGED op
          /\ op[r] # "refresh"
        BY <1>1, <1>12 DEF WriteChain, Download, StoreRoot, Quiet
    <2>2. \/ Goes(r, "rootcacrl", "download", 0)
          \/ (\E n : Goes(r, "rootcacrl", "store root", n))
          \/ (Ends(r, "rootcacrl") \/ Fails(r, "rootcacrl")) /\ holder' # r
        BY <1>2, <1>12 DEF WriteChain, Download, StoreRoot, Releases, Blocked, locks, Quiet
    <2>3. holder' = r => at'[r]["rootcacrl"] \in {"download", "store root"}
        <3>1. ASSUME NEW place \in {"download", "store root"}, NEW n,
                     Goes(r, "rootcacrl", place, n)
              PROVE  at'[r]["rootcacrl"] = place
            BY <1>1, <3>1 DEF Goes, ChainInvariant, TypeOK
        <3> QED
            BY <2>2, <3>1
    <2>4. Quiet(r)'
        <3>1. ASSUME NEW place \in {"download", "store root"}, NEW n,
                     Goes(r, "rootcacrl", place, n)
              PROVE  Quiet(r)'
            BY <1>1, <2>1, <2>3, <3>1, QuietPart DEF Over
        <3>2. CASE Ends(r, "rootcacrl") /\ holder' # r
            BY <1>1, <2>1, <3>2, QuietPart DEF Over
        <3>3. CASE Fails(r, "rootcacrl") /\ holder' # r
            BY <1>1, <2>1, <3>3, QuietPart DEF Over
        <3> QED
            BY <2>2, <3>1, <3>2, <3>3
    <2>5. \A q \in Requests \ {r} : holder' = q => holder = q
        BY <1>2, <1>12 DEF WriteChain, Download, StoreRoot, Releases, locks
    <2> QED
        BY <1>1, <1>8, <2>1, <2>2, <2>4, <2>5
<1>13. ASSUME NEW r \in Requests, Persist(r)
       PROVE  \A q \in Requests : Quiet(q)'
    <2>1. at[r]["rootcacrl"] = "fetched" /\ UNCHANGED <<op, holder>>
        BY <1>13 DEF Persist, locks
    <2>2. holder' # r /\ op[r] = "refresh"
        BY <1>1, <1>2, <2>1 DEF Quiet, Kinds
    <2>3. /\ \A x \in Things : at'[r][x] = "none" /\ got'[r][x] = 0
          /\ \A q \in Requests \ {r} : at'[q] = at[q] /\ got'[q] = got[q]
        <3>1. CASE Blocked(r)
            BY <1>1, <1>13, <2>2, <3>1, FailsIs DEF Persist
        <3>2. CASE ~Blocked(r)
            BY <1>13, <3>2 DEF Persist, Nothing, ChainInvariant, TypeOK
        <3> QED
            BY <3>1, <3>2
    <2>4. Quiet(r)'
        BY <1>1, <2>2, <2>3 DEF Quiet
    <2> QED
        BY <2>1, <2>3, <2>4, QuietOthers
<1> QED
    BY <1>4, <1>6, <1>7, <1>10, <1>11, <1>12, <1>13, <1>20 DEF Next, Continue

\* A request that goes on was under way, and leaves the others alone.
LEMMA ContinueIs ==
    ASSUME ChainInvariant, NEW r \in Requests, Continue(r)
    PROVE  /\ UNCHANGED <<op, pcs>> /\ ~Idle(r)
           /\ \A q \in Requests \ {r} : at'[q] = at[q] /\ got'[q] = got[q]
<1>1. "rootcacrl" \in Things
    BY DEF Things
<1>2. ASSUME NEW x \in Things, Query(r, x) \/ Fetch(r, x) \/ Store(r, x) \/ Refetch(r, x)
      PROVE  /\ UNCHANGED <<op, pcs>> /\ at[r][x] \notin Over
             /\ (\E place, n : Goes(r, x, place, n)) \/ Ends(r, x) \/ Fails(r, x)
    BY <1>2 DEF Query, Fetch, Store, Refetch, Over
<1>3. ASSUME \/ QueryRoot(r) \/ AskIdentity(r) \/ WriteChain(r) \/ Download(r) \/ StoreRoot(r)
             \/ RefetchRoot(r)
      PROVE  /\ UNCHANGED <<op, pcs>> /\ at[r]["rootcacrl"] \notin Over
             /\ \/ \E place, n : Goes(r, "rootcacrl", place, n)
                \/ Ends(r, "rootcacrl") \/ Fails(r, "rootcacrl")
    BY <1>3 DEF QueryRoot, AskIdentity, WriteChain, Download, StoreRoot, RefetchRoot, Over
<1>4. ASSUME Persist(r)
      PROVE  /\ UNCHANGED <<op, pcs>> /\ at[r]["rootcacrl"] \notin Over
             /\ \A q \in Requests \ {r} : at'[q] = at[q] /\ got'[q] = got[q]
    <2>1. UNCHANGED <<op, pcs>> /\ at[r]["rootcacrl"] = "fetched"
        BY <1>4 DEF Persist
    <2>2. CASE Fails(r, "rootcacrl")
        BY <1>1, <2>1, <2>2, FailsIs DEF Over
    <2>3. CASE ~Fails(r, "rootcacrl")
        BY <1>4, <2>1, <2>3 DEF Persist, Over, ChainInvariant, TypeOK
    <2> QED
        BY <2>2, <2>3
<1>5. ASSUME NEW x \in Things, (\E place, n : Goes(r, x, place, n)) \/ Ends(r, x) \/ Fails(r, x)
      PROVE  \A q \in Requests \ {r} : at'[q] = at[q] /\ got'[q] = got[q]
    BY <1>5 DEF Goes, Ends, Fails, ChainInvariant, TypeOK
<1>6. CASE \E x \in Things : Query(r, x) \/ Fetch(r, x) \/ Store(r, x) \/ Refetch(r, x)
    BY <1>2, <1>5, <1>6 DEF Idle
<1>9. CASE StoreCertificates(r)
    <2>1. "pckcert" \in Things
        BY DEF Things
    <2>2. /\ UNCHANGED <<op, pcs>> /\ at[r]["pckcert"] \notin Over
          /\ Ends(r, "pckcert") \/ Fails(r, "pckcert")
        BY <1>9 DEF StoreCertificates, Over
    <2> QED
        BY <1>5, <2>1, <2>2 DEF Idle
<1>7. CASE \/ QueryRoot(r) \/ AskIdentity(r) \/ WriteChain(r) \/ Download(r) \/ StoreRoot(r)
           \/ RefetchRoot(r)
    BY <1>1, <1>3, <1>5, <1>7 DEF Idle
<1>8. CASE Persist(r)
    BY <1>1, <1>4, <1>8 DEF Idle
<1> QED
    BY <1>6, <1>7, <1>8, <1>9 DEF Continue

\* A request that starts, part by part.
LEMMA StartIs ==
    ASSUME ChainInvariant, NEW r \in Requests, NEW kind, NEW X, NEW place, Start(r, kind, X, place)
    PROVE  /\ \A x \in Things : /\ at'[r][x] = IF x \in X THEN place ELSE "none"
                                /\ got'[r][x] = 0
           /\ op'[r] = kind /\ Idle(r)
           /\ \A q \in Requests \ {r} : /\ at'[q] = at[q] /\ got'[q] = got[q] /\ op'[q] = op[q]
                                        /\ read'[q] = read[q]
           /\ UNCHANGED <<pcs, rows, locks, healed>>
           /\ alone' = (kind = "refresh" /\ v4 /\ \A q \in Requests : Idle(q))
BY DEF Start, Begins, Nothing, ChainInvariant, TypeOK

\* No second refresh begins while one is under way.
LEMMA StepOneRefresh == ChainInvariant /\ OneRefresh /\ [Next]_vars => OneRefresh'
<1> SUFFICES ASSUME ChainInvariant, OneRefresh, [Next]_vars PROVE OneRefresh'
    OBVIOUS
<1>1. CASE Publish \/ Rest \/ UNCHANGED vars
    BY <1>1 DEF Publish, Rest, vars, request, OneRefresh, Idle
<1>2. ASSUME NEW r \in Requests, NEW kind, NEW X, NEW place, Start(r, kind, X, place),
             kind = "refresh" => \A q \in Requests : op[q] = "refresh" => Idle(q)
      PROVE  OneRefresh'
    <2>1. /\ op'[r] = kind
          /\ \A q \in Requests \ {r} : at'[q] = at[q] /\ op'[q] = op[q]
        BY <1>2, StartIs
    <2> QED
        BY <1>2, <2>1 DEF OneRefresh, Idle
<1>3. ASSUME NEW r \in Requests, \/ \E x \in Things : Get(r, x)
                                \/ \E I \in SUBSET Identities : Check(r, I)
                                \/ FetchCertificates(r) \/ Refresh(r)
      PROVE  OneRefresh'
    BY <1>2, <1>3 DEF Get, Check, FetchCertificates, Refresh
<1>4. ASSUME NEW r \in Requests, NEW f \in Files, Put(r, f)
      PROVE  OneRefresh'
    <2>1. /\ UNCHANGED at /\ op'[r] = "put"
          /\ \A q \in Requests \ {r} : op'[q] = op[q]
        BY <1>4 DEF Put, Begins, ChainInvariant, TypeOK
    <2> QED
        BY <2>1 DEF OneRefresh, Idle
<1>5. ASSUME NEW r \in Requests, Continue(r)
      PROVE  OneRefresh'
    <2>1. UNCHANGED op /\ \A q \in Requests : ~Idle(q)' => ~Idle(q)
        BY <1>5, ContinueIs DEF Idle
    <2> QED
        BY <2>1 DEF OneRefresh
<1> QED
    BY <1>1, <1>3, <1>4, <1>5 DEF Next

\* While a refresh is alone, nothing but it takes a step.
LEMMA StepAlone ==
    ChainInvariant /\ (\A r \in Requests : Quiet(r)) /\ AloneIsUndisturbed /\ [Next]_vars
    => AloneIsUndisturbed'
<1> SUFFICES ASSUME ChainInvariant, \A r \in Requests : Quiet(r), AloneIsUndisturbed,
                    [Next]_vars, alone', NEW s \in Requests
             PROVE  Idle(s)' \/ Undisturbed(s)'
    BY DEF AloneIsUndisturbed
<1>1. "rootcacrl" \in Things /\ "rootcacrl" \notin Items /\ Items \subseteq Things
    BY ConstantsAssumption DEF Things, Items
<1>2. CASE Rest \/ UNCHANGED vars
    <2>1. UNCHANGED <<at, got, op, item, pcs, alone>>
        BY <1>2 DEF Rest, vars, request, rows
    <2> QED
        BY <2>1 DEF AloneIsUndisturbed, Undisturbed, Idle
<1>3. CASE Publish
    BY <1>3 DEF Publish
<1>4. ASSUME NEW r \in Requests, NEW f \in Files, Put(r, f)
      PROVE  FALSE
    BY <1>4 DEF Put
<1>5. ASSUME NEW r \in Requests, \/ \E x \in Things : Get(r, x)
                                \/ \E I \in SUBSET Identities : Check(r, I)
                                \/ FetchCertificates(r)
      PROVE  FALSE
    BY <1>5 DEF Get, Check, FetchCertificates, Start
<1>6. ASSUME NEW r \in Requests, Refresh(r)
      PROVE  Idle(s)' \/ Undisturbed(s)'
    <2> DEFINE X == Renewable
    <2>1. Start(r, "refresh", X, "refetch")
        BY <1>6 DEF Refresh
    <2>5. v4
        BY <2>1, StartIs
    <2>2. \A k \in Items \ Version3 : item[k] # 0 => k \in X
        BY <2>5 DEF Renewable, Everything, Askable
    <2> HIDE DEF X
    <2>3. /\ \A x \in Things : /\ at'[r][x] = IF x \in X THEN "refetch" ELSE "none"
                               /\ got'[r][x] = 0
          /\ op'[r] = "refresh"
          /\ \A q \in Requests \ {r} : at'[q] = at[q] /\ Idle(q)
          /\ UNCHANGED item
        BY <2>1, StartIs DEF rows
    <2>4. \A q \in Requests \ {r} : Idle(q)'
        BY <2>3 DEF Idle
    <2> QED
        BY <1>1, <2>2, <2>3, <2>4 DEF Undisturbed
<1>7. ASSUME NEW r \in Requests, Continue(r)
      PROVE  Idle(s)' \/ Undisturbed(s)'
    <2>1. /\ UNCHANGED <<op, pcs>> /\ ~Idle(r)
          /\ \A q \in Requests \ {r} : at'[q] = at[q] /\ got'[q] = got[q]
        BY <1>7, ContinueIs
    <2>2. alone
        BY <1>7 DEF Continue, Query, Fetch, Store, StoreCertificates, Refetch, QueryRoot, AskIdentity, WriteChain,
                    Download, StoreRoot, RefetchRoot, Persist
    <2>3. Undisturbed(r)
        BY <2>1, <2>2 DEF AloneIsUndisturbed
    <2>4. \A q \in Requests \ {r} : Idle(q)'
        BY <2>1, <2>3 DEF Undisturbed, Idle
    <2>5. op[r] = "refresh" /\ \A x \in Things : at[r][x] \in {"none", "refetch", "fetched"}
        BY <2>3 DEF Undisturbed, Quiet
    <2>6. (\E k \in Things : Refetch(r, k)) \/ RefetchRoot(r) \/ Persist(r)
        <3>1. "pckcert" \in Things
            BY DEF Things
        <3> QED
            BY <1>1, <1>7, <2>5, <3>1
            DEF Continue, Query, Fetch, Store, StoreCertificates, QueryRoot, AskIdentity,
                WriteChain, Download, StoreRoot
    <2>7. ASSUME NEW x \in Things, Fails(r, x) PROVE Idle(r)'
        BY <2>5, <2>7, FailsIs DEF Idle, Over
    <2>8. ASSUME NEW x \in Things, NEW n \in {0, pcs}, Goes(r, x, "fetched", n), UNCHANGED item,
                 x # "rootcacrl" /\ n = 0 => item[x] = 0
          PROVE  Undisturbed(r)'
        <3>1. \A y \in Things : /\ at'[r][y] = IF y = x THEN "fetched" ELSE at[r][y]
                                /\ got'[r][y] = IF y = x THEN n ELSE got[r][y]
            BY <2>8 DEF Goes, ChainInvariant, TypeOK
        <3> QED
            BY <1>1, <2>1, <2>3, <2>4, <2>8, <3>1 DEF Undisturbed
    <2>9. ASSUME NEW k \in Things, Refetch(r, k) PROVE Idle(r)' \/ Undisturbed(r)'
        <3>1. UNCHANGED item
            BY <2>9 DEF Refetch, rows
        <3>2. \/ Fails(r, k) \/ Goes(r, k, "fetched", pcs)
              \/ Goes(r, k, "fetched", 0) /\ item[k] = 0
            BY <2>9 DEF Refetch
        <3>3. pcs # 0
            BY ConstantsAssumption DEF ConstantsAssumption, ChainInvariant, TypeOK
        <3> QED
            BY <2>7, <2>8, <3>1, <3>2, <3>3
    <2>10. ASSUME RefetchRoot(r) PROVE Idle(r)' \/ Undisturbed(r)'
        BY <1>1, <2>7, <2>8, <2>10 DEF RefetchRoot, rows
    <2>11. ASSUME Persist(r) PROVE Idle(r)'
        <3>1. CASE Fails(r, "rootcacrl")
            BY <1>1, <2>7, <3>1
        <3>2. CASE ~Fails(r, "rootcacrl")
            BY <2>11, <3>2 DEF Persist, Idle, Over, ChainInvariant, TypeOK
        <3> QED
            BY <3>1, <3>2
    <2> QED
        BY <2>4, <2>6, <2>9, <2>10, <2>11
<1> QED
    BY <1>2, <1>3, <1>4, <1>5, <1>6, <1>7 DEF Next

\* A certificate row that may be written keeps the rows of a healed cache.
LEMMA ChainOfPcs ==
    ASSUME ChainInvariant, RowsOfPcs, NEW c \in {"intermediate", "signing"}, ChainOf(pcs, c),
           UNCHANGED <<pcs, rootCrl>>, \A k \in Items : item'[k] \in {item[k], pcs},
           \A k \in Items : item'[k] # item[k] => SignerOf(k) = c
    PROVE  RowsOfPcs'
<1>1. /\ \A d \in DOMAIN signer : signer'[d] = IF d = c THEN KeyOf[pcs] ELSE signer[d]
      /\ root' = RootOf[pcs]
      /\ \A k \in Items : SignerOf(k) \in DOMAIN signer
    BY DEF ChainOf, SignerOf, ChainInvariant, TypeOK
<1> QED
    BY <1>1 DEF RowsOfPcs, ChainInvariant, TypeOK

\* What a refresh writes is of one publication when all it has fetched is, and
\* it has fetched what is not of that publication yet.
LEMMA PersistOfPcs ==
    ASSUME ChainInvariant, NEW r \in Requests, Persist(r), ~Fails(r, "rootcacrl"),
           \A x \in Things : got[r][x] \in {0, pcs},
           \A k \in Items \ Version3 :
               item[k] # 0 => \/ item[k] = pcs /\ signer[SignerOf(k)] = KeyOf[pcs]
                              \/ got[r][k] = pcs,
           LastChains(r) = {} => (root # 0 => root = RootOf[pcs])
    PROVE  RowsOfPcs'
<1>1. /\ item' = [k \in Items |-> IF got[r][k] # 0 THEN got[r][k] ELSE item[k]]
      /\ IF LastChains(r) # {} THEN Renewed(r) ELSE UNCHANGED <<signer, root>>
      /\ rootCrl' = got[r]["rootcacrl"]
      /\ UNCHANGED pcs
    BY DEF Persist
<1>2. "rootcacrl" \in Things /\ Items \subseteq Things
      /\ Items = {"pckcrl"} \cup Identities \cup Tcbs
    BY DEF Things, Items
<1>3. /\ LastChains(r) \subseteq {pcs}
      /\ LastChains(r) = {} => \A k \in Items : got[r][k] = 0
    BY <1>2 DEF LastChains, Fetched
<1>4. root' # 0 => root' = RootOf[pcs]
    BY <1>1, <1>3 DEF Renewed
<1>5. ASSUME NEW k \in Items \ Version3, item'[k] # 0
      PROVE  item'[k] = pcs /\ signer'[SignerOf(k)] = KeyOf[pcs]
    <2>1. SignerOf(k) = IF k = "pckcrl" THEN "intermediate" ELSE "signing"
        BY ConstantsAssumption DEF SignerOf, Items
    <2>2. DOMAIN signer = {"intermediate", "signing"}
        BY DEF ChainInvariant, TypeOK
    <2>3. CASE got[r][k] # 0
        <3>1. got[r][k] = pcs /\ item'[k] = pcs
            BY <1>1, <1>2, <2>3
        <3>2. LastChains(r) # {} /\ Renewed(r)
            BY <1>1, <1>3, <2>3
        <3>3. k # "pckcrl" => Fetched(r, Identities \cup Tcbs) # {}
            BY <1>2, <2>3 DEF Fetched
        <3>4. signer'[SignerOf(k)] = KeyOf[pcs]
            <4>1. \E n \in {pcs} :
                     signer' = [c \in {"intermediate", "signing"} |->
                         IF c = "signing" /\ Fetched(r, Identities \cup Tcbs) # {} THEN KeyOf[n]
                         ELSE IF c = "intermediate" /\ got[r]["pckcrl"] # 0
                              THEN KeyOf[got[r]["pckcrl"]]
                         ELSE signer[c]]
                BY <1>3, <2>2, <3>2 DEF Renewed
            <4>2. CASE k = "pckcrl"
                BY <2>1, <2>3, <3>1, <4>1, <4>2
            <4>3. CASE k # "pckcrl"
                BY <2>1, <3>3, <4>1, <4>3
            <4> QED
                BY <4>2, <4>3
        <3> QED
            BY <3>1, <3>4
    <2>4. CASE got[r][k] = 0
        <3>1. pcs # 0
            BY KeyTypes DEF ChainInvariant, TypeOK
        <3>2. item'[k] = item[k] /\ item[k] = pcs /\ signer[SignerOf(k)] = KeyOf[pcs]
            BY <1>1, <1>5, <2>4, <3>1
        <3>3. CASE LastChains(r) = {}
            BY <1>1, <3>2, <3>3
        <3>4. CASE LastChains(r) # {}
            <4>1. \A c \in DOMAIN signer : signer'[c] \in {signer[c], KeyOf[pcs]}
                <5>1. got[r]["pckcrl"] \in {0, pcs}
                    BY <1>2
                <5> QED
                    BY <1>1, <1>3, <3>4, <5>1 DEF Renewed
            <4> QED
                BY <2>1, <2>2, <3>2, <4>1
        <3> QED
            BY <3>3, <3>4
    <2> QED
        BY <2>3, <2>4
<1>6. rootCrl' # 0 => rootCrl' = pcs
    BY <1>1, <1>2
<1> QED
    BY <1>1, <1>4, <1>5, <1>6 DEF RowsOfPcs

\* A healed cache is written only with what is of the publication it is of, and
\* a refresh that heals it leaves nothing else under way.
LEMMA StepClean ==
    ASSUME ChainInvariant, \A r \in Requests : Quiet(r), AloneIsUndisturbed,
           healed => RowsOfPcs /\ PartsOfPcs, [Next]_vars, healed'
    PROVE  RowsOfPcs' /\ PartsOfPcs'
<1>1. "rootcacrl" \in Things /\ Items \subseteq Things /\ "rootcacrl" \notin Items
      /\ pcs # 0 /\ Things = Items \cup {"rootcacrl", "pckcert"}
    BY ConstantsAssumption, KeyTypes DEF Things, Items, ChainInvariant, TypeOK
<1>2. \A r \in Requests : Parts(r) /\ None # r
    BY ConstantsAssumption DEF ChainInvariant
<1>3. CASE Publish
    BY <1>3 DEF Publish
<1>4. CASE Rest \/ UNCHANGED vars
    BY <1>4 DEF Rest, vars, request, rows, locks, RowsOfPcs, PartsOfPcs
<1>5. ASSUME NEW r \in Requests, NEW f \in Files, Put(r, f)
      PROVE  FALSE
    BY <1>5 DEF Put
<1>6. ASSUME NEW r \in Requests, NEW kind, NEW X, NEW place \in {"query", "fetch", "refetch"},
             Start(r, kind, X, place)
      PROVE  RowsOfPcs' /\ PartsOfPcs'
    <2>1. /\ \A x \in Things : at'[r][x] \in {place, "none"} /\ got'[r][x] = 0
          /\ \A q \in Requests \ {r} : at'[q] = at[q] /\ got'[q] = got[q] /\ read'[q] = read[q]
          /\ UNCHANGED <<pcs, item, signer, root, rootCrl, holder, draft, healed>>
        <3>1. \A x \in Things : at'[r][x] \in {place, "none"} /\ got'[r][x] = 0
            BY <1>6 DEF Start, Nothing, ChainInvariant, TypeOK
        <3>2. /\ \A q \in Requests \ {r} : at'[q] = at[q] /\ got'[q] = got[q] /\ read'[q] = read[q]
              /\ UNCHANGED <<pcs, rows, locks, healed>>
            BY <1>6, StartIs
        <3> QED
            BY <3>1, <3>2 DEF rows, locks
    <2>2. RowsOfPcs'
        BY <2>1 DEF RowsOfPcs
    <2>3. at'[r]["rootcacrl"] \notin {"download", "store root"}
        BY <1>1, <2>1
    <2>4. PartsOfPcs'
        BY <2>1, <2>3 DEF PartsOfPcs
    <2> QED
        BY <2>2, <2>4
<1>7. ASSUME NEW r \in Requests, \/ \E x \in Things : Get(r, x)
                                \/ \E I \in SUBSET Identities : Check(r, I)
                                \/ FetchCertificates(r) \/ Refresh(r)
      PROVE  RowsOfPcs' /\ PartsOfPcs'
    BY <1>6, <1>7 DEF Get, Check, FetchCertificates, Refresh
<1>8. ASSUME NEW r \in Requests, NEW x \in Things, healed, UNCHANGED pcs,
             \/ \E place : \E n \in {0, pcs} : Goes(r, x, place, n)
             \/ Ends(r, x) \/ Fails(r, x),
             \A q \in Requests \ {r} : read'[q] = read[q],
             at'[r]["rootcacrl"] \in {"download", "store root"} =>
                 read'[r] = RootOf[pcs] \/ (read'[r] = read[r] /\ at[r]["rootcacrl"] = at'[r]["rootcacrl"])
                 \/ (read'[r] = read[r] /\ at[r]["rootcacrl"] = "download"),
             holder' # None => draft' = KeyOf[pcs]
      PROVE  PartsOfPcs'
    <2>1. /\ \A y \in Things : got'[r][y] \in {0, pcs}
          /\ \A q \in Requests \ {r} : at'[q] = at[q] /\ got'[q] = got[q]
        <3>1. \A y \in Things : got[r][y] \in {0, pcs}
            BY <1>8 DEF PartsOfPcs
        <3>2. CASE \E place : \E n \in {0, pcs} : Goes(r, x, place, n)
            BY <3>1, <3>2 DEF Goes, ChainInvariant, TypeOK
        <3>3. CASE Ends(r, x)
            BY <3>1, <3>3, EndsIs
        <3>4. CASE Fails(r, x)
            BY <3>1, <3>4, FailsIs
        <3> QED
            BY <1>8, <3>2, <3>3, <3>4
    <2>2. /\ \A q \in Requests \ {r} : at[q]["rootcacrl"] \in {"download", "store root"} =>
                                             read[q] = RootOf[pcs]
          /\ at[r]["rootcacrl"] \in {"download", "store root"} => read[r] = RootOf[pcs]
          /\ \A q \in Requests, y \in Things : got[q][y] # 0 => got[q][y] = pcs
        BY <1>8 DEF PartsOfPcs
    <2>3. at'[r]["rootcacrl"] \in {"download", "store root"} => read'[r] = RootOf[pcs]
        BY <1>8, <2>2
    <2>4. \A q \in Requests : at'[q]["rootcacrl"] \in {"download", "store root"} =>
                               read'[q] = RootOf[pcs]
        BY <1>8, <2>1, <2>2, <2>3
    <2>5. \A q \in Requests, y \in Things : got'[q][y] # 0 => got'[q][y] = pcs
        <3> SUFFICES ASSUME NEW q \in Requests, NEW y \in Things
                     PROVE  got'[q][y] # 0 => got'[q][y] = pcs
            OBVIOUS
        <3>1. CASE q = r
            BY <2>1, <3>1
        <3>2. CASE q # r
            <4>1. got'[q] = got[q]
                BY <2>1, <3>2
            <4> QED
                BY <2>2, <4>1
        <3> QED
            BY <3>1, <3>2
    <2> QED
        BY <1>8, <2>4, <2>5 DEF PartsOfPcs
<1>9. ASSUME NEW r \in Requests, NEW x \in Things, x # "rootcacrl",
             (\E place, n : Goes(r, x, place, n)) \/ Ends(r, x) \/ Fails(r, x)
      PROVE  at'[r]["rootcacrl"] \in {"none", at[r]["rootcacrl"]}
    <2>1. ASSUME NEW place, NEW n, Goes(r, x, place, n)
          PROVE  at'[r]["rootcacrl"] = at[r]["rootcacrl"]
        BY <1>1, <1>9, <2>1 DEF Goes, ChainInvariant, TypeOK
    <2> QED
        BY <1>1, <1>9, <2>1, EndsIs, FailsIs
<1>10. ASSUME NEW r \in Requests, NEW x \in Things, Query(r, x) \/ Fetch(r, x) \/ Refetch(r, x)
       PROVE  RowsOfPcs' /\ PartsOfPcs'
    <2>1. UNCHANGED <<pcs, item, signer, root, rootCrl, holder, draft, read, healed>>
        BY <1>10 DEF Query, Fetch, Refetch, rows, locks
    <2>2. x # "rootcacrl"
        BY <1>2, <1>10 DEF Query, Fetch, Refetch, Parts, Kinds
    <2>3. (\E place : \E n \in {0, pcs} : Goes(r, x, place, n)) \/ Ends(r, x) \/ Fails(r, x)
        <3>1. CASE Query(r, x)
            BY <3>1 DEF Query
        <3>2. CASE Fetch(r, x)
            BY <3>2 DEF Fetch
        <3>3. CASE Refetch(r, x)
            BY <3>3 DEF Refetch
        <3> QED
            BY <1>10, <3>1, <3>2, <3>3
    <2>4. at'[r]["rootcacrl"] \in {"none", at[r]["rootcacrl"]}
        BY <1>9, <2>2, <2>3
    <2>5. PartsOfPcs'
        BY <1>8, <2>1, <2>3, <2>4 DEF PartsOfPcs
    <2> QED
        BY <2>1, <2>5 DEF RowsOfPcs
<1>11. ASSUME NEW r \in Requests, NEW x \in Things, Store(r, x)
       PROVE  RowsOfPcs' /\ PartsOfPcs'
    <2>1. UNCHANGED <<pcs, rootCrl, holder, draft, read, healed>> /\ at[r][x] = "store"
        BY <1>11 DEF Store, locks
    <2>2. x # "rootcacrl" /\ got[r][x] = pcs
        BY <1>2, <2>1 DEF Parts, Holding, PartsOfPcs
    <2>3. Ends(r, x) \/ Fails(r, x)
        BY <1>11 DEF Store
    <2>4. at'[r]["rootcacrl"] \in {"none", at[r]["rootcacrl"]}
        BY <1>9, <2>2, <2>3
    <2>5. PartsOfPcs'
        BY <1>8, <2>1, <2>3, <2>4 DEF PartsOfPcs
    <2>6. CASE Blocked(r)
        <3>1. UNCHANGED <<item, signer, root>>
            BY <1>11, <2>6 DEF Store
        <3> QED
            BY <2>1, <2>5, <3>1 DEF RowsOfPcs
    <2>7. CASE ~Blocked(r)
        <3>1. /\ item' = [k \in Items |-> IF k = x THEN pcs ELSE item[k]]
              /\ ChainOf(pcs, SignerOf(x))
            BY <1>11, <2>2, <2>7 DEF Store
        <3>2. SignerOf(x) \in {"intermediate", "signing"}
            BY DEF SignerOf
        <3> QED
            BY <2>1, <2>5, <3>1, <3>2, ChainOfPcs
    <2> QED
        BY <2>5, <2>6, <2>7
<1>20. ASSUME NEW r \in Requests, StoreCertificates(r)
       PROVE  RowsOfPcs' /\ PartsOfPcs'
    <2>1. /\ UNCHANGED <<pcs, rootCrl, holder, draft, read, healed>> /\ at[r]["pckcert"] = "store"
          /\ Ends(r, "pckcert") \/ Fails(r, "pckcert")
        BY <1>20 DEF StoreCertificates, locks
    <2>2. got[r]["pckcert"] = pcs
        <3>1. "pckcert" \in Things
            BY <1>1
        <3>2. healed /\ PartsOfPcs
            BY <2>1
        <3>3. got[r]["pckcert"] # 0
            BY <1>2, <2>1, <3>1 DEF Parts, Holding
        <3> QED
            BY <3>1, <3>2, <3>3 DEF PartsOfPcs
    <2>4. at'[r]["rootcacrl"] \in {"none", at[r]["rootcacrl"]}
        BY <1>1, <1>9, <2>1
    <2>5. PartsOfPcs'
        BY <1>1, <1>8, <2>1, <2>4 DEF PartsOfPcs
    <2>6. CASE Blocked(r)
        <3>1. UNCHANGED <<item, signer, root>>
            BY <1>20, <2>6 DEF StoreCertificates
        <3> QED
            BY <2>1, <2>5, <3>1 DEF RowsOfPcs
    <2>7. CASE ~Blocked(r)
        <3>1. PICK n \in Later(r), T \in SUBSET (Tcbs \ Version3), m \in Pubs :
                   /\ m = got[r]["pckcert"]
                   /\ item' = [k \in Items |-> IF k \in T THEN n ELSE item[k]]
                   /\ signer' = [c \in {"intermediate", "signing"} |->
                                    IF c = "intermediate" THEN KeyOf[m]
                                    ELSE IF T = {} THEN signer[c] ELSE KeyOf[n]]
                   /\ root' = RootOf[IF T = {} THEN m ELSE n]
            BY <1>20, <2>7, StoreCertificatesIs
        <3>2. n = pcs /\ m = pcs
            <4>1. pcs \in Nat /\ n \in Nat /\ pcs <= n /\ n <= pcs
                BY <2>2, KeyTypes DEF Later, ChainInvariant, TypeOK
            <4> QED
                BY <2>2, <3>1, <4>1
        <3>3. root' = RootOf[pcs]
            BY <3>1, <3>2
        <3>4. ASSUME NEW k \in Items \ Version3, item'[k] # 0
              PROVE  item'[k] = pcs /\ signer'[SignerOf(k)] = KeyOf[pcs]
            <4>1. SignerOf(k) = IF k = "pckcrl" THEN "intermediate" ELSE "signing"
                BY ConstantsAssumption DEF SignerOf, Items
            <4>2. CASE k \in T
                <5>1. item'[k] = pcs /\ T # {} /\ k # "pckcrl"
                    BY <3>1, <3>2, <4>2, ConstantsAssumption DEF ConstantsAssumption
                <5> QED
                    BY <3>1, <3>2, <4>1, <5>1
            <4>3. CASE k \notin T
                <5>1. item'[k] = item[k]
                    BY <3>1, <4>3
                <5>2. item'[k] = pcs /\ signer[SignerOf(k)] = KeyOf[pcs]
                    BY <2>1, <3>4, <5>1 DEF RowsOfPcs
                <5> QED
                    BY <3>1, <3>2, <4>1, <5>2
            <4> QED
                BY <4>2, <4>3
        <3> QED
            BY <2>1, <2>5, <3>3, <3>4 DEF RowsOfPcs
    <2> QED
        BY <2>6, <2>7
<1>12. ASSUME NEW r \in Requests, QueryRoot(r)
       PROVE  RowsOfPcs' /\ PartsOfPcs'
    <2>1. /\ UNCHANGED <<pcs, item, signer, root, rootCrl, holder, draft, healed>>
          /\ read' = [read EXCEPT ![r] = root]
        BY <1>12 DEF QueryRoot, rows, locks
    <2>2. (\E place : \E n \in {0, pcs} : Goes(r, "rootcacrl", place, n))
          \/ Ends(r, "rootcacrl") \/ Fails(r, "rootcacrl")
        <3>1. Goes(r, "rootcacrl", IF root = 0 THEN "ask" ELSE "download", 0)
              => \E place : \E n \in {0, pcs} : Goes(r, "rootcacrl", place, n)
            OBVIOUS
        <3> QED
            BY <1>12, <3>1 DEF QueryRoot
    <2>3. at'[r]["rootcacrl"] \in {"download", "store root"} => root # 0
        <3>1. CASE Ends(r, "rootcacrl") \/ Fails(r, "rootcacrl")
            BY <1>1, <1>12, <3>1, EndsIs, FailsIs DEF QueryRoot
        <3>2. CASE Goes(r, "rootcacrl", IF root = 0 THEN "ask" ELSE "download", 0)
            BY <1>1, <3>2 DEF Goes, ChainInvariant, TypeOK
        <3> QED
            BY <1>12, <3>1, <3>2 DEF QueryRoot
    <2>4. read'[r] = root /\ \A q \in Requests \ {r} : read'[q] = read[q]
        BY <2>1 DEF ChainInvariant, TypeOK
    <2>5. root # 0 => root = RootOf[pcs]
        BY <2>1 DEF RowsOfPcs
    <2>6. PartsOfPcs'
        BY <1>1, <1>8, <2>1, <2>2, <2>3, <2>4, <2>5 DEF PartsOfPcs
    <2> QED
        BY <2>1, <2>6 DEF RowsOfPcs
<1>13. ASSUME NEW r \in Requests, NEW place, place \notin {"download", "store root"},
              NEW n \in {0, pcs}, Goes(r, "rootcacrl", place, n)
       PROVE  at'[r]["rootcacrl"] \notin {"download", "store root"}
    BY <1>1, <1>13 DEF Goes, ChainInvariant, TypeOK
<1>14. ASSUME NEW r \in Requests, Ends(r, "rootcacrl") \/ Fails(r, "rootcacrl")
       PROVE  at'[r]["rootcacrl"] \in {"none", "done"}
    BY <1>1, <1>14, EndsIs, FailsIs
<1>15. ASSUME NEW r \in Requests, AskIdentity(r) \/ RefetchRoot(r)
       PROVE  RowsOfPcs' /\ PartsOfPcs'
    <2>1. UNCHANGED <<pcs, item, signer, root, rootCrl, holder, draft, read, healed>>
        BY <1>15 DEF AskIdentity, RefetchRoot, rows, locks
    <2>2. Goes(r, "rootcacrl", "chain", pcs) \/ Goes(r, "rootcacrl", "fetched", pcs)
          \/ Ends(r, "rootcacrl") \/ Fails(r, "rootcacrl")
        BY <1>15 DEF AskIdentity, RefetchRoot
    <2>3. at'[r]["rootcacrl"] \notin {"download", "store root"}
        BY <1>13, <1>14, <2>2
    <2>4. PartsOfPcs'
        <3>1. (\E place : \E n \in {0, pcs} : Goes(r, "rootcacrl", place, n))
              \/ Ends(r, "rootcacrl") \/ Fails(r, "rootcacrl")
            BY <2>2
        <3>2. holder' # None => draft' = KeyOf[pcs]
            BY <2>1 DEF PartsOfPcs
        <3> QED
            BY <1>1, <1>8, <2>1, <2>3, <3>1, <3>2
    <2> QED
        BY <2>1, <2>4 DEF RowsOfPcs
<1>16. ASSUME NEW r \in Requests, WriteChain(r)
       PROVE  RowsOfPcs' /\ PartsOfPcs'
    <2>1. /\ UNCHANGED <<pcs, item, signer, root, rootCrl, healed>>
          /\ at[r]["rootcacrl"] = "chain"
        BY <1>16 DEF WriteChain, rows
    <2>2. got[r]["rootcacrl"] = pcs
        BY <1>1, <1>2, <2>1 DEF Parts, Holding, PartsOfPcs
    <2>3. CASE Blocked(r)
        <3>1. UNCHANGED <<holder, draft, read>> /\ Fails(r, "rootcacrl")
            BY <1>16, <2>3 DEF WriteChain, locks
        <3>2. PartsOfPcs'
            BY <1>1, <1>8, <1>14, <2>1, <3>1 DEF PartsOfPcs
        <3> QED
            BY <2>1, <3>2 DEF RowsOfPcs
    <2>4. CASE ~Blocked(r)
        <3>1. /\ draft' = KeyOf[pcs] /\ read' = [read EXCEPT ![r] = RootOf[pcs]]
              /\ Goes(r, "rootcacrl", "download", 0)
            BY <1>16, <2>2, <2>4 DEF WriteChain
        <3>2. read'[r] = RootOf[pcs] /\ \A q \in Requests \ {r} : read'[q] = read[q]
            BY <3>1 DEF ChainInvariant, TypeOK
        <3>3. PartsOfPcs'
            <4>1. \E place : \E n \in {0, pcs} : Goes(r, "rootcacrl", place, n)
                BY <3>1
            <4> QED
                BY <1>1, <1>8, <2>1, <3>1, <3>2, <4>1
        <3> QED
            BY <2>1, <3>3 DEF RowsOfPcs
    <2> QED
        BY <2>3, <2>4
<1>17. ASSUME NEW r \in Requests, Download(r)
       PROVE  RowsOfPcs' /\ PartsOfPcs'
    <2>1. /\ UNCHANGED <<pcs, item, signer, root, rootCrl, read, healed>>
          /\ at[r]["rootcacrl"] = "download"
        BY <1>17 DEF Download, rows
    <2>2. holder' # None => holder # None /\ draft' = draft
        BY <1>17 DEF Download, Releases, locks
    <2>3. Goes(r, "rootcacrl", "store root", pcs) \/ Fails(r, "rootcacrl")
        BY <1>17 DEF Download
    <2>4. PartsOfPcs'
        <3>1. (\E place : \E n \in {0, pcs} : Goes(r, "rootcacrl", place, n)) \/ Fails(r, "rootcacrl")
            BY <2>3
        <3>2. holder' # None => draft' = KeyOf[pcs]
            BY <2>1, <2>2 DEF PartsOfPcs
        <3> QED
            BY <1>1, <1>8, <2>1, <3>1, <3>2
    <2> QED
        BY <2>1, <2>4 DEF RowsOfPcs
<1>18. ASSUME NEW r \in Requests, StoreRoot(r)
       PROVE  RowsOfPcs' /\ PartsOfPcs'
    <2>1. /\ UNCHANGED <<pcs, item, read, healed>>
          /\ at[r]["rootcacrl"] = "store root"
        BY <1>18 DEF StoreRoot
    <2>2. holder' # None => holder # None /\ draft' = draft
        BY <1>18 DEF StoreRoot, Releases
    <2>3. Ends(r, "rootcacrl") \/ Fails(r, "rootcacrl")
        BY <1>18 DEF StoreRoot
    <2>4. PartsOfPcs'
        BY <1>1, <1>8, <1>14, <2>1, <2>2, <2>3 DEF PartsOfPcs
    <2>5. CASE Blocked(r)
        <3>1. UNCHANGED <<rootCrl, root, signer>>
            BY <1>18, <2>5 DEF StoreRoot
        <3> QED
            BY <2>1, <2>4, <3>1 DEF RowsOfPcs
    <2>6. CASE ~Blocked(r)
        <3>1. /\ rootCrl' = got[r]["rootcacrl"] /\ root' = read[r]
              /\ signer' = [signer EXCEPT !["signing"] = IF holder = r THEN draft ELSE @]
            BY <1>18, <2>6 DEF StoreRoot
        <3>2. rootCrl' # 0 => rootCrl' = pcs
            BY <1>1, <2>1, <3>1 DEF PartsOfPcs
        <3>3. root' = RootOf[pcs]
            BY <2>1, <3>1 DEF PartsOfPcs
        <3>4. \A c \in DOMAIN signer : signer'[c] \in {signer[c], KeyOf[pcs]}
            BY <1>2, <2>1, <3>1 DEF PartsOfPcs, ChainInvariant, TypeOK
        <3>5. \A k \in Items : SignerOf(k) \in DOMAIN signer
            BY DEF SignerOf, ChainInvariant, TypeOK
        <3>6. RowsOfPcs'
            BY <2>1, <3>2, <3>3, <3>4, <3>5 DEF RowsOfPcs
        <3> QED
            BY <2>4, <3>6
    <2> QED
        BY <2>5, <2>6
<1>19. ASSUME NEW r \in Requests, Persist(r)
       PROVE  RowsOfPcs' /\ PartsOfPcs'
    <2>1. /\ UNCHANGED <<pcs, holder, draft, read>>
          /\ at[r]["rootcacrl"] = "fetched" /\ op[r] = "refresh"
        BY <1>1, <1>2, <1>19 DEF Persist, locks, Parts, Kinds
    <2>2. CASE Fails(r, "rootcacrl") /\ healed /\ UNCHANGED rows
        <3>1. PartsOfPcs'
            BY <1>1, <1>8, <1>14, <2>1, <2>2 DEF PartsOfPcs
        <3> QED
            BY <2>1, <2>2, <3>1 DEF RowsOfPcs, rows
    <2>3. CASE ~Fails(r, "rootcacrl")
        <3>1. /\ \A x \in Things : at'[r][x] = "none" /\ got'[r][x] = 0
              /\ \A q \in Requests \ {r} : at'[q] = at[q] /\ got'[q] = got[q]
              /\ healed \/ (alone /\ LastChains(r) # {})
            <4>1. /\ at' = [at EXCEPT ![r] = [x \in Things |-> "none"]]
                  /\ got' = [got EXCEPT ![r] = Nothing]
                  /\ healed' = (healed \/ (alone /\ LastChains(r) # {}))
                BY <1>19, <2>3 DEF Persist
            <4>2. healed \/ (alone /\ LastChains(r) # {})
                BY <4>1
            <4> QED
                BY <4>1, <4>2 DEF Nothing, ChainInvariant, TypeOK
        <3>2. CASE healed
            <4>1. /\ \A x \in Things : got[r][x] \in {0, pcs}
                  /\ \A k \in Items \ Version3 :
                         item[k] # 0 => item[k] = pcs /\ signer[SignerOf(k)] = KeyOf[pcs]
                  /\ root # 0 => root = RootOf[pcs]
                BY <3>2 DEF RowsOfPcs, PartsOfPcs
            <4>2. RowsOfPcs'
                BY <1>19, <2>3, <4>1, PersistOfPcs
            <4>3. PartsOfPcs'
                <5>1. at'[r]["rootcacrl"] = "none"
                    BY <1>1, <3>1
                <5>2. \A q \in Requests : at'[q]["rootcacrl"] \in {"download", "store root"} =>
                                           read'[q] = RootOf[pcs]
                    BY <2>1, <3>1, <3>2, <5>1 DEF PartsOfPcs
                <5>3. \A q \in Requests, x \in Things : got'[q][x] # 0 => got'[q][x] = pcs
                    BY <3>1, <3>2 DEF PartsOfPcs
                <5> QED
                    BY <2>1, <3>2, <5>2, <5>3 DEF PartsOfPcs
            <4> QED
                BY <4>2, <4>3
        <3>3. CASE ~healed
            <4>1. ~Idle(r)
                BY <1>1, <2>1 DEF Idle, Over
            <4>2. Undisturbed(r) /\ LastChains(r) # {}
                BY <3>1, <3>3, <4>1 DEF AloneIsUndisturbed
            <4>3. \A k \in Items \ Version3 : item[k] # 0 => got[r][k] = pcs
                BY <2>1, <4>2 DEF Quiet, Undisturbed
            <4>4. RowsOfPcs'
                BY <1>19, <2>3, <4>2, <4>3, PersistOfPcs DEF Undisturbed
            <4>5. \A q \in Requests \ {r} : /\ \A x \in Things : got[q][x] = 0 /\ at[q][x] \in Over
                                            /\ holder # q
                <5>1. ASSUME NEW q \in Requests \ {r}
                      PROVE  \A x \in Things : got[q][x] = 0 /\ at[q][x] \in Over
                    BY <4>2 DEF Undisturbed, Idle, Quiet
                <5>2. ASSUME NEW q \in Requests \ {r} PROVE holder # q
                    BY <1>1, <5>1 DEF Quiet, Over
                <5> QED
                    BY <5>1, <5>2
            <4>6. holder = None
                BY <2>1, <4>5 DEF Quiet, ChainInvariant, TypeOK
            <4>7. PartsOfPcs'
                <5>1. \A q \in Requests : at'[q]["rootcacrl"] \notin {"download", "store root"}
                    BY <1>1, <3>1, <4>5 DEF Over
                <5>2. \A q \in Requests, x \in Things : got'[q][x] = 0
                    BY <3>1, <4>5
                <5> QED
                    BY <2>1, <4>6, <5>1, <5>2 DEF PartsOfPcs
            <4> QED
                BY <4>4, <4>7
        <3> QED
            BY <3>2, <3>3
    <2> QED
        <3>1. Fails(r, "rootcacrl") => healed /\ UNCHANGED rows
            <4>1. Fails(r, "rootcacrl") => out'[r] = "failed"
                BY DEF Fails, ChainInvariant, TypeOK
            <4>2. \/ Fails(r, "rootcacrl") /\ healed' = healed /\ UNCHANGED rows
                  \/ out'[r] = "ok"
                BY <1>19 DEF Persist, ChainInvariant, TypeOK
            <4> QED
                BY <4>1, <4>2
        <3> QED
            BY <2>2, <2>3, <3>1
<1> QED
    BY <1>3, <1>4, <1>5, <1>7, <1>10, <1>11, <1>12, <1>15, <1>16, <1>17, <1>18, <1>19, <1>20
    DEF Next, Continue

\* The invariant of a healed cache is inductive, and so holds in every state.
LEMMA HealInvariantHolds == Spec => []HealInvariant
<1>1. Init => HealInvariant
    <2> SUFFICES ASSUME Init PROVE HealInvariant
        OBVIOUS
    <2>1. ChainInvariant
        BY InitInvariant
    <2>2. \A r \in Requests : Quiet(r)
        BY ConstantsAssumption DEF Init, Quiet, Nothing, Over, Things, Items
    <2>3. OneRefresh /\ AloneIsUndisturbed
        BY DEF Init, OneRefresh, AloneIsUndisturbed
    <2>4. RowsOfPcs /\ PartsOfPcs
        BY DEF Init, RowsOfPcs, PartsOfPcs, Nothing, Things, Items
    <2> QED
        BY <2>1, <2>2, <2>3, <2>4 DEF HealInvariant
<1>2. ASSUME HealInvariant, [Next]_vars PROVE HealInvariant'
    <2>1. ChainInvariant'
        BY <1>2, StepTypes, StepParts DEF ChainInvariant, HealInvariant
    <2>2. \A r \in Requests : Quiet(r)'
        BY <1>2, StepQuiet DEF HealInvariant
    <2>3. OneRefresh' /\ AloneIsUndisturbed'
        BY <1>2, StepOneRefresh, StepAlone DEF HealInvariant
    <2>4. healed' => RowsOfPcs' /\ PartsOfPcs'
        BY <1>2, StepClean DEF HealInvariant
    <2> QED
        BY <2>1, <2>2, <2>3, <2>4 DEF HealInvariant
<1>3. HealInvariant /\ [Next]_vars => HealInvariant'
    BY <1>2
<1> QED
    BY <1>1, <1>3, PTL DEF Spec

\* After a refresh of collateral that ran alone, refreshService.js leaves every
\* item, but those of version 3, under the chain that signs it and the root CA CRL under its root, and
\* the handlers keep it so, however they interleave, until the PCS publishes
\* again or an administrator loads a file.
THEOREM RefreshHealsChains == Spec => []RefreshHeals
<1>1. HealInvariant => RefreshHeals
    BY DEF HealInvariant, RowsOfPcs, RefreshHeals, Servable
<1> QED
    BY <1>1, HealInvariantHolds, PTL
=============================================================================
