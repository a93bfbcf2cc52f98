------------------------ MODULE PlatformRegistration ------------------------
(***************************************************************************)
(* The registration of platforms: POST /platforms                          *)
(* (services/platformsRegService.js and the registerPlatforms of the three *)
(* caching modes), the queue it keeps in platforms_registered, and         *)
(* GET /platforms, by which the administrator takes pending registrations  *)
(* out of it (controllers/platformsController.js) to bring their           *)
(* collateral back with PUT /platformcollateral.  The administrator's side *)
(* is PccsAdminTool/pccsadmin.py: `get` saves the answer in a file, `put`  *)
(* uploads the one the collateral of the listed platforms was put in.      *)
(*                                                                         *)
(* A registration is a key of platforms_registered: the platform's ids and *)
(* its raw TCB (or nothing, with a manifest).  A GET reads and marks in    *)
(* one transaction, on the snapshot its SELECT took: SQLite refuses to     *)
(* write on a snapshot that is no longer the newest, MySQL updates what    *)
(* the table holds now.  Between two awaits the process may crash; an      *)
(* answer may get lost on its way.                                         *)
(***************************************************************************)
EXTENDS Naturals, FiniteSets

CONSTANTS
    Regs,     \* registrations
    Posts,    \* calls of POST /platforms
    Gets,     \* calls of GET /platforms
    None,
    Sqlite    \* DB_CONFIG = 'sqlite' (otherwise 'mysql')

ASSUME ConstantsAssumption ==
    /\ Sqlite \in BOOLEAN
    /\ None \notin Regs
    /\ Posts \cap Gets = {}

VARIABLES
    mode,     \* CachingFillMode
    queue,    \* state of each registration in platforms_registered
    cached,   \* registrations whose PCK certificate is in the cache
    post,     \* where each POST is
    subject,  \* the registration a POST carries
    get,      \* where each GET is
    source,   \* the state a GET asks for
    seen,     \* the registrations its SELECT read
    stale,    \* something was committed since that SELECT
    saved,    \* the administrator has a file platform_list.json
    list,     \* the registrations in it
    file,     \* those whose collateral is in his platform_collaterals.json
    entered,  \* how often a registration became NEW in the queue (history)
    handed,   \* how often it was in the answer to a GET (history)
    unissued, \* registrations for which the PCS answered that certificates of
              \* some TCB levels are not available (history)
    dropped   \* those that were in an answer or a file the administrator lost,
              \* and were not registered again since (history)

postVars == <<post, subject>>
getVars  == <<get, source, seen, stale>>
admin    == <<saved, list, file>>
history  == <<entered, handed, unissued, dropped>>
vars     == <<mode, queue, cached, postVars, getVars, admin, history>>

States == {"absent", "NEW", "NOT_AVAILABLE", "DELETED"}

Init ==
    /\ mode \in {"LAZY", "REQ", "OFFLINE"}
    /\ queue = [g \in Regs |-> "absent"]
    /\ cached = {}
    /\ post = [p \in Posts |-> "idle"]
    /\ subject = [p \in Posts |-> None]
    /\ get = [c \in Gets |-> "idle"]
    /\ source = [c \in Gets |-> "NEW"]
    /\ seen = [c \in Gets |-> {}]
    /\ stale = [c \in Gets |-> FALSE]
    /\ saved = FALSE
    /\ list = {}
    /\ file = {}
    /\ entered = [g \in Regs |-> 0]
    /\ handed = [g \in Regs |-> 0]
    /\ unissued = {}
    /\ dropped = {}

\* A transaction commits: the snapshots others hold are no longer the newest.
Outdate == stale' = [c \in Gets |-> stale[c] \/ get[c] = "read"]

UpsertUndefined(g, state) ==
    /\ queue' = [queue EXCEPT ![g] = None]
    /\ Outdate
    /\ UNCHANGED <<entered, dropped>>

KeepRow(g, state) ==
    /\ queue' = [queue EXCEPT ![g] = IF @ = "absent" THEN state ELSE @]
    /\ entered' = IF queue[g] = "absent" THEN [entered EXCEPT ![g] = 1] ELSE entered
    /\ dropped' = IF state = "NEW" THEN dropped \ {g} ELSE dropped
    /\ Outdate

\* platformsRegDao.registerPlatform: an upsert that commits at once.
Upsert(g, state) ==
    /\ queue' = [queue EXCEPT ![g] = state]
    /\ entered' = IF state = "NEW" /\ queue[g] # "NEW"
                  THEN [entered EXCEPT ![g] = @ + 1] ELSE entered
    /\ dropped' = IF state = "NEW" THEN dropped \ {g} ELSE dropped
    /\ Outdate

-----------------------------------------------------------------------------
(* POST /platforms.                                                         *)

Go(p, place) == post' = [post EXCEPT ![p] = place]

\* checkPCKCertCacheStatus, and the test of isCached in registerPlatforms.
CheckStatus(p, g) ==
    /\ post[p] = "idle"
    /\ subject' = [subject EXCEPT ![p] = g]
    /\ Go(p, IF g \notin cached THEN IF mode = "LAZY" THEN "fetch" ELSE "register"
             ELSE IF mode = "OFFLINE" THEN "ok" ELSE "collateral")
    /\ UNCHANGED <<mode, queue, cached, getVars, admin, history>>

\* REQ and OFFLINE enter the registration; OFFLINE has then done its part.
Register(p) ==
    /\ post[p] = "register"
    /\ Upsert(subject[p], "NEW")
    /\ Go(p, IF mode = "OFFLINE" THEN "ok" ELSE "fetch")
    /\ UNCHANGED <<mode, cached, subject, get, source, seen, admin, handed, unissued>>

\* getPckCertFromPCS stores the certificates in its transaction, and then the
\* platform TCB.
FetchCerts(p) ==
    /\ post[p] = "fetch"
    /\ cached' = cached \cup {subject[p]}
    /\ Outdate
    /\ Go(p, IF mode = "REQ" THEN "unregister" ELSE "collateral")
    /\ UNCHANGED <<mode, queue, subject, get, source, seen, admin, history>>

\* The answer holds 'Not available' for some TCB levels.  LAZY stores the
\* others, but no platform TCB.  REQ has processNotAvailableTcbs read the tcb
\* of what getPckCertFromPCS has decoded to tcbm and pck_cert: it throws.
FetchSomeCerts(p) ==
    /\ post[p] = "fetch"
    /\ unissued' = unissued \cup {subject[p]}
    /\ \/ mode = "LAZY" /\ Outdate /\ Go(p, "collateral")
       \/ mode = "REQ" /\ Go(p, "failed") /\ UNCHANGED stale
    /\ UNCHANGED <<mode, queue, cached, subject, get, source, seen, admin, entered, handed,
                   dropped>>

FetchFailsSilently(p) ==
    /\ post[p] = "fetch"
    /\ Go(p, "collateral")
    /\ UNCHANGED <<mode, queue, cached, subject, getVars, admin, history>>

\* The PCS does not answer, or with no certificate that can be used.
FetchFails(p) ==
    /\ post[p] = "fetch"
    /\ Go(p, "failed")
    /\ UNCHANGED <<mode, queue, cached, subject, getVars, admin, history>>

\* REQ marks the entry as dealt with.
Unregister(p) ==
    /\ post[p] = "unregister"
    /\ Upsert(subject[p], "DELETED")
    /\ Go(p, "collateral")
    /\ UNCHANGED <<mode, cached, subject, get, source, seen, admin, handed, unissued>>

\* checkQuoteVerificationCollateral, which may have to ask the PCS too.
CheckCollateral(p) ==
    /\ post[p] = "collateral"
    /\ Go(p, "ok") \/ Go(p, "failed")
    /\ UNCHANGED <<mode, queue, cached, subject, getVars, admin, history>>

-----------------------------------------------------------------------------
(* GET /platforms.                                                          *)

\* source=reg reads the NEW entries, source=reg_na those NOT_AVAILABLE.
ReadQueue(c, state) ==
    /\ get[c] = "idle"
    /\ get' = [get EXCEPT ![c] = "read"]
    /\ source' = [source EXCEPT ![c] = state]
    /\ seen' = [seen EXCEPT ![c] = {g \in Regs : queue[g] = state}]
    /\ UNCHANGED <<mode, queue, cached, postVars, stale, admin, history>>

\* The UPDATE runs in the transaction of the SELECT.
NeverConflicts(c) == FALSE
Conflicts(c)      == Sqlite /\ stale[c]

\* deleteRegisteredPlatforms: what the UPDATE finds becomes DELETED, the
\* transaction commits, and the answer carries what the SELECT read.
MarkDeleted(c) ==
    /\ get[c] = "read"
    /\ ~Conflicts(c)
    /\ queue' = [g \in Regs |-> IF queue[g] = source[c] THEN "DELETED" ELSE queue[g]]
    /\ handed' = [g \in Regs |-> IF g \in seen[c] THEN handed[g] + 1 ELSE handed[g]]
    /\ get' = [get EXCEPT ![c] = "sent"]
    /\ stale' = [b \in Gets |-> b # c /\ (stale[b] \/ get[b] = "read")]
    /\ UNCHANGED <<mode, cached, postVars, source, seen, admin, entered, unissued,
                   dropped>>

\* SQLITE_BUSY: the snapshot is not the newest; the GET answers an error.
MarkFails(c) ==
    /\ get[c] = "read"
    /\ Conflicts(c)
    /\ get' = [get EXCEPT ![c] = "failed"]
    /\ UNCHANGED <<mode, queue, cached, postVars, source, seen, stale, admin, history>>

-----------------------------------------------------------------------------
(* The administrator.                                                       *)

Drop(G) == dropped' = dropped \cup {g \in G : queue[g] # "NEW"}

\* The answer is saved, in the place of the list of an earlier `get`, if there
\* is one and the administrator answers that it be overwritten.
SaveList(c) ==
    /\ get[c] = "sent"
    /\ get' = [get EXCEPT ![c] = "saved"]
    /\ saved' = TRUE
    /\ list' = seen[c]
    /\ Drop(list \ seen[c])
    /\ UNCHANGED <<mode, queue, cached, postVars, source, seen, stale, file, entered, handed,
                   unissued>>

\* He is asked only now that the registrations are marked, and may answer no.
Abort(c) ==
    /\ get[c] = "sent"
    /\ saved
    /\ get' = [get EXCEPT ![c] = "aborted"]
    /\ Drop(seen[c])
    /\ UNCHANGED <<mode, queue, cached, postVars, source, seen, stale, admin, entered, handed,
                   unissued>>

\* The connection breaks after the transaction has committed.
LoseAnswer(c) ==
    /\ get[c] = "sent"
    /\ get' = [get EXCEPT ![c] = "lost"]
    /\ Drop(seen[c])
    /\ UNCHANGED <<mode, queue, cached, postVars, source, seen, stale, admin, entered, handed,
                   unissued>>

\* The PCS is asked, outside, for the collateral of the platforms of the list.
Collect ==
    /\ list # {}
    /\ file' = list
    /\ Drop(file \ list)
    /\ UNCHANGED <<mode, queue, cached, postVars, getVars, saved, list, entered, handed,
                   unissued>>

\* `put`: PUT /platformcollateral, one transaction.
PutCollateral ==
    /\ file # {}
    /\ cached' = cached \cup file
    /\ Outdate
    /\ UNCHANGED <<mode, queue, postVars, get, source, seen, admin, history>>

-----------------------------------------------------------------------------
\* The process dies: transactions roll back, answers are not sent.
Crash ==
    /\ post' = [p \in Posts |-> IF post[p] \in {"idle", "ok"} THEN post[p] ELSE "failed"]
    /\ get' = [c \in Gets |-> IF get[c] = "read" THEN "failed"
                              ELSE IF get[c] = "sent" THEN "lost" ELSE get[c]]
    /\ get' # get \/ post' # post
    /\ Drop(UNION {seen[c] : c \in {b \in Gets : get[b] = "sent"}})
    /\ UNCHANGED <<mode, queue, cached, subject, source, seen, stale, admin, entered, handed,
                   unissued>>

-----------------------------------------------------------------------------
Post(p) == \/ Register(p) \/ FetchCerts(p) \/ FetchSomeCerts(p) \/ FetchFails(p)
           \/ Unregister(p) \/ CheckCollateral(p)

Get(c) == \/ MarkDeleted(c) \/ MarkFails(c)
          \/ SaveList(c) \/ Abort(c) \/ LoseAnswer(c)

Rest == /\ \A p \in Posts : post[p] \in {"ok", "failed"}
        /\ \A c \in Gets : get[c] \in {"saved", "aborted", "lost", "failed"}
        /\ UNCHANGED vars

Next == \/ \E p \in Posts, g \in Regs : CheckStatus(p, g)
        \/ \E p \in Posts : Post(p)
        \/ \E c \in Gets, state \in {"NEW", "NOT_AVAILABLE"} : ReadQueue(c, state)
        \/ \E c \in Gets : Get(c)
        \/ Collect \/ PutCollateral \/ Crash
        \/ Rest

Spec == Init /\ [][Next]_vars

-----------------------------------------------------------------------------
(* Properties.                                                              *)

TypeOK ==
    /\ mode \in {"LAZY", "REQ", "OFFLINE"}
    /\ queue \in [Regs -> States]
    /\ cached \subseteq Regs
    /\ post \in [Posts -> {"idle", "register", "fetch", "unregister",
                           "collateral", "ok", "failed"}]
    /\ subject \in [Posts -> Regs \cup {None}]
    /\ \A p \in Posts : post[p] # "idle" => subject[p] \in Regs
    /\ get \in [Gets -> {"idle", "read", "sent", "saved", "aborted", "lost", "failed"}]
    /\ source \in [Gets -> {"NEW", "NOT_AVAILABLE"}]
    /\ seen \in [Gets -> SUBSET Regs]
    /\ stale \in [Gets -> BOOLEAN]
    /\ saved \in BOOLEAN
    /\ list \subseteq Regs /\ file \subseteq Regs
    /\ entered \in [Regs -> Nat]
    /\ handed \in [Regs -> Nat]
    /\ unissued \subseteq Regs /\ dropped \subseteq Regs

\* A pending registration does not get lost: once POST /platforms has taken
\* one in OFFLINE mode it stays in the queue until a GET hands it out, whatever
\* POSTs and GETs overlap (README.md, "OFFLINE mode": "Later, PCCS Admin Tool
\* can be used ... to get and save the pending registration request").
NoRegistrationLost ==
    mode = "OFFLINE" =>
        \A g \in Regs : queue[g] = "DELETED" => handed[g] > 0

\* Nor is it handed out more often than it was entered: two GETs at the same
\* time do not both take the same pending registration.
HandedOnce == \A g \in Regs : handed[g] <= entered[g]

\* No registration is forgotten: one that has been entered is cached, pending,
\* in an answer on its way, or in a file of the administrator, unless he lost
\* such an answer or file.  Then it is nowhere, as the queue takes a hand-out
\* for done when it is sent; but registering the platform again mends that.
\* Calls that overlap or fail and crashes between their steps forget nothing.
InAnAnswer(g) == \E c \in Gets : get[c] = "sent" /\ g \in seen[c]

NothingForgotten ==
    \A g \in Regs : entered[g] > 0 =>
        \/ g \in cached
        \/ queue[g] = "NEW"
        \/ InAnAnswer(g)
        \/ g \in list \cup file
        \/ g \in dropped

\* What a POST confirms in REQ or LAZY mode is in the cache, so that at run
\* time the PCCS need not contact the PCS for it; LAZY keeps no platform TCB
\* of a platform some of whose certificates are not available.
ConfirmedIsCached ==
    \A p \in Posts : mode # "OFFLINE" /\ post[p] = "ok" =>
        subject[p] \in cached \/ (mode = "LAZY" /\ subject[p] \in unissued)
=============================================================================
