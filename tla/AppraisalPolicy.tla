--------------------------- MODULE AppraisalPolicy ---------------------------
(***************************************************************************)
(* PUT /appraisalpolicy (services/appraisalPolicyService.js and            *)
(* dao/appraisalPolicyDao.js): the policies of table appraisal_policies    *)
(* and the one that is the default of its FMSPC.                           *)
(*                                                                         *)
(* The key of a policy is the hash of its text, so a text is one row       *)
(* whatever FMSPC it is uploaded for.  A PUT unsets the present default    *)
(* and stores its policy in one transaction.  SQLite has a single writer;  *)
(* in MySQL the UPDATE, which has no index to use, locks every row it      *)
(* scans and the gaps between them: only on an empty table do two UPDATEs  *)
(* pass each other, and their INSERTs then wait for each other.            *)
(***************************************************************************)
EXTENDS Naturals, FiniteSets

CONSTANTS
    Puts,      \* calls of PUT /appraisalpolicy
    Ids,       \* policy texts
    Fmspcs,
    None,
    Sqlite     \* DB_CONFIG = 'sqlite' (otherwise 'mysql')

ASSUME ConstantsAssumption == None \notin Fmspcs \cup Ids /\ Sqlite \in BOOLEAN

VARIABLES
    fmspcOf,   \* the FMSPC of each stored policy, None is no row
    defaults,  \* the policies whose is_default is set
    step,      \* where each PUT is
    body,      \* the policy it carries, its FMSPC and whether it is the default
    cleared    \* the policies its transaction has unset

vars == <<fmspcOf, defaults, step, body, cleared>>

Bodies == [id : Ids, fmspc : Fmspcs, isDefault : BOOLEAN]

Init ==
    /\ fmspcOf = [i \in Ids |-> None]
    /\ defaults = {}
    /\ step = [p \in Puts |-> "idle"]
    /\ body \in [Puts -> Bodies]
    /\ cleared = [p \in Puts |-> {}]

Go(p, place) == step' = [step EXCEPT ![p] = place]

Writing == {q \in Puts : step[q] \in {"unset", "stored"}}

Unlocked(p) == TRUE
Alone(p)    == Writing \subseteq {p}

\* Scanning an empty table locks no row.
MayScan(p) == Alone(p) \/ (~Sqlite /\ (\A i \in Ids : fmspcOf[i] = None)
                                   /\ \A q \in Writing : step[q] = "unset")

Invalid(p) ==
    /\ step[p] = "idle"
    /\ Go(p, "invalid")
    /\ UNCHANGED <<fmspcOf, defaults, body, cleared>>

Begin(p) ==
    /\ step[p] = "idle"
    /\ Go(p, IF body[p].isDefault THEN "begun" ELSE "ready")
    /\ UNCHANGED <<fmspcOf, defaults, body, cleared>>

SameId(p)  == {i \in defaults : i = body[p].id}
Present(p) == {i \in defaults : fmspcOf[i] = body[p].fmspc}

\* "unset the is_default for any existing records with the same fmspc".
Unset(p) ==
    /\ step[p] = "begun"
    /\ MayScan(p)
    /\ cleared' = [cleared EXCEPT ![p] = Present(p)]
    /\ Go(p, "unset")
    /\ UNCHANGED <<fmspcOf, defaults, body>>

Store(p) ==
    /\ step[p] \in {"ready", "unset"}
    /\ Alone(p)
    /\ Go(p, "stored")
    /\ UNCHANGED <<fmspcOf, defaults, body, cleared>>

\* The fmspc column of the row a PUT upserts.
IdColumn(p)    == body[p].id
FmspcColumn(p) == body[p].fmspc

Commit(p) ==
    /\ step[p] = "stored"
    /\ fmspcOf' = [fmspcOf EXCEPT ![body[p].id] = FmspcColumn(p)]
    /\ defaults' = (defaults \ (cleared[p] \cup {body[p].id}))
                   \cup (IF body[p].isDefault THEN {body[p].id} ELSE {})
    /\ Go(p, "ok")
    /\ UNCHANGED <<body, cleared>>

\* A write gives up waiting for a lock, or is the victim of a deadlock.
Fail(p) ==
    /\ \/ step[p] = "begun" /\ ~MayScan(p)
       \/ step[p] \in {"ready", "unset"} /\ ~Alone(p)
    /\ Go(p, "failed")
    /\ UNCHANGED <<fmspcOf, defaults, body, cleared>>

Rest == (\A p \in Puts : step[p] \in {"ok", "failed", "invalid"}) /\ UNCHANGED vars

Put(p) == Invalid(p) \/ Begin(p) \/ Unset(p) \/ Store(p) \/ Commit(p) \/ Fail(p)

Next == (\E p \in Puts : Put(p)) \/ Rest

Spec == Init /\ [][Next]_vars

-----------------------------------------------------------------------------
TypeOK ==
    /\ fmspcOf \in [Ids -> Fmspcs \cup {None}]
    /\ defaults \subseteq Ids
    /\ step \in [Puts -> {"idle", "invalid", "begun", "ready", "unset", "stored", "ok", "failed"}]
    /\ body \in [Puts -> Bodies]
    /\ cleared \in [Puts -> SUBSET Ids]

\* GET /appraisalpolicy has one policy to answer with: however PUTs overlap,
\* fail and carry the same text, a FMSPC has at most one default.
OneDefault == \A i, j \in defaults : fmspcOf[i] = fmspcOf[j] => i = j

\* A PUT that has stored a default without having read the table since
\* another one changed it would leave two: what it has unset is still all
\* there is to unset.
UnsetsTheDefault ==
    \A p \in Writing : body[p].isDefault => cleared[p] = Present(p)
=============================================================================
