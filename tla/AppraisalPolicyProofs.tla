----------------------- MODULE AppraisalPolicyProofs -----------------------
(***************************************************************************)
(* For any number of PUTs, policies and FMSPCs, with SQLite and with       *)
(* MySQL, a FMSPC has at most one default policy.  The invariant: whoever  *)
(* has unset a default still sees all there is to unset (UnsetsTheDefault, *)
(* restricted to what it may commit), because a PUT commits only when it   *)
(* is the one transaction that writes.                                     *)
(***************************************************************************)
EXTENDS AppraisalPolicy, TLAPS

\* A PUT that has stored its policy is the only one writing.
StoredAlone == \A p \in Puts : step[p] = "stored" => Writing \subseteq {p}

\* Only a PUT of a policy that is no default stores without having unset.
ReadyIsNoDefault == \A p \in Puts : step[p] = "ready" => ~body[p].isDefault

PolicyInvariant ==
    TypeOK /\ OneDefault /\ StoredAlone /\ ReadyIsNoDefault /\ UnsetsTheDefault

\* Variables keep their types.
LEMMA TypeStep == TypeOK /\ [Next]_vars => TypeOK'
<1> SUFFICES ASSUME TypeOK, [Next]_vars PROVE TypeOK'
  OBVIOUS
<1>1. CASE UNCHANGED vars
  BY <1>1 DEF TypeOK, vars
<1>2. ASSUME NEW p \in Puts, Invalid(p) \/ Begin(p) \/ Store(p) \/ Fail(p)
      PROVE  TypeOK'
  BY <1>2 DEF TypeOK, Invalid, Begin, Store, Fail, Go
<1>3. ASSUME NEW p \in Puts, Unset(p)
      PROVE  TypeOK'
  BY <1>3 DEF TypeOK, Unset, Go, Present
<1>4. ASSUME NEW p \in Puts, Commit(p)
      PROVE  TypeOK'
  BY <1>4 DEF TypeOK, Commit, FmspcColumn, Go, Bodies
<1> QED
  BY <1>1, <1>2, <1>3, <1>4 DEF Next, Put, Rest

\* A step that neither commits nor unsets keeps the invariant: the table stays
\* as it is, and a PUT starts to write only while no other does.
LEMMA QuietStep ==
  ASSUME PolicyInvariant, TypeOK', NEW p \in Puts,
         Invalid(p) \/ Begin(p) \/ Store(p) \/ Fail(p)
  PROVE  PolicyInvariant'
<1>1. OneDefault'
  BY DEF PolicyInvariant, OneDefault, Invalid, Begin, Store, Fail
<1>2. StoredAlone'
  <2>1. CASE Store(p)
    BY <2>1 DEF PolicyInvariant, TypeOK, StoredAlone, Writing, Store, Go, Alone
  <2>2. CASE Invalid(p) \/ Begin(p) \/ Fail(p)
    BY <2>2 DEF PolicyInvariant, TypeOK, StoredAlone, Writing, Invalid, Begin, Fail, Go
  <2> QED BY <2>1, <2>2
<1>3. UnsetsTheDefault'
  <2>1. CASE step[p] = "ready" /\ Store(p)
    BY <2>1 DEF PolicyInvariant, TypeOK, ReadyIsNoDefault, UnsetsTheDefault, Writing,
                Store, Go, Present
  <2>2. CASE step[p] = "unset" /\ Store(p)
    BY <2>2 DEF PolicyInvariant, TypeOK, UnsetsTheDefault, Writing, Store, Go, Present
  <2>3. CASE Invalid(p) \/ Begin(p) \/ Fail(p)
    BY <2>3 DEF PolicyInvariant, TypeOK, UnsetsTheDefault, Writing, Invalid, Begin,
                Fail, Go, Present
  <2> QED BY <2>1, <2>2, <2>3 DEF Store
<1>4. ReadyIsNoDefault'
  BY DEF PolicyInvariant, TypeOK, ReadyIsNoDefault, Invalid, Begin, Store, Fail, Go
<1> QED
  BY <1>1, <1>2, <1>3, <1>4 DEF PolicyInvariant

\* Unsetting reads the table as it is, and no PUT that has stored is there.
LEMMA UnsetStep ==
  ASSUME PolicyInvariant, TypeOK', NEW p \in Puts, Unset(p)
  PROVE  PolicyInvariant'
<1>1. \A q \in Puts : step[q] = "stored" => q = p
  BY DEF PolicyInvariant, StoredAlone, Unset, MayScan, Alone, Writing
<1>2. OneDefault' /\ ReadyIsNoDefault'
  BY DEF PolicyInvariant, TypeOK, OneDefault, ReadyIsNoDefault, Unset, Go
<1>3. StoredAlone'
  BY <1>1 DEF PolicyInvariant, TypeOK, StoredAlone, Unset, Go
<1>4. UnsetsTheDefault'
  <2> SUFFICES ASSUME NEW q \in Puts, q \in Writing', body'[q].isDefault
               PROVE  cleared'[q] = Present(q)'
    BY DEF UnsetsTheDefault, Writing
  <2>1. Present(q)' = Present(q)
    BY DEF Unset, Present
  <2>2. CASE q = p
    BY <2>1, <2>2 DEF PolicyInvariant, TypeOK, Unset
  <2>3. CASE q # p
    BY <2>1, <2>3 DEF PolicyInvariant, TypeOK, UnsetsTheDefault, Unset, Go, Writing
  <2> QED BY <2>2, <2>3
<1> QED
  BY <1>2, <1>3, <1>4 DEF PolicyInvariant

\* A commit leaves one default: what its PUT has unset is every default of the
\* FMSPC, and no other PUT has unset anything.
LEMMA CommitStep ==
  ASSUME PolicyInvariant, TypeOK', NEW p \in Puts, Commit(p)
  PROVE  PolicyInvariant'
<1> DEFINE id == body[p].id
<1>1. p \in Writing /\ Writing \subseteq {p}
  BY DEF PolicyInvariant, StoredAlone, Commit, FmspcColumn, Writing
<1>2. OneDefault'
  <2> SUFFICES ASSUME NEW i \in defaults', NEW j \in defaults', fmspcOf'[i] = fmspcOf'[j]
               PROVE  i = j
    BY DEF OneDefault
  <2>1. id \in Ids /\ body[p].fmspc \in Fmspcs /\ defaults \subseteq Ids
    BY DEF PolicyInvariant, TypeOK, Bodies
  <2>2. \A k \in Ids : fmspcOf'[k] = IF k = id THEN body[p].fmspc ELSE fmspcOf[k]
    BY DEF PolicyInvariant, TypeOK, Commit, FmspcColumn
  <2>3. \A k \in defaults' : k # id => k \in defaults \ cleared[p]
    BY DEF Commit, FmspcColumn
  <2>4. CASE i # id /\ j # id
    BY <2>1, <2>2, <2>3, <2>4 DEF PolicyInvariant, OneDefault
  <2>5. CASE id \in defaults'
    <3>1. body[p].isDefault
      BY <2>5 DEF Commit, FmspcColumn
    <3>2. cleared[p] = Present(p)
      BY <1>1, <3>1 DEF PolicyInvariant, UnsetsTheDefault
    <3> QED
      BY <2>1, <2>2, <2>3, <2>4, <3>2 DEF Present
  <2> QED BY <2>4, <2>5
<1>3. Writing' = {}
  BY <1>1 DEF PolicyInvariant, TypeOK, Commit, FmspcColumn, Go, Writing
<1>4. StoredAlone' /\ UnsetsTheDefault'
  BY <1>3 DEF StoredAlone, UnsetsTheDefault, Writing
<1>5. ReadyIsNoDefault'
  BY DEF PolicyInvariant, TypeOK, ReadyIsNoDefault, Commit, FmspcColumn, Go
<1> QED
  BY <1>2, <1>4, <1>5 DEF PolicyInvariant

\* The invariant holds throughout.
LEMMA PolicyInvariantHolds == Spec => []PolicyInvariant
<1>1. Init => PolicyInvariant
  BY DEF Init, PolicyInvariant, TypeOK, OneDefault, StoredAlone, ReadyIsNoDefault,
         UnsetsTheDefault, Writing
<1>2. PolicyInvariant /\ [Next]_vars => PolicyInvariant'
  <2> SUFFICES ASSUME PolicyInvariant, [Next]_vars PROVE PolicyInvariant'
    OBVIOUS
  <2>1. TypeOK'
    BY TypeStep DEF PolicyInvariant
  <2>2. CASE UNCHANGED vars
    BY <2>2 DEF vars, PolicyInvariant, TypeOK, OneDefault, StoredAlone, ReadyIsNoDefault,
                UnsetsTheDefault, Writing, Present
  <2>3. ASSUME NEW p \in Puts, Put(p)
        PROVE  PolicyInvariant'
    BY <2>1, <2>3, QuietStep, UnsetStep, CommitStep DEF Put
  <2> QED BY <2>2, <2>3 DEF Next, Rest
<1> QED BY <1>1, <1>2, PTL DEF Spec

\* Every variable keeps its type.
THEOREM TypeCorrect == Spec => []TypeOK
<1>1. PolicyInvariant => TypeOK
  BY DEF PolicyInvariant
<1> QED BY <1>1, PolicyInvariantHolds, PTL

\* However PUTs of policies overlap and fail, with either database, a FMSPC
\* never has two default policies.
THEOREM AtMostOneDefault == Spec => []OneDefault
<1>1. PolicyInvariant => OneDefault
  BY DEF PolicyInvariant
<1> QED BY <1>1, PolicyInvariantHolds, PTL

\* Every PUT that may still commit a default has unset the present one.
THEOREM NothingLeftToUnset == Spec => []UnsetsTheDefault
<1>1. PolicyInvariant => UnsetsTheDefault
  BY DEF PolicyInvariant
<1> QED BY <1>1, PolicyInvariantHolds, PTL
=============================================================================
