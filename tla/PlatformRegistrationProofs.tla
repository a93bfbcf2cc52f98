--------------------- MODULE PlatformRegistrationProofs ---------------------
(***************************************************************************)
(* For any number of registrations and calls: types, and what the queue of *)
(* registrations guarantees with SQLite.  The invariant says that a GET    *)
(* which may still commit has read the queue as it is (SnapshotFresh), how *)
(* far a POST has brought its registration (PostsKeepUp), that every entry *)
(* into the queue is accounted for (EntriesCounted), and where it is now   *)
(* (Accounted).                                                            *)
(***************************************************************************)
EXTENDS PlatformRegistration, TLAPS

InCache(p) == subject[p] \in cached \/ (mode = "LAZY" /\ subject[p] \in unissued)

SnapshotFresh ==
    Sqlite => \A c \in Gets : get[c] = "read" /\ ~stale[c] =>
                                  seen[c] = {g \in Regs : queue[g] = source[c]}

PostsKeepUp ==
    \A p \in Posts :
        /\ post[p] = "fetch" => mode # "OFFLINE"
        /\ post[p] = "unregister" => mode = "REQ" /\ subject[p] \in cached
        /\ post[p] \in {"collateral", "ok"} /\ mode # "OFFLINE" => InCache(p)
        /\ post[p] = "collateral" => mode # "OFFLINE"

DeletedForReason ==
    Sqlite => \A g \in Regs :
        queue[g] = "DELETED" => handed[g] > 0 \/ (mode = "REQ" /\ g \in cached)

EntriesCounted ==
    Sqlite => \A g \in Regs :
        /\ queue[g] # "NOT_AVAILABLE"
        /\ handed[g] + (IF queue[g] = "NEW" THEN 1 ELSE 0) <= entered[g]

Accounted == Sqlite => NothingForgotten

QueueInvariant ==
    TypeOK /\ SnapshotFresh /\ PostsKeepUp /\ DeletedForReason /\ EntriesCounted /\ Accounted

\* What only the administrator does, or happens to an answer on its way to him.
AdminStep == Collect \/ \E c \in Gets : SaveList(c) \/ Abort(c) \/ LoseAnswer(c)

\* The steps of a POST that leave the queue alone.
PostStep(p) == \/ FetchCerts(p) \/ FetchSomeCerts(p) \/ FetchFails(p)
               \/ CheckCollateral(p) \/ \E g \in Regs : CheckStatus(p, g)

\* Every step keeps the types.
LEMMA TypeStep == ConstantsAssumption /\ TypeOK /\ [Next]_vars => TypeOK'
<1> SUFFICES ASSUME ConstantsAssumption, TypeOK, [Next]_vars PROVE TypeOK'
  OBVIOUS
<1> USE DEF ConstantsAssumption, TypeOK
<1>1. CASE UNCHANGED vars
  BY <1>1 DEF vars, postVars, getVars, admin, history
<1>2. ASSUME NEW p \in Posts, PostStep(p)
      PROVE  TypeOK'
  BY <1>2 DEF PostStep, FetchCerts, FetchSomeCerts, FetchFails, CheckCollateral, CheckStatus,
              Go, Outdate, getVars, admin, history
<1>3. ASSUME NEW p \in Posts, Register(p) \/ Unregister(p)
      PROVE  TypeOK'
  <2>1. /\ p \in Posts
        /\ subject[p] \in Regs
        /\ UNCHANGED <<mode, cached, subject, get, source, seen, admin, handed, unissued>>
    BY <1>3 DEF Register, Unregister
  <2>2. queue' \in [Regs -> States] /\ entered' \in [Regs -> Nat] /\ dropped' \subseteq Regs
    BY <1>3, <2>1 DEF Register, Unregister, Upsert, States
  <2>3. stale' \in [Gets -> BOOLEAN]
    BY <1>3 DEF Register, Unregister, Upsert, Outdate
  <2>4. /\ post' \in [Posts -> {"idle", "register", "fetch", "unregister",
                                "collateral", "ok", "failed"}]
        /\ \A q \in Posts : post'[q] # "idle" => subject[q] \in Regs
    BY <1>3, <2>1 DEF Register, Unregister, Go
  <2> QED BY <2>1, <2>2, <2>3, <2>4 DEF admin
<1>4. ASSUME NEW c \in Gets, NEW s \in {"NEW", "NOT_AVAILABLE"}, ReadQueue(c, s)
      PROVE  TypeOK'
  BY <1>4 DEF ReadQueue, postVars, admin, history
<1>5. ASSUME NEW c \in Gets, MarkDeleted(c)
      PROVE  TypeOK'
  BY <1>5 DEF MarkDeleted, postVars, admin, States
<1>6. ASSUME NEW c \in Gets, MarkFails(c)
      PROVE  TypeOK'
  BY <1>6 DEF MarkFails, postVars, admin, history
<1>7. CASE PutCollateral
  BY <1>7 DEF PutCollateral, postVars, admin, history, Outdate
<1>8. CASE AdminStep
  BY <1>8 DEF AdminStep, Collect, SaveList, Abort, LoseAnswer, Drop, postVars, getVars, admin
<1>9. CASE Crash
  BY <1>9 DEF Crash, Drop, admin
<1> QED
  BY <1>1, <1>2, <1>3, <1>4, <1>5, <1>6, <1>7, <1>8, <1>9
     DEF Next, Post, Get, AdminStep, PostStep, Rest

\* A step of a POST that leaves the queue alone.
LEMMA PostStepKeeps ==
  ASSUME ConstantsAssumption, QueueInvariant, TypeOK', NEW p \in Posts, PostStep(p)
  PROVE  QueueInvariant'
<1> USE DEF QueueInvariant
<1>1. /\ UNCHANGED <<mode, queue, get, source, seen, admin, handed, entered, dropped>>
      /\ cached \subseteq cached' /\ unissued \subseteq unissued'
  BY DEF PostStep, FetchCerts, FetchSomeCerts, FetchFails, CheckCollateral, CheckStatus,
         getVars, history
<1>2. \A c \in Gets : stale[c] => stale'[c]
  BY DEF PostStep, FetchCerts, FetchSomeCerts, FetchFails, CheckCollateral, CheckStatus,
         getVars, Outdate, TypeOK
<1>3. SnapshotFresh'
  BY <1>1, <1>2 DEF SnapshotFresh
<1>4. DeletedForReason' /\ EntriesCounted' /\ Accounted'
  BY <1>1 DEF DeletedForReason, EntriesCounted, Accounted, NothingForgotten, InAnAnswer, admin
<1>5. PostsKeepUp'
  <2>1. CASE \E g \in Regs : CheckStatus(p, g)
    BY <2>1 DEF PostsKeepUp, CheckStatus, Go, InCache, TypeOK, getVars, history,
                ConstantsAssumption
  <2>2. CASE FetchCerts(p)
    BY <2>2 DEF PostsKeepUp, FetchCerts, Go, InCache, TypeOK, history, ConstantsAssumption
  <2>3. CASE FetchSomeCerts(p)
    BY <2>3 DEF PostsKeepUp, FetchSomeCerts, Go, InCache, TypeOK
  <2>4. CASE FetchFails(p) \/ CheckCollateral(p)
    BY <2>4 DEF PostsKeepUp, FetchFails, CheckCollateral, Go, InCache, TypeOK, history
  <2> QED BY <2>1, <2>2, <2>3, <2>4 DEF PostStep
<1> QED BY <1>3, <1>4, <1>5

\* A POST enters its registration, or takes it out again once it is cached.
LEMMA UpsertKeeps ==
  ASSUME ConstantsAssumption, QueueInvariant, TypeOK', NEW p \in Posts,
         Register(p) \/ Unregister(p)
  PROVE  QueueInvariant'
<1> USE DEF QueueInvariant
<1>1. SnapshotFresh'
  BY DEF SnapshotFresh, Register, Unregister, Upsert, Outdate, TypeOK
<1>2. PostsKeepUp'
  BY DEF PostsKeepUp, Register, Unregister, Go, InCache, TypeOK, ConstantsAssumption
<1>3. DeletedForReason' /\ EntriesCounted' /\ Accounted'
  <2> subject[p] \in Regs
    BY DEF Register, Unregister, TypeOK
  <2>1. CASE Register(p)
    <3>1. DeletedForReason' /\ EntriesCounted'
      BY <2>1 DEF DeletedForReason, EntriesCounted, Register, Upsert, TypeOK
    <3>2. Accounted'
      BY <2>1 DEF Accounted, NothingForgotten, InAnAnswer, Register, Upsert, TypeOK, admin
    <3> QED BY <3>1, <3>2
  <2>2. CASE Unregister(p)
    <3>1. mode = "REQ" /\ subject[p] \in cached
      BY <2>2 DEF PostsKeepUp, Unregister
    <3>2. DeletedForReason' /\ EntriesCounted'
      BY <2>2, <3>1 DEF DeletedForReason, EntriesCounted, Unregister, Upsert, TypeOK
    <3>3. Accounted'
      BY <2>2, <3>1 DEF Accounted, NothingForgotten, InAnAnswer, Unregister, Upsert, TypeOK, admin
    <3> QED BY <3>2, <3>3
  <2> QED BY <2>1, <2>2
<1> QED BY <1>1, <1>2, <1>3

\* A GET marks, with SQLite, exactly the registrations it has read.
LEMMA MarkKeeps ==
  ASSUME ConstantsAssumption, QueueInvariant, TypeOK', NEW c \in Gets, MarkDeleted(c)
  PROVE  QueueInvariant'
<1> USE DEF QueueInvariant
<1>1. SnapshotFresh'
  BY DEF SnapshotFresh, MarkDeleted, TypeOK
<1>2. PostsKeepUp'
  BY DEF PostsKeepUp, MarkDeleted, postVars, InCache
<1>3. Sqlite => seen[c] = {g \in Regs : queue[g] = source[c]}
  BY DEF SnapshotFresh, MarkDeleted, Conflicts
<1>4. DeletedForReason'
  BY <1>3 DEF DeletedForReason, MarkDeleted, TypeOK
<1>5. EntriesCounted'
  BY <1>3 DEF EntriesCounted, MarkDeleted, TypeOK
<1>6. Accounted'
  <2>1. /\ get'[c] = "sent" /\ UNCHANGED <<cached, seen, admin, entered, dropped>>
        /\ \A b \in Gets : get[b] = "sent" => get'[b] = "sent"
    BY DEF MarkDeleted, TypeOK
  <2>2. \A g \in Regs : InAnAnswer(g) => InAnAnswer(g)'
    BY <2>1 DEF InAnAnswer
  <2>3. Sqlite => \A g \in Regs : queue[g] = "NEW" => queue'[g] = "NEW" \/ InAnAnswer(g)'
    BY <1>3, <2>1 DEF MarkDeleted, InAnAnswer
  <2> QED BY <2>1, <2>2, <2>3 DEF Accounted, NothingForgotten, admin
<1> QED BY <1>1, <1>2, <1>4, <1>5, <1>6

\* The steps of a GET and of PUT that leave the queue alone.
LEMMA ReadKeeps ==
  ASSUME ConstantsAssumption, QueueInvariant, TypeOK',
         \/ \E c \in Gets, s \in {"NEW", "NOT_AVAILABLE"} : ReadQueue(c, s)
         \/ \E c \in Gets : MarkFails(c)
         \/ PutCollateral
  PROVE  QueueInvariant'
<1> USE DEF QueueInvariant
<1>1. SnapshotFresh'
  BY DEF SnapshotFresh, ReadQueue, MarkFails, PutCollateral, Outdate, TypeOK
<1>2. PostsKeepUp'
  BY DEF PostsKeepUp, ReadQueue, MarkFails, PutCollateral, postVars, InCache, history
<1>3. DeletedForReason' /\ EntriesCounted'
  BY DEF DeletedForReason, EntriesCounted, ReadQueue, MarkFails, PutCollateral, history
<1>4. /\ UNCHANGED <<queue, admin, entered, dropped>> /\ cached \subseteq cached'
      /\ \A b \in Gets : get[b] = "sent" => get'[b] = "sent" /\ seen'[b] = seen[b]
  BY DEF ReadQueue, MarkFails, PutCollateral, history, TypeOK
<1>5. Accounted'
  BY <1>4 DEF Accounted, NothingForgotten, InAnAnswer, admin
<1> QED BY <1>1, <1>2, <1>3, <1>5

\* What the administrator, a broken connection or a crash takes away is in
\* another place or counted as dropped.
LEMMA AdminKeeps ==
  ASSUME ConstantsAssumption, QueueInvariant, TypeOK', AdminStep \/ Crash
  PROVE  QueueInvariant'
<1> USE DEF QueueInvariant
<1>1. /\ UNCHANGED <<mode, queue, cached, subject, source, seen, stale, entered, handed,
                     unissued>>
      /\ \A c \in Gets : get'[c] = "read" => get[c] = "read"
      /\ \A p \in Posts : post'[p] = post[p] \/ post'[p] = "failed"
  <2>1. CASE Collect
    BY <2>1 DEF Collect, postVars, getVars
  <2>2. ASSUME NEW c \in Gets, SaveList(c) \/ Abort(c) \/ LoseAnswer(c)
        PROVE  /\ UNCHANGED <<mode, queue, cached, postVars, source, seen, stale, entered,
                              handed, unissued>>
               /\ \A b \in Gets : get'[b] = "read" => get[b] = "read"
    BY <2>2 DEF SaveList, Abort, LoseAnswer, TypeOK
  <2>3. CASE Crash
    BY <2>3 DEF Crash
  <2> QED BY <2>1, <2>2, <2>3 DEF AdminStep, postVars
<1>2. SnapshotFresh' /\ PostsKeepUp'
  BY <1>1 DEF SnapshotFresh, PostsKeepUp, InCache
<1>3. DeletedForReason' /\ EntriesCounted'
  BY <1>1 DEF DeletedForReason, EntriesCounted
<1>4. ASSUME NEW g \in Regs, queue[g] # "NEW",
             InAnAnswer(g) \/ g \in list \cup file \/ g \in dropped
      PROVE  InAnAnswer(g)' \/ g \in list' \cup file' \/ g \in dropped'
  <2>1. CASE Collect
    BY <1>4, <2>1 DEF Collect, Drop, InAnAnswer, getVars
  <2>2. ASSUME NEW c \in Gets, SaveList(c) \/ Abort(c) \/ LoseAnswer(c)
        PROVE  InAnAnswer(g)' \/ g \in list' \cup file' \/ g \in dropped'
    BY <1>4, <2>2 DEF SaveList, Abort, LoseAnswer, Drop, InAnAnswer, admin, TypeOK
  <2>3. CASE Crash
    BY <1>4, <2>3 DEF Crash, Drop, InAnAnswer, admin
  <2> QED BY <2>1, <2>2, <2>3 DEF AdminStep
<1>5. Accounted'
  BY <1>1, <1>4 DEF Accounted, NothingForgotten
<1> QED BY <1>2, <1>3, <1>5

\* The invariant is inductive, and so holds in every state.
LEMMA QueueInvariantHolds == Spec => []QueueInvariant
<1>1. Init => QueueInvariant
  <2> SUFFICES ASSUME Init PROVE QueueInvariant
    OBVIOUS
  <2>1. TypeOK
    BY ConstantsAssumption DEF Init, TypeOK, States, ConstantsAssumption
  <2>2. SnapshotFresh /\ PostsKeepUp
    BY DEF Init, SnapshotFresh, PostsKeepUp
  <2>3. DeletedForReason /\ EntriesCounted /\ Accounted
    BY DEF Init, DeletedForReason, EntriesCounted, Accounted, NothingForgotten
  <2> QED BY <2>1, <2>2, <2>3 DEF QueueInvariant
<1>2. QueueInvariant /\ [Next]_vars => QueueInvariant'
  <2> SUFFICES ASSUME QueueInvariant, [Next]_vars PROVE QueueInvariant'
    OBVIOUS
  <2>1. TypeOK'
    BY ConstantsAssumption, TypeStep DEF QueueInvariant
  <2>2. CASE UNCHANGED vars
    BY <2>2 DEF vars, postVars, getVars, admin, history, QueueInvariant, TypeOK, SnapshotFresh,
                PostsKeepUp, InCache, DeletedForReason, EntriesCounted, Accounted,
                NothingForgotten, InAnAnswer
  <2>3. CASE Next
    BY <2>1, <2>2, <2>3, ConstantsAssumption, PostStepKeeps, UpsertKeeps, MarkKeeps, ReadKeeps,
       AdminKeeps
       DEF Next, Post, Get, AdminStep, PostStep, Rest
  <2> QED BY <2>2, <2>3
<1> QED BY <1>1, <1>2, PTL DEF Spec

\* Every variable keeps its type.
THEOREM TypeCorrect == Spec => []TypeOK
<1>1. QueueInvariant => TypeOK
  BY DEF QueueInvariant
<1> QED BY <1>1, QueueInvariantHolds, PTL

\* With SQLite no pending registration of an OFFLINE server is lost, however
\* many POSTs and GETs overlap.
THEOREM PendingIsKept == ASSUME Sqlite PROVE Spec => []NoRegistrationLost
<1>1. QueueInvariant => NoRegistrationLost
  BY DEF QueueInvariant, DeletedForReason, NoRegistrationLost
<1> QED BY <1>1, QueueInvariantHolds, PTL

\* With SQLite no registration is handed out more often than it was entered.
THEOREM NoDoubleHandOut == ASSUME Sqlite PROVE Spec => []HandedOnce
<1>1. QueueInvariant => HandedOnce
  BY DEF QueueInvariant, EntriesCounted, HandedOnce, TypeOK
<1> QED BY <1>1, QueueInvariantHolds, PTL

\* With SQLite a registration that was entered is cached, pending, in an answer
\* or in a file of the administrator, unless he lost it since, whatever calls
\* overlap or fail and whenever the process crashes.
THEOREM WhatIsEnteredIsSomewhere == ASSUME Sqlite PROVE Spec => []NothingForgotten
<1>1. QueueInvariant => NothingForgotten
  BY DEF QueueInvariant, Accounted
<1> QED BY <1>1, QueueInvariantHolds, PTL

\* What a POST confirms is cached, with either database.
THEOREM ConfirmationIsTrue == Spec => []ConfirmedIsCached
<1>1. QueueInvariant => ConfirmedIsCached
  BY DEF QueueInvariant, PostsKeepUp, InCache, ConfirmedIsCached
<1> QED BY <1>1, QueueInvariantHolds, PTL
=============================================================================
